---------------------- MODULE SelectedNetworkController ----------------------
(***************************************************************************)
(* Which network each dapp is connected to (packages/selected-network-     *)
(* controller), together with the network clients of NetworkController.    *)
(* PermissionController is external: its subjects change here, and its     *)
(* state change events are handled in the same step, as the messenger      *)
(* calls its subscribers synchronously.                                    *)
(***************************************************************************)
EXTENDS NetworkClients

CONSTANTS
  Domains,             \* the domains: dapps, snaps and "metamask"
  Internal,            \* the snaps and "metamask"
  NoNetwork,           \* a domain that is not in state.domains
  NoProxy,             \* a domain that is not in domainProxyMap
  Global,              \* a proxy that forwards to NetworkController's own
  SelectedMayBeRemoved \* removeNetworkConfiguration(the selected network)

ASSUME DomainsAssumption ==
  /\ Internal \subseteq Domains
  /\ NoNetwork \notin Ids
  /\ NoProxy \notin Client
  /\ Global \notin Client
  /\ NoProxy # Global
  /\ NoClient \notin {NoProxy, Global}
  /\ SelectedMayBeRemoved \in BOOLEAN

VARIABLES
  domains,          \* state.domains
  domainProxyMap,   \* what the proxy of each domain forwards to
  useRequestQueue,  \* the preference, as this controller remembers it
  permitted         \* the subjects of PermissionController

domainVars == <<domains, domainProxyMap, useRequestQueue>>
vars == <<clientVars, domainVars, permitted>>

-----------------------------------------------------------------------------

getNetworkClientIdForDomain(d) ==
  IF ~useRequestQueue \/ domains[d] = NoNetwork
  THEN selectedNetworkClientId ELSE domains[d]

clientById(id) == getNetworkClientById(id, populatedRegistry)

\* getNetworkClientById creates the registry when it is the first to need it.
queriesClients(called) ==
  /\ \/ called /\ ensureRegistry
     \/ ~called /\ UNCHANGED <<populated, registry>>
  /\ UNCHANGED <<selectedNetworkClientId, previouslySelectedNetworkClientId,
                 networkConfigurations, providerProxy, destroyed, created, issued>>

\* Fault: a new proxy forwards to the globally selected network.
newProxyOfSelected(d, granted) == clientById(selectedNetworkClientId)

\* What a new proxy forwards to; NoClient stands for an error.
newProxy(d, granted) ==
  IF useRequestQueue /\ d \in granted THEN clientById(getNetworkClientIdForDomain(d))
  ELSE IF providerProxy = NoClient THEN NoClient ELSE Global

\* The private setNetworkClientIdForDomain goes through: the network client
\* exists and, where the domain has no proxy yet, one can be made.
canSet(d, id, granted) ==
  /\ clientById(id) # NoClient
  /\ domainProxyMap[d] = NoProxy => newProxy(d, granted) # NoClient

\* It is called for every domain of ds, or throws before it changed anything.
setNetworkClientId(ds, id) ==
  /\ domains' = [d \in Domains |-> IF d \in ds THEN id ELSE domains[d]]
  /\ domainProxyMap' =
       [d \in Domains |-> IF d \in ds THEN clientById(id) ELSE domainProxyMap[d]]

unsetNetworkClientIdForDomain(ds) ==
  /\ domains' = [d \in Domains |-> IF d \in ds THEN NoNetwork ELSE domains[d]]
  /\ domainProxyMap' =
       [d \in Domains |->
          IF d \notin ds \/ domainProxyMap[d] = NoProxy THEN domainProxyMap[d]
          ELSE IF providerProxy = NoClient THEN NoProxy ELSE Global]

mayHaveNetwork(d, granted) == useRequestQueue /\ d \notin Internal /\ d \in granted

\* The public setNetworkClientIdForDomain; it does nothing, or throws, when the
\* preference is off, for internal domains and without permissions.
setNetworkClientIdForDomain(d, id, granted) ==
  \/ /\ mayHaveNetwork(d, granted)
     /\ setNetworkClientId(IF canSet(d, id, granted) THEN {d} ELSE {}, id)
     /\ queriesClients(TRUE)
  \/ /\ ~mayHaveNetwork(d, granted)
     /\ UNCHANGED <<clientVars, domains, domainProxyMap>>

-----------------------------------------------------------------------------

\* The constructor gives every subject the network selected at startup.
Init ==
  /\ permitted \in SUBSET Domains
  /\ useRequestQueue \in BOOLEAN
  /\ LET ds == {d \in permitted : mayHaveNetwork(d, permitted)} IN
        /\ ClientsInitWith(ds # {})
        /\ ds # {} => clientById(selectedNetworkClientId) # NoClient
        /\ domains = [d \in Domains |-> IF d \in ds THEN selectedNetworkClientId
                                        ELSE NoNetwork]
        /\ domainProxyMap =
             [d \in Domains |-> IF d \in ds THEN clientById(selectedNetworkClientId)
                                ELSE NoProxy]

\* PermissionController:stateChange, op 'add'.
permissionsGranted(d) ==
  /\ d \notin permitted
  /\ permitted' = permitted \cup {d}
  /\ \/ /\ domains[d] = NoNetwork
        /\ setNetworkClientIdForDomain(d, selectedNetworkClientId, permitted')
     \/ /\ domains[d] # NoNetwork
        /\ UNCHANGED <<clientVars, domains, domainProxyMap>>
  /\ UNCHANGED useRequestQueue

\* PermissionController:stateChange, op 'remove': also when one permission of
\* several is revoked, since the patch path then starts with the subject too.
permissionsRevoked(d) ==
  /\ d \in permitted
  /\ \/ permitted' = permitted \ {d}
     \/ UNCHANGED permitted
  /\ \/ domains[d] # NoNetwork /\ unsetNetworkClientIdForDomain({d})
     \/ domains[d] = NoNetwork /\ UNCHANGED <<domains, domainProxyMap>>
  /\ UNCHANGED <<clientVars, useRequestQueue>>

\* wallet_switchEthereumChain and the wallet's interface.
switchDomain(d, id) ==
  /\ setNetworkClientIdForDomain(d, id, permitted)
  /\ UNCHANGED <<useRequestQueue, permitted>>

\* A dapp opens a connection and its RPC pipeline asks for the proxy.
getProviderAndBlockTracker(d) ==
  /\ d \notin Internal
  /\ domainProxyMap[d] = NoProxy
  /\ domainProxyMap' =
       [domainProxyMap EXCEPT ![d] =
          IF newProxy(d, permitted) = NoClient THEN NoProxy ELSE newProxy(d, permitted)]
  /\ queriesClients(useRequestQueue /\ d \in permitted)
  /\ UNCHANGED <<domains, useRequestQueue, permitted>>

\* domainProxyMap forgets domains without connections.
connectionsClosed(d) ==
  /\ domainProxyMap[d] # NoProxy
  /\ domainProxyMap' = [domainProxyMap EXCEPT ![d] = NoProxy]
  /\ UNCHANGED <<clientVars, domains, useRequestQueue, permitted>>

\* onPreferencesStateChange: off.
queueTurnedOff ==
  /\ useRequestQueue
  /\ useRequestQueue' = FALSE
  /\ unsetNetworkClientIdForDomain({d \in Domains : domains[d] # NoNetwork})
  /\ UNCHANGED <<clientVars, permitted>>

\* onPreferencesStateChange: on.  resetAllPermissionedDomains walks the proxies;
\* when it throws the preference is not taken over either.
queueTurnedOn ==
  LET ds == {d \in permitted : domainProxyMap[d] # NoProxy}
      throws == ds # {} /\ clientById(selectedNetworkClientId) = NoClient
  IN /\ ~useRequestQueue
     /\ useRequestQueue' = ~throws
     /\ setNetworkClientId(IF throws THEN {} ELSE ds, selectedNetworkClientId)
     /\ queriesClients(ds # {})
     /\ UNCHANGED permitted

\* Fault: removals of networks go unnoticed.
noDomainsOn(id) == {}

domainsOn(id) == {d \in Domains : domains[d] = id}

\* NetworkController:stateChange of a removal, before the client is removed.  An
\* error ends the walk through the domains, wherever it has come to.
networkRemoved(id) ==
  LET ds == domainsOn(id)
      settable == {d \in ds : mayHaveNetwork(d, permitted)
                                /\ canSet(d, selectedNetworkClientId, permitted)}
  IN /\ id = selectedNetworkClientId => SelectedMayBeRemoved
     /\ removeNetworkConfiguration(id)
     /\ \E moved \in SUBSET settable :
          /\ settable = ds => moved = ds
          /\ setNetworkClientId(moved, selectedNetworkClientId)
     /\ UNCHANGED <<useRequestQueue, permitted>>

\* Every other change of the network clients goes unnoticed.
clientsChange ==
  /\ \/ initializeProvider \/ resetConnection \/ rollbackToPreviousProvider
     \/ \E id \in Ids : setActiveNetwork(id)
     \/ \E id \in Custom, chain \in Chains, setActive \in BOOLEAN :
           upsertNetworkConfiguration(id, chain, setActive)
     \/ \E backup \in Backups : loadBackup(backup)
  /\ UNCHANGED <<domainVars, permitted>>

Next ==
  \/ \E d \in Domains :
       \/ permissionsGranted(d) \/ permissionsRevoked(d)
       \/ getProviderAndBlockTracker(d) \/ connectionsClosed(d)
       \/ \E id \in Ids : switchDomain(d, id)
  \/ queueTurnedOff \/ queueTurnedOn
  \/ \E id \in Custom : networkRemoved(id)
  \/ clientsChange

Spec == Init /\ [][Next]_vars

-----------------------------------------------------------------------------

TypeOK ==
  /\ ClientsTypeOK
  /\ domains \in [Domains -> Ids \cup {NoNetwork}]
  /\ domainProxyMap \in [Domains -> Client \cup {NoProxy, Global}]
  /\ useRequestQueue \in BOOLEAN
  /\ permitted \in SUBSET Domains

(***************************************************************************)
(* Only dapps with permissions have a network of their own, and none has   *)
(* one while the preference is off ("setNetworkClientId() no longer        *)
(* modifies state ... when the useRequestQueuePreference flag is false",   *)
(* CHANGELOG.md): whatever order grants, revocations and toggles come in.  *)
(***************************************************************************)
DomainsArePermitted ==
  \A d \in Domains :
    domains[d] # NoNetwork => useRequestQueue /\ d \in permitted \ Internal

(***************************************************************************)
(* The requests of a dapp with a network of its own go to that network:    *)
(* its proxy, where it has one, forwards to a client of it.                *)
(***************************************************************************)
ProxyRoutesToDomain ==
  \A d \in Domains :
    domains[d] # NoNetwork /\ domainProxyMap[d] # NoProxy =>
      domainProxyMap[d] # Global /\ domainProxyMap[d].id = domains[d]

(***************************************************************************)
(* "if a network is removed, update the networkClientId for all domains    *)
(* that were using it to the selected network" (comment in the             *)
(* constructor): no dapp is left on a network without a client.            *)
(***************************************************************************)
DomainsExist ==
  \A d \in Domains : domains[d] # NoNetwork => clientById(domains[d]) # NoClient

(***************************************************************************)
(* Types, and every dapp with a network of its own may have one, and one   *)
(* that exists.                                                            *)
(***************************************************************************)
DomainsAreUsable == TypeOK /\ DomainsArePermitted /\ DomainsExist

(***************************************************************************)
(* The networks of dapps are usable ones, each proxy forwards to that of   *)
(* its domain, and no configured network is without a client, whatever     *)
(* throws between the changes of two maps.                                 *)
(***************************************************************************)
RoutesAreKept == DomainsAreUsable /\ ProxyRoutesToDomain /\ ClientsAreConfigured
=============================================================================
