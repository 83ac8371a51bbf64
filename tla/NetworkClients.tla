---------------------------- MODULE NetworkClients ----------------------------
(***************************************************************************)
(* The synchronous half of NetworkController (packages/network-controller): *)
(* which network client each network has, which network is selected and    *)
(* which client the global provider proxy forwards to.  Every operation    *)
(* runs to its first await without being interrupted, so each is one step. *)
(* NetworkController adds the lookups that follow the awaits.              *)
(***************************************************************************)
EXTENDS Integers, FiniteSets

CONSTANTS
  Infura,              \* IDs of the built-in networks
  Custom,              \* IDs random() may give to custom networks
  Chains,              \* chain IDs
  ChainOf,             \* BUILT_IN_NETWORKS: [Infura -> Chains]
  InitialSelected,     \* state.selectedNetworkClientId as persisted
  InitialConfigurations, \* state.networkConfigurations as persisted
  NoChain,             \* an ID without a network configuration
  NoClient,            \* undefined, where a network client is expected
  MaxCreated,          \* bound: custom clients created by upserts
  BackupMayBeLoaded    \* loadBackup may be called

Ids == Infura \cup Custom

ASSUME NetworksAssumption ==
  /\ Infura \cap Custom = {}
  /\ ChainOf \in [Infura -> Chains]
  /\ InitialSelected \in Ids
  /\ InitialConfigurations \in [Custom -> Chains \cup {NoChain}]
  /\ NoChain \notin Chains
  /\ MaxCreated \in Nat
  /\ BackupMayBeLoaded \in BOOLEAN

\* An auto-managed network client.  Clients with the same configuration are
\* different objects; the serial number tells them apart.
Client == [id : Ids, chain : Chains, serial : Nat]

ASSUME NoClientAssumption == NoClient \notin Client

VARIABLES
  selectedNetworkClientId,
  previouslySelectedNetworkClientId,
  networkConfigurations,   \* the chain of every configured custom network
  registry,                \* the custom part of autoManagedNetworkClientRegistry
  populated,               \* whether the registry has been created
  providerProxy,           \* the client the global proxies forward to
  destroyed,               \* clients whose destroy method has been called
  created,                 \* history: how many clients upserts have created
  issued                   \* history: IDs that have been given out

clientVars == <<selectedNetworkClientId, previouslySelectedNetworkClientId,
                networkConfigurations, registry, populated, providerProxy,
                destroyed, created, issued>>

-----------------------------------------------------------------------------

newClient(id, chain, serial) == [id |-> id, chain |-> chain, serial |-> serial]

Configured == {id \in Custom : networkConfigurations[id] # NoChain}

\* ensureAutoManagedNetworkClientRegistryPopulated: the registry is created
\* from state the first time it is needed.
populatedRegistry ==
  IF populated THEN registry
  ELSE [id \in Custom |->
          IF id \in Configured
          THEN newClient(id, networkConfigurations[id], 0) ELSE NoClient]

getNetworkClientById(id, custom) ==
  IF id \in Infura THEN newClient(id, ChainOf[id], 0) ELSE custom[id]

\* applyNetworkSelection in a registry, where it throws before it has changed
\* anything when there is no such client.
applyNetworkSelection(id, custom) ==
  LET client == getNetworkClientById(id, custom) IN
    \/ /\ client # NoClient
       /\ selectedNetworkClientId' = id
       /\ providerProxy' = client
    \/ /\ client = NoClient
       /\ UNCHANGED <<selectedNetworkClientId, providerProxy>>

ensureRegistry == populated' = TRUE /\ registry' = populatedRegistry

\* refreshNetwork up to the lookup.
refreshNetwork(id) ==
  /\ ensureRegistry
  /\ applyNetworkSelection(id, populatedRegistry)
  /\ UNCHANGED <<networkConfigurations, destroyed, created, issued>>

-----------------------------------------------------------------------------

\* At startup, with the registry created already or not.
ClientsInitWith(p) ==
  /\ selectedNetworkClientId = InitialSelected
  /\ previouslySelectedNetworkClientId = InitialSelected
  /\ networkConfigurations = InitialConfigurations
  /\ registry = [id \in Custom |->
                   IF p /\ id \in Configured
                   THEN newClient(id, networkConfigurations[id], 0) ELSE NoClient]
  /\ populated = p
  /\ providerProxy = NoClient
  /\ destroyed = {}
  /\ created = 0
  /\ issued = Configured

ClientsInit == ClientsInitWith(FALSE)

initializeProvider ==
  /\ refreshNetwork(selectedNetworkClientId)
  /\ UNCHANGED previouslySelectedNetworkClientId

\* setProviderType is setActiveNetwork for a built-in network.
setActiveNetwork(id) ==
  /\ previouslySelectedNetworkClientId' = selectedNetworkClientId
  /\ refreshNetwork(id)

resetConnection ==
  /\ refreshNetwork(selectedNetworkClientId)
  /\ UNCHANGED previouslySelectedNetworkClientId

rollbackToPreviousProvider ==
  /\ refreshNetwork(previouslySelectedNetworkClientId)
  /\ UNCHANGED previouslySelectedNetworkClientId

\* The clients destroy is called on when one is dropped.
discarded(client) == {client} \ {NoClient}

\* Fault: the client is kept when the chain changes.
needsClientWhenAbsent(id, chain) == populatedRegistry[id] = NoClient

\* Whether upsertNetworkConfiguration creates a client.
needsClient(id, chain) ==
  IF populatedRegistry[id] = NoClient THEN TRUE
  ELSE populatedRegistry[id].chain # chain

\* A network whose RPC URL is known keeps its ID, a new one gets a fresh ID.
upsertNetworkConfiguration(id, chain, setActive) ==
  LET renew == needsClient(id, chain)
      updated == IF renew
                 THEN [populatedRegistry EXCEPT ![id] = newClient(id, chain, created + 1)]
                 ELSE populatedRegistry
  IN /\ id \in Configured \/ id \notin issued
     /\ renew => created < MaxCreated
     /\ populated' = TRUE
     /\ registry' = updated
     /\ created' = IF renew THEN created + 1 ELSE created
     /\ destroyed' = IF renew THEN destroyed \cup discarded(populatedRegistry[id])
                     ELSE destroyed
     /\ networkConfigurations' = [networkConfigurations EXCEPT ![id] = chain]
     /\ issued' = issued \cup {id}
     /\ \/ /\ setActive
           /\ previouslySelectedNetworkClientId' = selectedNetworkClientId
           /\ applyNetworkSelection(id, updated)
        \/ /\ ~setActive
           /\ UNCHANGED <<selectedNetworkClientId, previouslySelectedNetworkClientId,
                          providerProxy>>

\* Without a client the call of destroy throws, after the state has changed.
removeNetworkConfiguration(id) ==
  /\ id \in Configured
  /\ networkConfigurations' = [networkConfigurations EXCEPT ![id] = NoChain]
  /\ populated' = TRUE
  /\ registry' = [populatedRegistry EXCEPT ![id] = NoClient]
  /\ destroyed' = destroyed \cup discarded(populatedRegistry[id])
  /\ UNCHANGED <<selectedNetworkClientId, previouslySelectedNetworkClientId,
                 providerProxy, created, issued>>

\* The configurations of the backup go into state, and nowhere else.
loadBackup(backup) ==
  /\ BackupMayBeLoaded
  /\ networkConfigurations' =
       [id \in Custom |-> IF id \in DOMAIN backup THEN backup[id]
                          ELSE networkConfigurations[id]]
  /\ issued' = issued \cup DOMAIN backup
  /\ UNCHANGED <<selectedNetworkClientId, previouslySelectedNetworkClientId,
                 registry, populated, providerProxy, destroyed, created>>

Backups == UNION {[ids -> Chains] : ids \in SUBSET Custom}

ClientsNext ==
  \/ initializeProvider \/ resetConnection \/ rollbackToPreviousProvider
  \/ \E id \in Ids : setActiveNetwork(id)
  \/ \E id \in Custom, chain \in Chains, setActive \in BOOLEAN :
        upsertNetworkConfiguration(id, chain, setActive)
  \/ \E id \in Custom : removeNetworkConfiguration(id)
  \/ \E backup \in Backups : loadBackup(backup)

ClientsSpec == ClientsInit /\ [][ClientsNext]_clientVars

-----------------------------------------------------------------------------

ClientsTypeOK ==
  /\ selectedNetworkClientId \in Ids
  /\ previouslySelectedNetworkClientId \in Ids
  /\ networkConfigurations \in [Custom -> Chains \cup {NoChain}]
  /\ registry \in [Custom -> Client \cup {NoClient}]
  /\ populated \in BOOLEAN
  /\ providerProxy \in Client \cup {NoClient}
  /\ destroyed \in SUBSET Client
  /\ created \in Nat
  /\ issued \in SUBSET Custom

\* The client with each serial number is in use or has been destroyed.
InUse == {registry[id] : id \in Custom} \ {NoClient}

(***************************************************************************)
(* No network client leaks: a client upserts created is reachable through  *)
(* the registry, or its destroy method, which stops its block tracker, has *)
(* been called; and never both (upsertNetworkConfiguration replaces        *)
(* clients, removeNetworkConfiguration drops them).                        *)
(***************************************************************************)
NoClientLeaks ==
  /\ InUse \cap destroyed = {}
  /\ \A n \in 1..created : \E client \in InUse \cup destroyed : client.serial = n

(***************************************************************************)
(* Once the registry exists, the configured custom networks and the custom *)
(* network clients are the same, on the same chain: upserts and removals   *)
(* change state and registry together.                                     *)
(***************************************************************************)
ConfigurationsHaveClients ==
  populated =>
    \A id \in Custom :
      networkConfigurations[id] = IF registry[id] = NoClient THEN NoChain
                                  ELSE registry[id].chain

(***************************************************************************)
(* The clients in use are those of the configured networks, and no other   *)
(* one is left running.                                                    *)
(***************************************************************************)
ClientsAreConfigured == NoClientLeaks /\ ConfigurationsHaveClients
=============================================================================
