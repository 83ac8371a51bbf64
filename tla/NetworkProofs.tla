----------------------------- MODULE NetworkProofs -----------------------------
(***************************************************************************)
(* What every operation on the network clients keeps, for any networks:    *)
(* the registry's clients bear the name of their network, none is lost     *)
(* without its destroy method having been called, and the configurations   *)
(* and the clients are the same.  From this, that lookups record their own *)
(* answers, and that the networks of dapps are kept in step.  Then what    *)
(* the rest of the wallet keeps that dapps use or that tells their users   *)
(* what is about to happen: the fees of transactions, the limits of        *)
(* origins, the messages to sign, the restricted methods and the log of    *)
(* their calls, the lists of phishing sites, the tokens detected, the      *)
(* simulation of transactions, and swaps.                                  *)
(***************************************************************************)
EXTENDS NetworkController, Dapps, FiniteSetTheorems, SequenceTheorems, WellFoundedInduction, TLAPS

\* A registry in which no client has been lost, with the clients that were
\* destroyed and the number of those that were created.
Sound(reg, gone, n) ==
  /\ reg \in [Custom -> Client \cup {NoClient}]
  /\ gone \in SUBSET Client
  /\ n \in Nat
  /\ \A id \in Custom : reg[id] # NoClient =>
       reg[id].id = id /\ reg[id].serial <= n /\ reg[id] \notin gone
  /\ \A client \in gone : client.serial <= n
  /\ \A m \in 1..n : \/ \E id \in Custom : reg[id] # NoClient /\ reg[id].serial = m
                     \/ \E client \in gone : client.serial = m

\* Before the registry exists nothing has been created or destroyed.
RegistryInv ==
  /\ ClientsTypeOK
  /\ Sound(registry, destroyed, created)
  /\ ~populated => destroyed = {} /\ created = 0

\* Configurations and clients are the same networks on the same chains.
Configures(configurations, reg) ==
  \A id \in Custom :
    configurations[id] = IF reg[id] = NoClient THEN NoChain ELSE reg[id].chain

\* What the operations do to the selection.
Selects(id) == selectedNetworkClientId' = id /\ providerProxy' = getNetworkClientById(id, registry')
KeepsSelection == UNCHANGED <<selectedNetworkClientId, providerProxy>>

-----------------------------------------------------------------------------

(***************************************************************************)
(* A registry made from state has one new client for each configuration.   *)
(***************************************************************************)
LEMMA PopulatedIsSound ==
  ASSUME NetworksAssumption, NoClientAssumption, RegistryInv
  PROVE  Sound(populatedRegistry, destroyed, created)
BY DEF populatedRegistry, RegistryInv, Configured, newClient, Client, ClientsTypeOK, NetworksAssumption, Ids,
   Sound

(***************************************************************************)
(* A new client has a serial number of its own, and the one it replaces is *)
(* destroyed.                                                              *)
(***************************************************************************)
LEMMA RenewedIsSound ==
  ASSUME NoClientAssumption, NEW reg, NEW gone, NEW n, Sound(reg, gone, n),
         NEW id \in Custom, NEW chain \in Chains
  PROVE  Sound([reg EXCEPT ![id] = newClient(id, chain, n + 1)], gone \cup discarded(reg[id]), n + 1)
<1> DEFINE fresh == newClient(id, chain, n + 1)
           after == [reg EXCEPT ![id] = fresh]
           left == gone \cup discarded(reg[id])
<1>1. /\ fresh \in Client /\ fresh # NoClient
      /\ fresh.id = id /\ fresh.serial = n + 1
  BY DEF newClient, Client, Ids, Sound, NoClientAssumption
<1> HIDE DEF fresh
<1>2. after \in [Custom -> Client \cup {NoClient}] BY <1>1 DEF Sound
<1>3. left \in SUBSET Client BY DEF Sound, discarded
<1>4. \A client \in left : client.serial <= n BY DEF Sound, discarded
<1>5. n \in Nat /\ n + 1 \in Nat /\ \A client \in Client : client.serial \in Nat
  BY DEF Sound, Client
<1>6. ASSUME NEW other \in Custom, after[other] # NoClient
      PROVE  after[other].id = other /\ after[other].serial <= n + 1 /\ after[other] \notin left
  BY <1>1, <1>4, <1>5, <1>6 DEF Sound, discarded
<1>7. \A client \in left : client.serial <= n + 1 BY <1>3, <1>4, <1>5
<1>8. ASSUME NEW m \in 1..(n + 1)
      PROVE  \/ \E other \in Custom : after[other] # NoClient /\ after[other].serial = m
             \/ \E client \in left : client.serial = m BY <1>1, <1>5 DEF Sound, discarded
<1>9. Sound(after, left, n + 1) BY <1>2, <1>3, <1>5, <1>6, <1>7, <1>8 DEF Sound
<1> QED BY <1>9 DEF fresh

(***************************************************************************)
(* The client of a network that is removed is destroyed.                   *)
(***************************************************************************)
LEMMA DroppedIsSound ==
  ASSUME NoClientAssumption, NEW reg, NEW gone, NEW n, Sound(reg, gone, n), NEW id \in Custom
  PROVE  Sound([reg EXCEPT ![id] = NoClient], gone \cup discarded(reg[id]), n)
<1> DEFINE after == [reg EXCEPT ![id] = NoClient]
           left == gone \cup discarded(reg[id])
<1>1. after \in [Custom -> Client \cup {NoClient}] /\ left \in SUBSET Client /\ n \in Nat
  BY DEF Sound, discarded
<1>2. \A client \in left : client.serial <= n BY DEF Sound, discarded
<1>3. ASSUME NEW other \in Custom, after[other] # NoClient
      PROVE  after[other].id = other /\ after[other].serial <= n /\ after[other] \notin left
  BY <1>3 DEF Sound, discarded
<1>4. ASSUME NEW m \in 1..n
      PROVE  \/ \E other \in Custom : after[other] # NoClient /\ after[other].serial = m
             \/ \E client \in left : client.serial = m BY DEF discarded, Sound
<1> QED BY <1>1, <1>2, <1>3, <1>4 DEF Sound

(***************************************************************************)
(* Whoever needs the registry first creates it, and changes nothing else.  *)
(***************************************************************************)
LEMMA EnsuringRegistry ==
  ASSUME NetworksAssumption, NoClientAssumption, RegistryInv, ensureRegistry
  PROVE  /\ Sound(registry', destroyed, created)
         /\ populatedRegistry' = populatedRegistry
         /\ registry' = populatedRegistry
         /\ populated'
  BY PopulatedIsSound DEF ensureRegistry, populatedRegistry

\* A registry or the built-in networks give each network a client of its name.
LEMMA ClientOfNetwork ==
  ASSUME NetworksAssumption, NoClientAssumption, NEW reg, NEW gone, NEW n, Sound(reg, gone, n),
         NEW id \in Ids
  PROVE  /\ getNetworkClientById(id, reg) \in Client \cup {NoClient}
         /\ getNetworkClientById(id, reg) # NoClient => getNetworkClientById(id, reg).id = id
         /\ id \in Infura => getNetworkClientById(id, reg) # NoClient
BY DEF newClient, Client, Ids, NetworksAssumption, getNetworkClientById, NoClientAssumption, Sound

-----------------------------------------------------------------------------

(***************************************************************************)
(* The operations.  Each keeps the registry sound, and the selection is    *)
(* either left alone or made of a network that has a client.               *)
(***************************************************************************)

\* Operations that only select: the registry is what it was, or is created.
LEMMA Refreshing ==
  ASSUME NetworksAssumption, NoClientAssumption, RegistryInv,
         NEW id \in Ids, refreshNetwork(id)
  PROVE  /\ Sound(registry', destroyed', created')
         /\ populatedRegistry' = populatedRegistry /\ registry' = populatedRegistry /\ populated'
         /\ networkConfigurations' = networkConfigurations
         /\ created' = created /\ destroyed' = destroyed /\ issued' = issued
         /\ \/ getNetworkClientById(id, registry') # NoClient /\ Selects(id)
            \/ getNetworkClientById(id, registry') = NoClient /\ KeepsSelection
BY EnsuringRegistry DEF refreshNetwork, applyNetworkSelection, Selects, KeepsSelection

SelectionStep ==
  \/ initializeProvider \/ resetConnection \/ rollbackToPreviousProvider
  \/ \E id \in Ids : setActiveNetwork(id)

LEMMA SelectionSteps ==
  ASSUME RegistryInv, SelectionStep
  PROVE  /\ \E id \in Ids : refreshNetwork(id)
         /\ previouslySelectedNetworkClientId' \in Ids
  BY DEF SelectionStep, initializeProvider, resetConnection, rollbackToPreviousProvider,
         setActiveNetwork, RegistryInv, ClientsTypeOK

\* The selection is of the right type after any of these operations.
LEMMA SelectionTypes ==
  ASSUME NetworksAssumption, NoClientAssumption, RegistryInv, Sound(registry', destroyed', created'),
         (\E id \in Ids : getNetworkClientById(id, registry') # NoClient /\ Selects(id)) \/ KeepsSelection
  PROVE  selectedNetworkClientId' \in Ids /\ providerProxy' \in Client \cup {NoClient}
BY ClientOfNetwork DEF KeepsSelection, RegistryInv, ClientsTypeOK, Selects

\* What an upsert does to the registry and what is destroyed for it.
LEMMA Upserting ==
  ASSUME NetworksAssumption, NoClientAssumption, RegistryInv,
         NEW id \in Custom, NEW chain \in Chains, NEW setActive \in BOOLEAN,
         upsertNetworkConfiguration(id, chain, setActive)
  PROVE  /\ RegistryInv' /\ populated'
         /\ registry'[id] # NoClient /\ registry'[id].chain = chain
         /\ \A other \in Custom \ {id} : registry'[other] = populatedRegistry[other]
         /\ networkConfigurations' = [networkConfigurations EXCEPT ![id] = chain]
         /\ \/ setActive /\ Selects(id)
            \/ ~setActive /\ KeepsSelection
<1> DEFINE renewed == [populatedRegistry EXCEPT ![id] = newClient(id, chain, created + 1)]
           updated == IF needsClient(id, chain) THEN renewed ELSE populatedRegistry
<1>1. Sound(populatedRegistry, destroyed, created) BY PopulatedIsSound
<1>2. /\ id \in Configured \/ id \notin issued
      /\ populated' = TRUE
      /\ registry' = updated
      /\ created' = IF needsClient(id, chain) THEN created + 1 ELSE created
      /\ destroyed' = IF needsClient(id, chain)
                      THEN destroyed \cup discarded(populatedRegistry[id]) ELSE destroyed
      /\ networkConfigurations' = [networkConfigurations EXCEPT ![id] = chain]
      /\ issued' = issued \cup {id}
      /\ \/ /\ setActive
            /\ previouslySelectedNetworkClientId' = selectedNetworkClientId
            /\ applyNetworkSelection(id, registry')
         \/ /\ ~setActive
            /\ UNCHANGED <<selectedNetworkClientId, previouslySelectedNetworkClientId, providerProxy>>
  BY DEF upsertNetworkConfiguration
<1>3. Sound(renewed, destroyed \cup discarded(populatedRegistry[id]), created + 1)
  BY <1>1, RenewedIsSound
<1>4. Sound(registry', destroyed', created') BY <1>1, <1>2, <1>3
<1>5. populatedRegistry \in [Custom -> Client \cup {NoClient}] BY <1>1 DEF Sound
<1>6. newClient(id, chain, created + 1) # NoClient /\ newClient(id, chain, created + 1).chain = chain
  BY DEF newClient, Client, Ids, RegistryInv, ClientsTypeOK, NoClientAssumption
<1>7. registry'[id] # NoClient /\ registry'[id].chain = chain BY <1>2, <1>5, <1>6 DEF needsClient
<1>8. \A other \in Custom \ {id} : registry'[other] = populatedRegistry[other] BY <1>2, <1>5
<1>9. getNetworkClientById(id, registry') # NoClient
  BY <1>7 DEF getNetworkClientById, NetworksAssumption
<1>10. \/ setActive /\ Selects(id)
       \/ ~setActive /\ KeepsSelection
  BY <1>2, <1>9 DEF applyNetworkSelection, Selects, KeepsSelection
<1>11. id \in Ids BY DEF Ids
<1>12. selectedNetworkClientId' \in Ids /\ providerProxy' \in Client \cup {NoClient}
  BY <1>4, <1>9, <1>10, <1>11, SelectionTypes
<1>13. ClientsTypeOK' BY <1>2, <1>4, <1>12 DEF RegistryInv, ClientsTypeOK, Sound
<1> QED BY <1>2, <1>4, <1>7, <1>8, <1>10, <1>13 DEF RegistryInv

\* What a removal does to them.
LEMMA Removing ==
  ASSUME NetworksAssumption, NoClientAssumption, RegistryInv,
         NEW id \in Custom, removeNetworkConfiguration(id)
  PROVE  /\ RegistryInv' /\ populated'
         /\ registry' = [populatedRegistry EXCEPT ![id] = NoClient]
         /\ networkConfigurations' = [networkConfigurations EXCEPT ![id] = NoChain]
         /\ KeepsSelection
<1>1. Sound(populatedRegistry, destroyed, created) BY PopulatedIsSound
<1>2. Sound(registry', destroyed', created') BY <1>1, DroppedIsSound DEF removeNetworkConfiguration
<1>3. networkConfigurations' \in [Custom -> Chains \cup {NoChain}]
  BY DEF removeNetworkConfiguration, RegistryInv, ClientsTypeOK
<1>4. ClientsTypeOK' BY <1>2, <1>3 DEF removeNetworkConfiguration, RegistryInv, ClientsTypeOK, Sound
<1> QED BY <1>2, <1>4 DEF removeNetworkConfiguration, RegistryInv, KeepsSelection

LEMMA BackupLoading ==
  ASSUME NetworksAssumption, NoClientAssumption, RegistryInv,
         NEW backup \in Backups, loadBackup(backup)
  PROVE  /\ RegistryInv' /\ BackupMayBeLoaded /\ KeepsSelection
         /\ UNCHANGED <<registry, populated>>
BY DEF Backups, loadBackup, RegistryInv, ClientsTypeOK, KeepsSelection, Sound

\* Selections keep the registry sound.
LEMMA Selecting ==
  ASSUME NetworksAssumption, NoClientAssumption, RegistryInv, SelectionStep
  PROVE  /\ RegistryInv' /\ populated'
         /\ registry' = populatedRegistry /\ populatedRegistry' = populatedRegistry
         /\ networkConfigurations' = networkConfigurations
         /\ \/ \E id \in Ids : getNetworkClientById(id, registry') # NoClient /\ Selects(id)
            \/ KeepsSelection
BY SelectionSteps, Refreshing, SelectionTypes DEF refreshNetwork, ensureRegistry, ClientsTypeOK, RegistryInv,
   Sound

\* Reading the registry, which creates it, keeps it sound.
LEMMA Reading ==
  ASSUME NetworksAssumption, NoClientAssumption, RegistryInv, ensureRegistry,
         UNCHANGED <<selectedNetworkClientId, previouslySelectedNetworkClientId,
                     networkConfigurations, providerProxy, destroyed, created, issued>>
  PROVE  /\ RegistryInv' /\ populated' /\ KeepsSelection
         /\ registry' = populatedRegistry /\ populatedRegistry' = populatedRegistry
BY EnsuringRegistry DEF ensureRegistry, ClientsTypeOK, RegistryInv, Sound, KeepsSelection

LEMMA InitialRegistry ==
  ASSUME NetworksAssumption, NoClientAssumption, NEW p \in BOOLEAN, ClientsInitWith(p)
  PROVE  RegistryInv /\ providerProxy = NoClient
BY DEF Configured, newClient, Client, ClientsInitWith, NetworksAssumption, Ids, Sound, ClientsTypeOK,
   RegistryInv

LEMMA SoundLeaksNothing ==
  ASSUME RegistryInv
  PROVE  NoClientLeaks
BY DEF InUse, RegistryInv, Sound, NoClientLeaks

-----------------------------------------------------------------------------
(***************************************************************************)
(* As long as no backup is loaded, configurations and clients change       *)
(* together.                                                               *)
(***************************************************************************)

LEMMA ConfiguredFromState ==
  ASSUME NetworksAssumption, NoClientAssumption, RegistryInv, ConfigurationsHaveClients
  PROVE  Configures(networkConfigurations, populatedRegistry)
BY DEF populatedRegistry, ConfigurationsHaveClients, Configures, Configured, newClient, Client, RegistryInv,
   ClientsTypeOK, NetworksAssumption, Ids, NoClientAssumption

LEMMA ConfiguredTogether ==
  ASSUME NetworksAssumption, NoClientAssumption, RegistryInv, ConfigurationsHaveClients,
         \/ SelectionStep
         \/ \E id \in Custom, chain \in Chains, setActive \in BOOLEAN :
               upsertNetworkConfiguration(id, chain, setActive)
         \/ \E id \in Custom : removeNetworkConfiguration(id)
         \/ ensureRegistry /\ UNCHANGED networkConfigurations
  PROVE  ConfigurationsHaveClients'
BY ConfiguredFromState, PopulatedIsSound, Selecting, EnsuringRegistry, Upserting, Removing DEF Sound,
   RegistryInv, ClientsTypeOK, Configures, ConfigurationsHaveClients

LEMMA ConfiguredAtStartup ==
  ASSUME NetworksAssumption, NoClientAssumption, NEW p \in BOOLEAN, ClientsInitWith(p)
  PROVE  ConfigurationsHaveClients
BY DEF Configured, newClient, Client, ClientsInitWith, NetworksAssumption, Ids, ConfigurationsHaveClients,
   NoClientAssumption

-----------------------------------------------------------------------------
(***************************************************************************)
(* NetworkController's lookups, for any networks and any number of calls   *)
(* in flight.  An answer is trusted when no networkDidChange has been      *)
(* heard since it was asked for: the invariant says that such a call is    *)
(* still about the network that is selected, and that nobody has the       *)
(* global proxies forward to another one in between.                       *)
(***************************************************************************)


\* The global proxies forward to a client of the selected network, of which
\* something is known since its selection.
ProviderIsSelected ==
  providerProxy # NoClient =>
    /\ providerProxy.id = selectedNetworkClientId
    /\ networksMetadata[selectedNetworkClientId] # NoMetadata

\* A call that may still record its answer is about the selected network.
IsCurrent(call) == call.kind = "selected" /\ ~call.networkChanged

AsksOfSelection(call) ==
  /\ call.kind \in {"selected", "compat"} => providerProxy # NoClient
  /\ IsCurrent(call) => /\ call.id = selectedNetworkClientId
                        /\ call.isInfura <=> call.id \in Infura

LookupsAreCurrent == \A c \in Calls : AsksOfSelection(calls[c])

LookupTypes ==
  /\ networksMetadata \in [Ids -> Metadata \cup {NoMetadata}]
  /\ calls \in [Calls -> Call \cup {Idle}]
  /\ lookedUp \in BOOLEAN
  /\ infuraBlocked \in BOOLEAN

LookupInv ==
  /\ RegistryInv
  /\ LookupTypes
  /\ ProviderIsSelected
  /\ LookupsAreCurrent
  /\ SelectionIsLookedUp
  /\ NotStuckBlocked

-----------------------------------------------------------------------------

LEMMA CallsDiffer ==
  ASSUME NEW call \in Call
  PROVE  call # Idle /\ call.kind # "idle"
  BY DEF Call, Idle

LEMMA IdleKind == Idle.kind = "idle"
  BY DEF Idle

\* A call that has just been made.
LEMMA AskedCall ==
  ASSUME NetworksAssumption, NoClientAssumption, RegistryInv', NEW id \in Ids,
         NEW kind \in {"selected", "byId", "compat"}
  PROVE  /\ asked(kind, id) \in Call
         /\ asked(kind, id).kind = kind /\ asked(kind, id).id = id
         /\ ~asked(kind, id).networkChanged
         /\ providerProxy' # NoClient =>
              (asked(kind, id).isInfura <=> providerProxy'.id \in Infura)
<1> DEFINE client == getNetworkClientById(id, registry')
           infura == IF providerProxy' = NoClient THEN FALSE ELSE providerProxy'.id \in Infura
<1>1. client \in Client \cup {NoClient} BY ClientOfNetwork DEF RegistryInv
<1>2. infura \in BOOLEAN
  <2>1. CASE providerProxy' = NoClient BY <2>1
  <2>2. CASE providerProxy' # NoClient BY <2>2
  <2> QED BY <2>1, <2>2
<1>3. asked(kind, id) = [kind |-> kind, id |-> id, client |-> client,
                         isInfura |-> infura, networkChanged |-> FALSE] BY DEF asked, askedWith
<1>4. providerProxy' # NoClient => (infura <=> providerProxy'.id \in Infura) OBVIOUS
<1> HIDE DEF client, infura
<1>5. asked(kind, id) \in Call BY <1>1, <1>2, <1>3 DEF Call
<1>6. asked(kind, id).isInfura = infura BY <1>3
<1> QED BY <1>3, <1>4, <1>5, <1>6

\* Whatever the answer, it is metadata.
LEMMA AnswersAreMetadata ==
  ASSUME NEW call, NEW metadata \in answers(call)
  PROVE  metadata \in Metadata
  BY DEF answers, Metadata, UnknownStatus

LEMMA NoMetadataIsNone ==
  ASSUME NEW metadata \in Metadata
  PROVE  metadata # NoMetadata
  BY DEF Metadata, NoMetadata

-----------------------------------------------------------------------------
(***************************************************************************)
(* Switches.                                                               *)
(***************************************************************************)

\* The calls after a switch: one that asks about the new selection, and the
\* others, which have heard of it or never been about it.
LEMMA Announced ==
  ASSUME LookupTypes, NEW c \in Calls, NEW announce \in BOOLEAN, NEW call \in Call,
         ~announce => \A other \in Calls : calls[other].kind # "selected",
         calls' = [(IF announce THEN networkDidChange ELSE calls) EXCEPT ![c] = call]
  PROVE  /\ calls' \in [Calls -> Call \cup {Idle}]
         /\ calls'[c] = call
         /\ \A other \in Calls \ {c} : ~IsCurrent(calls'[other])
<1>1. \A other \in Calls : networkDidChange[other] \in Call \cup {Idle} /\ ~IsCurrent(networkDidChange[other])
  <2> TAKE other \in Calls
  <2>1. CASE calls[other].kind = "selected"
    BY <2>1, IdleKind DEF LookupTypes, networkDidChange, Call, IsCurrent
  <2>2. CASE calls[other].kind # "selected" BY <2>2 DEF networkDidChange, IsCurrent, LookupTypes
  <2> QED BY <2>1, <2>2
<1>2. networkDidChange \in [Calls -> Call \cup {Idle}] BY <1>1 DEF networkDidChange
<1>3. CASE announce BY <1>3, <1>2, <1>1
<1>4. CASE ~announce BY <1>4 DEF LookupTypes, IsCurrent
<1> QED BY <1>3, <1>4

\* Every switch that succeeds starts the lookup of what it selects, and one
\* that throws has changed nothing that the lookups depend on.
LEMMA Switching ==
  ASSUME NetworksAssumption, NoClientAssumption, LookupInv, RegistryInv',
         NEW id \in Ids, NEW c \in Calls, NEW announce \in BOOLEAN,
         ~announce => providerProxy = NoClient,
         \/ getNetworkClientById(id, registry') # NoClient /\ Selects(id)
         \/ getNetworkClientById(id, registry') = NoClient /\ KeepsSelection,
         afterSelection(id, c, announce)
  PROVE  LookupInv'
<1>1. CASE getNetworkClientById(id, registry') # NoClient
  <2>1. Selects(id) BY <1>1
  <2>2. providerProxy'.id = id /\ providerProxy' # NoClient /\ selectedNetworkClientId' = id
    BY <1>1, <2>1, ClientOfNetwork DEF Selects, RegistryInv
  <2>3. /\ calls' = [(IF announce THEN networkDidChange ELSE calls) EXCEPT ![c] = asked("selected", id)]
        /\ networksMetadata' = withMetadata(id)
        /\ lookedUp' = FALSE
        /\ infuraBlocked' = infuraBlocked BY <1>1 DEF afterSelection
  <2>4. ~announce => \A other \in Calls : calls[other].kind # "selected"
    BY DEF LookupInv, LookupsAreCurrent, AsksOfSelection
  <2>5. /\ asked("selected", id) \in Call
        /\ asked("selected", id).kind = "selected" /\ asked("selected", id).id = id
        /\ ~asked("selected", id).networkChanged
        /\ asked("selected", id).isInfura <=> id \in Infura BY <2>2, AskedCall
  <2>6. /\ calls' \in [Calls -> Call \cup {Idle}]
        /\ calls'[c] = asked("selected", id)
        /\ \A other \in Calls \ {c} : ~IsCurrent(calls'[other])
    BY <2>3, <2>4, <2>5, Announced DEF LookupInv
  <2>7. /\ networksMetadata' \in [Ids -> Metadata \cup {NoMetadata}]
        /\ networksMetadata'[id] # NoMetadata
    BY <2>3, NoMetadataIsNone DEF Metadata, UnknownStatus, withMetadata, LookupInv, LookupTypes
  <2>8. LookupTypes' BY <2>3, <2>6, <2>7 DEF LookupInv, LookupTypes
  <2>9. ProviderIsSelected' /\ NotStuckBlocked'
    BY <2>2, <2>3, <2>7 DEF ProviderIsSelected, NotStuckBlocked
  <2>10. LookupsAreCurrent' BY <2>2, <2>5, <2>6 DEF AsksOfSelection, LookupsAreCurrent
  <2>11. SelectionIsLookedUp' BY <2>5, <2>6 DEF SelectionIsLookedUp
  <2> QED BY <2>8, <2>9, <2>10, <2>11 DEF LookupInv
<1>2. CASE getNetworkClientById(id, registry') = NoClient
  BY <1>2 DEF afterSelection, KeepsSelection, lookupVars, LookupInv, LookupTypes, ProviderIsSelected,
     LookupsAreCurrent, AsksOfSelection, IsCurrent, SelectionIsLookedUp, NotStuckBlocked
<1> QED BY <1>1, <1>2

\* Operations that neither select nor look up.
LEMMA Unselected ==
  ASSUME LookupInv, RegistryInv', KeepsSelection, UNCHANGED lookupVars
  PROVE  LookupInv'
  BY DEF KeepsSelection, lookupVars, LookupInv, LookupTypes, ProviderIsSelected,
         LookupsAreCurrent, AsksOfSelection, IsCurrent, SelectionIsLookedUp, NotStuckBlocked

SwitchStep(c) ==
  \/ Initialize(c) \/ Reset(c) \/ Rollback(c)
  \/ \E id \in Ids : SetActive(id, c)

LEMMA SwitchSteps ==
  ASSUME NetworksAssumption, NoClientAssumption, LookupInv, NEW c \in Calls, SwitchStep(c)
  PROVE  LookupInv'
<1>1. \E id \in Ids, announce \in BOOLEAN :
        /\ refreshNetwork(id) /\ afterSelection(id, c, announce)
        /\ ~announce => providerProxy = NoClient
  BY DEF SwitchStep, Initialize, Reset, Rollback, SetActive, initializeProvider, resetConnection,
     rollbackToPreviousProvider, setActiveNetwork, LookupInv, RegistryInv, ClientsTypeOK
<1>2. SelectionStep BY DEF SwitchStep, Initialize, Reset, Rollback, SetActive, SelectionStep
<1>3. RegistryInv' BY <1>2, Selecting DEF LookupInv
<1>4. PICK id \in Ids, announce \in BOOLEAN :
        /\ refreshNetwork(id) /\ afterSelection(id, c, announce)
        /\ ~announce => providerProxy = NoClient BY <1>1
<1>5. \/ getNetworkClientById(id, registry') # NoClient /\ Selects(id)
      \/ getNetworkClientById(id, registry') = NoClient /\ KeepsSelection
  BY <1>4, Refreshing DEF LookupInv
<1> QED BY <1>3, <1>4, <1>5, Switching

LEMMA UpsertSteps ==
  ASSUME NetworksAssumption, NoClientAssumption, LookupInv,
         NEW c \in Calls, NEW id \in Custom, NEW chain \in Chains, Upsert(id, chain, c)
  PROVE  LookupInv'
BY Upserting, Switching, Unselected DEF Ids, LookupInv, getNetworkClientById, NetworksAssumption, Upsert

LEMMA RemoveSteps ==
  ASSUME NetworksAssumption, NoClientAssumption, LookupInv, NEW id \in Custom, RemoveNetwork(id)
  PROVE  LookupInv'
  BY Removing, Unselected DEF RemoveNetwork, LookupInv

LEMMA BackupSteps ==
  ASSUME NetworksAssumption, NoClientAssumption, LookupInv,
         NEW backup \in Backups, LoadBackup(backup)
  PROVE  LookupInv'
  BY BackupLoading, Unselected DEF LoadBackup, LookupInv

-----------------------------------------------------------------------------
(***************************************************************************)
(* Lookups and their answers.                                              *)
(***************************************************************************)

\* A call is made, about the selection if it may record its answer.
LEMMA Asking ==
  ASSUME NetworksAssumption, NoClientAssumption, LookupInv, looking,
         NEW c \in Calls, NEW id \in Ids, NEW kind \in {"selected", "byId", "compat"},
         kind = "selected" => id = selectedNetworkClientId,
         kind # "byId" => providerProxy # NoClient,
         start(c, kind, id)
  PROVE  LookupInv'
BY Reading, AskedCall, IdleKind DEF looking, LookupInv, start, LookupTypes, ProviderIsSelected,
   NotStuckBlocked, AsksOfSelection, IsCurrent, LookupsAreCurrent, SelectionIsLookedUp

LEMMA AskingSteps ==
  ASSUME NetworksAssumption, NoClientAssumption, LookupInv, NEW c \in Calls,
         \/ lookupNetwork(c) \/ getEIP1559Compatibility(c)
         \/ \E id \in Ids : \/ lookupNetworkByClientId(id, c)
                            \/ get1559CompatibilityWithNetworkClientId(id, c)
  PROVE  LookupInv'
BY Asking DEF LookupInv, RegistryInv, ClientsTypeOK, lookupNetwork, getEIP1559Compatibility,
   lookupNetworkByClientId, get1559CompatibilityWithNetworkClientId

\* An answer that is discarded leaves another lookup of the selection, or its
\* record, behind: only the one that records it may be the last.
LEMMA Answered ==
  ASSUME NetworksAssumption, NoClientAssumption, LookupInv, NEW c \in Calls, answered(c)
  PROVE  LookupInv'
<1>1. PICK metadata \in answers(calls[c]) :
        lookupAnswered(c, metadata) \/ lookupByIdAnswered(c, metadata) \/ compatAnswered(c, metadata)
  BY DEF answered
<1>2. metadata \in Metadata BY AnswersAreMetadata
<1>3. finish(c) BY <1>1 DEF lookupAnswered, lookupByIdAnswered, compatAnswered
<1>4. calls[c] \in Call BY DEF answered, LookupInv, LookupTypes
<1>5. /\ calls' \in [Calls -> Call \cup {Idle}] /\ calls'[c] = Idle
      /\ \A other \in Calls \ {c} : calls'[other] = calls[other]
  BY <1>3 DEF finish, LookupInv, LookupTypes
<1>6. RegistryInv' BY <1>3 DEF finish, clientVars, LookupInv, RegistryInv, ClientsTypeOK, Sound
<1>7. providerProxy' = providerProxy /\ selectedNetworkClientId' = selectedNetworkClientId
      /\ selectedNetworkClientId \in Ids
  BY <1>3 DEF finish, clientVars, LookupInv, RegistryInv, ClientsTypeOK
<1>9. LookupsAreCurrent'
  BY <1>5, IdleKind, <1>7 DEF AsksOfSelection, IsCurrent, LookupsAreCurrent, LookupInv
<1>10. /\ networksMetadata' \in [Ids -> Metadata \cup {NoMetadata}]
       /\ \A id \in Ids : networksMetadata[id] # NoMetadata => networksMetadata'[id] # NoMetadata
  <2>1. CASE lookupAnswered(c, metadata)
    BY <2>1, <1>2, <1>7, NoMetadataIsNone DEF lookupAnswered, record, LookupInv, LookupTypes
  <2>2. CASE lookupByIdAnswered(c, metadata)
    BY <2>2, <1>2, <1>4, NoMetadataIsNone DEF lookupByIdAnswered, record, Call, LookupInv, LookupTypes
  <2>3. CASE compatAnswered(c, metadata)
    <3>1. CASE metadata.eip1559 = "unset" BY <2>3, <3>1 DEF compatAnswered, LookupInv, LookupTypes
    <3>2. CASE metadata.eip1559 # "unset"
      <4> DEFINE metadataNow == networksMetadata[selectedNetworkClientId]
      <4>1. metadataNow \in Metadata
        BY <2>3, <1>7 DEF compatAnswered, LookupInv, LookupsAreCurrent, AsksOfSelection, LookupTypes,
           ProviderIsSelected
      <4>2. [metadataNow EXCEPT !.eip1559 = metadata.eip1559] \in Metadata
        BY <4>1, <1>2 DEF Metadata
      <4>3. networksMetadata' = [networksMetadata EXCEPT ![selectedNetworkClientId] =
                                   [metadataNow EXCEPT !.eip1559 = metadata.eip1559]]
        BY <2>3, <3>2 DEF compatAnswered, record
      <4> HIDE DEF metadataNow
      <4> QED BY <4>2, <4>3, <1>7, NoMetadataIsNone DEF LookupInv, LookupTypes
    <3> QED BY <3>1, <3>2
  <2> QED BY <1>1, <2>1, <2>2, <2>3
<1>8. ProviderIsSelected' BY <1>7, <1>10 DEF ProviderIsSelected, LookupInv
<1>11. CASE IsCurrent(calls[c])
  BY <1>1, <1>11, <1>7, <1>5, <1>6, <1>8, <1>9, <1>10 DEF lookupByIdAnswered, compatAnswered, IsCurrent,
     lookupAnswered, LookupInv, LookupsAreCurrent, AsksOfSelection, NotStuckBlocked, reported,
     NetworksAssumption, LookupTypes, SelectionIsLookedUp
<1>12. CASE ~IsCurrent(calls[c])
  BY <1>1, <1>12, <1>5, <1>7, <1>10, <1>6, <1>8, <1>9 DEF lookupAnswered, lookupByIdAnswered, compatAnswered,
     IsCurrent, NotStuckBlocked, LookupInv, LookupTypes, SelectionIsLookedUp
<1> QED BY <1>11, <1>12

-----------------------------------------------------------------------------

LEMMA LookupStep ==
  ASSUME NetworksAssumption, NoClientAssumption, LookupInv, [LookupsNext]_networkControllerVars
  PROVE  LookupInv'
<1>1. CASE UNCHANGED networkControllerVars
  BY <1>1, Unselected DEF networkControllerVars, clientVars, LookupInv, RegistryInv, ClientsTypeOK, Sound,
     KeepsSelection
<1>2. CASE LookupsNext
  BY <1>2, SwitchSteps, UpsertSteps, RemoveSteps, BackupSteps, AskingSteps, Answered DEF LookupsNext,
     SwitchStep
<1> QED BY <1>1, <1>2

LEMMA InitialLookups ==
  ASSUME NetworksAssumption, NoClientAssumption, LookupsInit
  PROVE  LookupInv
BY InitialRegistry, IdleKind DEF LookupsInit, ClientsInit, LookupInv, LookupTypes, ProviderIsSelected,
   LookupsAreCurrent, AsksOfSelection, IsCurrent, SelectionIsLookedUp, NotStuckBlocked

(***************************************************************************)
(* Discarding the answers of earlier lookups never leaves the selected     *)
(* network without one, and no subscriber is left thinking that the user   *)
(* is blocked on a custom network: for any networks, any number of calls   *)
(* and whatever is switched, changed, removed or loaded meanwhile.         *)
(***************************************************************************)
THEOREM LookupsAlwaysInform == LookupsSpec => []LookupsInform
<1>1. LookupInv => LookupsInform
  BY DEF LookupInv, LookupTypes, RegistryInv, LookupsInform, LookupsTypeOK
<1>2. LookupsInit => LookupInv BY InitialLookups, NetworksAssumption, NoClientAssumption
<1>3. LookupInv /\ [LookupsNext]_networkControllerVars => LookupInv'
  BY LookupStep, NetworksAssumption, NoClientAssumption
<1> QED BY <1>1, <1>2, <1>3, PTL DEF LookupsSpec

\* A call only ends with its answer, which is for the network it asked.
LEMMA EndedByItsAnswer ==
  ASSUME LookupInv, LookupsNext, NetworksAssumption, NoClientAssumption,
         NEW c \in Calls, calls[c].kind = "selected", calls'[c] = Idle
  PROVE  answered(c)
<1>1. calls[c] # Idle BY IdleKind
<1>2. ASSUME NEW id \in Ids, NEW d \in Calls, NEW announce \in BOOLEAN,
             RegistryInv', afterSelection(id, d, announce)
      PROVE  FALSE
  <2>1. CASE UNCHANGED lookupVars BY <2>1, <1>1 DEF lookupVars
  <2>2. CASE calls' = [(IF announce THEN networkDidChange ELSE calls) EXCEPT ![d] = asked("selected", id)]
    BY <1>2, AskedCall, CallsDiffer, <1>1, IdleKind, <2>2 DEF networkDidChange, LookupInv, LookupTypes, Call
  <2> QED BY <1>2, <2>1, <2>2 DEF afterSelection
<1>3. ASSUME NEW d \in Calls, NEW id \in Ids, NEW kind \in {"selected", "byId", "compat"},
             looking, start(d, kind, id)
      PROVE  FALSE
  BY <1>3, Reading, AskedCall, CallsDiffer, <1>1 DEF looking, LookupInv, start, LookupTypes
<1>4. RegistryInv' BY LookupStep DEF LookupInv
<1>5. ASSUME NEW d \in Calls, SwitchStep(d)
      PROVE  FALSE
  BY <1>2, <1>4, <1>5 DEF SwitchStep, Initialize, Reset, Rollback, SetActive, LookupInv, RegistryInv,
     ClientsTypeOK
<1>6. ASSUME NEW d \in Calls, NEW id \in Custom, NEW chain \in Chains, Upsert(id, chain, d)
      PROVE  FALSE BY <1>1, <1>2, <1>4, <1>6 DEF Upsert, Ids, lookupVars
<1>7. ASSUME NEW d \in Calls,
             \/ lookupNetwork(d) \/ getEIP1559Compatibility(d)
             \/ \E id \in Ids : \/ lookupNetworkByClientId(id, d)
                                \/ get1559CompatibilityWithNetworkClientId(id, d)
      PROVE  FALSE
  BY <1>3, <1>7 DEF lookupNetwork, getEIP1559Compatibility, lookupNetworkByClientId,
     get1559CompatibilityWithNetworkClientId, LookupInv, RegistryInv, ClientsTypeOK
<1>8. ASSUME NEW d \in Calls, answered(d), d # c
      PROVE  FALSE
  BY <1>1, <1>8 DEF answered, lookupAnswered, lookupByIdAnswered, compatAnswered, finish, LookupInv,
     LookupTypes
<1>9. ASSUME \/ \E id \in Custom : RemoveNetwork(id)
             \/ \E backup \in Backups : LoadBackup(backup)
      PROVE  FALSE BY <1>1, <1>9 DEF RemoveNetwork, LoadBackup, lookupVars
<1> QED BY <1>5, <1>6, <1>7, <1>8, <1>9 DEF LookupsNext, SwitchStep

(***************************************************************************)
(* A lookup records its answer for the network it has asked, while that is *)
(* selected, or not at all.                                                *)
(***************************************************************************)
THEOREM LookupsRecordTheirNetwork == LookupsSpec => LookupRecordsItsNetwork
<1> DEFINE Records ==
      \A c \in Calls : calls[c].kind = "selected" /\ calls'[c] = Idle =>
        \A id \in Ids : networksMetadata'[id] # networksMetadata[id] =>
          id = calls[c].id /\ id = selectedNetworkClientId
<1>1. LookupsInit => LookupInv BY InitialLookups, NetworksAssumption, NoClientAssumption
<1>2. LookupInv /\ [LookupsNext]_networkControllerVars => LookupInv'
  BY LookupStep, NetworksAssumption, NoClientAssumption
<1>3. LookupInv /\ [LookupsNext]_networkControllerVars => [Records]_networkControllerVars
  <2> SUFFICES ASSUME LookupInv, LookupsNext, NEW c \in Calls, calls[c].kind = "selected", calls'[c] = Idle,
                      NEW id \in Ids, networksMetadata'[id] # networksMetadata[id]
               PROVE  id = calls[c].id /\ id = selectedNetworkClientId OBVIOUS
  <2>1. answered(c) BY EndedByItsAnswer, NetworksAssumption, NoClientAssumption
  <2>2. PICK metadata \in answers(calls[c]) : lookupAnswered(c, metadata)
    BY <2>1 DEF answered, lookupByIdAnswered, compatAnswered
  <2>3. ~calls[c].networkChanged /\ record(selectedNetworkClientId, metadata)
    BY <2>2 DEF lookupAnswered
  <2>4. id = selectedNetworkClientId BY <2>3 DEF record, LookupInv, LookupTypes
  <2>5. calls[c].id = selectedNetworkClientId
    BY <2>3 DEF LookupInv, LookupsAreCurrent, AsksOfSelection, IsCurrent
  <2> QED BY <2>4, <2>5
<1> QED BY <1>1, <1>2, <1>3, PTL DEF LookupsSpec, LookupRecordsItsNetwork

-----------------------------------------------------------------------------
(***************************************************************************)
(* The networks of dapps, for any networks, domains and changes of         *)
(* permissions.  That dapps with a network of their own may have one and   *)
(* are routed to it is kept by every step on its own.  That their networks *)
(* exist also needs that the selected one does: it is what takes the place *)
(* of one that is removed.                                                 *)
(***************************************************************************)


\* A domain with a network of its own may have one, its proxy forwards to a
\* client of it, and only external domains get a proxy.
IsRouted(d) ==
  /\ domains[d] # NoNetwork => useRequestQueue /\ d \in permitted \ Internal
  /\ domains[d] # NoNetwork /\ domainProxyMap[d] # NoProxy =>
       domainProxyMap[d] # Global /\ domainProxyMap[d].id = domains[d]
  /\ domainProxyMap[d] # NoProxy => d \notin Internal

DomainTypes ==
  /\ domains \in [Domains -> Ids \cup {NoNetwork}]
  /\ domainProxyMap \in [Domains -> Client \cup {NoProxy, Global}]
  /\ useRequestQueue \in BOOLEAN
  /\ permitted \in SUBSET Domains

RoutesInv ==
  /\ RegistryInv
  /\ DomainTypes
  /\ \A d \in Domains : IsRouted(d)

Exists(id) == clientById(id) # NoClient

\* What dapps are connected to exists, and so does the selected network.
ExistInv ==
  /\ DomainsExist
  /\ Exists(selectedNetworkClientId)
  /\ ConfigurationsHaveClients

-----------------------------------------------------------------------------
(***************************************************************************)
(* Domains are set, unset and left alone.                                  *)
(***************************************************************************)

LEMMA ClientById ==
  ASSUME NetworksAssumption, NoClientAssumption, RegistryInv, NEW id \in Ids
  PROVE  /\ clientById(id) \in Client \cup {NoClient}
         /\ clientById(id) # NoClient => clientById(id).id = id
  BY PopulatedIsSound, ClientOfNetwork DEF clientById

LEMMA Setting ==
  ASSUME NetworksAssumption, NoClientAssumption, DomainsAssumption, RoutesInv,
         NEW ds \in SUBSET Domains, NEW id \in Ids, setNetworkClientId(ds, id),
         ds # {} => Exists(id), ds \cap Internal = {},
         useRequestQueue' \in BOOLEAN, permitted' \in SUBSET Domains,
         \A d \in ds : useRequestQueue' /\ d \in permitted',
         \A d \in Domains \ ds : domains[d] # NoNetwork => useRequestQueue' /\ d \in permitted'
  PROVE  DomainTypes' /\ \A d \in Domains : IsRouted(d)'
BY ClientById DEF setNetworkClientId, Exists, RoutesInv, DomainTypes, DomainsAssumption, IsRouted

LEMMA Unsetting ==
  ASSUME DomainsAssumption, RoutesInv,
         NEW ds \in SUBSET Domains, unsetNetworkClientIdForDomain(ds),
         useRequestQueue' \in BOOLEAN, permitted' \in SUBSET Domains,
         \A d \in Domains \ ds : domains[d] # NoNetwork => useRequestQueue' /\ d \in permitted'
  PROVE  DomainTypes' /\ \A d \in Domains : IsRouted(d)'
BY DEF unsetNetworkClientIdForDomain, DomainTypes, RoutesInv, IsRouted

\* Grants do not disturb the domains that are left alone.
LEMMA LeavingAlone ==
  ASSUME RoutesInv, UNCHANGED <<domains, domainProxyMap, useRequestQueue>>,
         permitted' \in SUBSET Domains,
         \A d \in Domains : domains[d] # NoNetwork => d \in permitted'
  PROVE  DomainTypes' /\ \A d \in Domains : IsRouted(d)'
  BY DEF RoutesInv, DomainTypes, IsRouted

LEMMA Querying ==
  ASSUME NetworksAssumption, NoClientAssumption, RegistryInv, NEW called, queriesClients(called)
  PROVE  /\ RegistryInv' /\ KeepsSelection /\ populatedRegistry' = populatedRegistry
         /\ ConfigurationsHaveClients => ConfigurationsHaveClients'
BY Reading, ConfiguredTogether DEF queriesClients, RegistryInv, ClientsTypeOK, Sound, KeepsSelection,
   populatedRegistry, Configured, ConfigurationsHaveClients

LEMMA UnchangedClients ==
  ASSUME RegistryInv, UNCHANGED clientVars
  PROVE  /\ RegistryInv' /\ KeepsSelection /\ populatedRegistry' = populatedRegistry
         /\ ConfigurationsHaveClients => ConfigurationsHaveClients'
  BY DEF clientVars, RegistryInv, ClientsTypeOK, Sound, KeepsSelection, populatedRegistry,
         Configured, ConfigurationsHaveClients

-----------------------------------------------------------------------------
(***************************************************************************)
(* The steps keep the routes.                                              *)
(***************************************************************************)

LEMMA SettingOneRoutes ==
  ASSUME NetworksAssumption, NoClientAssumption, DomainsAssumption, RoutesInv,
         NEW d \in Domains, NEW id \in Ids, UNCHANGED useRequestQueue,
         permitted' \in SUBSET Domains, permitted \subseteq permitted',
         setNetworkClientIdForDomain(d, id, permitted')
  PROVE  RoutesInv'
<1>1. CASE ~mayHaveNetwork(d, permitted')
  BY <1>1, LeavingAlone, UnchangedClients DEF setNetworkClientIdForDomain, RoutesInv, IsRouted
<1>2. CASE mayHaveNetwork(d, permitted')
  <2> DEFINE ds == IF canSet(d, id, permitted') THEN {d} ELSE {}
  <2>1. setNetworkClientId(ds, id) /\ queriesClients(TRUE) BY <1>2 DEF setNetworkClientIdForDomain
  <2>2. ds # {} => Exists(id) BY DEF canSet, Exists
  <2>3. useRequestQueue' /\ d \in permitted' /\ d \notin Internal BY <1>2 DEF mayHaveNetwork
  <2>4. \A other \in Domains : domains[other] # NoNetwork => useRequestQueue /\ other \in permitted
    BY DEF RoutesInv, IsRouted
  <2>5. ds \in SUBSET Domains /\ ds \subseteq {d} OBVIOUS
  <2> HIDE DEF ds
  <2>6. DomainTypes' /\ \A other \in Domains : IsRouted(other)'
    BY <2>1, <2>2, <2>3, <2>4, <2>5, Setting DEF RoutesInv, DomainTypes
  <2> QED BY <2>1, <2>6, Querying DEF RoutesInv
<1> QED BY <1>1, <1>2

LEMMA GrantRoutes ==
  ASSUME NetworksAssumption, NoClientAssumption, DomainsAssumption, RoutesInv,
         NEW d \in Domains, permissionsGranted(d)
  PROVE  RoutesInv'
BY SettingOneRoutes, LeavingAlone, UnchangedClients DEF permissionsGranted, RoutesInv, DomainTypes,
   RegistryInv, ClientsTypeOK, IsRouted

LEMMA RevocationRoutes ==
  ASSUME DomainsAssumption, RoutesInv, NEW d \in Domains, permissionsRevoked(d)
  PROVE  RoutesInv'
BY UnchangedClients, Unsetting, LeavingAlone DEF permissionsRevoked, RoutesInv, DomainTypes, IsRouted

LEMMA SwitchRoutes ==
  ASSUME NetworksAssumption, NoClientAssumption, DomainsAssumption, RoutesInv,
         NEW d \in Domains, NEW id \in Ids, switchDomain(d, id)
  PROVE  RoutesInv'
BY SettingOneRoutes DEF switchDomain, RoutesInv, DomainTypes

LEMMA ProxyRoutes ==
  ASSUME NetworksAssumption, NoClientAssumption, DomainsAssumption, RoutesInv,
         NEW d \in Domains, getProviderAndBlockTracker(d)
  PROVE  RoutesInv'
<1> DEFINE made == newProxy(d, permitted)
<1>1. /\ d \notin Internal /\ domainProxyMap[d] = NoProxy
      /\ domainProxyMap' = [domainProxyMap EXCEPT ![d] = IF made = NoClient THEN NoProxy ELSE made]
      /\ UNCHANGED <<domains, useRequestQueue, permitted>> BY DEF getProviderAndBlockTracker
<1>2. RegistryInv' BY Querying DEF getProviderAndBlockTracker, RoutesInv
<1>3. getNetworkClientIdForDomain(d) \in Ids
  BY DEF getNetworkClientIdForDomain, RoutesInv, DomainTypes, RegistryInv, ClientsTypeOK
<1>4. made \in Client \cup {NoClient, Global} BY <1>3, ClientById DEF newProxy, RoutesInv
<1>5. domains[d] # NoNetwork /\ made # NoClient => made # Global /\ made.id = domains[d]
  <2> SUFFICES ASSUME domains[d] # NoNetwork, made # NoClient
               PROVE  made # Global /\ made.id = domains[d] OBVIOUS
  <2>1. useRequestQueue /\ d \in permitted BY DEF RoutesInv, IsRouted
  <2>2. made = clientById(domains[d]) /\ domains[d] \in Ids
    BY <2>1, <1>3 DEF newProxy, getNetworkClientIdForDomain
  <2>3. made \in Client /\ made.id = domains[d] BY <2>2, ClientById DEF RoutesInv
  <2> QED BY <2>3 DEF DomainsAssumption
<1> HIDE DEF made
<1>6. DomainTypes' BY <1>1, <1>4 DEF DomainTypes, RoutesInv
<1>7. ASSUME NEW other \in Domains
      PROVE  IsRouted(other)' BY <1>1, <1>5 DEF RoutesInv, DomainTypes, IsRouted
<1> QED BY <1>2, <1>6, <1>7 DEF RoutesInv

LEMMA ClosingRoutes ==
  ASSUME DomainsAssumption, RoutesInv, NEW d \in Domains, connectionsClosed(d)
  PROVE  RoutesInv'
BY UnchangedClients DEF connectionsClosed, RoutesInv, DomainTypes, IsRouted

LEMMA TurnedOffRoutes ==
  ASSUME DomainsAssumption, RoutesInv, queueTurnedOff
  PROVE  RoutesInv'
<1> DEFINE ds == {d \in Domains : domains[d] # NoNetwork}
<1>1. /\ unsetNetworkClientIdForDomain(ds) /\ useRequestQueue' = FALSE
      /\ UNCHANGED <<clientVars, permitted>> BY DEF queueTurnedOff
<1>2. DomainTypes' /\ \A d \in Domains : IsRouted(d)' BY <1>1, Unsetting DEF RoutesInv, DomainTypes
<1> QED BY <1>1, <1>2, UnchangedClients DEF RoutesInv

LEMMA TurnedOnRoutes ==
  ASSUME NetworksAssumption, NoClientAssumption, DomainsAssumption, RoutesInv, queueTurnedOn
  PROVE  RoutesInv'
<1> DEFINE ds == {d \in permitted : domainProxyMap[d] # NoProxy}
           throws == ds # {} /\ clientById(selectedNetworkClientId) = NoClient
           moved == IF throws THEN {} ELSE ds
<1>1. /\ ~useRequestQueue /\ useRequestQueue' = ~throws
      /\ setNetworkClientId(moved, selectedNetworkClientId)
      /\ queriesClients(ds # {})
      /\ permitted' = permitted BY DEF queueTurnedOn
<1>2. /\ moved \in SUBSET Domains /\ moved \subseteq permitted /\ moved \cap Internal = {}
      /\ moved # {} => Exists(selectedNetworkClientId) /\ ~throws
  BY DEF RoutesInv, DomainTypes, IsRouted, Exists
<1>3. useRequestQueue' \in BOOLEAN /\ selectedNetworkClientId \in Ids /\ permitted' \in SUBSET Domains
  BY <1>1 DEF RoutesInv, DomainTypes, RegistryInv, ClientsTypeOK
<1>4. \A d \in Domains : domains[d] = NoNetwork BY <1>1 DEF RoutesInv, IsRouted
<1>5. \A d \in moved : useRequestQueue' /\ d \in permitted' BY <1>1, <1>2
<1>6. RegistryInv' BY <1>1, Querying DEF RoutesInv
<1> HIDE DEF moved, throws, ds
<1>7. DomainTypes' /\ \A d \in Domains : IsRouted(d)' BY <1>1, <1>2, <1>3, <1>4, <1>5, Setting
<1> QED BY <1>6, <1>7 DEF RoutesInv

LEMMA RemovalRoutes ==
  ASSUME NetworksAssumption, NoClientAssumption, DomainsAssumption, RoutesInv,
         NEW id \in Custom, networkRemoved(id)
  PROVE  RoutesInv'
<1> DEFINE settable == {d \in domainsOn(id) : mayHaveNetwork(d, permitted)
                                                /\ canSet(d, selectedNetworkClientId, permitted)}
<1>1. PICK moved \in SUBSET settable : setNetworkClientId(moved, selectedNetworkClientId)
  BY DEF networkRemoved
<1>2. removeNetworkConfiguration(id) /\ UNCHANGED <<useRequestQueue, permitted>>
  BY DEF networkRemoved
<1>3. RegistryInv' BY <1>2, Removing DEF RoutesInv
<1>4. /\ moved \in SUBSET Domains /\ moved \cap Internal = {}
      /\ moved # {} => Exists(selectedNetworkClientId)
      /\ \A d \in moved : useRequestQueue /\ d \in permitted
  BY DEF domainsOn, mayHaveNetwork, canSet, Exists
<1>5. \A d \in Domains : domains[d] # NoNetwork => useRequestQueue /\ d \in permitted
  BY DEF RoutesInv, IsRouted
<1>6. selectedNetworkClientId \in Ids /\ useRequestQueue' \in BOOLEAN /\ permitted' \in SUBSET Domains
  BY <1>2 DEF RoutesInv, DomainTypes, RegistryInv, ClientsTypeOK
<1>7. DomainTypes' /\ \A d \in Domains : IsRouted(d)' BY <1>1, <1>2, <1>4, <1>5, <1>6, Setting
<1> QED BY <1>3, <1>7 DEF RoutesInv

LEMMA ClientsRoutes ==
  ASSUME NetworksAssumption, NoClientAssumption, DomainsAssumption, RoutesInv, clientsChange
  PROVE  RoutesInv'
BY Selecting, Upserting, BackupLoading, LeavingAlone DEF clientsChange, SelectionStep, RoutesInv, domainVars,
   IsRouted, DomainTypes

LEMMA RoutesStep ==
  ASSUME NetworksAssumption, NoClientAssumption, DomainsAssumption, RoutesInv, [Next]_vars
  PROVE  RoutesInv'
<1>1. CASE UNCHANGED vars
  BY <1>1, UnchangedClients DEF vars, domainVars, RoutesInv, DomainTypes, IsRouted
<1>2. CASE Next
  BY <1>2, GrantRoutes, RevocationRoutes, SwitchRoutes, ProxyRoutes, ClosingRoutes, TurnedOffRoutes,
     TurnedOnRoutes, RemovalRoutes, ClientsRoutes DEF Next
<1> QED BY <1>1, <1>2

LEMMA InitialRoutes ==
  ASSUME NetworksAssumption, NoClientAssumption, DomainsAssumption, Init
  PROVE  RoutesInv /\ (Exists(selectedNetworkClientId) => DomainsExist) /\ ConfigurationsHaveClients
<1> DEFINE ds == {d \in permitted : mayHaveNetwork(d, permitted)}
<1>1. /\ permitted \in SUBSET Domains /\ useRequestQueue \in BOOLEAN
      /\ ClientsInitWith(ds # {})
      /\ ds # {} => clientById(selectedNetworkClientId) # NoClient
      /\ domains = [d \in Domains |-> IF d \in ds THEN selectedNetworkClientId ELSE NoNetwork]
      /\ domainProxyMap = [d \in Domains |-> IF d \in ds THEN clientById(selectedNetworkClientId)
                                             ELSE NoProxy] BY DEF Init
<1>2. RegistryInv BY <1>1, InitialRegistry
<1>3. ConfigurationsHaveClients BY <1>1, ConfiguredAtStartup
<1>4. selectedNetworkClientId \in Ids BY <1>2 DEF RegistryInv, ClientsTypeOK
<1>5. ds # {} => /\ clientById(selectedNetworkClientId) \in Client
                 /\ clientById(selectedNetworkClientId).id = selectedNetworkClientId
  BY <1>1, <1>2, <1>4, ClientById
<1>6. \A d \in ds : useRequestQueue /\ d \in permitted \ Internal BY DEF mayHaveNetwork
<1> HIDE DEF ds
<1>7. DomainTypes BY <1>1, <1>4, <1>5 DEF DomainTypes
<1>8. ASSUME NEW d \in Domains
      PROVE  IsRouted(d) BY <1>1, <1>5, <1>6 DEF IsRouted, DomainsAssumption
<1>9. Exists(selectedNetworkClientId) => DomainsExist BY <1>1 DEF Exists, DomainsExist
<1> QED BY <1>2, <1>3, <1>7, <1>8, <1>9 DEF RoutesInv

LEMMA RoutedDomains ==
  ASSUME RoutesInv
  PROVE  TypeOK /\ DomainsArePermitted /\ ProxyRoutesToDomain /\ NoClientLeaks
BY SoundLeaksNothing DEF RoutesInv, RegistryInv, DomainTypes, TypeOK, IsRouted, DomainsArePermitted,
   ProxyRoutesToDomain

(***************************************************************************)
(* Whatever is removed, loaded from a backup, granted, revoked or toggled: *)
(* only dapps that may have a network of their own have one, their proxies *)
(* forward to it, and no network client is lost without being destroyed.   *)
(***************************************************************************)
THEOREM RoutedAlways ==
  Spec => [](TypeOK /\ DomainsArePermitted /\ ProxyRoutesToDomain /\ NoClientLeaks)
<1>1. Init => RoutesInv BY InitialRoutes, NetworksAssumption, NoClientAssumption, DomainsAssumption
<1>2. RoutesInv /\ [Next]_vars => RoutesInv'
  BY RoutesStep, NetworksAssumption, NoClientAssumption, DomainsAssumption
<1>3. RoutesInv => TypeOK /\ DomainsArePermitted /\ ProxyRoutesToDomain /\ NoClientLeaks
  BY RoutedDomains
<1> QED BY <1>1, <1>2, <1>3, PTL DEF Spec

-----------------------------------------------------------------------------
(***************************************************************************)
(* The networks of domains exist, as long as the selected network is not   *)
(* removed and no backup is loaded over the configurations.                *)
(***************************************************************************)

SelectionStays ==
  /\ ~BackupMayBeLoaded
  /\ ~SelectedMayBeRemoved
  /\ InitialSelected \in Custom => InitialConfigurations[InitialSelected] # NoChain

\* Networks go on existing when only the selection changes.
LEMMA SameRegistryExists ==
  ASSUME populatedRegistry' = populatedRegistry, NEW id
  PROVE  Exists(id)' <=> Exists(id)
  BY DEF Exists, clientById, getNetworkClientById

LEMMA SelectingExisting ==
  ASSUME populated', NEW id, getNetworkClientById(id, registry') # NoClient, Selects(id)
  PROVE  Exists(selectedNetworkClientId)'
  BY DEF Exists, clientById, populatedRegistry, Selects

LEMMA SettingOneExists ==
  ASSUME NetworksAssumption, NoClientAssumption, RoutesInv, ExistInv,
         NEW d \in Domains, NEW id \in Ids, NEW granted, setNetworkClientIdForDomain(d, id, granted)
  PROVE  ExistInv'
<1>1. CASE ~mayHaveNetwork(d, granted)
  BY <1>1, UnchangedClients, SameRegistryExists DEF setNetworkClientIdForDomain, RoutesInv, ExistInv,
     DomainsExist, Exists, KeepsSelection
<1>2. CASE mayHaveNetwork(d, granted)
  <2> DEFINE ds == IF canSet(d, id, granted) THEN {d} ELSE {}
  <2>1. setNetworkClientId(ds, id) /\ queriesClients(TRUE) BY <1>2 DEF setNetworkClientIdForDomain
  <2>2. KeepsSelection /\ populatedRegistry' = populatedRegistry /\ ConfigurationsHaveClients'
    BY <2>1, Querying DEF RoutesInv, ExistInv
  <2>3. ds # {} => Exists(id) BY DEF canSet, Exists
  <2> HIDE DEF ds
  <2>4. \A other \in Domains : domains'[other] = IF other \in ds THEN id ELSE domains[other]
    BY <2>1 DEF setNetworkClientId
  <2> QED BY <2>2, <2>3, <2>4, SameRegistryExists DEF ExistInv, DomainsExist, Exists, KeepsSelection
<1> QED BY <1>1, <1>2

\* Steps that take networks from domains, or only read the registry.
LEMMA UnsettingExists ==
  ASSUME ExistInv, KeepsSelection, populatedRegistry' = populatedRegistry, ConfigurationsHaveClients',
         \A d \in Domains : domains'[d] = domains[d] \/ domains'[d] = NoNetwork
  PROVE  ExistInv'
  BY SameRegistryExists DEF ExistInv, DomainsExist, Exists, KeepsSelection

LEMMA PermissionsExist ==
  ASSUME NetworksAssumption, NoClientAssumption, RoutesInv, ExistInv, NEW d \in Domains,
         \/ permissionsGranted(d) \/ permissionsRevoked(d) \/ connectionsClosed(d)
         \/ getProviderAndBlockTracker(d) \/ \E id \in Ids : switchDomain(d, id)
  PROVE  ExistInv'
BY SettingOneExists, UnchangedClients, UnsettingExists, Querying DEF RoutesInv, RegistryInv, ClientsTypeOK,
   permissionsGranted, ExistInv, permissionsRevoked, unsetNetworkClientIdForDomain, connectionsClosed,
   getProviderAndBlockTracker, switchDomain

LEMMA TogglesExist ==
  ASSUME NetworksAssumption, NoClientAssumption, RoutesInv, ExistInv,
         queueTurnedOff \/ queueTurnedOn
  PROVE  ExistInv'
BY UnchangedClients, UnsettingExists, Querying, SameRegistryExists DEF queueTurnedOff,
   unsetNetworkClientIdForDomain, RoutesInv, ExistInv, queueTurnedOn, setNetworkClientId, DomainsExist,
   Exists, KeepsSelection

\* Every domain on a network that is removed can be given the selected one,
\* since that exists and the domain has had a network until then.
LEMMA RemovalExists ==
  ASSUME NetworksAssumption, NoClientAssumption, DomainsAssumption, SelectionStays,
         RoutesInv, ExistInv, NEW id \in Custom, networkRemoved(id)
  PROVE  ExistInv'
<1> DEFINE ds == domainsOn(id)
           settable == {d \in ds : mayHaveNetwork(d, permitted)
                                     /\ canSet(d, selectedNetworkClientId, permitted)}
<1>1. /\ id # selectedNetworkClientId
      /\ removeNetworkConfiguration(id) BY DEF networkRemoved, SelectionStays
<1>2. \E moved \in SUBSET settable :
        /\ settable = ds => moved = ds
        /\ setNetworkClientId(moved, selectedNetworkClientId) BY DEF networkRemoved
<1>3. ASSUME NEW d \in ds
      PROVE  d \in settable
  BY DEF domainsOn, DomainsAssumption, Ids, RoutesInv, IsRouted, mayHaveNetwork, newProxy,
     getNetworkClientIdForDomain, ExistInv, DomainsExist, canSet, Exists
<1>4. settable = ds BY <1>3
<1>5. setNetworkClientId(ds, selectedNetworkClientId) BY <1>2, <1>4
<1>6. \A d \in Domains : /\ domains[d] = id => domains'[d] = selectedNetworkClientId
                         /\ domains[d] # id => domains'[d] = domains[d]
  BY <1>5 DEF setNetworkClientId, domainsOn
<1>7. /\ populated' /\ registry' = [populatedRegistry EXCEPT ![id] = NoClient]
      /\ KeepsSelection BY <1>1, Removing DEF RoutesInv
<1>8. populatedRegistry \in [Custom -> Client \cup {NoClient}]
  BY PopulatedIsSound DEF RoutesInv, Sound
<1>9. ASSUME NEW other \in Ids, other # id, Exists(other)
      PROVE  Exists(other)'
  BY <1>7, <1>8, <1>9 DEF Exists, clientById, getNetworkClientById, populatedRegistry, Ids
<1>10. selectedNetworkClientId \in Ids BY DEF RoutesInv, RegistryInv, ClientsTypeOK
<1>11. Exists(selectedNetworkClientId)'
  BY <1>1, <1>7, <1>9, <1>10 DEF ExistInv, KeepsSelection, Exists
<1>12. DomainsExist'
  <2> SUFFICES ASSUME NEW d \in Domains, domains'[d] # NoNetwork
               PROVE  Exists(domains[d])' BY DEF DomainsExist, Exists
  <2>1. CASE domains[d] = id BY <2>1, <1>6, <1>7, <1>11 DEF KeepsSelection, Exists
  <2>2. CASE domains[d] # id
    BY <2>2, <1>6, <1>9 DEF RoutesInv, DomainTypes, ExistInv, DomainsExist, Exists
  <2> QED BY <2>1, <2>2
<1>13. ConfigurationsHaveClients' BY <1>1, ConfiguredTogether DEF RoutesInv, ExistInv
<1> QED BY <1>11, <1>12, <1>13 DEF ExistInv

LEMMA ClientsExist ==
  ASSUME NetworksAssumption, NoClientAssumption, SelectionStays,
         RoutesInv, ExistInv, clientsChange
  PROVE  ExistInv'
<1>1. domains' = domains BY DEF clientsChange, domainVars
<1>2. CASE SelectionStep
  BY <1>2, Selecting, ConfiguredTogether, <1>1, SameRegistryExists, UnsettingExists, SelectingExisting DEF
     RoutesInv, ExistInv, DomainsExist, Exists
<1>3. ASSUME NEW id \in Custom, NEW chain \in Chains, NEW setActive \in BOOLEAN,
             upsertNetworkConfiguration(id, chain, setActive)
      PROVE  ExistInv'
  <2>1. /\ populated' /\ registry'[id] # NoClient
        /\ \A other \in Custom \ {id} : registry'[other] = populatedRegistry[other]
        /\ Selects(id) \/ KeepsSelection BY <1>3, Upserting DEF RoutesInv
  <2>2. ASSUME NEW other \in Ids, Exists(other)
        PROVE  Exists(other)'
    BY <2>1, <2>2 DEF Exists, clientById, getNetworkClientById, populatedRegistry, Ids, NoClientAssumption
  <2>3. getNetworkClientById(id, registry') # NoClient
    BY <2>1 DEF getNetworkClientById, NetworksAssumption
  <2>4. Exists(selectedNetworkClientId)'
    BY <2>1, <2>3, SelectingExisting, <2>2 DEF KeepsSelection, Exists, ExistInv, RoutesInv, RegistryInv,
       ClientsTypeOK
  <2>5. DomainsExist'
    <3> SUFFICES ASSUME NEW d \in Domains, domains[d] # NoNetwork
                 PROVE  Exists(domains[d])' BY <1>1 DEF DomainsExist, Exists
    <3>1. domains[d] \in Ids /\ Exists(domains[d])
      BY DEF RoutesInv, DomainTypes, ExistInv, DomainsExist, Exists
    <3> QED BY <1>1, <2>2, <3>1 DEF Exists
  <2>6. ConfigurationsHaveClients' BY <1>3, ConfiguredTogether DEF RoutesInv, ExistInv
  <2> QED BY <2>4, <2>5, <2>6 DEF ExistInv
<1> QED BY <1>2, <1>3 DEF clientsChange, SelectionStep, loadBackup, SelectionStays

LEMMA ExistStep ==
  ASSUME NetworksAssumption, NoClientAssumption, DomainsAssumption, SelectionStays,
         RoutesInv, ExistInv, [Next]_vars
  PROVE  ExistInv'
BY UnchangedClients, UnsettingExists, PermissionsExist, TogglesExist, RemovalExists, ClientsExist DEF vars,
   domainVars, RoutesInv, ExistInv, Next

LEMMA InitialExist ==
  ASSUME NetworksAssumption, NoClientAssumption, DomainsAssumption, SelectionStays, Init
  PROVE  ExistInv
<1>1. /\ RoutesInv /\ ConfigurationsHaveClients
      /\ Exists(selectedNetworkClientId) => DomainsExist BY InitialRoutes
<1>2. selectedNetworkClientId = InitialSelected /\ networkConfigurations = InitialConfigurations
  BY DEF Init, ClientsInitWith
<1>3. Exists(selectedNetworkClientId)
  BY <1>1, <1>2, PopulatedIsSound, ClientOfNetwork, ConfiguredFromState DEF Exists, clientById, RoutesInv,
     RegistryInv, ClientsTypeOK, Configures, SelectionStays, getNetworkClientById, NetworksAssumption, Ids
<1> QED BY <1>1, <1>3 DEF ExistInv

(***************************************************************************)
(* When moreover the persisted selection exists, is not removed and no     *)
(* backup is loaded, the network of every dapp exists, and configurations  *)
(* and clients are the same, for any networks, domains, grants and toggles *)
(* and whatever throws half-way through the domains.                       *)
(***************************************************************************)
THEOREM RoutesAlwaysKept ==
  ASSUME SelectionStays
  PROVE  Spec => []RoutesAreKept
<1>1. Init => RoutesInv /\ ExistInv
  BY InitialRoutes, InitialExist, NetworksAssumption, NoClientAssumption, DomainsAssumption, SelectionStays
<1>2. RoutesInv /\ ExistInv /\ [Next]_vars => RoutesInv' /\ ExistInv'
  BY RoutesStep, ExistStep, NetworksAssumption, NoClientAssumption, DomainsAssumption, SelectionStays
<1>3. RoutesInv /\ ExistInv => RoutesAreKept
  BY RoutedDomains DEF ExistInv, RoutesAreKept, DomainsAreUsable, ClientsAreConfigured
<1> QED BY <1>1, <1>2, <1>3, PTL DEF Spec

\* In the run, this is one of the behaviours of what dapps use.
LEMMA NetworksOfDapps == DappsSpec => Spec
<1>1. DappsInit => Init BY DEF DappsInit
<1>2. ASSUME [DappsNext]_dappVars PROVE [Next]_vars
  BY <1>2 DEF DappsNext, networkSteps, listSteps, callSteps, feeSteps, changeSteps, messageManagerSteps,
     tokenSteps, restrictedSteps, logSteps, tradeSteps, dappVars
<1> QED BY <1>1, <1>2, PTL DEF DappsSpec, Spec

(***************************************************************************)
(* The same of the run that checks this, in which grants, removals and     *)
(* toggles of the networks of dapps are one of several parts.              *)
(***************************************************************************)
THEOREM RoutesOfDappsAreKept ==
  ASSUME SelectionStays
  PROVE  DappsSpec => []RoutesAreKept
BY RoutesAlwaysKept, NetworksOfDapps, SelectionStays, PTL

-----------------------------------------------------------------------------

(***************************************************************************)
(* Fees.  A transaction that waits for its user has the fees of one kind,  *)
(* all of them: both of the fees of EIP-1559, or a gas price; and the      *)
(* names of the fees that were asked for, if they are not edited.          *)
(***************************************************************************)
Amounts == Nat \cup {No}
AnyFees == [gasPrice : Amounts, maxFee : Amounts, maxPriority : Amounts,
            type : {"none", "legacy", "accessList", "feeMarket"}]

HasBoth(fees) == fees.gasPrice = No /\ fees.maxFee # No /\ fees.maxPriority # No
HasPrice(fees) == fees.gasPrice # No /\ fees.maxFee = No /\ fees.maxPriority = No

PaidAsAsked(fees, wanted, saved) ==
  IF HasPrice(fees) THEN wanted.gasPrice \in {No, fees.gasPrice}
  ELSE /\ saved # NoFees => fees.maxFee = saved.maxFee /\ fees.maxPriority = saved.maxPriority
       /\ saved = NoFees =>
            /\ wanted.maxFee \in {No, fees.maxFee} /\ wanted.maxPriority \in {No, fees.maxPriority}
            /\ wanted.maxFee = No /\ wanted.maxPriority = No =>
                 wanted.gasPrice \in {No, fees.maxFee} /\ wanted.gasPrice \in {No, fees.maxPriority}

FeesInv ==
  /\ feeParams \in AnyFees /\ feesAsked \in AnyFees /\ savedFees \in SavedFees
  /\ feeStep \in {"added", "estimated"} => feeParams = feesAsked
  /\ feeStep = "none" => gasLimit = NoGas
  /\ feeStep \in {"unapproved", "signed", "replaced", "operation"} =>
       HasBoth(feeParams) \/ HasPrice(feeParams)
  /\ feeStep \in {"signed", "replaced", "operation"} =>
       (feeParams.type = "feeMarket" <=> HasBoth(feeParams))
  /\ feeStep \in {"unapproved", "signed", "operation"} /\ ~feesEdited =>
       PaidAsAsked(feeParams, feesAsked, savedFees)
  /\ ReplacementsPayMore /\ GasCoversEstimate

LEMMA FirstNamedIs ==
  ASSUME NEW fees, NEW n \in Nat, DOMAIN fees = 1..n, NEW i \in 1..n, fees[i] # No,
         \A j \in 1..n : j < i => fees[j] = No
  PROVE  FirstNamed(fees) = fees[i]
<1> DEFINE named == {k \in DOMAIN fees : fees[k] # No}
<1>1. i \in named /\ \A k \in named : i <= k OBVIOUS
<1>2. \A k \in named : k \in Nat OBVIOUS
<1>3. Min(named) \in named /\ \A k \in named : Min(named) <= k
  <2> HIDE DEF named
  <2> QED BY <1>1 DEF Min
<1>4. Min(named) = i BY <1>1, <1>2, <1>3
<1> HIDE DEF named
<1>5. named # {} BY <1>1
<1> QED BY <1>4, <1>5 DEF FirstNamed, named

LEMMA NoneNamed ==
  ASSUME NEW fees, \A k \in DOMAIN fees : fees[k] = No
  PROVE  FirstNamed(fees) = No
BY DEF FirstNamed

LEMMA FirstOfThree ==
  ASSUME NEW a, NEW b, NEW c
  PROVE  FirstNamed(<<a, b, c>>) =
           IF a # No THEN a ELSE IF b # No THEN b ELSE c
<1>1. PICK f : f = <<a, b, c>> OBVIOUS
<1>2. /\ DOMAIN f = 1..3 /\ 3 \in Nat
      /\ f[1] = a /\ f[2] = b /\ f[3] = c BY <1>1
<1>3. \A j \in 1..3 : j = 1 \/ j = 2 \/ j = 3 OBVIOUS
<1>4. CASE a # No BY <1>2, <1>4, <1>3, FirstNamedIs, <1>1
<1>5. CASE a = No /\ b # No
  <2>1. 2 \in 1..3 /\ f[2] # No BY <1>2, <1>5
  <2>2. \A j \in 1..3 : j < 2 => f[j] = No BY <1>2, <1>3, <1>5
  <2>3. FirstNamed(f) = f[2] BY <1>2, <2>1, <2>2, FirstNamedIs
  <2> QED BY <1>1, <1>2, <1>5, <2>3
<1>6. CASE a = No /\ b = No /\ c # No
  <2>1. 3 \in 1..3 /\ f[3] # No BY <1>2, <1>6
  <2>2. \A j \in 1..3 : j < 3 => f[j] = No BY <1>2, <1>3, <1>6
  <2>3. FirstNamed(f) = f[3] BY <1>2, <2>1, <2>2, FirstNamedIs
  <2> QED BY <1>1, <1>2, <1>6, <2>3
<1>7. CASE a = No /\ b = No /\ c = No BY <1>2, <1>3, <1>7, NoneNamed, <1>1
<1> QED BY <1>4, <1>5, <1>6, <1>7

LEMMA FirstOfFour ==
  ASSUME NEW a, NEW b, NEW c, NEW d
  PROVE  FirstNamed(<<a, b, c, d>>) =
           IF a # No THEN a ELSE IF b # No THEN b ELSE IF c # No THEN c ELSE d
<1>1. PICK f : f = <<a, b, c, d>> OBVIOUS
<1>2. /\ DOMAIN f = 1..4 /\ 4 \in Nat
      /\ f[1] = a /\ f[2] = b /\ f[3] = c /\ f[4] = d BY <1>1
<1>3. \A j \in 1..4 : j = 1 \/ j = 2 \/ j = 3 \/ j = 4 OBVIOUS
<1>4. CASE a # No
  <2>1. 1 \in 1..4 /\ f[1] # No BY <1>2, <1>4
  <2>2. \A j \in 1..4 : j < 1 => f[j] = No BY <1>2, <1>3, <1>4
  <2>3. FirstNamed(f) = f[1] BY <1>2, <2>1, <2>2, FirstNamedIs
  <2> QED BY <1>1, <1>2, <1>4, <2>3
<1>5. CASE a = No /\ b # No
  <2>1. 2 \in 1..4 /\ f[2] # No BY <1>2, <1>5
  <2>2. \A j \in 1..4 : j < 2 => f[j] = No BY <1>2, <1>3, <1>5
  <2>3. FirstNamed(f) = f[2] BY <1>2, <2>1, <2>2, FirstNamedIs
  <2> QED BY <1>1, <1>2, <1>5, <2>3
<1>6. CASE a = No /\ b = No /\ c # No
  <2>1. 3 \in 1..4 /\ f[3] # No BY <1>2, <1>6
  <2>2. \A j \in 1..4 : j < 3 => f[j] = No BY <1>2, <1>3, <1>6
  <2>3. FirstNamed(f) = f[3] BY <1>2, <2>1, <2>2, FirstNamedIs
  <2> QED BY <1>1, <1>2, <1>6, <2>3
<1>7. CASE a = No /\ b = No /\ c = No /\ d # No
  <2>1. 4 \in 1..4 /\ f[4] # No BY <1>2, <1>7
  <2>2. \A j \in 1..4 : j < 4 => f[j] = No BY <1>2, <1>3, <1>7
  <2>3. FirstNamed(f) = f[4] BY <1>2, <2>1, <2>2, FirstNamedIs
  <2> QED BY <1>1, <1>2, <1>7, <2>3
<1>8. CASE a = No /\ b = No /\ c = No /\ d = No BY <1>2, <1>3, <1>8, NoneNamed, <1>1
<1> QED BY <1>4, <1>5, <1>6, <1>7, <1>8

LEMMA FirstOfFive ==
  ASSUME NEW a, NEW b, NEW c, NEW d, NEW e
  PROVE  FirstNamed(<<a, b, c, d, e>>) =
           IF a # No THEN a ELSE IF b # No THEN b ELSE IF c # No THEN c ELSE IF d # No THEN d ELSE e
<1>1. PICK f : f = <<a, b, c, d, e>> OBVIOUS
<1>2. /\ DOMAIN f = 1..5 /\ 5 \in Nat
      /\ f[1] = a /\ f[2] = b /\ f[3] = c /\ f[4] = d /\ f[5] = e BY <1>1
<1>3. \A j \in 1..5 : j = 1 \/ j = 2 \/ j = 3 \/ j = 4 \/ j = 5 OBVIOUS
<1>4. CASE a # No
  <2>1. 1 \in 1..5 /\ f[1] # No BY <1>2, <1>4
  <2>2. \A j \in 1..5 : j < 1 => f[j] = No BY <1>2, <1>3, <1>4
  <2>3. FirstNamed(f) = f[1] BY <1>2, <2>1, <2>2, FirstNamedIs
  <2> QED BY <1>1, <1>2, <1>4, <2>3
<1>5. CASE a = No /\ b # No
  <2>1. 2 \in 1..5 /\ f[2] # No BY <1>2, <1>5
  <2>2. \A j \in 1..5 : j < 2 => f[j] = No BY <1>2, <1>3, <1>5
  <2>3. FirstNamed(f) = f[2] BY <1>2, <2>1, <2>2, FirstNamedIs
  <2> QED BY <1>1, <1>2, <1>5, <2>3
<1>6. CASE a = No /\ b = No /\ c # No
  <2>1. 3 \in 1..5 /\ f[3] # No BY <1>2, <1>6
  <2>2. \A j \in 1..5 : j < 3 => f[j] = No BY <1>2, <1>3, <1>6
  <2>3. FirstNamed(f) = f[3] BY <1>2, <2>1, <2>2, FirstNamedIs
  <2> QED BY <1>1, <1>2, <1>6, <2>3
<1>7. CASE a = No /\ b = No /\ c = No /\ d # No
  <2>1. 4 \in 1..5 /\ f[4] # No BY <1>2, <1>7
  <2>2. \A j \in 1..5 : j < 4 => f[j] = No BY <1>2, <1>3, <1>7
  <2>3. FirstNamed(f) = f[4] BY <1>2, <2>1, <2>2, FirstNamedIs
  <2> QED BY <1>1, <1>2, <1>7, <2>3
<1>8. CASE a = No /\ b = No /\ c = No /\ d = No /\ e # No
  <2>1. 5 \in 1..5 /\ f[5] # No BY <1>2, <1>8
  <2>2. \A j \in 1..5 : j < 5 => f[j] = No BY <1>2, <1>3, <1>8
  <2>3. FirstNamed(f) = f[5] BY <1>2, <2>1, <2>2, FirstNamedIs
  <2> QED BY <1>1, <1>2, <1>8, <2>3
<1>9. CASE a = No /\ b = No /\ c = No /\ d = No /\ e = No BY <1>2, <1>3, <1>9, NoneNamed, <1>1
<1> QED BY <1>4, <1>5, <1>6, <1>7, <1>8, <1>9

LEMMA FeeFields ==
  ASSUME NEW fees \in AnyFees
  PROVE  /\ fees.gasPrice \in Amounts /\ fees.maxFee \in Amounts /\ fees.maxPriority \in Amounts
         /\ fees.type \in {"none", "legacy", "accessList", "feeMarket"}
BY DEF AnyFees

LEMMA FeesAreAny ==
  ASSUME FeesAssumption
  PROVE  /\ Fees \subseteq AnyFees /\ NoFees \in AnyFees /\ SavedFees \subseteq AnyFees
         /\ Edits \subseteq AnyFees /\ Prices \subseteq Nat
         /\ \A saved \in SavedFees : saved = NoFees \/ HasBoth(saved)
<1>1. Prices \subseteq Nat /\ Price \subseteq Amounts BY DEF FeesAssumption, Price, Amounts
<1>2. Fees \subseteq AnyFees BY <1>1 DEF Fees, AnyFees
<1>3. NoFees \in AnyFees /\ NoFees.gasPrice = No BY DEF NoFees, AnyFees, Amounts
<1>4. \A f, p \in Prices : BothFees(f, p) \in AnyFees /\ HasBoth(BothFees(f, p))
  BY <1>1 DEF BothFees, AnyFees, Amounts, HasBoth, No
<1> QED BY <1>1, <1>2, <1>3, <1>4 DEF SavedFees, Edits

LEMMA InitialFees == FeesAssumption /\ FeesInit => FeesInv
<1> SUFFICES ASSUME FeesAssumption, FeesInit PROVE FeesInv OBVIOUS
<1>1. gasLimit.estimate = No /\ feeStep = "none" /\ gasLimit = NoGas BY DEF FeesInit, NoGas
<1> QED BY <1>1, FeesAreAny DEF FeesInit, FeesInv, ReplacementsPayMore, GasCoversEstimate

LEMMA AccountSelected == ASSUME FeesInv, accountSelected PROVE FeesInv'
BY DEF FeesInv, accountSelected, ReplacementsPayMore, GasCoversEstimate

LEMMA FeesAdded ==
  ASSUME FeesAssumption, FeesInv, NEW fees \in Fees, addTransaction(fees) PROVE FeesInv'
BY FeesAreAny DEF FeesInv, addTransaction, ReplacementsPayMore, GasCoversEstimate

LEMMA GasUpdated == ASSUME FeesAssumption, FeesInv, updateGas PROVE FeesInv'
BY DEF updateGas, FeesAssumption, estimateGas, addGasBuffer, GasCoversEstimate, FeesInv, ReplacementsPayMore

\* What is suggested has a fee that stands for each that is missing.
LEMMA SuggestionsAre ==
  ASSUME FeesAssumption, NEW fees, NEW eip1559, NEW suggested \in getSuggestedGasFees(fees, eip1559)
  PROVE  /\ suggested \in AnyFees
         /\ \/ IF eip1559 THEN isEIP1559Transaction(fees) ELSE fees.gasPrice # No
            \/ suggested.gasPrice # No
            \/ suggested.maxFee # No /\ suggested.maxPriority # No
BY FeesAreAny DEF PriceOf, AnyFees, Amounts, No, BothFees, defaultEstimates, lineaEstimates,
   getSuggestedGasFees

\* The fees that a transaction waits with are all those of one kind, and as they were asked for.
LEMMA MadeOfOneKind ==
  ASSUME FeesAssumption, NEW fees \in AnyFees, NEW eip1559 \in BOOLEAN, savedFees \in SavedFees,
         NEW suggested \in getSuggestedGasFees(fees, eip1559)
  PROVE  /\ feesOfOneKind(fees, eip1559, suggested) \in AnyFees
         /\ \/ HasBoth(feesOfOneKind(fees, eip1559, suggested))
            \/ HasPrice(feesOfOneKind(fees, eip1559, suggested))
         /\ PaidAsAsked(feesOfOneKind(fees, eip1559, suggested), fees, savedFees)
<1>1. /\ suggested.gasPrice \in Amounts /\ suggested.maxFee \in Amounts
      /\ suggested.maxPriority \in Amounts BY SuggestionsAre, FeeFields
<1>2. /\ fees.gasPrice \in Amounts /\ fees.maxFee \in Amounts /\ fees.maxPriority \in Amounts
      /\ fees.type \in {"none", "legacy", "accessList", "feeMarket"} BY FeeFields
<1>3. savedFees.maxFee \in Amounts /\ savedFees.maxPriority \in Amounts BY FeesAreAny, FeeFields
<1>4. IF savedFees = NoFees THEN savedFees.maxFee = No /\ savedFees.maxPriority = No
      ELSE savedFees.maxFee # No /\ savedFees.maxPriority # No BY FeesAreAny DEF HasBoth, NoFees
<1>5. \/ IF eip1559 THEN fees.maxFee # No /\ fees.maxPriority # No ELSE fees.gasPrice # No
      \/ suggested.gasPrice # No
      \/ suggested.maxFee # No /\ suggested.maxPriority # No
  BY SuggestionsAre DEF isEIP1559Transaction
<1>6. No \in Amounts BY DEF Amounts
<1>7. CASE eip1559
  <2>1. PICK f : f = getMaxFeePerGas(fees, suggested) OBVIOUS
  <2>2. PICK p : p = getMaxPriorityFeePerGas(fees, suggested) OBVIOUS
  <2>3. f = IF savedFees.maxFee # No THEN savedFees.maxFee
            ELSE IF fees.maxFee # No THEN fees.maxFee
            ELSE IF fees.maxPriority = No /\ fees.gasPrice # No THEN fees.gasPrice
            ELSE IF suggested.maxFee # No THEN suggested.maxFee ELSE suggested.gasPrice
    BY <2>1, FirstOfFive DEF getMaxFeePerGas
  <2>4. p = IF savedFees.maxPriority # No THEN savedFees.maxPriority
            ELSE IF fees.maxPriority # No THEN fees.maxPriority
            ELSE IF fees.maxFee = No /\ fees.gasPrice # No THEN fees.gasPrice
            ELSE IF suggested.maxPriority # No THEN suggested.maxPriority ELSE f
    BY <2>1, <2>2, FirstOfFive DEF getMaxPriorityFeePerGas
  <2>5. f \in Amounts /\ p \in Amounts BY <1>1, <1>2, <1>3, <2>3, <2>4
  <2>6. f # No /\ p # No BY <1>4, <1>5, <1>7, <2>3, <2>4
  <2>7. PICK made \in AnyFees :
          /\ made = feesOfOneKind(fees, eip1559, suggested)
          /\ made.maxFee = f /\ made.maxPriority = p /\ made.gasPrice = No
    <3>1. feesOfOneKind(fees, eip1559, suggested) =
            [fees EXCEPT !.maxFee = f, !.maxPriority = p, !.gasPrice = No]
      BY <1>7, <2>1, <2>2 DEF feesOfOneKind
    <3> QED BY <1>6, <2>5, <3>1 DEF AnyFees
  <2>8. HasBoth(made) /\ ~HasPrice(made) BY <2>6, <2>7 DEF HasBoth, HasPrice
  <2>9. savedFees # NoFees => made.maxFee = savedFees.maxFee /\ made.maxPriority = savedFees.maxPriority
    BY <1>4, <2>3, <2>4, <2>7
  <2>10. savedFees = NoFees =>
           /\ fees.maxFee \in {No, made.maxFee} /\ fees.maxPriority \in {No, made.maxPriority}
           /\ fees.maxFee = No /\ fees.maxPriority = No =>
                fees.gasPrice \in {No, made.maxFee} /\ fees.gasPrice \in {No, made.maxPriority}
    BY <1>4, <2>3, <2>4, <2>7
  <2>11. PaidAsAsked(made, fees, savedFees) BY <2>8, <2>9, <2>10 DEF PaidAsAsked
  <2> QED BY <2>7, <2>8, <2>11
<1>8. CASE ~eip1559
  <2>1. PICK g : g = getGasPrice(fees, suggested) OBVIOUS
  <2>2. g = IF fees.gasPrice # No THEN fees.gasPrice
            ELSE IF suggested.maxFee # No THEN suggested.maxFee ELSE suggested.gasPrice
    BY <2>1, FirstOfThree DEF getGasPrice
  <2>3. g \in Amounts /\ g # No /\ fees.gasPrice \in {No, g} BY <1>1, <1>2, <1>5, <1>8, <2>2
  <2>4. PICK made \in AnyFees :
          /\ made = feesOfOneKind(fees, eip1559, suggested)
          /\ made.gasPrice = g /\ made.maxFee = No /\ made.maxPriority = No
    <3>1. feesOfOneKind(fees, eip1559, suggested) =
            [fees EXCEPT !.gasPrice = g, !.maxFee = No, !.maxPriority = No]
      BY <1>8, <2>1 DEF feesOfOneKind
    <3> QED BY <1>6, <2>3, <3>1 DEF AnyFees
  <2> QED BY <2>3, <2>4 DEF HasPrice, PaidAsAsked
<1> QED BY <1>7, <1>8

LEMMA FeesUpdated == ASSUME FeesAssumption, FeesInv, updateGasFees PROVE FeesInv'
<1>1. /\ feeStep = "estimated" /\ feeStep' = "unapproved"
      /\ UNCHANGED <<feesAsked, savedFees, gasLimit, feesEdited, replacement>> BY DEF updateGasFees
<1>2. /\ feeParams \in AnyFees /\ feesAsked = feeParams /\ savedFees \in SavedFees
  BY <1>1 DEF FeesInv
<1>3. PICK eip1559 \in BOOLEAN : eip1559 = (compatible /\ feeParams.type # "legacy") OBVIOUS
<1>4. PICK fees \in AnyFees : fees = feeParams BY <1>2
<1>5. PICK suggested \in getSuggestedGasFees(fees, eip1559) :
        feeParams' = feesOfOneKind(fees, eip1559, suggested) BY <1>3, <1>4 DEF updateGasFees
<1>6. /\ feeParams' \in AnyFees
      /\ HasBoth(feeParams') \/ HasPrice(feeParams')
      /\ PaidAsAsked(feeParams', fees, savedFees) BY <1>2, <1>5, MadeOfOneKind
<1>7. PaidAsAsked(feeParams, feesAsked, savedFees)' BY <1>1, <1>2, <1>4, <1>6 DEF PaidAsAsked
<1>8. (HasBoth(feeParams) \/ HasPrice(feeParams))' BY <1>6 DEF HasBoth, HasPrice
<1>9. ReplacementsPayMore' /\ GasCoversEstimate'
  BY <1>1 DEF FeesInv, ReplacementsPayMore, GasCoversEstimate
<1>10. feesAsked' \in AnyFees /\ savedFees' \in SavedFees /\ feeParams' \in AnyFees
  BY <1>1, <1>2, <1>6
<1>11. feeStep' = "unapproved" BY <1>1
<1> QED BY <1>7, <1>8, <1>9, <1>10, <1>11 DEF FeesInv

\* An edit that is valid leaves the fees of the kind that they are.
LEMMA FeesEdited ==
  ASSUME FeesAssumption, FeesInv, NEW edit \in Edits, updateTransactionGasFees(edit) PROVE FeesInv'
BY FeesAreAny, FeeFields DEF updateTransactionGasFees, FeesInv, AnyFees, merged, HasBoth, HasPrice,
   validateGasFeeParams, ReplacementsPayMore, GasCoversEstimate

\* The envelope becomes that of EIP-1559 with both of its fees; with a gas price it is another.
LEMMA FeesApproved == ASSUME FeesInv, approveTransaction PROVE FeesInv'
BY DEF FeesInv, approveTransaction, AnyFees, HasBoth, HasPrice, isEIP1559Transaction, validateGasFeeParams,
   PaidAsAsked, ReplacementsPayMore, GasCoversEstimate

LEMMA IncreasesPayMore ==
  ASSUME NEW old \in Amounts, NEW offered \in Amounts, increasedFee(old, offered) # No
  PROVE  increasedFee(old, offered) \in Nat /\ paysMore(increasedFee(old, offered), old)
BY DEF getIncreasedPrice, No, Amounts, increasedFee, paysMore

LEMMA FeesReplaced ==
  ASSUME FeesAssumption, FeesInv, NEW offered \in GivenFees, replaceTransaction(offered) PROVE FeesInv'
<1>1. PICK old \in AnyFees : old = feeParams BY DEF FeesInv
<1>2. /\ feeStep = "signed" /\ feeStep' = "replaced" /\ replacement' = replacementFees(old, offered)
      /\ isIncrease(old, offered)
      /\ UNCHANGED <<feesAsked, savedFees, gasLimit, feeParams, feesEdited>>
  BY <1>1 DEF replaceTransaction
<1>3. offered \in AnyFees BY FeesAreAny DEF GivenFees
<1>4. /\ old.gasPrice \in Amounts /\ old.maxFee \in Amounts /\ old.maxPriority \in Amounts
      /\ offered.gasPrice \in Amounts /\ offered.maxFee \in Amounts /\ offered.maxPriority \in Amounts
  BY <1>3, FeeFields
<1>5. PICK g : g = increasedFee(old.gasPrice, offered.gasPrice) OBVIOUS
<1>6. PICK f : f = increasedFee(old.maxFee, offered.maxFee) OBVIOUS
<1>7. PICK p : p = increasedFee(old.maxPriority, offered.maxPriority) OBVIOUS
<1>8. g # No /\ f # No /\ p # No BY <1>2, <1>5, <1>6, <1>7 DEF isIncrease
<1>9. paysMore(g, old.gasPrice) /\ paysMore(f, old.maxFee) /\ paysMore(p, old.maxPriority)
  BY <1>4, <1>5, <1>6, <1>7, <1>8, IncreasesPayMore
<1>10. /\ HasBoth(old) \/ HasPrice(old)
       /\ old.type = "feeMarket" <=> HasBoth(old) BY <1>1, <1>2 DEF FeesInv
<1>11. CASE isMissing(old.maxFee, offered.maxFee) \/ isMissing(old.maxPriority, offered.maxPriority)
  BY <1>2, <1>5, <1>11, <1>10, <1>1, <1>8, <1>9 DEF replacementFees, PriceOf, HasBoth, isMissing,
     ReplacementsPayMore, areOfOneKind, FeesInv, GasCoversEstimate, HasPrice
<1>12. CASE ~isMissing(old.maxFee, offered.maxFee) /\ ~isMissing(old.maxPriority, offered.maxPriority)
  BY <1>2, <1>6, <1>7, <1>12, <1>1, <1>8, <1>9 DEF replacementFees, BothFees, ReplacementsPayMore,
     areOfOneKind, FeesInv, GasCoversEstimate, HasBoth, HasPrice
<1> QED BY <1>11, <1>12

LEMMA OperationFees ==
  ASSUME FeesAssumption, FeesInv, NEW wanted \in Edits \cup {NoFees}, updateOperationFees(wanted)
  PROVE  FeesInv'
<1>1. PICK suggested \in operationSuggestions :
        feeParams' = [BothFees(operationMaxFee(wanted, suggested),
                               operationMaxPriority(wanted, suggested)) EXCEPT !.type = "feeMarket"]
  BY DEF updateOperationFees
<1>2. /\ feeStep = "none" /\ savedFees = NoFees /\ feesAsked' = wanted /\ feeStep' = "operation"
      /\ UNCHANGED <<savedFees, gasLimit, feesEdited, replacement>>
  BY DEF updateOperationFees
<1>3. wanted \in AnyFees
  BY FeesAreAny
<1>4. wanted.gasPrice \in Amounts /\ wanted.maxFee \in Amounts /\ wanted.maxPriority \in Amounts
  BY <1>3, FeeFields
<1>5. suggested.maxFee \in Nat /\ suggested.maxPriority \in Amounts
  <2>1. PICK f \in Prices, p \in Price : suggested = BothFees(f, p)
    BY DEF operationSuggestions
  <2>2. f \in Nat /\ p \in Amounts
    BY FeesAreAny DEF Price, Amounts
  <2> QED BY <2>1, <2>2 DEF BothFees
<1>6. PICK f : f = operationMaxFee(wanted, suggested)
  OBVIOUS
<1>7. PICK p : p = operationMaxPriority(wanted, suggested)
  OBVIOUS
<1>8. f = IF wanted.maxFee # No THEN wanted.maxFee
          ELSE IF wanted.maxPriority = No /\ wanted.gasPrice # No THEN wanted.gasPrice
          ELSE suggested.maxFee
  BY <1>6, FirstOfThree DEF operationMaxFee
<1>9. p = IF wanted.maxPriority # No THEN wanted.maxPriority
          ELSE IF wanted.maxFee = No /\ wanted.gasPrice # No THEN wanted.gasPrice
          ELSE IF suggested.maxPriority # No THEN suggested.maxPriority ELSE f
  BY <1>6, <1>7, FirstOfFour DEF operationMaxPriority
<1>10. f \in Nat /\ p \in Nat
  <2>1. f \in Amounts /\ f # No
    BY <1>4, <1>5, <1>8 DEF Amounts, No
  <2>2. p \in Amounts /\ p # No
    BY <1>4, <1>5, <1>9, <2>1
  <2> QED BY <2>1, <2>2 DEF Amounts
<1>11. /\ feeParams' \in AnyFees /\ feeParams'.gasPrice = No /\ feeParams'.maxFee = f
       /\ feeParams'.maxPriority = p /\ feeParams'.type = "feeMarket"
  BY <1>1, <1>6, <1>7, <1>10 DEF BothFees, AnyFees, Amounts
<1>12. HasBoth(feeParams') /\ ~HasPrice(feeParams')
  BY <1>10, <1>11 DEF HasBoth, HasPrice, No
<1>13. PaidAsAsked(feeParams, feesAsked, savedFees)'
  BY <1>2, <1>8, <1>9, <1>11, <1>12 DEF PaidAsAsked, HasPrice
<1>14. gasLimit'.estimate = No
  BY <1>2 DEF FeesInv, NoGas
<1> QED BY <1>2, <1>3, <1>11, <1>12, <1>13, <1>14
        DEF FeesInv, ReplacementsPayMore, GasCoversEstimate, HasBoth, HasPrice

LEMMA OperationGas == ASSUME FeesAssumption, FeesInv, updateOperationGas PROVE FeesInv'
BY DEF updateOperationGas, FeesAssumption, GasCoversEstimate, FeesInv, ReplacementsPayMore

LEMMA FeesStep == ASSUME FeesAssumption, FeesInv, FeesNext PROVE FeesInv'
BY AccountSelected, OperationGas, GasUpdated, FeesUpdated, FeesApproved, FeesAdded, FeesEdited, OperationFees,
   FeesReplaced DEF FeesNext

LEMMA FeesIdle == ASSUME FeesInv, UNCHANGED feeVars PROVE FeesInv'
BY DEF FeesInv, feeVars, ReplacementsPayMore, GasCoversEstimate, HasBoth, HasPrice, PaidAsAsked

LEMMA FeesFit ==
  ASSUME FeesInv
  PROVE  SignedFeesFit /\ AskedFeesArePaid /\ ReplacementsPayMore /\ GasCoversEstimate
<1>1. SignedFeesFit BY DEF FeesInv, SignedFeesFit, areOfOneKind, HasBoth, HasPrice
<1>2. AskedFeesArePaid
  <2>1. SUFFICES ASSUME feeStep \in {"signed", "operation"}, ~feesEdited
                 PROVE  AskedFeesArePaid BY DEF AskedFeesArePaid
  <2>2. feeParams.type # "feeMarket" <=> HasPrice(feeParams) BY <2>1 DEF FeesInv, HasBoth, HasPrice
  <2>3. PaidAsAsked(feeParams, feesAsked, savedFees) BY <2>1 DEF FeesInv
  <2> QED BY <2>2, <2>3 DEF AskedFeesArePaid, PaidAsAsked
<1> QED BY <1>1, <1>2 DEF FeesInv

(***************************************************************************)
(* In the specification of what the wallet decides and shows, fees change  *)
(* with the steps of their own part only.                                  *)
(***************************************************************************)
LEMMA FeesTogether == ASSUME FeesAssumption PROVE DappsSpec => []FeesInv
<1>1. DappsInit => FeesInv BY InitialFees DEF DappsInit
<1>2. FeesInv /\ [DappsNext]_dappVars => FeesInv'
  BY FeesStep, FeesIdle DEF feeSteps, DappsNext, networkSteps, listSteps, callSteps, changeSteps,
     messageManagerSteps, tokenSteps, restrictedSteps, logSteps, tradeSteps, dappVars
<1> QED BY <1>1, <1>2, PTL DEF DappsSpec

(***************************************************************************)
(* What is signed has the fees of its envelope, and those asked for; what  *)
(* replaces it pays a tenth more; and the limit on gas covers what was     *)
(* estimated: for every set of prices and of estimates.                    *)
(***************************************************************************)
THEOREM FeesAlwaysSound == DappsSpec => []FeesAreSound
<1>1. FeesInv => FeesAreSound BY FeesFit DEF FeesAreSound
<1> QED BY <1>1, FeesTogether, FeesAssumption, PTL
-----------------------------------------------------------------------------

(***************************************************************************)
(* The limit on calls.  A count that is not zero has a timer, for the call *)
(* that made it one has set it, and whatever takes a timer away sets the   *)
(* count to zero.                                                          *)
(***************************************************************************)
LimitInv ==
  /\ requests \in [Limited -> Nat] /\ resets \in [Limited -> Nat]
  /\ \A l \in Limited : requests[l] > 0 => resets[l] > 0

LEMMA InitialLimits == RateLimitInit => LimitInv
BY DEF RateLimitInit, LimitInv

LEMMA ApiCalled ==
  ASSUME LimitInv, NEW api \in Apis, NEW origin \in Origins, callApi(api, origin)
  PROVE  LimitInv'
<1>1. PICK l \in Limited : l = <<api, origin>> BY DEF Limited
<1>2. requests' = [m \in Limited |-> IF m = l THEN requests[l] + 1
                                     ELSE IF m[1] = api THEN 0 ELSE requests[m]]
  BY <1>1 DEF callApi, recordRequest
<1>3. resets' = IF requests[l] = 0 THEN [resets EXCEPT ![l] = @ + 1] ELSE resets
  BY <1>1 DEF callApi, setsTimer
<1> QED BY <1>2, <1>3 DEF LimitInv

LEMMA CountReset ==
  ASSUME LimitInv, NEW api \in Apis, NEW origin \in Origins, resetRequestCount(api, origin)
  PROVE  LimitInv'
<1>1. PICK l \in Limited : l = <<api, origin>> BY DEF Limited
<1>2. requests' = [m \in Limited |-> IF m = l THEN 0 ELSE IF m[1] = api THEN 0 ELSE requests[m]]
  BY <1>1 DEF resetRequestCount, recordRequest
<1>3. resets[l] > 0 /\ resets' = [resets EXCEPT ![l] = @ - 1] BY <1>1 DEF resetRequestCount
<1> QED BY <1>2, <1>3 DEF LimitInv

LEMMA LimitStep == ASSUME LimitInv, RateLimitNext PROVE LimitInv'
BY ApiCalled, CountReset DEF RateLimitNext

LEMMA LimitIdle == ASSUME LimitInv, UNCHANGED rateLimitVars PROVE LimitInv'
BY DEF LimitInv, rateLimitVars

LEMMA NobodyStaysOut == ASSUME LimitInv PROVE NobodyIsShutOut
BY DEF Limited, LimitInv, NobodyIsShutOut

-----------------------------------------------------------------------------

(***************************************************************************)
(* Messages.  A message is saved once its call has left the check, a call  *)
(* that waits has not been told of an end, and one that was told of the    *)
(* first end was told what that end means for a message of its kind.       *)
(***************************************************************************)
Endings == {"rejected", "signed", "errored", "decrypted", "received"}
UnsavedMessages == [kind : MessageKinds, status : {"unsaved"}]
SavedMessages ==
  [kind : MessageKinds, status : {"unapproved", "approved"} \cup Endings, rawSig : {"none", "answer"}]
AllMessages == {NoMessage} \cup UnsavedMessages \cup SavedMessages
CallSteps == {"none", "checking", "added", "listening", "returned", "threw"}

Told(call, m, end) ==
  /\ call = "checking" => m \in UnsavedMessages
  /\ call \in {"added", "listening", "returned"} \/ end # "none" => m \in SavedMessages
  /\ call \in {"none", "checking", "added", "listening"} => end = "none"
  /\ end # "none" => call = IF end = resultStatus(m.kind) THEN "returned" ELSE "threw"
  /\ call = "returned" => m.rawSig = "answer"

MessagesInv ==
  /\ messageOf \in [MessageIds -> AllMessages]
  /\ messageCall \in [MessageIds -> CallSteps]
  /\ firstEnd \in [MessageIds -> {"none"} \cup Endings]
  /\ \A id \in MessageIds : Told(messageCall[id], messageOf[id], firstEnd[id])
  /\ unapprovedState = unapprovedOf(messageOf)
  /\ shownMessages = {id \in unapprovedState : messageOf[id].kind \in SignKinds}

LEMMA NoMessageIsNone ==
  /\ NoMessage \notin UnsavedMessages /\ NoMessage \notin SavedMessages
  /\ UnsavedMessages \cap SavedMessages = {}
BY DEF UnsavedMessages, SavedMessages, MessageKinds, SignKinds, NoMessage, Endings

LEMMA InitialMessages == MessageManagersInit => MessagesInv
<1> SUFFICES ASSUME MessageManagersInit PROVE MessagesInv OBVIOUS
<1>1. unapprovedOf(messageOf) = {} BY DEF MessageManagersInit, unapprovedOf
<1>2. \A id \in MessageIds : Told(messageCall[id], messageOf[id], firstEnd[id])
  BY DEF MessageManagersInit, Told
<1> QED BY <1>1, <1>2 DEF MessageManagersInit, MessagesInv, AllMessages, CallSteps

\* One message changes with its call, and the lists follow it.
LEMMA OneChanges ==
  ASSUME MessagesInv, NEW id \in MessageIds, NEW m \in AllMessages, NEW call \in CallSteps,
         NEW end \in {"none"} \cup Endings, Told(call, m, end),
         messageOf' = [messageOf EXCEPT ![id] = m],
         messageCall' = [messageCall EXCEPT ![id] = call],
         firstEnd' = [firstEnd EXCEPT ![id] = end],
         unapprovedState' = unapprovedOf(messageOf'),
         shownMessages' = {i \in unapprovedState' : messageOf'[i].kind \in SignKinds}
  PROVE  MessagesInv'
BY DEF MessagesInv, Told, unapprovedOf

\* A message that is not saved is in no list, whether it is there or not.
LEMMA UnsavedChanges ==
  ASSUME MessagesInv, NEW id \in MessageIds, NEW m \in {NoMessage} \cup UnsavedMessages,
         messageOf[id] \in {NoMessage} \cup UnsavedMessages,
         messageOf' = [messageOf EXCEPT ![id] = m], UNCHANGED <<unapprovedState, shownMessages>>
  PROVE  /\ unapprovedState' = unapprovedOf(messageOf')
         /\ shownMessages' = {i \in unapprovedState' : messageOf'[i].kind \in SignKinds}
BY DEF MessagesInv, UnsavedMessages, unapprovedOf

LEMMA MessageRequested ==
  ASSUME MessagesInv, NEW id \in MessageIds, NEW params \in MessageParams, messageRequested(id, params)
  PROVE  MessagesInv'
<1>1. firstEnd[id] = "none" /\ messageOf[id] = NoMessage BY DEF messageRequested, MessagesInv, Told
<1>2. UNCHANGED <<unapprovedState, shownMessages, firstEnd>> /\ firstEnd' = [firstEnd EXCEPT ![id] = "none"]
  BY <1>1 DEF messageRequested, MessagesInv
<1>3. CASE validates(params)
  <2>1. newMessage(params.kind) \in UnsavedMessages
    BY DEF newMessage, UnsavedMessages, MessageParams
  <2>2. PICK m \in UnsavedMessages : m = newMessage(params.kind) BY <2>1
  <2>3. /\ messageOf' = [messageOf EXCEPT ![id] = m]
        /\ messageCall' = [messageCall EXCEPT ![id] = "checking"] BY <1>3, <2>2 DEF messageRequested
  <2>4. PICK call \in CallSteps : call = "checking" BY DEF CallSteps
  <2>5. PICK end \in {"none"} \cup Endings : end = "none" OBVIOUS
  <2>6. Told(call, m, end) /\ m \in AllMessages BY <2>4, <2>5 DEF Told, AllMessages
  <2> QED BY <1>1, <1>2, <2>3, <2>4, <2>5, <2>6, UnsavedChanges, OneChanges
<1>4. CASE ~validates(params)
  <2>1. PICK m \in AllMessages : m = NoMessage BY DEF AllMessages
  <2>2. /\ messageOf' = [messageOf EXCEPT ![id] = m]
        /\ messageCall' = [messageCall EXCEPT ![id] = "threw"]
    BY <1>1, <1>4, <2>1 DEF messageRequested, MessagesInv
  <2>3. PICK call \in CallSteps : call = "threw" BY DEF CallSteps
  <2>4. PICK end \in {"none"} \cup Endings : end = "none" OBVIOUS
  <2>5. Told(call, m, end) BY <2>3, <2>4 DEF Told
  <2> QED BY <1>1, <1>2, <2>1, <2>2, <2>3, <2>4, <2>5, UnsavedChanges, OneChanges
<1> QED BY <1>3, <1>4

LEMMA MessageSaved ==
  ASSUME NEW M, saveMessageList(M)
  PROVE  /\ messageOf' = M /\ unapprovedState' = unapprovedOf(messageOf')
         /\ shownMessages' = {i \in unapprovedState' : messageOf'[i].kind \in SignKinds}
BY DEF saveMessageList

LEMMA MessageAdded ==
  ASSUME MessagesInv, NEW id \in MessageIds, messageAdded(id) PROVE MessagesInv'
<1>1. messageOf[id] \in UnsavedMessages /\ firstEnd[id] = "none"
  BY DEF messageAdded, MessagesInv, Told
<1>2. listedMessage(messageOf[id].kind) \in SavedMessages
  BY <1>1 DEF listedMessage, UnsavedMessages, SavedMessages
<1>3. PICK m \in SavedMessages : m = listedMessage(messageOf[id].kind) BY <1>2
<1>4. saveMessageList([messageOf EXCEPT ![id] = m]) BY <1>3 DEF messageAdded, MessagesInv
<1>5. PICK call \in CallSteps : call = "added" BY DEF CallSteps
<1>6. PICK end \in {"none"} \cup Endings : end = "none" OBVIOUS
<1>7. Told(call, m, end) /\ m \in AllMessages BY <1>5, <1>6 DEF Told, AllMessages
<1>8. /\ messageCall' = [messageCall EXCEPT ![id] = call] /\ firstEnd' = [firstEnd EXCEPT ![id] = end]
  BY <1>1, <1>5, <1>6 DEF messageAdded, MessagesInv
<1> QED BY <1>4, <1>7, <1>8, MessageSaved, OneChanges

LEMMA CheckFailed ==
  ASSUME MessagesInv, NEW id \in MessageIds, securityCheckFails(id) PROVE MessagesInv'
BY UnsavedChanges, OneChanges DEF securityCheckFails, MessagesInv, Told, AllMessages, CallSteps

LEMMA NothingOfMessages ==
  ASSUME MessagesInv, UNCHANGED <<messageOf, unapprovedState, shownMessages>>
  PROVE  /\ unapprovedState' = unapprovedOf(messageOf')
         /\ shownMessages' = {i \in unapprovedState' : messageOf'[i].kind \in SignKinds}
BY DEF MessagesInv

LEMMA CallWaits ==
  ASSUME MessagesInv, NEW id \in MessageIds, waitsForFinish(id) PROVE MessagesInv'
BY NothingOfMessages, OneChanges DEF MessagesInv, CallSteps, waitsForFinish, Told

\* A status that the wallet sets, with an answer if it is the one that stands for one.
LEMMA StatusSet ==
  ASSUME MessagesInv, NEW id \in MessageIds, NEW result \in {"none", "answer"},
         NEW status \in {"approved", "rejected", "errored", resultStatus(messageOf[id].kind)},
         status = resultStatus(messageOf[id].kind) => result = "answer",
         messageStatusSet(id, status, result)
  PROVE  MessagesInv'
<1>1. PICK old \in SavedMessages : old = messageOf[id]
  BY DEF messageStatusSet, isSaved, MessagesInv, AllMessages, UnsavedMessages
<1>2. old.kind \in MessageKinds /\ old.rawSig \in {"none", "answer"} BY DEF SavedMessages
<1>3. resultStatus(old.kind) \in {"signed", "decrypted", "received"} BY <1>2 DEF resultStatus
<1>4. PICK rawSig \in {"none", "answer"} : rawSig = IF result = "none" THEN old.rawSig ELSE result
  BY <1>2
<1>5. PICK m : m = [old EXCEPT !.status = status, !.rawSig = rawSig] OBVIOUS
<1>6. m \in SavedMessages /\ m.kind = old.kind /\ m.rawSig = rawSig
  BY <1>1, <1>3, <1>5 DEF Endings, SavedMessages
<1>7. saveMessageList([messageOf EXCEPT ![id] = m])
  BY <1>1, <1>4, <1>5 DEF messageStatusSet, MessagesInv, SavedMessages
<1>8. status \in Endings <=> status \in finishStatuses(old.kind)
  BY <1>1, <1>2, <1>3 DEF Endings, finishStatuses, resultStatus, MessageKinds, SignKinds
<1>9. status \in Endings =>
        outcomeOf(old.kind, status) = IF status = resultStatus(old.kind) THEN "returned" ELSE "threw"
  BY <1>1, <1>2, <1>3 DEF Endings, outcomeOf, resultStatus, MessageKinds, SignKinds
<1>10. Told(messageCall[id], old, firstEnd[id]) BY <1>1 DEF MessagesInv
<1>11. m \in AllMessages BY <1>6 DEF AllMessages
<1>12. CASE messageCall[id] = "listening" /\ status \in Endings
  <2>1. PICK call \in CallSteps : call = IF status = resultStatus(old.kind) THEN "returned" ELSE "threw"
    BY DEF CallSteps
  <2>2. PICK end \in {"none"} \cup Endings : end = status BY <1>12
  <2>3. firstEnd[id] = "none" BY <1>10, <1>12 DEF Told
  <2>4. /\ messageCall' = [messageCall EXCEPT ![id] = call] /\ firstEnd' = [firstEnd EXCEPT ![id] = end]
    BY <1>1, <1>8, <1>9, <1>12, <2>1, <2>2, <2>3 DEF messageStatusSet, Endings
  <2>5. end \in {"rejected", "errored", resultStatus(m.kind)} BY <1>1, <1>6, <1>12, <2>2 DEF Endings
  <2>6. call = "returned" => m.rawSig = "answer" BY <1>1, <1>4, <1>6, <2>1
  <2>7. Told(call, m, end) BY <1>6, <2>1, <2>2, <2>5, <2>6 DEF Told
  <2> QED BY <1>7, <1>11, <2>4, <2>7, MessageSaved, OneChanges
<1>13. CASE ~(messageCall[id] = "listening" /\ status \in Endings)
  <2>1. PICK call \in CallSteps : call = messageCall[id] BY DEF MessagesInv
  <2>2. PICK end \in {"none"} \cup Endings : end = firstEnd[id] BY DEF MessagesInv
  <2>3. UNCHANGED <<messageCall, firstEnd>> BY <1>1, <1>8, <1>13 DEF messageStatusSet, Endings
  <2>4. messageCall' = [messageCall EXCEPT ![id] = call] /\ firstEnd' = [firstEnd EXCEPT ![id] = end]
    BY <2>1, <2>2, <2>3 DEF MessagesInv
  <2>5. old \notin UnsavedMessages BY NoMessageIsNone
  <2>6. old.rawSig = "answer" => m.rawSig = "answer" BY <1>4, <1>6
  <2>7. Told(call, m, end) BY <1>6, <1>10, <2>1, <2>2, <2>5, <2>6 DEF Told
  <2> QED BY <1>7, <1>11, <2>4, <2>7, MessageSaved, OneChanges
<1> QED BY <1>12, <1>13

LEMMA StatusesOfResults ==
  ASSUME NEW kind PROVE resultStatus(kind) \notin {"approved", "rejected", "errored"}
BY DEF resultStatus

LEMMA ResultSet ==
  ASSUME MessagesInv, NEW id \in MessageIds, resultSet(id) PROVE MessagesInv'
<1>1. PICK old \in SavedMessages : old = messageOf[id]
  BY DEF resultSet, isSaved, MessagesInv, AllMessages, UnsavedMessages
<1>2. PICK m : m = [old EXCEPT !.rawSig = "answer"] OBVIOUS
<1>3. m \in SavedMessages /\ m.kind = old.kind /\ m.rawSig = "answer" /\ m \in AllMessages
  BY <1>2 DEF SavedMessages, AllMessages
<1>4. saveMessageList([messageOf EXCEPT ![id] = m]) BY <1>1, <1>2 DEF resultSet, MessagesInv
<1>5. PICK call \in CallSteps : call = messageCall[id] BY DEF MessagesInv
<1>6. PICK end \in {"none"} \cup Endings : end = firstEnd[id] BY DEF MessagesInv
<1>7. messageCall' = [messageCall EXCEPT ![id] = call] /\ firstEnd' = [firstEnd EXCEPT ![id] = end]
  BY <1>5, <1>6 DEF resultSet, MessagesInv
<1>8. Told(call, old, end) BY <1>1, <1>5, <1>6 DEF MessagesInv
<1>9. Told(call, m, end) BY <1>3, <1>8, NoMessageIsNone DEF Told
<1> QED BY <1>3, <1>4, <1>7, <1>9, MessageSaved, OneChanges

LEMMA AllRejected == ASSUME MessagesInv, allRejected PROVE MessagesInv'
BY StatusesOfResults, NoMessageIsNone, MessageSaved DEF allRejected, MessagesInv, unapprovedOf, AllMessages,
   UnsavedMessages, SavedMessages, Endings, Told, CallSteps

LEMMA MessagesIdle ==
  ASSUME MessagesInv, UNCHANGED <<messageOf, messageCall, unapprovedState, shownMessages, firstEnd>>
  PROVE  MessagesInv'
BY DEF MessagesInv, Told, unapprovedOf

LEMMA MessagesStep == ASSUME MessagesInv, MessageManagersNext PROVE MessagesInv'
BY StatusesOfResults, StatusSet, MessagesIdle, MessageRequested, MessageAdded, CheckFailed, CallWaits,
   ResultSet, AllRejected DEF messageApproved, messageDenied, messageErrored, messageAnswered, chainSwitches,
   MessageManagersNext

LEMMA MessagesAnswered == ASSUME MessagesInv PROVE MessagesAreAnswered
<1> SUFFICES ASSUME NEW id \in MessageIds
             PROVE  /\ messageCall[id] = "listening" => firstEnd[id] = "none"
                    /\ firstEnd[id] # "none" =>
                         messageCall[id] = IF firstEnd[id] = resultStatus(messageOf[id].kind)
                                           THEN "returned" ELSE "threw"
                    /\ messageCall[id] = "returned" => messageOf[id].rawSig = "answer"
  BY DEF MessagesInv, MessagesAreAnswered
<1>1. Told(messageCall[id], messageOf[id], firstEnd[id]) BY DEF MessagesInv
<1> QED BY <1>1 DEF Told

-----------------------------------------------------------------------------

(***************************************************************************)
(* Calls of methods.  One that runs holds the caveats that the permission  *)
(* had when it was called, all of which the running version decorates; an  *)
(* upgrade ends it.  Caveats only take away from a result, so that what    *)
(* one of them left out is not let in by the next.                         *)
(***************************************************************************)
IsWithin(result, caveat) ==
  IF caveat.type = "values" THEN Range(result) \subseteq caveat.allows
  ELSE Cardinality(DOMAIN result) <= caveat.most

CallIsRight(call) ==
  /\ call.step \in {"running", "answered"} =>
       /\ call.caveats \in CaveatLists /\ call.caveats # NoCaveats
       /\ \A i \in DOMAIN call.caveats : call.caveats[i].type \in wallet.decorated
       /\ hasType(call.target, "method")
  /\ call.step = "answered" =>
       \A i \in DOMAIN call.caveats : IsWithin(call.result, call.caveats[i])
  /\ call.step = "endowed" => call.caveats # NoCaveats /\ hasType(call.target, "endowment")

MethodsInv ==
  /\ wallet \in Versions
  /\ given \in [Callers -> [Capabilities -> CaveatLists \cup {NoCaveats}]]
  /\ methodCalls = [c \in MethodCalls |-> methodCalls[c]]
  /\ \A c \in MethodCalls : CallIsRight(methodCalls[c])

LEMMA InitialMethods == RestrictedInit => MethodsInv
<1> SUFFICES ASSUME RestrictedInit PROVE MethodsInv OBVIOUS
<1>1. \A c \in MethodCalls : methodCalls[c].step = "idle" BY DEF RestrictedInit, IdleMethodCall
<1> QED BY <1>1 DEF RestrictedInit, MethodsInv, CallIsRight

\* A list of caveats has two of them at most, and each is of one of three types.
LEMMA CaveatListsAre ==
  ASSUME NEW caveats \in CaveatLists
  PROVE  /\ \/ DOMAIN caveats = {} /\ Len(caveats) = 0
            \/ DOMAIN caveats = {1} /\ Len(caveats) = 1
            \/ DOMAIN caveats = {1, 2} /\ Len(caveats) = 2
         /\ \A i \in DOMAIN caveats : caveats[i] \in Caveats
BY DEF CaveatLists

LEMMA CaveatsAre ==
  ASSUME NEW caveat \in Caveats
  PROVE  caveat.type \in {"values", "first", "plain"} /\ (caveat.type = "first" => caveat.most = 1)
BY DEF Caveats, onlyValues, onlyFirst, plainCaveat

\* What a caveat leaves is within it, and is a part of what there was.
LEMMA RestrictLeaves ==
  ASSUME NEW caveat \in Caveats, caveat.type \in {"values", "first"}, caveat.type \in wallet.decorated,
         NEW result, DOMAIN result \subseteq {1, 2}
  PROVE  /\ DOMAIN restrict(result, caveat) \subseteq DOMAIN result
         /\ \A i \in DOMAIN restrict(result, caveat) : restrict(result, caveat)[i] = result[i]
         /\ IsWithin(restrict(result, caveat), caveat)
<1>1. restrict(result, caveat) = [i \in letsThrough(caveat, result) |-> result[i]]
  BY DEF restrict, Restrict
<1>2. PICK left : left = letsThrough(caveat, result) OBVIOUS
<1>3. left \subseteq DOMAIN result BY <1>2 DEF letsThrough
<1>4. PICK new : new = [i \in left |-> result[i]] /\ new = restrict(result, caveat) BY <1>1, <1>2
<1>5. CASE caveat.type = "values" BY <1>2, <1>5, <1>4, <1>3 DEF letsThrough, Range, IsWithin
<1>6. CASE caveat.type = "first"
  <2>1. caveat.most = 1 BY <1>6, CaveatsAre
  <2>2. ~(1 \in left /\ 2 \in left)
    <3> SUFFICES ASSUME 1 \in left, 2 \in left PROVE FALSE OBVIOUS
    <3>1. Cardinality({j \in DOMAIN result : j < 2}) < 1 BY <1>2, <1>6, <2>1 DEF letsThrough
    <3>2. {j \in DOMAIN result : j < 2} = {1} BY <1>3
    <3>3. Cardinality({1}) = 1 BY FS_Singleton
    <3> QED BY <3>1, <3>2, <3>3
  <2>3. left = {} \/ \E i \in left : left = {i} BY <1>3, <2>2
  <2>4. Cardinality(left) <= 1
    <3>1. ASSUME left = {} PROVE Cardinality(left) <= 1 BY FS_EmptySet, <3>1
    <3>2. ASSUME NEW i \in left, left = {i} PROVE Cardinality(left) <= 1
      <4>1. Cardinality({i}) = 1 BY FS_Singleton
      <4> QED BY <3>2, <4>1
    <3> QED BY <2>3, <3>1, <3>2
  <2> QED BY <1>3, <1>4, <1>6, <2>1, <2>4 DEF IsWithin
<1> QED BY <1>5, <1>6

\* What is left of a part is within whatever the whole was within.
LEMMA PartIsWithin ==
  ASSUME NEW caveat \in Caveats, caveat.type \in {"values", "first"}, NEW result, NEW less,
         DOMAIN result \subseteq {1, 2}, DOMAIN less \subseteq DOMAIN result,
         \A i \in DOMAIN less : less[i] = result[i], IsWithin(result, caveat)
  PROVE  IsWithin(less, caveat)
<1>1. CASE caveat.type = "values" BY <1>1 DEF IsWithin, Range
<1>2. CASE caveat.type = "first"
  <2>1. IsFiniteSet(DOMAIN result)
    <3>1. IsFiniteSet({1, 2})
      <4>1. IsFiniteSet(1 .. 2)
        <5>1. 1 \in Int /\ 2 \in Int OBVIOUS
        <5> QED BY <5>1, FS_Interval, Zenon
      <4>2. 1 .. 2 = {1, 2} OBVIOUS
      <4> QED BY <4>1, <4>2
    <3> QED BY <3>1, FS_Subset
  <2>2. Cardinality(DOMAIN less) <= Cardinality(DOMAIN result) BY <2>1, FS_Subset
  <2>3. Cardinality(DOMAIN result) \in Nat /\ Cardinality(DOMAIN less) \in Nat /\ caveat.most = 1
    BY <1>2, <2>1, FS_Subset, FS_CardinalityType, CaveatsAre
  <2> QED BY <1>2, <2>2, <2>3 DEF IsWithin
<1> QED BY <1>1, <1>2

\* The positions of a result are looked at once for each caveat.
LEMMA DecoratedIs ==
  ASSUME NEW caveats \in CaveatLists, NEW result
  PROVE  /\ Len(caveats) = 0 => decorated(result, caveats) = result
         /\ Len(caveats) = 1 => decorated(result, caveats) = restrict(result, caveats[1])
         /\ Len(caveats) = 2 =>
              decorated(result, caveats) = restrict(restrict(result, caveats[1]), caveats[2])
<1> DEFINE Step(f, n) == IF n = 0 THEN result ELSE restrict(f[n - 1], caveats[n])
           IsFold(f) == f = [n \in 0 .. Len(caveats) |-> Step(f, n)]
           Fold == CHOOSE f : IsFold(f)
           Explicit == [n \in 0 .. Len(caveats) |->
                          IF n = 0 THEN result
                          ELSE IF n = 1 THEN restrict(result, caveats[1])
                          ELSE restrict(restrict(result, caveats[1]), caveats[2])]
<1>1. Len(caveats) \in {0, 1, 2} BY CaveatListsAre
<1>2. decorated(result, caveats) = Fold[Len(caveats)] BY DEF decorated
<1>3. IsFold(Explicit) BY <1>1
<1>4. IsFold(Fold) BY <1>3
<1>5. \A n \in 0 .. Len(caveats) : Fold[n] = Step(Fold, n) BY <1>4
<1>6. PICK f : f = Fold OBVIOUS
<1>7. f[0] = result BY <1>1, <1>5, <1>6
<1>8. Len(caveats) >= 1 => f[1] = restrict(f[0], caveats[1]) BY <1>1, <1>5, <1>6
<1>9. Len(caveats) = 2 => f[2] = restrict(f[1], caveats[2]) BY <1>1, <1>5, <1>6
<1>10. decorated(result, caveats) = f[Len(caveats)] BY <1>2, <1>6
<1> HIDE DEF Fold, IsFold, Step, Explicit
<1>11. ASSUME Len(caveats) = 0 PROVE decorated(result, caveats) = result BY <1>7, <1>10, <1>11
<1>12. ASSUME Len(caveats) = 1 PROVE decorated(result, caveats) = restrict(result, caveats[1])
  BY <1>7, <1>8, <1>10, <1>12
<1>13. ASSUME Len(caveats) = 2
       PROVE  decorated(result, caveats) = restrict(restrict(result, caveats[1]), caveats[2])
  BY <1>7, <1>8, <1>13, <1>9, <1>10
<1> QED BY <1>11, <1>12, <1>13

LEMMA CallsChange ==
  ASSUME MethodsInv, NEW c \in MethodCalls, NEW call, CallIsRight(call),
         methodCalls' = [methodCalls EXCEPT ![c] = call], UNCHANGED <<wallet, given>>
  PROVE  MethodsInv'
BY DEF MethodsInv, CallIsRight, hasType

LEMMA CallIsRefused == ASSUME MethodsInv, NEW c \in MethodCalls, refused(c) PROVE MethodsInv'
BY CallsChange DEF CallIsRight, refused

LEMMA CallIsPassedOn == ASSUME MethodsInv, NEW c \in MethodCalls, unrestrictedCalled(c) PROVE MethodsInv'
BY CallsChange DEF CallIsRight, unrestrictedCalled

LEMMA PermissionIs ==
  ASSUME MethodsInv, NEW o \in Callers, NEW t \in Capabilities, hasPermission(o, t)
  PROVE  given[o][t] \in CaveatLists /\ given[o][t] # NoCaveats
BY DEF MethodsInv, hasPermission

LEMMA MethodIsCalled ==
  ASSUME MethodsInv, NEW c \in MethodCalls, NEW o \in Callers, NEW method \in Capabilities,
         methodCalled(c, o, method)
  PROVE  MethodsInv'
BY CallIsRefused, PermissionIs, CallsChange DEF decorates, CallIsRight, methodCalled

LEMMA EndowmentsAreGot ==
  ASSUME MethodsInv, NEW c \in MethodCalls, NEW o \in Callers, NEW t \in Capabilities,
         getEndowments(c, o, t)
  PROVE  MethodsInv'
BY CallIsRefused, CallsChange DEF hasPermission, CallIsRight, getEndowments

\* What is left of a result is within every caveat through which it went.
LEMMA DecoratedIsWithin ==
  ASSUME NEW caveats \in CaveatLists, \A i \in DOMAIN caveats : caveats[i].type \in wallet.decorated,
         wallet.decorated \subseteq {"values", "first"}, NEW result, DOMAIN result \subseteq {1, 2}
  PROVE  \A i \in DOMAIN caveats : IsWithin(decorated(result, caveats), caveats[i])
BY CaveatListsAre, RestrictLeaves, DecoratedIs, PartIsWithin

LEMMA MethodIsAnswered ==
  ASSUME RestrictedAssumption, MethodsInv, NEW c \in MethodCalls,
         NEW result \in {<<>>, <<"a", "b">>}, methodEnded(c, result)
  PROVE  MethodsInv'
<1>1. PICK call : call = methodCalls[c] OBVIOUS
<1>2. call.step = "running" /\ CallIsRight(call) BY <1>1 DEF methodEnded, MethodsInv
<1>3. /\ call.caveats \in CaveatLists /\ call.caveats # NoCaveats /\ hasType(call.target, "method")
      /\ \A i \in DOMAIN call.caveats : call.caveats[i].type \in wallet.decorated
  BY <1>2 DEF CallIsRight
<1>4. PICK caveats \in CaveatLists : caveats = call.caveats BY <1>3
<1>5. wallet.decorated \subseteq {"values", "first"} BY DEF RestrictedAssumption, MethodsInv
<1>6. DOMAIN result \subseteq {1, 2} OBVIOUS
<1>7. PICK left : left = decorated(result, caveats) OBVIOUS
<1>8. \A i \in DOMAIN caveats : IsWithin(left, caveats[i])
  BY <1>3, <1>4, <1>5, <1>6, <1>7, DecoratedIsWithin
<1>9. PICK new : new = [step |-> "answered", origin |-> call.origin, target |-> call.target,
                        caveats |-> caveats, result |-> left] OBVIOUS
<1>10. CallIsRight(new) BY <1>3, <1>4, <1>8, <1>9 DEF CallIsRight
<1>11. methodCalls' = [methodCalls EXCEPT ![c] = new] /\ UNCHANGED <<wallet, given>>
  BY <1>1, <1>4, <1>7, <1>9 DEF methodEnded
<1> QED BY <1>10, <1>11, CallsChange

LEMMA PermissionsChange ==
  ASSUME MethodsInv, NEW o \in Callers, NEW t \in Capabilities,
         NEW caveats \in CaveatLists \cup {NoCaveats},
         given' = [given EXCEPT ![o][t] = caveats], UNCHANGED <<wallet, methodCalls>>
  PROVE  MethodsInv'
BY DEF MethodsInv, CallIsRight, hasType

LEMMA WalletIsUpgraded == ASSUME MethodsInv, NEW v \in Versions, upgraded(v) PROVE MethodsInv'
BY DEF upgraded, IdleMethodCall, CallIsRight, MethodsInv

LEMMA MethodsStep == ASSUME RestrictedAssumption, MethodsInv, RestrictedNext PROVE MethodsInv'
BY PermissionsChange, CallIsRefused, MethodIsCalled, EndowmentsAreGot, CallIsPassedOn, MethodIsAnswered,
   WalletIsUpgraded DEF permissionIsGiven, permissionIsRevoked, methodFailed, RestrictedNext

LEMMA MethodsIdle == ASSUME MethodsInv, UNCHANGED methodVars PROVE MethodsInv'
BY DEF MethodsInv, methodVars, CallIsRight, hasType

LEMMA CallsStayRestricted == ASSUME RestrictedAssumption, MethodsInv PROVE CallsAreRestricted
<1> SUFFICES ASSUME NEW c \in MethodCalls
             PROVE  LET call == methodCalls[c] IN
                    /\ call.step = "answered" =>
                         /\ call.caveats # NoCaveats
                         /\ \A i \in DOMAIN call.caveats :
                              LET caveat == call.caveats[i] IN
                              CASE caveat.type = "values" -> Range(call.result) \subseteq caveat.allows
                                [] caveat.type = "first" -> Cardinality(DOMAIN call.result) <= caveat.most
                                [] OTHER -> FALSE
                         /\ hasType(call.target, "method")
                    /\ call.step = "endowed" => call.caveats # NoCaveats /\ hasType(call.target, "endowment")
  BY DEF CallsAreRestricted
<1>1. PICK call : call = methodCalls[c] OBVIOUS
<1>2. CallIsRight(call) BY <1>1 DEF MethodsInv
<1>3. wallet.decorated \subseteq {"values", "first"} BY DEF RestrictedAssumption, MethodsInv
<1>4. ASSUME call.step = "answered", NEW i \in DOMAIN call.caveats
      PROVE  CASE call.caveats[i].type = "values" -> Range(call.result) \subseteq call.caveats[i].allows
               [] call.caveats[i].type = "first" -> Cardinality(DOMAIN call.result) <= call.caveats[i].most
               [] OTHER -> FALSE BY <1>2, <1>3, <1>4 DEF CallIsRight, IsWithin
<1>5. call.step = "answered" => call.caveats # NoCaveats /\ hasType(call.target, "method")
  BY <1>2 DEF CallIsRight
<1>6. call.step = "endowed" => call.caveats # NoCaveats /\ hasType(call.target, "endowment")
  BY <1>2 DEF CallIsRight
<1> QED BY <1>1, <1>4, <1>5, <1>6

-----------------------------------------------------------------------------

(***************************************************************************)
(* The log of calls.  Calls are listed in the order in which they came,    *)
(* all of the noticed ones but those that as many later ones as the log    *)
(* holds have pushed out; and the history of an origin has, for each       *)
(* thing, a time that is not before any answer that gave it.               *)
(***************************************************************************)
LogEntries == [call : LoggedCalls, success : {"open", "yes", "no"}]
AskedCalls == [step : {"asked"}, origin : Callers, direct : BOOLEAN, requested : SUBSET LoggedMethods]
AnsweredCalls ==
  [step : {"answered"}, origin : Callers, success : BOOLEAN, gave : SUBSET Things, answered : Nat]
OtherCalls == [step : {"idle", "unnoticed"}]

IsNoticed(call) == call.step \in {"asked", "answered"}
SaysOf(call) == IF call.step = "asked" THEN "open" ELSE IF call.success THEN "yes" ELSE "no"

LogTypes ==
  /\ permissionLog \in Seq(LogEntries)
  /\ logged \in [LoggedCalls -> AskedCalls \cup AnsweredCalls \cup OtherCalls]
  /\ permissionHistory \in [Callers -> [Things -> Nat]]
  /\ logTime \in Nat

LogIsTrue ==
  \A i \in 1..Len(permissionLog) :
    /\ IsNoticed(logged[permissionLog[i].call])
    /\ permissionLog[i].success = SaysOf(logged[permissionLog[i].call])

LogIsOrdered ==
  \A i, j \in 1..Len(permissionLog) : i < j => permissionLog[i].call < permissionLog[j].call

LogIsLast ==
  /\ Len(permissionLog) <= LogLimit
  /\ \A c \in LoggedCalls : IsNoticed(logged[c]) =>
       \/ \E i \in 1..Len(permissionLog) : permissionLog[i].call = c
       \/ Len(permissionLog) = LogLimit /\ \A i \in 1..Len(permissionLog) : c < permissionLog[i].call

CallsComeInOrder ==
  \A c, d \in LoggedCalls : c < d /\ logged[c].step = "idle" => logged[d].step = "idle"

HistoryIsLast ==
  /\ \A c \in LoggedCalls : logged[c].step = "answered" =>
       /\ logged[c].answered < logTime
       /\ \A t \in logged[c].gave : permissionHistory[logged[c].origin][t] >= logged[c].answered
  /\ \A o \in Callers, t \in LoggedMethods :
       \/ permissionHistory[o][t] = 0
       \/ \E c \in LoggedCalls : /\ logged[c].step = "answered" /\ logged[c].origin = o
                                 /\ t \in logged[c].gave /\ logged[c].answered = permissionHistory[o][t]

LogInv ==
  LogTypes /\ LogIsTrue /\ LogIsOrdered /\ LogIsLast /\ CallsComeInOrder /\ HistoryIsLast

LEMMA InitialLog == RestrictedAssumption /\ LogInit => LogInv
<1> SUFFICES ASSUME RestrictedAssumption, LogInit PROVE LogInv OBVIOUS
<1>1. permissionLog \in Seq(LogEntries) /\ Len(permissionLog) = 0 BY DEF LogInit
<1>2. \A c \in LoggedCalls : logged[c] = [step |-> "idle"] /\ logged[c].step = "idle" BY DEF LogInit
<1>3. LogTypes BY <1>1 DEF LogInit, LogTypes, OtherCalls
<1>4. 0 <= LogLimit BY DEF RestrictedAssumption
<1>5. HistoryIsLast BY <1>2 DEF Things, LogInit, HistoryIsLast
<1> QED
  BY <1>1, <1>2, <1>3, <1>4, <1>5 DEF LogInv, LogIsTrue, LogIsOrdered, LogIsLast, CallsComeInOrder, IsNoticed

LEMMA EntryIs ==
  ASSUME LogTypes, NEW i \in 1..Len(permissionLog)
  PROVE  /\ permissionLog[i] \in LogEntries /\ permissionLog[i].call \in LoggedCalls
         /\ permissionLog[i].call \in Nat
<1>1. permissionLog[i] \in LogEntries BY ElementOfSeq DEF LogTypes
<1> QED BY <1>1 DEF LogEntries, LoggedCalls

\* A call that is noticed is the last of the log, and the first may fall out of it.
LEMMA RequestLogged ==
  ASSUME RestrictedAssumption, LogInv, NEW c \in LoggedCalls, NEW call \in AskedCalls,
         logged[c].step = "idle", logged' = [logged EXCEPT ![c] = call],
         permissionLog' = LET longer == Append(permissionLog, [call |-> c, success |-> "open"]) IN
                          IF Len(longer) > LogLimit THEN Tail(longer) ELSE longer,
         \A d \in 1..(c - 1) : logged[d].step # "idle",
         UNCHANGED <<permissionHistory, logTime>>
  PROVE  LogInv'
<1> DEFINE n == Len(permissionLog)
<1>1. /\ n \in Nat /\ n <= LogLimit /\ LogLimit \in Nat /\ LogLimit > 0 /\ c \in Nat
      /\ permissionLog \in Seq(LogEntries)
  BY LenProperties DEF LogInv, LogTypes, LogIsLast, RestrictedAssumption, LoggedCalls
<1>2. PICK longer : longer = Append(permissionLog, [call |-> c, success |-> "open"]) OBVIOUS
<1>3. /\ longer \in Seq(LogEntries) /\ Len(longer) = n + 1
      /\ \A i \in 1..n : longer[i] = permissionLog[i]
      /\ longer[n + 1] = [call |-> c, success |-> "open"]
  BY <1>1, <1>2, AppendProperties DEF LogEntries
<1>4. /\ call.step = "asked" /\ logged'[c] = call
      /\ \A d \in LoggedCalls : d # c => logged'[d] = logged[d] BY DEF AskedCalls, LogInv, LogTypes
<1>5. \A i \in 1..n : /\ permissionLog[i].call \in LoggedCalls /\ permissionLog[i].call < c
                      /\ IsNoticed(logged[permissionLog[i].call])
  <2> SUFFICES ASSUME NEW i \in 1..n PROVE permissionLog[i].call \in LoggedCalls
                        /\ permissionLog[i].call < c /\ IsNoticed(logged[permissionLog[i].call])
    OBVIOUS
  <2>1. PICK d \in LoggedCalls : d = permissionLog[i].call /\ d \in Nat BY EntryIs DEF LogInv
  <2>2. IsNoticed(logged[d]) BY <2>1 DEF LogInv, LogIsTrue
  <2>3. logged[d].step # "idle" BY <2>2 DEF IsNoticed
  <2>4. ~(c < d) /\ c # d BY <2>3 DEF LogInv, CallsComeInOrder
  <2> QED BY <1>1, <2>1, <2>2, <2>4
<1>6. \A i \in 1..(n + 1) :
        /\ longer[i].call \in LoggedCalls
        /\ IsNoticed(logged'[longer[i].call])
        /\ longer[i].success = SaysOf(logged'[longer[i].call])
  BY <1>5, <1>1, <1>4, <1>3 DEF LogInv, LogIsTrue, IsNoticed, SaysOf
<1>7. \A i, j \in 1..(n + 1) : i < j => longer[i].call < longer[j].call
  <2> SUFFICES ASSUME NEW i \in 1..(n + 1), NEW j \in 1..(n + 1), i < j
               PROVE  longer[i].call < longer[j].call OBVIOUS
  <2>1. i \in 1..n /\ (j \in 1..n \/ j = n + 1) BY <1>1
  <2>2. CASE j \in 1..n BY <1>3, <2>1, <2>2 DEF LogInv, LogIsOrdered
  <2>3. CASE j = n + 1 BY <1>3, <1>5, <2>1, <2>3
  <2> QED BY <2>1, <2>2, <2>3
<1>8. \A d \in LoggedCalls : IsNoticed(logged'[d]) =>
        \/ \E i \in 1..(n + 1) : longer[i].call = d
        \/ n = LogLimit /\ \A i \in 1..(n + 1) : d < longer[i].call
  <2> SUFFICES ASSUME NEW d \in LoggedCalls, IsNoticed(logged'[d]), d # c
               PROVE  \/ \E i \in 1..(n + 1) : longer[i].call = d
                      \/ n = LogLimit /\ \A i \in 1..(n + 1) : d < longer[i].call
    <3>1. n + 1 \in 1..(n + 1) /\ longer[n + 1].call = c BY <1>1, <1>3
    <3> QED BY <3>1
  <2>1. IsNoticed(logged[d]) /\ d \in Nat BY <1>4 DEF LoggedCalls
  <2>2. CASE \E i \in 1..n : permissionLog[i].call = d BY <2>2, <1>1, <1>3
  <2>3. CASE n = LogLimit /\ \A i \in 1..n : d < permissionLog[i].call
    BY <1>1, <1>5, <2>3, <2>1, <1>3 DEF LoggedCalls
  <2> QED BY <2>1, <2>2, <2>3 DEF LogInv, LogIsLast
<1>9. CallsComeInOrder' /\ HistoryIsLast'
  <2>1. \A d \in LoggedCalls : logged'[d].step = "answered" <=> d # c /\ logged[d].step = "answered"
    BY <1>4
  <2>2. HistoryIsLast' BY <1>4, <2>1 DEF LogInv, HistoryIsLast
  <2>3. CallsComeInOrder'
    <3> SUFFICES ASSUME NEW e \in LoggedCalls, NEW d \in LoggedCalls, e < d, logged'[e].step = "idle"
                 PROVE  logged'[d].step = "idle" BY DEF CallsComeInOrder
    <3>1. e # c /\ logged[e].step = "idle" /\ e \in Nat /\ d \in Nat /\ e > 0
      BY <1>4 DEF LoggedCalls
    <3>2. ~(e \in 1..(c - 1)) BY <3>1
    <3>3. d # c BY <1>1, <3>1, <3>2
    <3>4. logged[d].step = "idle" BY <3>1 DEF LogInv, CallsComeInOrder
    <3> QED BY <1>4, <3>3, <3>4
  <2> QED BY <2>2, <2>3
<1>10. logged' \in [LoggedCalls -> AskedCalls \cup AnsweredCalls \cup OtherCalls]
  BY DEF LogInv, LogTypes
<1>11. CASE n + 1 > LogLimit
  <2>1. permissionLog' = Tail(longer) /\ n = LogLimit BY <1>1, <1>2, <1>3, <1>11
  <2>2. /\ Tail(longer) \in Seq(LogEntries) /\ Len(Tail(longer)) = n
        /\ \A i \in 1..n : Tail(longer)[i] = longer[i + 1]
    BY <1>1, <1>3, EmptySeq, HeadTailProperties
  <2>3. PICK tail : tail = Tail(longer) OBVIOUS
  <2>4. /\ permissionLog' = tail /\ tail \in Seq(LogEntries) /\ Len(tail) = n
        /\ \A i \in 1..n : tail[i] = longer[i + 1] /\ i + 1 \in 1..(n + 1) BY <1>1, <2>1, <2>2, <2>3
  <2>5. LogIsTrue'
    <3>1. \A i \in 1..n : /\ IsNoticed(logged'[tail[i].call])
                          /\ tail[i].success = SaysOf(logged'[tail[i].call]) BY <1>6, <2>4
    <3> QED BY <2>4, <3>1 DEF LogIsTrue, IsNoticed, SaysOf
  <2>6. LogIsOrdered'
    <3>1. \A i, j \in 1..n : i < j => i + 1 < j + 1 /\ i + 1 \in 1..(n + 1) /\ j + 1 \in 1..(n + 1)
      BY <1>1
    <3>2. \A i, j \in 1..n : i < j => tail[i].call < tail[j].call BY <1>7, <2>4, <3>1
    <3> QED BY <2>4, <3>2 DEF LogIsOrdered
  <2>7. ASSUME NEW d \in LoggedCalls, IsNoticed(logged'[d])
        PROVE  \/ \E i \in 1..n : tail[i].call = d
               \/ \A i \in 1..n : d < tail[i].call
    <3>1. CASE \E i \in 1..(n + 1) : longer[i].call = d
      <4>1. PICK i \in 1..(n + 1) : longer[i].call = d BY <3>1
      <4>2. CASE i = 1
        <5>1. \A j \in 1..n : longer[1].call < longer[j + 1].call BY <1>1, <1>7
        <5> QED BY <2>4, <4>1, <4>2, <5>1
      <4>3. CASE i # 1
        <5>1. i - 1 \in 1..n /\ (i - 1) + 1 = i BY <1>1, <4>3
        <5>2. tail[i - 1] = longer[i] BY <2>4, <5>1
        <5> QED BY <4>1, <5>1, <5>2
      <4> QED BY <4>2, <4>3
    <3>2. CASE \A i \in 1..(n + 1) : d < longer[i].call BY <2>4, <3>2
    <3> QED BY <1>8, <2>7, <3>1, <3>2
  <2>8. LogIsLast' BY <1>1, <2>1, <2>4, <2>7 DEF LogIsLast
  <2>9. LogTypes' BY <1>10, <2>4 DEF LogTypes, LogInv
  <2> QED BY <1>9, <2>5, <2>6, <2>8, <2>9 DEF LogInv
<1>12. CASE ~(n + 1 > LogLimit)
  BY <1>1, <1>2, <1>3, <1>12, <1>6, <1>7, <1>8, <1>10, <1>9 DEF LogIsTrue, LogIsOrdered, LogIsLast, LogTypes,
     LogInv
<1> QED BY <1>11, <1>12

\* An answer is listed where its call is, and what it gave is noted for its time.
LEMMA ResponseLogged ==
  ASSUME LogInv, NEW c \in LoggedCalls, NEW hasResult \in BOOLEAN, NEW hasError \in BOOLEAN,
         NEW granted \in SUBSET LoggedMethods, NEW accounts \in SUBSET LoggedAccounts,
         logResponse(c, hasResult, hasError, granted, accounts)
  PROVE  LogInv'
<1> DEFINE n == Len(permissionLog)
<1>1. /\ n \in Nat /\ permissionLog \in Seq(LogEntries) /\ logTime \in Nat
      /\ logged \in [LoggedCalls -> AskedCalls \cup AnsweredCalls \cup OtherCalls]
      /\ permissionHistory \in [Callers -> [Things -> Nat]] BY LenProperties DEF LogInv, LogTypes
<1>2. PICK call \in AskedCalls : call = logged[c] BY <1>1 DEF logResponse, AnsweredCalls, OtherCalls
<1>3. call.step = "asked" /\ call.origin \in Callers /\ call.requested \subseteq LoggedMethods
  BY DEF AskedCalls
<1>4. PICK gifts \in SUBSET Things :
        gifts = IF hasResult /\ ~hasError THEN newEntries(call, granted, accounts) ELSE {}
  BY <1>3 DEF newEntries, Things
<1>5. PICK new : new = [step |-> "answered", origin |-> call.origin, success |-> hasResult,
                        gave |-> gifts, answered |-> logTime] OBVIOUS
<1>6. /\ logged' = [logged EXCEPT ![c] = new] /\ logTime' = logTime + 1
      /\ permissionHistory' = [permissionHistory EXCEPT ![call.origin] =
           [t \in Things |-> IF t \in gifts THEN logTime ELSE permissionHistory[call.origin][t]]]
      /\ permissionLog' = [i \in DOMAIN permissionLog |->
           IF permissionLog[i].call # c THEN permissionLog[i]
           ELSE [call |-> c, success |-> IF hasResult THEN "yes" ELSE "no"]]
  BY <1>2, <1>4, <1>5 DEF logResponse, commitNewHistory
<1>7. /\ new \in AnsweredCalls /\ new.step = "answered" /\ new.origin = call.origin
      /\ new.success = hasResult /\ new.gave = gifts /\ new.answered = logTime
  BY <1>1, <1>3, <1>5 DEF AnsweredCalls
<1>8. /\ logged'[c] = new /\ \A d \in LoggedCalls : d # c => logged'[d] = logged[d] BY <1>1, <1>6
<1>9. \A i \in 1..n :
        /\ permissionLog[i] \in LogEntries /\ permissionLog[i].call \in LoggedCalls
        /\ permissionLog'[i] = IF permissionLog[i].call # c THEN permissionLog[i]
                               ELSE [call |-> c, success |-> IF hasResult THEN "yes" ELSE "no"]
  BY <1>1, <1>6, EntryIs, LenProperties DEF LogInv
<1>10. \A i \in 1..n : permissionLog'[i].call = permissionLog[i].call /\ permissionLog'[i] \in LogEntries
  BY <1>9 DEF LogEntries
<1>11. permissionLog' \in Seq(LogEntries) /\ Len(permissionLog') = n
  <2>1. DOMAIN permissionLog = 1..n BY <1>1, LenProperties
  <2>2. permissionLog' \in [1..n -> LogEntries] BY <1>6, <1>10, <2>1
  <2> HIDE DEF n
  <2>3. permissionLog' \in Seq(LogEntries) BY <1>1, <2>2, SeqDef
  <2> QED BY <1>1, <2>2, <2>3, LenProperties
<1>12. LogTypes' BY <1>1, <1>6, <1>7, <1>3, <1>11 DEF LogTypes
<1>13. LogIsTrue'
  <2>1. ASSUME NEW i \in 1..n
        PROVE  /\ IsNoticed(logged'[permissionLog'[i].call])
               /\ permissionLog'[i].success = SaysOf(logged'[permissionLog'[i].call])
    <3>1. PICK d \in LoggedCalls : d = permissionLog[i].call /\ d = permissionLog'[i].call
      BY <1>9, <1>10
    <3>2. CASE d = c
      <4>1. permissionLog'[i].success = IF hasResult THEN "yes" ELSE "no"
        <5>1. permissionLog'[i] = [call |-> c, success |-> IF hasResult THEN "yes" ELSE "no"]
          BY <1>9, <3>1, <3>2
        <5> QED BY <5>1
      <4> QED BY <1>7, <1>8, <3>1, <3>2, <4>1 DEF IsNoticed, SaysOf
    <3>3. CASE d # c BY <1>8, <1>9, <3>1, <3>3 DEF LogInv, LogIsTrue
    <3> QED BY <3>2, <3>3
  <2> QED BY <1>11, <2>1 DEF LogIsTrue, IsNoticed, SaysOf
<1>14. LogIsOrdered' /\ LogIsLast'
  <2>1. LogIsOrdered' BY <1>10, <1>11 DEF LogInv, LogIsOrdered
  <2>2. \A d \in LoggedCalls : IsNoticed(logged'[d]) => IsNoticed(logged[d])
    BY <1>2, <1>3, <1>8 DEF IsNoticed
  <2>3. ASSUME NEW d \in LoggedCalls, IsNoticed(logged'[d])
        PROVE  \/ \E i \in 1..n : permissionLog'[i].call = d
               \/ n = LogLimit /\ \A i \in 1..n : d < permissionLog'[i].call
    BY <1>10, <2>2, <2>3 DEF LogInv, LogIsLast
  <2>4. n <= LogLimit BY DEF LogInv, LogIsLast
  <2> HIDE DEF n
  <2>5. LogIsLast' BY <1>11, <2>3, <2>4 DEF LogIsLast, IsNoticed
  <2> QED BY <2>1, <2>5
<1>15. CallsComeInOrder' BY <1>2, <1>3, <1>7, <1>8 DEF LogInv, CallsComeInOrder
<1>16. HistoryIsLast'
  <2>1. \A o \in Callers, t \in Things :
          permissionHistory'[o][t] = IF o = call.origin /\ t \in gifts THEN logTime
                                     ELSE permissionHistory[o][t] BY <1>1, <1>3, <1>6
  <2>2. ASSUME NEW d \in LoggedCalls, logged'[d].step = "answered"
        PROVE  /\ logged'[d].answered < logTime'
               /\ \A t \in logged'[d].gave : permissionHistory'[logged'[d].origin][t] >= logged'[d].answered
    <3>1. CASE d = c BY <1>8, <3>1, <1>3, <2>1, <1>6, <1>7, <1>1
    <3>2. CASE d # c
      <4>1. logged'[d] = logged[d] BY <1>8, <3>2
      <4>2. PICK old \in AnsweredCalls : old = logged[d]
        BY <1>1, <2>2, <4>1 DEF AskedCalls, OtherCalls
      <4>3. old.origin \in Callers /\ old.gave \subseteq Things /\ old.answered \in Nat
        BY DEF AnsweredCalls
      <4>4. /\ old.answered < logTime
            /\ \A t \in old.gave : permissionHistory[old.origin][t] >= old.answered
        BY <2>2, <4>1, <4>2 DEF LogInv, HistoryIsLast
      <4>5. \A t \in old.gave : permissionHistory'[old.origin][t] >= old.answered
        BY <4>3, <4>4, <1>1, <2>1
      <4> QED BY <1>1, <1>6, <4>1, <4>2, <4>3, <4>4, <4>5
    <3> QED BY <3>1, <3>2
  <2>3. ASSUME NEW o \in Callers, NEW t \in LoggedMethods, permissionHistory'[o][t] # 0
        PROVE  \E d \in LoggedCalls :
                 /\ logged'[d].step = "answered" /\ logged'[d].origin = o
                 /\ t \in logged'[d].gave /\ logged'[d].answered = permissionHistory'[o][t]
    BY <2>1, <1>7, <1>8, <2>3, <1>2, <1>3 DEF Things, LogInv, HistoryIsLast
  <2> QED BY <2>2, <2>3 DEF HistoryIsLast
<1> QED BY <1>12, <1>13, <1>14, <1>15, <1>16 DEF LogInv

LEMMA AccountsSeen ==
  ASSUME LogInv, NEW o \in Callers, updateAccountsHistory(o, LoggedAccounts)
  PROVE  LogInv'
<1>1. /\ logTime \in Nat /\ permissionHistory \in [Callers -> [Things -> Nat]]
      /\ logged \in [LoggedCalls -> AskedCalls \cup AnsweredCalls \cup OtherCalls]
  BY DEF LogInv, LogTypes
<1>2. /\ logTime' = logTime + 1 /\ UNCHANGED <<permissionLog, logged>>
      /\ permissionHistory' = [permissionHistory EXCEPT ![o] =
           [t \in Things |-> IF t \in LoggedAccounts THEN logTime ELSE permissionHistory[o][t]]]
  BY DEF updateAccountsHistory, commitNewHistory
<1>3. \A p \in Callers, t \in Things :
        permissionHistory'[p][t] = IF p = o /\ t \in LoggedAccounts THEN logTime ELSE permissionHistory[p][t]
  BY <1>1, <1>2
<1>4. LogTypes' BY <1>1, <1>2 DEF LogInv, LogTypes
<1>5. ASSUME NEW d \in LoggedCalls, logged[d].step = "answered"
      PROVE  /\ logged[d].answered < logTime'
             /\ \A t \in logged[d].gave : permissionHistory'[logged[d].origin][t] >= logged[d].answered
  BY <1>1, <1>5, <1>3, <1>2 DEF AskedCalls, OtherCalls, AnsweredCalls, LogInv, HistoryIsLast
<1>6. \A p \in Callers, t \in LoggedMethods : permissionHistory'[p][t] = permissionHistory[p][t]
  BY <1>3 DEF Things, LoggedMethods, LoggedAccounts
<1>7. HistoryIsLast' BY <1>2, <1>5, <1>6 DEF LogInv, HistoryIsLast
<1>8. LogIsTrue' /\ LogIsOrdered' /\ LogIsLast' /\ CallsComeInOrder'
  BY <1>2 DEF LogInv, LogIsTrue, LogIsOrdered, LogIsLast, CallsComeInOrder, IsNoticed, SaysOf
<1> QED BY <1>4, <1>7, <1>8 DEF LogInv

LEMMA RequestPasses ==
  ASSUME RestrictedAssumption, LogInv, NEW c \in LoggedCalls, NEW o \in Callers, NEW kind,
         NEW wanted \in SUBSET LoggedMethods, logRequest(c, o, kind, wanted)
  PROVE  LogInv'
<1>1. /\ logged[c].step = "idle" /\ \A d \in 1..(c - 1) : logged[d].step # "idle"
      /\ UNCHANGED <<permissionHistory, logTime>> BY DEF logRequest
<1>2. CASE isLogged(kind)
  <2>1. requestedMethods(kind, wanted) \in SUBSET LoggedMethods
    BY DEF requestedMethods, LoggedMethods
  <2>2. PICK call \in AskedCalls :
          call = [step |-> "asked", origin |-> o, direct |-> kind = "eth_requestAccounts",
                  requested |-> requestedMethods(kind, wanted)]
    <3>1. (kind = "eth_requestAccounts") \in BOOLEAN OBVIOUS
    <3> QED BY <2>1, <3>1 DEF AskedCalls
  <2>3. /\ logged' = [logged EXCEPT ![c] = call]
        /\ permissionLog' = LET longer == Append(permissionLog, [call |-> c, success |-> "open"]) IN
                            IF Len(longer) > LogLimit THEN Tail(longer) ELSE longer
    BY <1>2, <2>2 DEF logRequest
  <2> QED BY <1>1, <2>3, RequestLogged
<1>3. CASE ~isLogged(kind)
  <2>1. logged' = [logged EXCEPT ![c] = [step |-> "unnoticed"]] /\ UNCHANGED permissionLog
    BY <1>3 DEF logRequest
  <2>2. PICK call \in OtherCalls : call = [step |-> "unnoticed"] /\ call.step = "unnoticed"
    <3>1. [step |-> "unnoticed"] \in OtherCalls BY DEF OtherCalls
    <3> QED BY <3>1
  <2>3. logged'[c] = call /\ \A d \in LoggedCalls : d # c => logged'[d] = logged[d]
    BY <2>1, <2>2 DEF LogInv, LogTypes
  <2>4. LogTypes' BY <1>1, <2>1, <2>2 DEF LogInv, LogTypes
  <2>5. \A d \in LoggedCalls : IsNoticed(logged'[d]) <=> d # c /\ IsNoticed(logged[d])
    BY <2>2, <2>3 DEF IsNoticed
  <2>6. \A i \in 1..Len(permissionLog) : /\ permissionLog[i].call \in LoggedCalls
                                         /\ IsNoticed(logged[permissionLog[i].call])
                                         /\ permissionLog[i].call # c
    BY <1>1, EntryIs DEF LogInv, LogIsTrue, IsNoticed
  <2>7. LogIsTrue' BY <2>3, <2>6, <2>1 DEF LogInv, LogIsTrue, IsNoticed, SaysOf
  <2>8. LogIsOrdered' /\ LogIsLast' BY <2>1, <2>5 DEF LogInv, LogIsOrdered, LogIsLast, IsNoticed
  <2>9. CallsComeInOrder'
    <3> SUFFICES ASSUME NEW e \in LoggedCalls, NEW d \in LoggedCalls, e < d, logged'[e].step = "idle"
                 PROVE  logged'[d].step = "idle" BY DEF CallsComeInOrder
    <3>1. e # c /\ logged[e].step = "idle" /\ e \in Nat /\ d \in Nat /\ c \in Nat /\ e > 0
      BY <2>2, <2>3 DEF LoggedCalls
    <3>2. ~(e \in 1..(c - 1)) BY <1>1, <3>1
    <3>3. d # c BY <3>1, <3>2
    <3>4. logged[d].step = "idle" BY <3>1 DEF LogInv, CallsComeInOrder
    <3> QED BY <2>3, <3>3, <3>4
  <2>10. HistoryIsLast' BY <2>2, <2>3, <1>1 DEF LogInv, HistoryIsLast
  <2> QED BY <2>4, <2>7, <2>8, <2>9, <2>10 DEF LogInv
<1> QED BY <1>2, <1>3

LEMMA LogStep == ASSUME RestrictedAssumption, LogInv, LogNext PROVE LogInv'
<1>1. ASSUME NEW c \in LoggedCalls, NEW o \in Callers, NEW kind, NEW wanted \in {{"other"}, LoggedMethods},
             logRequest(c, o, kind, wanted)
      PROVE  LogInv' BY <1>1, RequestPasses DEF LoggedMethods
<1>2. ASSUME NEW c \in LoggedCalls, NEW granted \in {{"eth_accounts"}, LoggedMethods},
             NEW accounts \in {{"account1"}, LoggedAccounts},
             NEW outcome \in {<<TRUE, FALSE>>, <<FALSE, TRUE>>, <<TRUE, TRUE>>},
             logResponse(c, outcome[1], outcome[2], granted, accounts)
      PROVE  LogInv'
  <2>1. outcome[1] \in BOOLEAN /\ outcome[2] \in BOOLEAN
    <3>1. CASE outcome = <<TRUE, FALSE>> BY <3>1
    <3>2. CASE outcome = <<FALSE, TRUE>> BY <3>2
    <3>3. CASE outcome = <<TRUE, TRUE>> BY <3>3
    <3> QED BY <3>1, <3>2, <3>3
  <2>2. PICK methods \in SUBSET LoggedMethods : methods = granted BY DEF LoggedMethods
  <2>3. PICK named \in SUBSET LoggedAccounts : named = accounts BY DEF LoggedAccounts
  <2>4. logResponse(c, outcome[1], outcome[2], methods, named) BY <1>2, <2>2, <2>3
  <2> QED BY <2>1, <2>4, ResponseLogged
<1> QED BY <1>1, <1>2, AccountsSeen DEF LogNext

LEMMA LogIdle == ASSUME LogInv, UNCHANGED logVars PROVE LogInv'
BY DEF LogInv, logVars, LogTypes, LogIsTrue, LogIsOrdered, LogIsLast, CallsComeInOrder, HistoryIsLast,
   IsNoticed, SaysOf

LEMMA LogIsRight == ASSUME RestrictedAssumption, LogInv PROVE PermissionsAreLogged
<1> DEFINE n == Len(permissionLog)
           noticed == {c \in LoggedCalls : logged[c].step \in {"asked", "answered"}}
           heard == {permissionLog[i].call : i \in DOMAIN permissionLog}
           replies == {c \in LoggedCalls : logged[c].step = "answered"}
           times(o, t) == {logged[c].answered : c \in {d \in replies : logged[d].origin = o /\ t \in logged[d].gave}}
<1>1. n \in Nat /\ DOMAIN permissionLog = 1..n BY LenProperties DEF LogInv, LogTypes
<1>2. \A i \in DOMAIN permissionLog :
        permissionLog[i].success = SaysOf(logged[permissionLog[i].call])
  BY <1>1 DEF LogInv, LogIsTrue
<1>3. ASSUME NEW c \in noticed, c \notin heard
      PROVE  Cardinality({d \in heard : d > c}) = LogLimit
  <2>1. n = LogLimit /\ \A i \in 1..n : c < permissionLog[i].call
    BY <1>1, <1>3 DEF IsNoticed, LogInv, LogIsLast
  <2>2. \A d \in heard : c < d /\ d \in Nat /\ c \in Nat
    BY <1>1, <2>1, EntryIs DEF LogInv, LoggedCalls
  <2>3. {d \in heard : d > c} = heard BY <2>2
  <2>4. Cardinality(heard) = n
    <3> DEFINE callAt == [i \in 1..n |-> permissionLog[i].call]
    <3>1. callAt \in [1..n -> heard] BY <1>1
    <3>2. \A i, j \in 1..n : callAt[i] = callAt[j] => i = j
      <4>1. \A i, j \in 1..n : i < j => callAt[i] < callAt[j] BY DEF LogInv, LogIsOrdered
      <4>2. \A i \in 1..n : callAt[i] \in Nat BY EntryIs DEF LogInv
      <4> HIDE DEF callAt
      <4> QED BY <4>1, <4>2
    <3>3. \A d \in heard : \E i \in 1..n : callAt[i] = d BY <1>1
    <3> HIDE DEF callAt, heard, n
    <3>4. callAt \in Bijection(1..n, heard)
      BY <3>1, <3>2, <3>3 DEF Bijection, Injection, Surjection, IsInjective
    <3>5. ExistsBijection(1..n, heard) BY <3>4 DEF ExistsBijection
    <3>6. IsFiniteSet(1..n) /\ Cardinality(1..n) = n BY <1>1, FS_Interval
    <3> QED BY <3>5, <3>6, FS_Bijection
  <2> QED BY <2>1, <2>3, <2>4
<1>4. ASSUME NEW o \in Callers, NEW t \in Things
      PROVE  /\ \A time \in times(o, t) : permissionHistory[o][t] >= time
             /\ t \in LoggedMethods => permissionHistory[o][t] \in times(o, t) \cup {0}
  BY DEF LogInv, HistoryIsLast
<1> HIDE DEF n
<1> QED BY <1>2, <1>3, <1>4 DEF PermissionsAreLogged, SaysOf

-----------------------------------------------------------------------------

(***************************************************************************)
(* In the specification of what the wallet decides and shows, the limits,  *)
(* the messages, the calls and their log change with the steps of their    *)
(* own parts only.                                                         *)
(***************************************************************************)
LEMMA ServedTogether ==
  ASSUME RestrictedAssumption
  PROVE  DappsSpec => [](LimitInv /\ MessagesInv /\ MethodsInv /\ LogInv)
<1> DEFINE Inv == LimitInv /\ MessagesInv /\ MethodsInv /\ LogInv
<1>1. DappsInit => Inv BY InitialLimits, InitialMessages, InitialMethods, InitialLog DEF DappsInit
<1>2. ASSUME Inv, [DappsNext]_dappVars PROVE Inv'
  <2>1. LimitInv'
    BY <1>2, LimitStep, LimitIdle DEF callSteps, DappsNext, networkSteps, listSteps, feeSteps, changeSteps,
       messageManagerSteps, tokenSteps, restrictedSteps, logSteps, tradeSteps, dappVars
  <2>2. MessagesInv'
    <3>1. messageManagerSteps => MessagesInv' BY <1>2, MessagesStep DEF messageManagerSteps
    <3>2. UNCHANGED managerVars => MessagesInv' BY <1>2, MessagesIdle DEF managerVars
    <3>3. DappsNext => messageManagerSteps \/ UNCHANGED managerVars
      BY DEF DappsNext, networkSteps, listSteps, callSteps, feeSteps, changeSteps, tokenSteps,
         restrictedSteps, logSteps, tradeSteps
    <3>4. UNCHANGED dappVars => UNCHANGED managerVars BY DEF dappVars
    <3> QED BY <1>2, <3>1, <3>2, <3>3, <3>4
  <2>3. MethodsInv'
    BY <1>2, MethodsStep, MethodsIdle DEF restrictedSteps, DappsNext, networkSteps, listSteps, callSteps,
       feeSteps, changeSteps, messageManagerSteps, tokenSteps, logSteps, tradeSteps, dappVars
  <2>4. LogInv'
    BY <1>2, LogStep, LogIdle DEF logSteps, DappsNext, networkSteps, listSteps, callSteps, feeSteps,
       changeSteps, messageManagerSteps, tokenSteps, restrictedSteps, tradeSteps, dappVars
  <2> QED BY <2>1, <2>2, <2>3, <2>4
<1> QED BY <1>1, <1>2, PTL DEF DappsSpec

(***************************************************************************)
(* No origin is shut out for good, messages are answered with what became  *)
(* of them and calls within their caveats, and the log is true: for any    *)
(* origins, limits, messages and versions of the wallet.                   *)
(***************************************************************************)
THEOREM DappsAlwaysServed == DappsSpec => []DappsAreServed
<1>1. LimitInv /\ MessagesInv /\ MethodsInv /\ LogInv => DappsAreServed
  BY NobodyStaysOut, MessagesAnswered, CallsStayRestricted, LogIsRight, RestrictedAssumption DEF
     DappsAreServed
<1> QED BY <1>1, ServedTogether, RestrictedAssumption, PTL

-----------------------------------------------------------------------------

LEMMA LeastIsThere ==
  ASSUME NEW S \in SUBSET Nat, S # {}
  PROVE  \E m \in S : \A n \in S : m <= n
<1> DEFINE less == OpToRel(<, Nat)
<1>1. \A m, n \in Nat : <<n, m>> \in less <=> n < m BY DEF OpToRel
<1>2. IsWellFoundedOn(less, Nat) BY NatLessThanWellFounded
<1> HIDE DEF less
<1>3. PICK m \in S : \A n \in S : ~(<<n, m>> \in less) BY <1>2, WFMin
<1>4. \A n \in S : m <= n
  <2>1. SUFFICES ASSUME NEW n \in S PROVE m <= n OBVIOUS
  <2>2. m \in Nat /\ n \in Nat /\ ~(n < m) BY <1>1, <1>3
  <2> QED BY <2>2
<1> QED BY <1>4

(***************************************************************************)
(* Phishing lists.  Each has its diffs up to the last one of any list, and *)
(* an update in progress asks for no diffs after that: for the diffs of a  *)
(* hotlist are asked for since then, and while a stalelist is on its way,  *)
(* which may be older, no hotlist is asked for any more.                   *)
(***************************************************************************)
Updates ==
  {NoUpdate} \cup [step : {"asked"}] \cup [step : {"asked"}, since : Nat]
  \cup [step : {"answered"}, upTo : Nat, since : Nat]
Lists == [ListKeys -> [has : SUBSET Nat, lastUpdated : Nat]]

\* Lists that have the diffs up to t, which is the last of one of them.
HaveAll(lists, t) ==
  /\ \A key \in ListKeys : /\ lists[key].has = {diff \in 1 .. t : targetList[diff] = key}
                           /\ lists[key].lastUpdated <= t
  /\ \E key \in ListKeys : lists[key].lastUpdated = t

UpdatesAreTimely(t) ==
  /\ inProgress.hotlist # NoUpdate => inProgress.hotlist.since \in 0 .. t
  /\ \A kind \in {"stalelist", "hotlist"} : inProgress[kind].step = "answered" =>
       inProgress[kind].since \in Nat /\ inProgress[kind].since <= inProgress[kind].upTo
       /\ inProgress[kind].upTo \in 0 .. Len(targetList)
  /\ inProgress.stalelist # NoUpdate => "stalelist" \in outOfDate
  /\ inProgress.stalelist.step = "answered" /\ inProgress.hotlist # NoUpdate =>
       inProgress.hotlist.since <= inProgress.stalelist.upTo

ListsAre(t) ==
  /\ t \in 0 .. Len(targetList)
  /\ \/ phishingLists = <<>> /\ t = 0
     \/ phishingLists # <<>> /\ phishingLists \in Lists /\ HaveAll(phishingLists, t)
  /\ UpdatesAreTimely(t)

PhishingInv ==
  /\ says \in Published
  /\ targetList \in Seq(ListKeys) /\ Len(targetList) <= MaxDiffs
  /\ stalelist \in 0 .. Len(targetList)
  /\ inProgress \in [stalelist : Updates, hotlist : Updates]
  /\ \E t \in Nat : ListsAre(t)

-----------------------------------------------------------------------------
(* Greatest numbers. *)

LEMMA GreatestIs ==
  ASSUME NEW S \in SUBSET Nat, NEW m \in S, \A e \in S : e <= m
  PROVE  Max(S) = m
<1>1. m \in Nat /\ \A e \in S : m >= e /\ e \in Nat OBVIOUS
<1>2. \A n \in S : (\A e \in S : n >= e) => n = m BY <1>1
<1> QED BY <1>1, <1>2 DEF Max

LEMMA GreatestIsThere ==
  ASSUME NEW n \in Nat, NEW S \in SUBSET (0 .. n), S # {}
  PROVE  Max(S) \in S /\ \A e \in S : e <= Max(S)
<1> DEFINE T == {n - e : e \in S}
<1>1. T \subseteq Nat /\ T # {} OBVIOUS
<1>2. PICK least \in T : \A e \in T : least <= e BY <1>1, LeastIsThere
<1>3. PICK m \in S : least = n - m BY <1>2
<1>4. \A e \in S : e <= m
  <2>1. SUFFICES ASSUME NEW e \in S PROVE e <= m OBVIOUS
  <2>2. n - e \in T /\ e \in 0 .. n /\ m \in 0 .. n OBVIOUS
  <2>3. least <= n - e BY <1>2, <2>2
  <2> QED BY <1>3, <2>2, <2>3
<1>5. S \in SUBSET Nat OBVIOUS
<1> QED BY <1>4, <1>5, GreatestIs

\* The time after which diffs are asked for.
LEMMA LastDiffIs ==
  ASSUME NEW t \in Nat, ListsAre(t)
  PROVE  lastDiffTimestamp = t
BY GreatestIs DEF ListsAre, lastDiffTimestamp, Lists, HaveAll

\* Diffs are numbered in their order.
LEMMA DiffsAre ==
  ASSUME PhishingInv
  PROVE  /\ diffs = 1 .. Len(targetList) /\ newest = Len(targetList) /\ Len(targetList) \in Nat
         /\ \A diff \in 1 .. Len(targetList) : targetList[diff] \in ListKeys
         /\ \A t \in 0 .. Len(targetList) : upTo(t) = 1 .. t
<1>1. targetList \in Seq(ListKeys) BY DEF PhishingInv
<1>2. Len(targetList) \in Nat /\ DOMAIN targetList = 1 .. Len(targetList) BY <1>1, LenProperties
<1>3. Cardinality(1 .. Len(targetList)) = Len(targetList)
  <2>1. PICK n \in Nat : n = Len(targetList) BY <1>2
  <2>2. 1 \in Int /\ n \in Int OBVIOUS
  <2>3. Cardinality(1 .. n) = IF 1 > n THEN 0 ELSE n - 1 + 1 BY <2>2, FS_Interval
  <2>4. Cardinality(1 .. n) = n BY <2>3
  <2> QED BY <2>1, <2>4
<1>4. \A diff \in 1 .. Len(targetList) : targetList[diff] \in ListKeys BY <1>1, <1>2, ElementOfSeq
<1>5. \A t \in 0 .. Len(targetList) : upTo(t) = 1 .. t BY <1>2 DEF upTo, diffs
<1> QED BY <1>2, <1>3, <1>4, <1>5 DEF diffs, newest

LEMMA InitialLists == PhishingAssumption /\ PhishingInit => PhishingInv
<1> SUFFICES ASSUME PhishingAssumption, PhishingInit PROVE PhishingInv OBVIOUS
<1>1. targetList = <<>> /\ Len(targetList) = 0 /\ targetList \in Seq(ListKeys) BY DEF PhishingInit
<1>2. inProgress = [stalelist |-> NoUpdate, hotlist |-> NoUpdate] BY DEF PhishingInit
<1>3. inProgress \in [stalelist : Updates, hotlist : Updates] BY <1>2 DEF Updates
<1>4. inProgress.stalelist = NoUpdate /\ inProgress.hotlist = NoUpdate
      /\ inProgress["stalelist"].step = "none" /\ inProgress["hotlist"].step = "none"
  BY <1>2 DEF NoUpdate
<1>5. UpdatesAreTimely(0) BY <1>4 DEF UpdatesAreTimely
<1>6. ListsAre(0) BY <1>1, <1>5 DEF ListsAre, PhishingInit
<1>7. \E t \in Nat : ListsAre(t) BY <1>6
<1> QED BY <1>1, <1>3, <1>7 DEF PhishingInv, PhishingInit, PhishingAssumption

LEMMA ListsStay ==
  ASSUME PhishingInv, NEW t \in Nat, ListsAre(t), UNCHANGED <<says, targetList, phishingLists>>,
         stalelist' \in 0 .. Len(targetList), inProgress' \in [stalelist : Updates, hotlist : Updates],
         UpdatesAreTimely(t)'
  PROVE  PhishingInv'
BY DEF ListsAre, HaveAll, PhishingInv

LEMMA DiffIsPublished ==
  ASSUME PhishingInv, NEW key \in ListKeys, diffPublished(key) PROVE PhishingInv'
<1>1. PICK n \in Nat : n = Len(targetList) BY DiffsAre
<1>2. targetList \in Seq(ListKeys) /\ targetList' = Append(targetList, key)
  BY DEF diffPublished, PhishingInv
<1>3. /\ targetList' \in Seq(ListKeys) /\ Len(targetList') = n + 1
      /\ \A diff \in 1 .. n : targetList'[diff] = targetList[diff] BY <1>1, <1>2, AppendProperties
<1>4. n + 1 <= MaxDiffs BY <1>1, DiffsAre, PhishingAssumption DEF diffPublished, PhishingAssumption
<1>5. PICK t \in Nat : ListsAre(t) BY DEF PhishingInv
<1>6. UNCHANGED <<says, stalelist, phishingLists, outOfDate, inProgress>> BY DEF diffPublished
<1>7. t \in 0 .. n BY <1>1, <1>5 DEF ListsAre
<1>8. \A k \in ListKeys : {diff \in 1 .. t : targetList'[diff] = k} = {diff \in 1 .. t : targetList[diff] = k}
  BY <1>3, <1>7
<1>9. HaveAll(phishingLists, t) => HaveAll(phishingLists, t)' BY <1>6, <1>8 DEF HaveAll
<1>10. UpdatesAreTimely(t)' BY <1>5, <1>3, <1>1, <1>6 DEF ListsAre, UpdatesAreTimely
<1>11. ListsAre(t)' BY <1>3, <1>5, <1>6, <1>7, <1>9, <1>10 DEF ListsAre
<1> QED BY <1>1, <1>3, <1>4, <1>6, <1>11 DEF PhishingInv

LEMMA StalelistIsPublished == ASSUME PhishingInv, stalelistPublished PROVE PhishingInv'
BY DiffsAre, ListsStay DEF PhishingInv, stalelistPublished, ListsAre, UpdatesAreTimely

\* What is out of date grows, or nothing is in progress for which it would matter.
LEMMA TimeHasPassed ==
  ASSUME PhishingInv, outOfDate \subseteq outOfDate', UNCHANGED <<phishingServerVars, phishingLists, inProgress>>
  PROVE  PhishingInv'
BY ListsStay DEF PhishingInv, phishingServerVars, ListsAre, UpdatesAreTimely

LEMMA InProgressIs ==
  ASSUME PhishingInv
  PROVE  /\ inProgress \in [stalelist : Updates, hotlist : Updates]
         /\ DOMAIN inProgress = {"stalelist", "hotlist"}
         /\ inProgress.stalelist = inProgress["stalelist"] /\ inProgress.hotlist = inProgress["hotlist"]
BY DEF PhishingInv

\* An update that ends, for whatever reason, is in no one's way.
LEMMA UpdatesEnd ==
  ASSUME NEW t \in Nat, UpdatesAreTimely(t), UNCHANGED targetList,
         inProgress' \in [stalelist : Updates, hotlist : Updates],
         \A kind \in {"stalelist", "hotlist"} : inProgress'[kind] \in {inProgress[kind], NoUpdate},
         inProgress'["stalelist"] # NoUpdate /\ "stalelist" \in outOfDate => "stalelist" \in outOfDate'
  PROVE  UpdatesAreTimely(t)'
BY DEF NoUpdate, UpdatesAreTimely

LEMMA WalletRestarts == ASSUME PhishingInv, phishingRestart PROVE PhishingInv'
BY InProgressIs, UpdatesEnd, ListsStay DEF PhishingInv, phishingRestart, phishingServerVars, Updates, ListsAre

LEMMA UpdateFails ==
  ASSUME PhishingInv, NEW kind \in {"stalelist", "hotlist"}, updateFails(kind) PROVE PhishingInv'
BY InProgressIs, UpdatesEnd, ListsStay DEF PhishingInv, updateFails, phishingServerVars, Updates, upToDate,
   ListsAre

LEMMA StalelistIsAsked == ASSUME PhishingInv, updateStalelist PROVE PhishingInv'
BY InProgressIs, ListsStay DEF PhishingInv, Updates, updateStalelist, phishingServerVars, ListsAre,
   UpdatesAreTimely

LEMMA HotlistIsAsked == ASSUME PhishingInv, updateHotlist PROVE PhishingInv'
BY LastDiffIs, InProgressIs, ListsStay DEF PhishingInv, Updates, updateHotlist, mayUpdateHotlist,
   phishingServerVars, ListsAre, UpdatesAreTimely, NoUpdate

LEMMA AnswerIsMade ==
  ASSUME PhishingInv, NEW kind \in {"stalelist", "hotlist"}, serverAnswers(kind) PROVE PhishingInv'
<1>1. PICK t \in Nat : ListsAre(t) BY DEF PhishingInv
<1>2. PICK n \in Nat : n = Len(targetList) /\ n = newest BY DiffsAre
<1>3. inProgress[kind].step = "asked" /\ inProgress[kind] # NoUpdate BY DEF serverAnswers, NoUpdate
<1>4. t \in 0 .. n /\ UpdatesAreTimely(t) /\ stalelist \in 0 .. n
  BY <1>1, <1>2 DEF ListsAre, PhishingInv
<1>5. PICK since \in 0 .. n : since = IF kind = "stalelist" THEN stalelist ELSE inProgress[kind].since
  BY <1>3, <1>4, InProgressIs DEF UpdatesAreTimely
<1>6. PICK u : u = [step |-> "answered", upTo |-> n, since |-> since] OBVIOUS
<1>7. u \in Updates /\ u.step = "answered" /\ u.since = since /\ u.upTo = n /\ u # NoUpdate
  BY <1>6 DEF Updates, NoUpdate
<1>8. /\ UNCHANGED <<says, targetList, phishingLists, outOfDate, stalelist>>
      /\ inProgress' = [inProgress EXCEPT ![kind] = u]
  BY <1>2, <1>5, <1>6 DEF serverAnswers, phishingServerVars
<1>9. PICK now \in [stalelist : Updates, hotlist : Updates] : now = inProgress'
  BY <1>7, <1>8, InProgressIs
<1>10. /\ now[kind] = u /\ \A other \in {"stalelist", "hotlist"} : other # kind => now[other] = inProgress[other]
       /\ now.hotlist = now["hotlist"] /\ now.stalelist = now["stalelist"]
  BY <1>8, <1>9, InProgressIs
<1>11. CASE kind = "stalelist"
  <2>1. now.stalelist = u /\ now["stalelist"] = u /\ now.hotlist = inProgress.hotlist /\ now["hotlist"] = inProgress["hotlist"]
    BY <1>10, <1>11, InProgressIs
  <2>2. inProgress.stalelist # NoUpdate BY <1>3, <1>11, InProgressIs
  <2>3. inProgress.hotlist # NoUpdate => inProgress.hotlist.since <= n BY <1>4 DEF UpdatesAreTimely
  <2>4. UpdatesAreTimely(t)'
    <3>1. now.hotlist # NoUpdate => now.hotlist.since \in 0 .. t
      BY <1>4, <1>7, <2>1, <2>2, <2>3 DEF UpdatesAreTimely
    <3>2. \A other \in {"stalelist", "hotlist"} : now[other].step = "answered" =>
            now[other].since \in Nat /\ now[other].since <= now[other].upTo
            /\ now[other].upTo \in 0 .. Len(targetList)
      BY <1>2, <1>7, <1>10, <1>4 DEF UpdatesAreTimely
    <3>3. now.stalelist # NoUpdate => "stalelist" \in outOfDate'
      BY <1>4, <1>8, <1>7, <2>1, <2>2, <2>3 DEF UpdatesAreTimely
    <3>4. now.stalelist.step = "answered" /\ now.hotlist # NoUpdate => now.hotlist.since <= now.stalelist.upTo
      BY <1>4, <1>7, <2>1, <2>2, <2>3 DEF UpdatesAreTimely
    <3> QED BY <1>8, <1>9, <3>1, <3>2, <3>3, <3>4 DEF UpdatesAreTimely
  <2> QED BY <1>1, <1>8, <1>9, <2>4, ListsStay DEF PhishingInv
<1>12. CASE kind = "hotlist"
  <2>1. now.hotlist = u /\ now["hotlist"] = u /\ now.stalelist = inProgress.stalelist /\ now["stalelist"] = inProgress["stalelist"]
    BY <1>10, <1>12, InProgressIs
  <2>2. inProgress.hotlist # NoUpdate /\ since = inProgress.hotlist.since
    BY <1>3, <1>5, <1>12, InProgressIs
  <2>3. UpdatesAreTimely(t)'
    <3>1. now.hotlist # NoUpdate => now.hotlist.since \in 0 .. t
      BY <1>4, <1>7, <2>1, <2>2 DEF UpdatesAreTimely
    <3>2. \A other \in {"stalelist", "hotlist"} : now[other].step = "answered" =>
            now[other].since \in Nat /\ now[other].since <= now[other].upTo
            /\ now[other].upTo \in 0 .. Len(targetList)
      BY <1>2, <1>7, <1>10, <1>4 DEF UpdatesAreTimely
    <3>3. now.stalelist # NoUpdate => "stalelist" \in outOfDate'
      BY <1>4, <1>8, <1>7, <2>1, <2>2 DEF UpdatesAreTimely
    <3>4. now.stalelist.step = "answered" /\ now.hotlist # NoUpdate => now.hotlist.since <= now.stalelist.upTo
      BY <1>4, <1>7, <2>1, <2>2 DEF UpdatesAreTimely
    <3> QED BY <1>8, <1>9, <3>1, <3>2, <3>3, <3>4 DEF UpdatesAreTimely
  <2> QED BY <1>1, <1>8, <1>9, <2>3, ListsStay DEF PhishingInv
<1> QED BY <1>11, <1>12

\* What applyDiffs makes of a list.
LEMMA AppliedIs ==
  ASSUME NEW n \in Nat, NEW list, list.lastUpdated \in 0 .. n, NEW hotlist, hotlist \subseteq 1 .. n, NEW key,
         NEW new, new = applyDiffs(list, hotlist, key)
  PROVE  /\ new.has = list.has \cup {diff \in hotlist : diff > list.lastUpdated /\ targetList[diff] = key}
         /\ new.lastUpdated \in {diff \in hotlist : diff > list.lastUpdated /\ targetList[diff] = key}
                                \cup {list.lastUpdated}
         /\ \A diff \in hotlist : diff > list.lastUpdated /\ targetList[diff] = key => diff <= new.lastUpdated
         /\ list.lastUpdated <= new.lastUpdated /\ new.lastUpdated \in 0 .. n
         /\ new = [has |-> new.has, lastUpdated |-> new.lastUpdated]
<1>1. PICK applied : applied = {diff \in hotlist : diff > list.lastUpdated /\ targetList[diff] = key}
  OBVIOUS
<1>2. PICK S : S = applied \cup {list.lastUpdated} OBVIOUS
<1>3. new = [has |-> list.has \cup applied, lastUpdated |-> Max(S)]
  BY <1>1, <1>2 DEF applyDiffs, isFor
<1>4. S \in SUBSET (0 .. n) /\ S # {}
  <2>1. \A e \in applied : e \in 0 .. n BY <1>1
  <2> QED BY <1>2, <2>1
<1>5. Max(S) \in S /\ \A e \in S : e <= Max(S) BY <1>4, GreatestIsThere
<1>6. new.has = list.has \cup applied /\ new.lastUpdated = Max(S) BY <1>3
<1>7. /\ new.lastUpdated \in applied \cup {list.lastUpdated}
      /\ \A diff \in applied : diff <= new.lastUpdated
      /\ list.lastUpdated <= new.lastUpdated /\ new.lastUpdated \in 0 .. n BY <1>2, <1>4, <1>5, <1>6
<1> QED BY <1>1, <1>3, <1>6, <1>7

LEMMA StalelistIsUpdated ==
  ASSUME PhishingAssumption, PhishingInv, stalelistUpdated PROVE PhishingInv'
<1>1. PICK t \in Nat : ListsAre(t) BY DEF PhishingInv
<1>2. PICK u \in Updates : u = inProgress.stalelist /\ u.step = "answered" /\ u = inProgress["stalelist"]
  BY InProgressIs DEF stalelistUpdated
<1>3. PICK k \in Nat : k = Len(targetList) BY DiffsAre
<1>4. PICK n \in 0 .. k : n = u.upTo BY <1>1, <1>2, <1>3 DEF ListsAre, UpdatesAreTimely
<1>5. PICK s \in 0 .. n : s = u.since BY <1>1, <1>2, <1>3, <1>4 DEF ListsAre, UpdatesAreTimely
<1>6. PICK hotlist : hotlist = {diff \in 1 .. n : diff > s} /\ hotlist = upTo(u.upTo) \ upTo(u.since)
  <2>1. upTo(u.upTo) = 1 .. n BY <1>3, <1>4, DiffsAre
  <2>2. upTo(u.since) = 1 .. s BY <1>3, <1>4, <1>5, DiffsAre
  <2>3. (1 .. n) \ (1 .. s) = {diff \in 1 .. n : diff > s} BY <1>5
  <2> QED BY <2>1, <2>2, <2>3
<1>7. phishingLists' = [key \in ListKeys |->
        applyDiffs([has |-> {diff \in 1 .. s : targetList[diff] = key}, lastUpdated |-> s], hotlist, key)]
  <2>1. \A key \in ListKeys : {diff \in upTo(u.since) : isFor(diff, key)} = {diff \in 1 .. s : targetList[diff] = key}
    BY <1>3, <1>4, <1>5, DiffsAre DEF isFor
  <2>2. phishingLists' = [key \in ListKeys |->
          applyDiffs([has |-> {diff \in upTo(u.since) : isFor(diff, key)}, lastUpdated |-> u.since], hotlist, key)]
    BY <1>2, <1>6 DEF stalelistUpdated
  <2> QED BY <1>5, <2>1, <2>2
<1>8. ASSUME NEW key \in ListKeys
      PROVE  /\ phishingLists'[key].has = {diff \in 1 .. n : targetList[diff] = key}
             /\ phishingLists'[key].lastUpdated \in {diff \in hotlist : targetList[diff] = key} \cup {s}
             /\ \A diff \in hotlist : targetList[diff] = key => diff <= phishingLists'[key].lastUpdated
             /\ phishingLists'[key] \in [has : SUBSET Nat, lastUpdated : Nat]
             /\ phishingLists'[key].lastUpdated <= n
  <2>1. PICK list : list = [has |-> {diff \in 1 .. s : targetList[diff] = key}, lastUpdated |-> s]
    OBVIOUS
  <2>2. PICK new : new = applyDiffs(list, hotlist, key) OBVIOUS
  <2>3. phishingLists'[key] = new BY <1>7, <2>1, <2>2
  <2>4. list.lastUpdated = s /\ list.has = {diff \in 1 .. s : targetList[diff] = key} /\ list.lastUpdated \in 0 .. n
        /\ n \in Nat /\ hotlist \subseteq 1 .. n BY <1>6, <2>1
  <2>5. /\ new.has = list.has \cup {diff \in hotlist : diff > list.lastUpdated /\ targetList[diff] = key}
        /\ new.lastUpdated \in {diff \in hotlist : diff > list.lastUpdated /\ targetList[diff] = key}
                               \cup {list.lastUpdated}
        /\ \A diff \in hotlist : diff > list.lastUpdated /\ targetList[diff] = key => diff <= new.lastUpdated
        /\ list.lastUpdated <= new.lastUpdated /\ new.lastUpdated \in 0 .. n
        /\ new = [has |-> new.has, lastUpdated |-> new.lastUpdated] BY <2>2, <2>4, AppliedIs
  <2>6. new.has = {diff \in 1 .. n : targetList[diff] = key} BY <1>6, <2>4, <2>5
  <2>7. /\ new.lastUpdated \in {diff \in hotlist : targetList[diff] = key} \cup {s}
        /\ \A diff \in hotlist : targetList[diff] = key => diff <= new.lastUpdated
        /\ new.lastUpdated <= n BY <1>6, <2>4, <2>5
  <2>8. new \in [has : SUBSET Nat, lastUpdated : Nat] BY <2>5, <2>6
  <2> QED BY <2>3, <2>6, <2>7, <2>8
<1>9. phishingLists' \in Lists /\ phishingLists' # <<>> BY <1>7, <1>8 DEF Lists, PhishingAssumption
<1>10. \E key \in ListKeys : phishingLists'[key].lastUpdated = n
  BY <1>6, <1>8, <1>5, <1>3, DiffsAre DEF PhishingAssumption
<1>11. HaveAll(phishingLists, n)' BY <1>8, <1>10 DEF stalelistUpdated, phishingServerVars, HaveAll
<1>12. /\ UNCHANGED <<says, targetList, stalelist>>
       /\ inProgress' = [inProgress EXCEPT !.stalelist = NoUpdate]
  BY DEF stalelistUpdated, phishingServerVars
<1>13. PICK now \in [stalelist : Updates, hotlist : Updates] : now = inProgress'
  BY <1>12, InProgressIs DEF Updates
<1>14. now.stalelist = NoUpdate /\ now["stalelist"] = NoUpdate /\ now.hotlist = inProgress.hotlist /\ now["hotlist"] = inProgress["hotlist"]
  BY <1>12, <1>13, InProgressIs
<1>15. NoUpdate.step # "answered" BY DEF NoUpdate
<1>16. UpdatesAreTimely(n)'
  BY <1>1, <1>2, <1>4, <1>14, <1>15, <1>12, <1>13 DEF ListsAre, UpdatesAreTimely
<1>17. ListsAre(n)' BY <1>3, <1>12, <1>9, <1>11, <1>16 DEF ListsAre
<1>18. n \in Nat OBVIOUS
<1> QED BY <1>12, <1>13, <1>17, <1>18 DEF PhishingInv

\* A hotlist that comes after newer lists changes nothing that they have.
LEMMA HotlistIsUpdated == ASSUME PhishingInv, hotlistUpdated PROVE PhishingInv'
<1>1. PICK t \in Nat : ListsAre(t) BY DEF PhishingInv
<1>2. PICK u \in Updates : u = inProgress.hotlist /\ u.step = "answered" /\ u = inProgress["hotlist"]
  BY InProgressIs DEF hotlistUpdated
<1>3. PICK k \in Nat : k = Len(targetList) BY DiffsAre
<1>4. PICK n \in 0 .. k : n = u.upTo BY <1>1, <1>2, <1>3 DEF ListsAre, UpdatesAreTimely
<1>5. PICK s \in 0 .. n : s = u.since /\ s <= t
  BY <1>2, <1>1, <1>4 DEF NoUpdate, ListsAre, UpdatesAreTimely
<1>6. PICK hotlist : hotlist = {diff \in 1 .. n : diff > s} /\ hotlist = upTo(u.upTo) \ upTo(u.since)
  <2>1. upTo(u.upTo) = 1 .. n BY <1>3, <1>4, DiffsAre
  <2>2. upTo(u.since) = 1 .. s BY <1>3, <1>4, <1>5, DiffsAre
  <2>3. (1 .. n) \ (1 .. s) = {diff \in 1 .. n : diff > s} BY <1>5
  <2> QED BY <2>1, <2>2, <2>3
<1>7. phishingLists' = [key \in DOMAIN phishingLists |-> applyDiffs(phishingLists[key], hotlist, key)]
  BY <1>2, <1>6 DEF hotlistUpdated
<1>8. /\ UNCHANGED <<says, targetList, stalelist>>
      /\ outOfDate' = outOfDate \ {"hotlist"} /\ inProgress' = [inProgress EXCEPT !.hotlist = NoUpdate]
  BY DEF hotlistUpdated, phishingServerVars, upToDate
<1>9. PICK now \in [stalelist : Updates, hotlist : Updates] : now = inProgress'
  BY <1>8, InProgressIs DEF Updates
<1>10. now.hotlist = NoUpdate /\ now["hotlist"] = NoUpdate /\ now.stalelist = inProgress.stalelist /\ now["stalelist"] = inProgress["stalelist"]
  BY <1>8, <1>9, InProgressIs
<1>11. ASSUME NEW r \in Nat PROVE UpdatesAreTimely(r)'
  BY <1>1, <1>10, <1>8, <1>9 DEF ListsAre, UpdatesAreTimely, NoUpdate
<1>12. t \in 0 .. k BY <1>1, <1>3 DEF ListsAre
<1>13. CASE phishingLists = <<>>
  BY <1>13, <1>7, <1>1, <1>3, <1>8, <1>11, <1>12, <1>9 DEF ListsAre, PhishingInv
<1>14. CASE phishingLists # <<>>
  <2>1. phishingLists \in Lists /\ HaveAll(phishingLists, t) BY <1>1, <1>14 DEF ListsAre
  <2>2. phishingLists' = [key \in ListKeys |-> applyDiffs(phishingLists[key], hotlist, key)]
    BY <1>7, <2>1 DEF Lists
  <2>3. PICK r \in Nat : r = (IF n > t THEN n ELSE t) /\ r \in 0 .. k BY <1>12
  <2>4. ASSUME NEW key \in ListKeys
        PROVE  /\ phishingLists'[key].has = {diff \in 1 .. r : targetList[diff] = key}
               /\ phishingLists'[key].lastUpdated <= r
               /\ phishingLists[key].lastUpdated <= phishingLists'[key].lastUpdated
               /\ n > t /\ targetList[n] = key => n <= phishingLists'[key].lastUpdated
               /\ phishingLists'[key] \in [has : SUBSET Nat, lastUpdated : Nat]
    <3>1. PICK list \in [has : SUBSET Nat, lastUpdated : Nat] : list = phishingLists[key]
      BY <2>1 DEF Lists
    <3>2. list.has = {diff \in 1 .. t : targetList[diff] = key} /\ list.lastUpdated \in 0 .. t
      BY <2>1, <3>1 DEF HaveAll
    <3>3. PICK new : new = applyDiffs(list, hotlist, key) OBVIOUS
    <3>4. phishingLists'[key] = new BY <2>2, <3>1, <3>3
    <3>5. hotlist \subseteq 1 .. r /\ list.lastUpdated \in 0 .. r BY <2>3, <1>6, <3>2
    <3>6. /\ new.has = list.has \cup {diff \in hotlist : diff > list.lastUpdated /\ targetList[diff] = key}
          /\ new.lastUpdated \in {diff \in hotlist : diff > list.lastUpdated /\ targetList[diff] = key}
                                 \cup {list.lastUpdated}
          /\ \A diff \in hotlist : diff > list.lastUpdated /\ targetList[diff] = key => diff <= new.lastUpdated
          /\ list.lastUpdated <= new.lastUpdated /\ new.lastUpdated \in 0 .. r
          /\ new = [has |-> new.has, lastUpdated |-> new.lastUpdated] BY <3>3, <3>5, AppliedIs
    <3>7. new.has = {diff \in 1 .. r : targetList[diff] = key} BY <3>2, <3>6, <1>5, <1>6, <2>3, <3>5
    <3>8. n > t /\ targetList[n] = key => n <= new.lastUpdated BY <1>5, <1>6, <3>2, <3>6
    <3>9. new \in [has : SUBSET Nat, lastUpdated : Nat] BY <3>6, <3>7
    <3> QED BY <3>1, <3>4, <3>6, <3>7, <3>8, <3>9
  <2>5. phishingLists' \in Lists BY <2>2, <2>4 DEF Lists
  <2>6. phishingLists' # <<>> BY <2>1, <2>2 DEF HaveAll
  <2>7. \E key \in ListKeys : phishingLists'[key].lastUpdated = r
    <3>1. \A key \in ListKeys : phishingLists'[key].lastUpdated \in Nat /\ phishingLists[key].lastUpdated \in Nat
      BY <2>1, <2>4 DEF Lists
    <3>2. CASE n > t BY <1>3, <1>4, <3>2, DiffsAre, <2>3, <2>4, <3>1
    <3>3. CASE ~(n > t) BY <2>1, <2>3, <2>4, <3>3, <3>1 DEF HaveAll
    <3> QED BY <3>2, <3>3
  <2>8. HaveAll(phishingLists, r)' BY <1>8, <2>4, <2>7 DEF HaveAll
  <2>9. ListsAre(r)' BY <1>3, <1>8, <2>3, <1>11, <2>5, <2>6, <2>8 DEF ListsAre
  <2>10. r \in Nat OBVIOUS
  <2> QED BY <1>8, <1>9, <2>9, <2>10 DEF PhishingInv
<1> QED BY <1>13, <1>14

LEMMA PhishingStep == ASSUME PhishingAssumption, PhishingInv, PhishingNext PROVE PhishingInv'
<1>1. DOMAIN inProgress = {"stalelist", "hotlist"} BY InProgressIs
<1>2. ASSUME NEW key \in ListKeys, diffPublished(key) PROVE PhishingInv' BY <1>2, DiffIsPublished
<1>3. ASSUME NEW site \in Sites, bypass(site) PROVE PhishingInv' BY <1>3, TimeHasPassed DEF bypass
<1>4. CASE stalelistPublished BY <1>4, StalelistIsPublished
<1>5. CASE phishingRestart BY <1>5, WalletRestarts
<1>6. CASE updateStalelist BY <1>6, StalelistIsAsked
<1>7. CASE updateHotlist BY <1>7, HotlistIsAsked
<1>8. CASE stalelistUpdated BY <1>8, StalelistIsUpdated
<1>9. CASE hotlistUpdated BY <1>9, HotlistIsUpdated
<1>10. ASSUME NEW kind \in {"stalelist", "hotlist"}, timePasses(kind) PROVE PhishingInv'
  BY <1>10, TimeHasPassed DEF timePasses
<1>11. ASSUME NEW kind \in {"stalelist", "hotlist"}, serverAnswers(kind) PROVE PhishingInv'
  BY <1>11, AnswerIsMade
<1>12. ASSUME NEW kind \in {"stalelist", "hotlist"}, updateFails(kind) PROVE PhishingInv'
  BY <1>12, UpdateFails
<1> QED
  BY <1>1, <1>2, <1>3, <1>4, <1>5, <1>6, <1>7, <1>8, <1>9, <1>10, <1>11, <1>12 DEF PhishingNext

LEMMA PhishingIdle == ASSUME PhishingInv, UNCHANGED phishingVars PROVE PhishingInv'
BY TimeHasPassed DEF phishingVars

-----------------------------------------------------------------------------
(* What the lists say of a site. *)

LEMMA NoGapsAreLeft == PhishingInv => ListsHaveNoGaps
<1> SUFFICES ASSUME PhishingInv, NEW key \in DOMAIN phishingLists
             PROVE  phishingLists[key].has = {diff \in upTo(lastDiffTimestamp) : isFor(diff, key)}
  BY DEF ListsHaveNoGaps
<1>1. PICK t \in Nat : ListsAre(t) BY DEF PhishingInv
<1>2. lastDiffTimestamp = t /\ upTo(t) = 1 .. t BY <1>1, LastDiffIs, DiffsAre DEF ListsAre
<1>3. phishingLists # <<>> OBVIOUS
<1>4. phishingLists \in Lists /\ HaveAll(phishingLists, t) BY <1>1, <1>3 DEF ListsAre
<1>5. phishingLists[key].has = {diff \in 1 .. t : targetList[diff] = key} BY <1>4 DEF Lists, HaveAll
<1> QED BY <1>2, <1>5 DEF isFor

LEMMA SaysAre ==
  ASSUME PhishingAssumption, PhishingInv, NEW t \in Nat, ListsAre(t)
  PROVE  \A d \in 1 .. t : says[d] \in [list : {"allowlist", "blocklist", "fuzzylist"},
                                        site : Seq(STRING), isRemoval : BOOLEAN]
<1>1. PICK Row : Row = [list : {"allowlist", "blocklist", "fuzzylist"}, site : Seq(STRING), isRemoval : BOOLEAN]
  OBVIOUS
<1>2. says \in Seq(Row) /\ Len(says) >= MaxDiffs /\ MaxDiffs \in Nat /\ Len(targetList) <= MaxDiffs
  BY <1>1 DEF PhishingInv, PhishingAssumption
<1>3. Len(says) \in Nat /\ Len(targetList) \in Nat /\ t <= Len(targetList)
  BY <1>2, LenProperties, DiffsAre DEF ListsAre
<1>4. ASSUME NEW d \in 1 .. t PROVE says[d] \in Row BY <1>2, <1>3, ElementOfSeq
<1> QED BY <1>1, <1>4

\* An addition that no later diff of its list takes back.
Stands(key, d, t) ==
  /\ targetList[d] = key /\ ~says[d].isRemoval
  /\ \A later \in (d + 1) .. t : ~(targetList[later] = key /\ says[later] = [says[d] EXCEPT !.isRemoval = TRUE])

LEMMA EntriesAre ==
  ASSUME PhishingAssumption, PhishingInv, NEW t \in Nat, ListsAre(t), phishingLists # <<>>, NEW key \in ListKeys,
         NEW list
  PROVE  entries(key, list) = {says[d].site : d \in {e \in 1 .. t : says[e].list = list /\ Stands(key, e, t)}}
<1>1. PICK has : has = phishingLists[key].has /\ has = {diff \in 1 .. t : targetList[diff] = key}
  BY DEF ListsAre, HaveAll
<1> DEFINE about(site) == {d \in has : says[d].list = list /\ says[d].site = site}
<1>2. entries(key, list) = {site \in {says[d].site : d \in {e \in has : says[e].list = list}} :
                              ~says[Max(about(site))].isRemoval} BY <1>1 DEF entries
<1>3. ASSUME NEW site, NEW d \in about(site)
      PROVE  /\ Max(about(site)) \in about(site) /\ \A later \in about(site) : later <= Max(about(site))
             /\ about(site) \subseteq 1 .. t
  <2>1. about(site) \in SUBSET (0 .. t) /\ about(site) # {} /\ about(site) \subseteq 1 .. t BY <1>1
  <2> HIDE DEF about
  <2> QED BY <2>1, GreatestIsThere
<1>4. ASSUME NEW site \in entries(key, list)
      PROVE  \E d \in 1 .. t : says[d].list = list /\ Stands(key, d, t) /\ says[d].site = site
  <2>1. PICK e \in about(site) : TRUE BY <1>2
  <2>2. PICK m : m = Max(about(site)) OBVIOUS
  <2>3. m \in about(site) /\ (\A later \in about(site) : later <= m) /\ ~says[m].isRemoval
    BY <1>2, <1>3, <2>1, <2>2
  <2>4. m \in 1 .. t /\ targetList[m] = key /\ says[m].list = list /\ says[m].site = site
    BY <1>1, <2>3
  <2>5. ASSUME NEW later \in (m + 1) .. t, targetList[later] = key, says[later] = [says[m] EXCEPT !.isRemoval = TRUE]
        PROVE  FALSE BY <2>4, SaysAre, <2>5, <1>1, <2>3
  <2> QED BY <2>3, <2>4, <2>5 DEF Stands
<1>5. ASSUME NEW d \in 1 .. t, says[d].list = list, Stands(key, d, t)
      PROVE  says[d].site \in entries(key, list)
  <2>1. PICK site : site = says[d].site OBVIOUS
  <2>2. d \in about(site) /\ ~says[d].isRemoval BY <1>1, <1>5, <2>1 DEF Stands
  <2>3. PICK m : m = Max(about(site)) OBVIOUS
  <2>4. m \in about(site) /\ d <= m /\ m \in 1 .. t BY <1>3, <2>2, <2>3
  <2>5. ~says[m].isRemoval
    <3>1. SUFFICES ASSUME says[m].isRemoval PROVE FALSE OBVIOUS
    <3>2. m \in (d + 1) .. t /\ targetList[m] = key /\ says[m].list = list /\ says[m].site = site
      BY <2>2, <3>1, <1>1, <2>4
    <3>3. PICK row \in [list : {"allowlist", "blocklist", "fuzzylist"}, site : Seq(STRING), isRemoval : BOOLEAN] :
            row = says[d] BY SaysAre
    <3>4. PICK later \in [list : {"allowlist", "blocklist", "fuzzylist"}, site : Seq(STRING), isRemoval : BOOLEAN] :
            later = says[m] BY <2>4, SaysAre
    <3>5. later = [row EXCEPT !.isRemoval = TRUE] BY <1>5, <2>1, <3>1, <3>2, <3>3, <3>4
    <3> QED BY <1>5, <3>2, <3>3, <3>4, <3>5 DEF Stands
  <2>6. site \in {says[e].site : e \in {f \in has : says[f].list = list}} BY <1>1, <1>5, <2>1, <2>2
  <2> QED BY <1>2, <2>1, <2>3, <2>5, <2>6
<1>6. PICK S : S = {says[d].site : d \in {e \in 1 .. t : says[e].list = list /\ Stands(key, e, t)}}
  OBVIOUS
<1>7. \A site \in entries(key, list) : site \in S BY <1>4, <1>6
<1>8. \A site \in S : site \in entries(key, list) BY <1>5, <1>6
<1> QED BY <1>6, <1>7, <1>8

\* A list has what the server has published to it.
LEMMA PublishedIs ==
  ASSUME PhishingAssumption, PhishingInv, NEW t \in Nat, ListsAre(t), phishingLists # <<>>, NEW site, NEW list
  PROVE  isPublished(list, site, t) <=>
           \E key \in ListKeys : matchPartsAgainstList(withoutDot(site), entries(key, list))
<1>1. isPublished(list, site, t) <=>
        \E key \in ListKeys, d \in 1 .. t :
          says[d].list = list /\ Stands(key, d, t) /\ IsPrefix(says[d].site, withoutDot(site))
  BY DEF isPublished, Stands, isFor
<1>2. ASSUME NEW key \in ListKeys
      PROVE  matchPartsAgainstList(withoutDot(site), entries(key, list)) <=>
               \E d \in 1 .. t : says[d].list = list /\ Stands(key, d, t) /\ IsPrefix(says[d].site, withoutDot(site))
  BY EntriesAre DEF matchPartsAgainstList
<1> QED BY <1>1, <1>2

LEMMA SitesStayJudged == ASSUME PhishingAssumption, PhishingInv PROVE SitesAreJudged
<1>1. PICK t \in Nat : ListsAre(t) BY DEF PhishingInv
<1>2. lastDiffTimestamp = t BY <1>1, LastDiffIs
<1>3. CASE phishingLists = <<>>
  <2>1. t = 0 /\ DOMAIN phishingLists = {} BY <1>1, <1>3 DEF ListsAre
  <2>2. \A site, list : ~isPublished(list, site, t) BY <2>1 DEF isPublished
  <2>3. \A site : ~test(site) BY <2>1 DEF test, check
  <2> QED BY <1>2, <2>2, <2>3 DEF SitesAreJudged
<1>4. CASE phishingLists # <<>>
  <2>1. DOMAIN phishingLists = ListKeys BY <1>1, <1>4 DEF ListsAre, Lists
  <2>2. \A site, list : isPublished(list, site, t) <=>
          \E key \in DOMAIN phishingLists : matchPartsAgainstList(withoutDot(site), entries(key, list))
    BY <1>1, <1>4, <2>1, PublishedIs
  <2>3. \A site : check(site) <=>
          /\ ~isPublished("allowlist", site, t)
          /\ \/ isPublished("blocklist", site, t)
             \/ \E key \in DOMAIN phishingLists : isNear(withoutDot(site), entries(key, "fuzzylist"))
    BY <2>2 DEF check
  <2>4. ASSUME NEW site, NEW key \in DOMAIN phishingLists, isNear(withoutDot(site), entries(key, "fuzzylist"))
        PROVE  \E d \in 1 .. t : says[d].list = "fuzzylist" /\ isNear(withoutDot(site), {says[d].site})
    <3>1. PICK target \in entries(key, "fuzzylist") : isNear(withoutDot(site), {target})
      BY <2>4 DEF isNear
    <3>2. entries(key, "fuzzylist") =
            {says[d].site : d \in {e \in 1 .. t : says[e].list = "fuzzylist" /\ Stands(key, e, t)}}
      BY <1>1, <1>4, <2>1, EntriesAre
    <3>3. PICK d \in 1 .. t : says[d].list = "fuzzylist" /\ target = says[d].site BY <3>1, <3>2
    <3> QED BY <3>1, <3>3
  <2> QED BY <1>2, <2>3, <2>4 DEF SitesAreJudged, test
<1> QED BY <1>3, <1>4

-----------------------------------------------------------------------------

(***************************************************************************)
(* The detection of tokens.  A call that no later one has made "mixed" is  *)
(* for the list that the controller holds; and while the controller is     *)
(* active and nothing has lapsed, each token of the list of its chain that *)
(* its account has is detected, known, or being asked for.  The controller *)
(* has the account of one of the other two, and the selected chain, unless *)
(* that one has no detection.                                              *)
(***************************************************************************)
LiveChains == DetectionChains \ {"test"}
Fields ==
  [address : DetectionAccounts, client : LiveChains, list : {"mainnet", "layer two", "static", "none"},
   disabled : BOOLEAN, unlocked : BOOLEAN, enabled : BOOLEAN]
Selections == [account : DetectionAccounts, preferred : DetectionAccounts, network : DetectionChains]

DetectionTypes ==
  /\ selection \in Selections /\ detector \in Fields
  /\ detections \in [Detections -> DetectionCalls \cup {NoDetection}]

IsForList(call, list) ==
  /\ call.mixed \/ call.list = list
  /\ call.list = call.chain \/ (call.list = "static" /\ call.chain = "mainnet")

IsAskedBy(call, token, chain, account) ==
  call # NoDetection /\ call.chain = chain /\ call.account = account /\ token \in call.tokens

IsNoted(token, chain, account) ==
  \/ token \in tokensOf(detected, chain, account) \cup tokensOf(known, chain, account)
  \/ \E d \in Detections : IsAskedBy(detections[d], token, chain, account)

ListOf(fields, cached) ==
  IF ~fields.enabled THEN "static" ELSE IF fields.client \in cached THEN fields.client ELSE "none"

IsCovered ==
  isActive(detector) /\ ~lapsed /\ (detector.enabled \/ detector.client = "mainnet") =>
    \A token \in TokensOfList(ListOf(detector, cachedLists)) \cap Balances(detector.client, detector.address) :
      IsNoted(token, detector.client, detector.address)

Follows(fields, sel) ==
  fields.address \in {sel.account, sel.preferred} /\ sel.network \in {fields.client, "test"}

DetectionInv ==
  /\ DetectionTypes
  /\ \A d \in Detections : detections[d] # NoDetection => IsForList(detections[d], detector.list)
  /\ DetectedIsHeld /\ IsCovered /\ Follows(detector, selection)

LEMMA InitialDetection == DetectionAssumption /\ DetectionInit => DetectionInv
<1> SUFFICES ASSUME DetectionAssumption, DetectionInit PROVE DetectionInv OBVIOUS
<1>1. PICK a \in DetectionAccounts : selection = [account |-> a, preferred |-> a, network |-> "mainnet"]
  BY DEF DetectionInit
<1>2. PICK disabled \in BOOLEAN, unlocked \in BOOLEAN :
        detector = [address |-> selection.account, client |-> "mainnet", list |-> "none",
                    disabled |-> disabled, unlocked |-> unlocked, enabled |-> TRUE]
  BY DEF DetectionInit
<1>3. selection.account = a BY <1>1
<1>4. detector \in Fields BY <1>2, <1>3 DEF Fields, LiveChains, DetectionChains
<1>5. selection \in Selections BY <1>1 DEF Selections, DetectionChains
<1>6. detections = [d \in Detections |-> NoDetection] /\ detected = {} /\ cachedLists = {}
  BY DEF DetectionInit
<1>7. IsCovered BY <1>2, <1>6 DEF ListOf, TokensOfList, IsCovered
<1>8. Follows(detector, selection) BY <1>1, <1>2, <1>3 DEF Follows
<1>9. DetectedIsHeld BY <1>6 DEF DetectedIsHeld
<1> QED BY <1>4, <1>5, <1>6, <1>7, <1>8, <1>9 DEF DetectionInv, DetectionTypes

\* The list for a chain, and its tokens.
LEMMA ListForIs ==
  ASSUME NEW fields \in Fields, NEW chain \in LiveChains, fields.enabled \/ chain = "mainnet"
  PROVE  /\ listFor(fields, chain) \in {"mainnet", "layer two", "static", "none"}
         /\ listFor(fields, chain) # "none" =>
              \/ listFor(fields, chain) = chain
              \/ listFor(fields, chain) = "static" /\ chain = "mainnet"
BY DEF listFor, LiveChains, DetectionChains, Fields

LEMMA TokensAre ==
  ASSUME NEW list \in {"mainnet", "layer two", "static", "none"}
  PROVE  /\ TokensOfList(list) \subseteq {"stable", "meme", "bridged"}
         /\ list = "none" => TokensOfList(list) = {}
BY DEF TokensOfList

\* What a call of detectTokens does, for whatever fields it is made.
LEMMA TokensDetected ==
  ASSUME DetectionInv, NEW d \in Detections, NEW fields \in Fields, fields.list = detector.list,
         NEW client, NEW account \in DetectionAccounts, NEW starts \in BOOLEAN,
         NEW chain \in DetectionChains, chain = chainOfClient(client),
         detectTokens(d, fields, client, account, starts), UNCHANGED <<detected, known>>
  PROVE  /\ detector' \in Fields
         /\ detector' = [fields EXCEPT !.list = detector'.list]
         /\ detections' \in [Detections -> DetectionCalls \cup {NoDetection}]
         /\ \A e \in Detections : detections'[e] # NoDetection => IsForList(detections'[e], detector'.list)
         /\ lapsed' = (lapsed \/ (isActive(fields) /\ ~isTokenDetectionSupported(chain)))
         /\ \A token, on, owns : IsNoted(token, on, owns) => IsNoted(token, on, owns)'
         /\ /\ isActive(fields) /\ isTokenDetectionSupported(chain)
            /\ fields.enabled \/ chain = "mainnet"
            => \A token \in TokensOfList(listFor(fields, chain)) : IsNoted(token, chain, account)'
<1>1. chain = chainOfClient(client) OBVIOUS
<1>2. chain \in DetectionChains OBVIOUS
<1>3. PICK list : list = listFor(fields, chain) OBVIOUS
<1>4. PICK tokens : tokens = tokensToDetect(list, chain, account) OBVIOUS
<1>5. PICK detects \in BOOLEAN :
        detects <=> isActive(fields) /\ isTokenDetectionSupported(chain) /\ (fields.enabled \/ chain = "mainnet")
  OBVIOUS
<1>6. PICK call : call = [chain |-> chain, account |-> account, list |-> list, tokens |-> tokens,
                          starts |-> starts, mixed |-> FALSE] OBVIOUS
<1>7. /\ detections[d] = NoDetection
      /\ detector' = IF detects THEN [fields EXCEPT !.list = list] ELSE fields
      /\ detections' =
           [e \in Detections |->
              IF e = d THEN (IF detects /\ tokens # {} THEN call ELSE NoDetection)
              ELSE IF detections[e] = NoDetection THEN NoDetection
              ELSE [detections[e] EXCEPT !.mixed = @ \/ (detects /\ detections[e].list # list)]]
      /\ lapsed' = (lapsed \/ (isActive(fields) /\ ~isTokenDetectionSupported(chain)))
  BY <1>1, <1>3, <1>4, <1>5, <1>6 DEF detectTokens
<1>8. detects => chain \in LiveChains /\ list \in {"mainnet", "layer two", "static", "none"}
  BY <1>2, <1>3, <1>5, ListForIs DEF LiveChains, isTokenDetectionSupported
<1>9. detects /\ tokens # {} => /\ call \in DetectionCalls
                                /\ call.list = list
                                /\ call.list = call.chain \/ (call.list = "static" /\ call.chain = "mainnet")
  <2> SUFFICES ASSUME detects, tokens # {}
               PROVE  /\ call \in DetectionCalls
                      /\ call.list = list
                      /\ call.list = call.chain \/ (call.list = "static" /\ call.chain = "mainnet")
    OBVIOUS
  <2>1. tokens \subseteq TokensOfList(list) BY <1>4 DEF tokensToDetect
  <2>2. tokens \subseteq {"stable", "meme", "bridged"} /\ list # "none" BY <1>8, <2>1, TokensAre
  <2>3. list = chain \/ (list = "static" /\ chain = "mainnet") BY <1>3, <1>5, <1>8, <2>2, ListForIs
  <2> QED BY <1>6, <1>8, <2>2, <2>3 DEF DetectionCalls, LiveChains
<1>10. detector' \in Fields /\ detector' = [fields EXCEPT !.list = detector'.list]
  BY <1>7, <1>8 DEF Fields
<1>11. detects => detector'.list = list BY <1>7 DEF Fields
<1>12. ~detects => detector'.list = detector.list BY <1>7
<1>13. ASSUME NEW e \in Detections, e # d, detections[e] # NoDetection
       PROVE  /\ detections'[e] \in DetectionCalls /\ IsForList(detections'[e], detector'.list)
              /\ detections'[e].chain = detections[e].chain /\ detections'[e].account = detections[e].account
              /\ detections'[e].tokens = detections[e].tokens
  <2>1. PICK old \in DetectionCalls : old = detections[e] BY <1>13 DEF DetectionInv, DetectionTypes
  <2>2. PICK mixed \in BOOLEAN : mixed = (old.mixed \/ (detects /\ old.list # list)) OBVIOUS
  <2>3. PICK new : new = [old EXCEPT !.mixed = mixed] OBVIOUS
  <2>4. detections'[e] = new BY <1>7, <1>13, <2>1, <2>2, <2>3 DEF DetectionCalls
  <2>5. /\ new \in DetectionCalls /\ new.mixed = mixed /\ new.list = old.list
        /\ new.chain = old.chain /\ new.account = old.account /\ new.tokens = old.tokens
    BY <2>3 DEF DetectionCalls
  <2>6. IsForList(old, detector.list) BY <1>13, <2>1 DEF DetectionInv
  <2>7. IsForList(new, detector'.list) BY <1>11, <1>12, <2>2, <2>5, <2>6 DEF IsForList
  <2> QED BY <2>1, <2>4, <2>5, <2>7
<1>14. detections'[d] = IF detects /\ tokens # {} THEN call ELSE NoDetection BY <1>7
<1>15. detections' \in [Detections -> DetectionCalls \cup {NoDetection}] BY <1>7, <1>9, <1>13, <1>14
<1>16. ASSUME NEW e \in Detections, detections'[e] # NoDetection
       PROVE  IsForList(detections'[e], detector'.list)
  BY <1>9, <1>11, <1>14, <1>16, <1>7, <1>13 DEF IsForList
<1>17. ASSUME NEW token, NEW on, NEW owns, IsNoted(token, on, owns) PROVE IsNoted(token, on, owns)'
  BY <1>7, <1>13, NoDetectionAssumption, <1>17 DEF IsNoted, IsAskedBy
<1>18. ASSUME detects, NEW token \in TokensOfList(list)
       PROVE  IsNoted(token, chain, account)'
  BY <1>9, <1>14, <1>18, NoDetectionAssumption, <1>6, <1>4 DEF IsAskedBy, IsNoted, tokensToDetect
<1> QED BY <1>1, <1>3, <1>5, <1>7, <1>10, <1>15, <1>16, <1>17, <1>18

\* A detection for the selected chain and the controller's account covers it.
LEMMA DetectionRestarts ==
  ASSUME DetectionInv, NEW d \in Detections, NEW fields \in Fields, fields.list = detector.list,
         NEW client, NEW starts \in BOOLEAN, NEW sel \in Selections, selection' = sel,
         chainOfClient(client) = sel.network, Follows(fields, sel),
         detectTokens(d, fields, client, fields.address, starts), UNCHANGED <<detected, known>>
  PROVE  DetectionInv'
<1>1. PICK chain \in DetectionChains : chain = sel.network BY DEF Selections
<1>2. PICK account \in DetectionAccounts : account = fields.address BY DEF Fields
<1>3. /\ chain = chainOfClient(client) /\ detectTokens(d, fields, client, account, starts)
  BY <1>1, <1>2
<1>4. /\ detector' \in Fields
      /\ detector' = [fields EXCEPT !.list = detector'.list]
      /\ detections' \in [Detections -> DetectionCalls \cup {NoDetection}]
      /\ \A e \in Detections : detections'[e] # NoDetection => IsForList(detections'[e], detector'.list)
      /\ lapsed' = (lapsed \/ (isActive(fields) /\ ~isTokenDetectionSupported(chain)))
      /\ /\ isActive(fields) /\ isTokenDetectionSupported(chain)
         /\ fields.enabled \/ chain = "mainnet"
         => \A token \in TokensOfList(listFor(fields, chain)) : IsNoted(token, chain, account)'
  BY <1>3, TokensDetected
<1>5. PICK after \in Fields : after = detector' BY <1>4
<1>6. /\ after.address = fields.address /\ after.client = fields.client /\ after.enabled = fields.enabled
      /\ after.disabled = fields.disabled /\ after.unlocked = fields.unlocked
  BY <1>4, <1>5 DEF Fields
<1>7. Follows(detector, selection)' BY <1>5, <1>6 DEF Follows
<1>8. IsCovered'
  <2> SUFFICES ASSUME isActive(after), ~lapsed', after.enabled \/ after.client = "mainnet",
                      NEW token \in TokensOfList(ListOf(after, cachedLists'))
               PROVE  IsNoted(token, after.client, after.address)' BY <1>5 DEF IsCovered, isActive
  <2>1. isActive(fields) /\ isTokenDetectionSupported(chain) BY <1>4, <1>6 DEF isActive
  <2>2. chain = fields.client /\ chain \in LiveChains
    BY <1>1, <2>1 DEF Follows, isTokenDetectionSupported, LiveChains
  <2>3. listFor(fields, chain) = ListOf(after, cachedLists') BY <1>6, <2>2 DEF listFor, ListOf
  <2>4. IsNoted(token, chain, account)' BY <1>4, <1>6, <2>1, <2>2, <2>3
  <2>5. chain = after.client /\ account = after.address BY <1>2, <1>6, <2>2
  <2> QED BY <2>4, <2>5
<1>9. DetectedIsHeld' BY DEF DetectionInv, DetectedIsHeld
<1> QED BY <1>4, <1>7, <1>8, <1>9 DEF DetectionInv, DetectionTypes

LEMMA SelectedChainIs ==
  ASSUME NEW sel \in Selections, selection' = sel PROVE chainOfClient("selected") = sel.network
BY DEF chainOfClient, DetectionChains

LEMMA DetectorIs ==
  ASSUME DetectionInv
  PROVE  detector \in Fields /\ selection \in Selections /\ Follows(detector, selection)
BY DEF DetectionInv, DetectionTypes

LEMMA DetectionStarts ==
  ASSUME DetectionInv, NEW d \in Detections, startDetection(d) PROVE DetectionInv'
<1>1. PICK old \in Fields : old = detector BY DetectorIs
<1>2. PICK fields : fields = [old EXCEPT !.disabled = FALSE] OBVIOUS
<1>3. fields \in Fields /\ fields.list = old.list /\ fields.address = old.address /\ fields.client = old.client
  BY <1>2 DEF Fields
<1>4. PICK sel \in Selections : sel = selection /\ selection' = sel BY DetectorIs DEF startDetection
<1>5. PICK starts \in BOOLEAN : starts = TRUE OBVIOUS
<1>6. detectTokens(d, fields, "selected", fields.address, starts) /\ UNCHANGED <<detected, known>>
  BY <1>1, <1>2, <1>3, <1>5 DEF startDetection
<1>7. Follows(fields, sel) BY <1>1, <1>3, <1>4, DetectorIs DEF Follows
<1>8. PICK client : client = "selected" OBVIOUS
<1>9. chainOfClient(client) = sel.network BY <1>4, <1>8, SelectedChainIs
<1> QED BY <1>1, <1>3, <1>4, <1>6, <1>7, <1>8, <1>9, DetectionRestarts

\* The steps that restart it, for other fields.
LEMMA TokenDetectionRestarts ==
  ASSUME DetectionInv, NEW d \in Detections, NEW fields \in Fields, fields.list = detector.list,
         NEW client, NEW sel \in Selections, selection' = sel,
         client = "selected" \/ (client = sel.network), Follows(fields, sel),
         restartTokenDetection(d, fields, client)
  PROVE  DetectionInv'
BY DetectionRestarts DEF restartTokenDetection, chainOfClient, Selections, DetectionChains

LEMMA KeyringIsUnlocked ==
  ASSUME DetectionInv, NEW d \in Detections, keyringUnlocked(d) PROVE DetectionInv'
BY DetectorIs, TokenDetectionRestarts DEF Fields, keyringUnlocked, Follows

LEMMA ListIsFetched ==
  ASSUME DetectionInv, NEW d \in Detections, NEW chain, listFetched(d, chain) PROVE DetectionInv'
BY DetectorIs, TokenDetectionRestarts DEF listFetched

\* A selection that the controller need not follow.
LEMMA SelectionChanges ==
  ASSUME DetectionInv, NEW sel \in Selections, selection' = sel, Follows(detector, sel),
         UNCHANGED <<cachedLists, detector, detections, detected, known, lapsed>>
  PROVE  DetectionInv'
BY DEF DetectionInv, IsCovered, isActive, IsNoted, tokensOf, DetectionTypes, DetectedIsHeld

LEMMA AccountIsSelected ==
  ASSUME DetectionInv, NEW d \in Detections, NEW account \in DetectionAccounts,
         selectedAccountChanged(d, account)
  PROVE  DetectionInv'
<1>1. PICK old \in Fields : old = detector BY DetectorIs
<1>2. PICK sel : sel = [selection EXCEPT !.account = account] OBVIOUS
<1>3. sel \in Selections /\ sel.account = account /\ sel.network = selection.network
  BY <1>2, DetectorIs DEF Selections
<1>4. selection' = sel /\ UNCHANGED cachedLists BY <1>2 DEF selectedAccountChanged
<1>5. CASE account # old.address
  BY <1>1, <1>5, <1>3, DetectorIs, <1>4, TokenDetectionRestarts DEF Fields, selectedAccountChanged, Follows
<1>6. CASE account = old.address
  BY <1>1, <1>6, <1>3, DetectorIs, <1>4, SelectionChanges DEF selectedAccountChanged, Follows
<1> QED BY <1>5, <1>6

LEMMA PreferencesChange ==
  ASSUME DetectionInv, NEW d \in Detections, NEW account \in DetectionAccounts, NEW enabled \in BOOLEAN,
         preferencesChanged(d, account, enabled)
  PROVE  DetectionInv'
<1>1. PICK old \in Fields : old = detector BY DetectorIs
<1>2. PICK sel : sel = [selection EXCEPT !.preferred = account] OBVIOUS
<1>3. sel \in Selections /\ sel.preferred = account /\ sel.network = selection.network
  BY <1>2, DetectorIs DEF Selections
<1>4. selection' = sel /\ UNCHANGED cachedLists BY <1>2 DEF preferencesChanged
<1>5. PICK fields : fields = [old EXCEPT !.address = account, !.enabled = enabled] OBVIOUS
<1>6. /\ fields \in Fields /\ fields.list = old.list /\ fields.address = account /\ fields.client = old.client
      /\ fields.enabled = enabled BY <1>5 DEF Fields
<1>7. Follows(fields, sel) BY <1>1, <1>3, <1>6, DetectorIs DEF Follows
<1>8. CASE changesDetection(fields)
  BY <1>1, <1>5, <1>8, <1>3, <1>4, <1>6, <1>7, TokenDetectionRestarts DEF preferencesChanged
<1>9. CASE ~changesDetection(fields)
  <2>1. detector' = fields /\ UNCHANGED <<detections, detected, known, lapsed>>
    BY <1>1, <1>5, <1>9 DEF preferencesChanged
  <2>2. account = old.address /\ enabled = old.enabled BY <1>1, <1>6, <1>9 DEF changesDetection
  <2>3. fields = old BY <1>5, <2>2 DEF Fields
  <2>4. Follows(detector, sel) /\ UNCHANGED <<cachedLists, detector>>
    BY <1>1, <1>4, <1>7, <2>1, <2>3
  <2> QED BY <1>3, <1>4, <2>1, <2>4, SelectionChanges
<1> QED BY <1>8, <1>9

LEMMA NetworkIsSelected ==
  ASSUME DetectionInv, NEW d \in Detections, NEW network \in DetectionChains, networkChanged(d, network)
  PROVE  DetectionInv'
<1>1. PICK old \in Fields : old = detector BY DetectorIs
<1>2. PICK sel : sel = [selection EXCEPT !.network = network] OBVIOUS
<1>3. /\ sel \in Selections /\ sel.network = network /\ sel.account = selection.account
      /\ sel.preferred = selection.preferred BY <1>2, DetectorIs DEF Selections
<1>4. selection' = sel /\ UNCHANGED cachedLists BY <1>2 DEF networkChanged
<1>5. CASE old.client # network /\ isTokenDetectionSupported(network)
  BY <1>5, <1>1, <1>3, DetectorIs, <1>4, TokenDetectionRestarts DEF Fields, LiveChains,
     isTokenDetectionSupported, networkChanged, Follows
<1>6. CASE ~(old.client # network /\ isTokenDetectionSupported(network))
  BY <1>1, <1>6, <1>3, DetectorIs, <1>4, SelectionChanges DEF networkChanged, Follows,
     isTokenDetectionSupported
<1> QED BY <1>5, <1>6

\* A detection for any chain and account takes nothing from what is covered.
LEMMA DetectionRepeats ==
  ASSUME DetectionInv, NEW d \in Detections, NEW client, NEW account \in DetectionAccounts,
         detectsAgain(d, client, account)
  PROVE  DetectionInv'
<1>1. PICK fields \in Fields : fields = detector BY DetectorIs
<1>2. PICK sel \in Selections : sel = selection /\ selection' = sel BY DetectorIs DEF detectsAgain
<1>3. PICK chain : chain = chainOfClient(client) OBVIOUS
<1>4. chain \in DetectionChains BY <1>2, <1>3 DEF chainOfClient, Selections
<1>5. PICK starts \in BOOLEAN : starts = FALSE OBVIOUS
<1>6. detectTokens(d, fields, client, account, starts) /\ UNCHANGED <<detected, known, cachedLists>>
  BY <1>1, <1>5 DEF detectsAgain
<1>7. /\ detector' \in Fields
      /\ detector' = [fields EXCEPT !.list = detector'.list]
      /\ detections' \in [Detections -> DetectionCalls \cup {NoDetection}]
      /\ \A e \in Detections : detections'[e] # NoDetection => IsForList(detections'[e], detector'.list)
      /\ lapsed' = (lapsed \/ (isActive(fields) /\ ~isTokenDetectionSupported(chain)))
      /\ \A token, on, owns : IsNoted(token, on, owns) => IsNoted(token, on, owns)'
  BY <1>1, <1>3, <1>4, <1>6, TokensDetected
<1>8. PICK after \in Fields : after = detector' BY <1>7
<1>9. /\ after.address = fields.address /\ after.client = fields.client /\ after.enabled = fields.enabled
      /\ after.disabled = fields.disabled /\ after.unlocked = fields.unlocked
  BY <1>7, <1>8 DEF Fields
<1>10. IsCovered'
  <2> SUFFICES ASSUME isActive(after), ~lapsed', after.enabled \/ after.client = "mainnet",
                      NEW token \in TokensOfList(ListOf(after, cachedLists')) \cap Balances(after.client, after.address)
               PROVE  IsNoted(token, after.client, after.address)' BY <1>8 DEF IsCovered, isActive
  <2>1. isActive(detector) /\ ~lapsed /\ (detector.enabled \/ detector.client = "mainnet")
    BY <1>1, <1>7, <1>9 DEF isActive
  <2>2. ListOf(after, cachedLists') = ListOf(detector, cachedLists) BY <1>1, <1>6, <1>9 DEF ListOf
  <2>3. IsNoted(token, detector.client, detector.address)
    BY <1>1, <1>9, <2>1, <2>2 DEF DetectionInv, IsCovered
  <2>4. IsNoted(token, after.client, after.address) BY <1>1, <1>9, <2>3
  <2> QED BY <1>7, <2>4
<1>11. Follows(detector, selection)' BY <1>1, <1>2, <1>8, <1>9, DetectorIs DEF Follows
<1>12. DetectedIsHeld' BY <1>6 DEF DetectionInv, DetectedIsHeld
<1>13. selection' \in Selections BY <1>2
<1> QED BY <1>7, <1>10, <1>11, <1>12, <1>13 DEF DetectionInv, DetectionTypes

\* One that is stopped, or locked, covers nothing.
LEMMA DetectionStops ==
  ASSUME DetectionInv, NEW after \in Fields, detector' = after, ~isActive(after),
         after.list = detector.list, after.address = detector.address, after.client = detector.client,
         UNCHANGED <<selection, detections, detected>>
  PROVE  DetectionInv'
BY DEF IsCovered, isActive, DetectionInv, DetectionTypes, DetectedIsHeld, Follows

LEMMA DetectionIsStopped == ASSUME DetectionInv, stop PROVE DetectionInv'
<1>1. PICK old \in Fields : old = detector BY DetectorIs
<1>2. PICK after : after = [old EXCEPT !.disabled = TRUE] OBVIOUS
<1>3. /\ after \in Fields /\ ~isActive(after) /\ after.list = old.list /\ after.address = old.address
      /\ after.client = old.client BY <1>2 DEF Fields, isActive
<1>4. detector' = after /\ UNCHANGED <<selection, detections, detected>> BY <1>1, <1>2 DEF stop
<1> QED BY <1>1, <1>3, <1>4, DetectionStops

LEMMA KeyringIsLocked == ASSUME DetectionInv, keyringLocked PROVE DetectionInv'
<1>1. PICK old \in Fields : old = detector BY DetectorIs
<1>2. PICK after : after = [old EXCEPT !.unlocked = FALSE] OBVIOUS
<1>3. /\ after \in Fields /\ ~isActive(after) /\ after.list = old.list /\ after.address = old.address
      /\ after.client = old.client BY <1>2 DEF Fields, isActive
<1>4. detector' = after /\ UNCHANGED <<selection, detections, detected>>
  BY <1>1, <1>2 DEF keyringLocked
<1> QED BY <1>1, <1>3, <1>4, DetectionStops

-----------------------------------------------------------------------------

\* What is in a list of entries.
LEMMA TokensOfIs ==
  ASSUME NEW list, NEW chain, NEW account, NEW token
  PROVE  token \in tokensOf(list, chain, account) <=>
           \E row \in list : row[1] = chain /\ row[2] = account /\ row[3] = token
BY DEF tokensOf

LEMMA TokenIsTaken ==
  ASSUME DetectionInv, NEW chain, NEW account, NEW token, tokenTaken(chain, account, token)
  PROVE  DetectionInv'
<1>1. /\ known' = known \cup {<<chain, account, token>>}
      /\ detected' = {row \in detected : <<row[1], row[2], row[3]>> # <<chain, account, token>>}
      /\ UNCHANGED <<selection, cachedLists, detector, detections, lapsed>> BY DEF tokenTaken
<1>2. ASSUME NEW one, NEW on, NEW owns, IsNoted(one, on, owns) PROVE IsNoted(one, on, owns)'
  <2>1. CASE one \in tokensOf(known, on, owns) BY <1>1, <2>1, TokensOfIs DEF IsNoted, tokensOf
  <2>2. CASE one \in tokensOf(detected, on, owns)
    <3>1. PICK row \in detected : row[1] = on /\ row[2] = owns /\ row[3] = one BY <2>2, TokensOfIs
    <3>2. CASE <<row[1], row[2], row[3]>> # <<chain, account, token>>
      BY <1>1, <3>1, <3>2, TokensOfIs DEF IsNoted, tokensOf
    <3>3. CASE <<row[1], row[2], row[3]>> = <<chain, account, token>>
      <4>1. on = chain /\ owns = account /\ one = token BY <3>1, <3>3
      <4>2. PICK new \in known' : new = <<chain, account, token>> BY <1>1
      <4>3. new[1] = on /\ new[2] = owns /\ new[3] = one BY <4>1, <4>2
      <4>4. one \in tokensOf(known', on, owns) BY <4>2, <4>3, TokensOfIs
      <4> QED BY <4>4 DEF IsNoted, tokensOf
    <3> QED BY <3>2, <3>3
  <2>3. ASSUME NEW d \in Detections, IsAskedBy(detections[d], one, on, owns) PROVE IsNoted(one, on, owns)'
    BY <1>1, <2>3 DEF IsNoted
  <2> QED BY <1>2, <2>1, <2>2, <2>3 DEF IsNoted
<1>3. IsCovered' BY <1>1, <1>2 DEF DetectionInv, IsCovered
<1>4. DetectedIsHeld' BY <1>1 DEF DetectionInv, DetectedIsHeld
<1> QED BY <1>1, <1>3, <1>4 DEF DetectionInv, DetectionTypes

\* A slice that has ended is asked for no more; whatever of it the account has is noted elsewhere.
LEMMA SliceIsEnded ==
  ASSUME DetectionInv, NEW d \in Detections, detections[d] # NoDetection, NEW slice, slice \subseteq detections[d].tokens,
         sliceEnded(d, slice), DetectedIsHeld',
         lapsed' \/ /\ ~lapsed
                    /\ \A token, on, owns :
                         token \in Balances(on, owns) /\ token \in tokensOf(detected, on, owns) =>
                           token \in tokensOf(detected', on, owns) \cup tokensOf(known', on, owns)
                    /\ \A token \in slice \cap Balances(detections[d].chain, detections[d].account) :
                         token \in tokensOf(detected', detections[d].chain, detections[d].account)
                                   \cup tokensOf(known', detections[d].chain, detections[d].account)
  PROVE  DetectionInv'
<1>1. PICK call \in DetectionCalls : call = detections[d] BY DEF DetectionInv, DetectionTypes
<1>2. call.tokens \in SUBSET {"stable", "meme", "bridged"} BY DEF DetectionCalls
<1>3. PICK left \in SUBSET {"stable", "meme", "bridged"} : left = call.tokens \ slice BY <1>2
<1>4. PICK new : new = [call EXCEPT !.tokens = left] OBVIOUS
<1>5. /\ new \in DetectionCalls /\ new.tokens = left /\ new.chain = call.chain /\ new.account = call.account
      /\ new.list = call.list /\ new.mixed = call.mixed BY <1>4 DEF DetectionCalls
<1>6. PICK after : after = IF call.tokens = slice THEN NoDetection ELSE new OBVIOUS
<1>7. /\ detections' = [detections EXCEPT ![d] = after]
      /\ UNCHANGED <<selection, cachedLists, detector, known>>
  BY <1>3, <1>4, <1>1, <1>6 DEF DetectionCalls, sliceEnded
<1>8. detections' \in [Detections -> DetectionCalls \cup {NoDetection}]
  BY <1>5, <1>6, <1>7 DEF DetectionInv, DetectionTypes
<1>9. \A e \in Detections : detections'[e] = IF e = d THEN after ELSE detections[e]
  BY <1>7 DEF DetectionInv, DetectionTypes
<1>10. ASSUME NEW e \in Detections, detections'[e] # NoDetection PROVE IsForList(detections'[e], detector'.list)
  BY <1>1, <1>5, <1>6, <1>7, <1>9, <1>10 DEF DetectionInv, IsForList
<1>11. ASSUME ~lapsed', NEW token, NEW on, NEW owns, token \in Balances(on, owns), IsNoted(token, on, owns)
       PROVE  IsNoted(token, on, owns)'
  BY <1>7, <1>11, <1>9, <1>1, <1>3, <1>6, <1>5, NoDetectionAssumption DEF IsNoted, tokensOf, IsAskedBy
<1>12. IsCovered'
  <2> SUFFICES ASSUME isActive(detector), ~lapsed', detector.enabled \/ detector.client = "mainnet",
                      NEW token \in TokensOfList(ListOf(detector, cachedLists)) \cap Balances(detector.client, detector.address)
               PROVE  IsNoted(token, detector.client, detector.address)'
    BY <1>7 DEF IsCovered, isActive, ListOf
  <2>1. ~lapsed OBVIOUS
  <2>2. PICK on : on = detector.client OBVIOUS
  <2>3. PICK owns : owns = detector.address OBVIOUS
  <2>4. IsNoted(token, on, owns) /\ token \in Balances(on, owns)
    BY <2>1, <2>2, <2>3 DEF DetectionInv, IsCovered
  <2>5. IsNoted(token, on, owns)' BY <1>11, <2>4
  <2> QED BY <1>7, <2>2, <2>3, <2>5
<1>13. Follows(detector, selection)' /\ DetectionTypes' BY <1>7, <1>8, DetectorIs DEF DetectionTypes
<1> QED BY <1>10, <1>12, <1>13 DEF DetectionInv

LEMMA BalancesAreAnswered ==
  ASSUME DetectionInv, NEW d \in Detections, detections[d] # NoDetection,
         NEW slice, slice \subseteq detections[d].tokens, balancesAnswered(d, slice)
  PROVE  DetectionInv'
<1>1. PICK call \in DetectionCalls : call = detections[d] BY DEF DetectionInv, DetectionTypes
<1>2. PICK chain : chain = call.chain OBVIOUS
<1>3. PICK account : account = call.account OBVIOUS
<1>4. PICK found : found = slice \cap Balances(chain, account) OBVIOUS
<1>5. PICK new : new = found \ tokensOf(known, chain, account) OBVIOUS
<1>6. PICK list : list = IF call.mixed THEN "mixed" ELSE detector.list OBVIOUS
<1>7. PICK isDetailed \in BOOLEAN : isDetailed <=> found \subseteq TokensOfList(detector.list)
  OBVIOUS
<1>8. /\ sliceEnded(d, slice)
      /\ detected' = IF ~isDetailed THEN detected
                     ELSE {row \in detected : row[1] # chain \/ row[2] # account \/ row[3] \notin new}
                          \cup {<<chain, account, token, list>> : token \in new}
      /\ lapsed' = (lapsed \/ ~isDetailed)
  BY <1>1, <1>2, <1>3, <1>4, <1>5, <1>6, <1>7 DEF balancesAnswered
<1>9. known' = known BY <1>8 DEF sliceEnded
<1>10. list \in {chain, "mixed"} \/ (list = "static" /\ chain = "mainnet")
  BY <1>1, <1>2, <1>6 DEF DetectionInv, IsForList
<1>11. DetectedIsHeld'
  <2> SUFFICES ASSUME NEW row \in detected'
               PROVE  /\ row[3] \in Balances(row[1], row[2])
                      /\ row[4] \in {row[1], "mixed"} \/ (row[4] = "static" /\ row[1] = "mainnet")
    BY DEF DetectedIsHeld
  <2>1. CASE row \in detected BY <2>1 DEF DetectionInv, DetectedIsHeld
  <2>2. ASSUME NEW token \in new, row = <<chain, account, token, list>>
        PROVE  /\ row[3] \in Balances(row[1], row[2])
               /\ row[4] \in {row[1], "mixed"} \/ (row[4] = "static" /\ row[1] = "mainnet")
    BY <2>2, <1>4, <1>5, <1>10
  <2>3. row \in detected \/ \E token \in new : row = <<chain, account, token, list>> BY <1>8
  <2> QED BY <2>1, <2>2, <2>3
<1>12. ASSUME isDetailed, NEW token \in new PROVE token \in tokensOf(detected', chain, account)
  <2>1. PICK row : row = <<chain, account, token, list>> OBVIOUS
  <2>2. row \in detected' BY <1>8, <1>12, <2>1
  <2>3. row[1] = chain /\ row[2] = account /\ row[3] = token BY <2>1
  <2> QED BY <2>2, <2>3, TokensOfIs
<1>13. ASSUME isDetailed, NEW token, NEW on, NEW owns, token \in tokensOf(detected, on, owns)
       PROVE  token \in tokensOf(detected', on, owns) BY <1>13, TokensOfIs, <1>8, <1>12
<1>14. ASSUME isDetailed, NEW token \in slice \cap Balances(chain, account)
       PROVE  token \in tokensOf(detected', chain, account) \cup tokensOf(known', chain, account)
  BY <1>4, <1>5, <1>9, <1>12, <1>14
<1>15. CASE lapsed' BY <1>8, <1>11, <1>15, SliceIsEnded
<1>16. CASE ~lapsed' BY <1>8, <1>16, <1>13, <1>1, <1>2, <1>3, <1>14, <1>11, SliceIsEnded
<1> QED BY <1>15, <1>16

LEMMA BalancesFail ==
  ASSUME DetectionInv, NEW d \in Detections, detections[d] # NoDetection,
         NEW slice, slice \subseteq detections[d].tokens, balancesFailed(d, slice)
  PROVE  DetectionInv'
BY SliceIsEnded DEF balancesFailed, DetectionInv, DetectedIsHeld

LEMMA DetectionStep == ASSUME DetectionInv, DetectionNext PROVE DetectionInv'
<1>1. ASSUME NEW d \in Detections, detections[d] # NoDetection, NEW slice \in Slices(detections[d].tokens),
             balancesAnswered(d, slice) \/ balancesFailed(d, slice)
      PROVE  DetectionInv' BY <1>1, BalancesAreAnswered, BalancesFail DEF Slices
<1>2. ASSUME NEW account \in DetectionAccounts, NEW token \in {"stable", "meme"},
             tokenTaken("mainnet", account, token)
      PROVE  DetectionInv' BY <1>2, TokenIsTaken
<1> QED
  BY <1>1, <1>2, DetectionStarts, KeyringIsUnlocked, ListIsFetched, AccountIsSelected, PreferencesChange,
     DetectionRepeats, NetworkIsSelected, DetectionIsStopped, KeyringIsLocked DEF DetectionNext

LEMMA DetectionIdle == ASSUME DetectionInv, UNCHANGED detectionVars PROVE DetectionInv'
BY DEF DetectionInv, DetectionTypes, detectionVars, DetectedIsHeld, IsCovered, IsNoted, tokensOf, isActive

\* When nothing is asked for any more, all that is covered is detected or known.
LEMMA AllIsDetected == ASSUME DetectionInv PROVE DetectedIsHeld /\ NothingIsMissed
<1>1. DetectedIsHeld BY DEF DetectionInv
<1> DEFINE chain == selection.network
           account == selection.account
           list == IF ~detector.enabled THEN "static" ELSE IF chain \in cachedLists THEN chain ELSE "none"
<1>2. ASSUME isActive(detector), ~lapsed, account = selection.preferred,
             \A d \in Detections : detections[d] = NoDetection,
             isTokenDetectionSupported(chain), detector.enabled \/ chain = "mainnet"
      PROVE  TokensOfList(list) \cap Balances(chain, account)
               \subseteq tokensOf(detected, chain, account) \cup tokensOf(known, chain, account)
  BY <1>2, DetectorIs DEF Follows, isTokenDetectionSupported, ListOf, DetectionInv, IsCovered, IsNoted,
     IsAskedBy
<1>3. NothingIsMissed BY <1>2 DEF NothingIsMissed
<1> QED BY <1>1, <1>3

-----------------------------------------------------------------------------

(***************************************************************************)
(* Simulated changes.  A token of which the user would have more or less   *)
(* is named by an event that is listed; and each token that is named is    *)
(* asked for once, so that its answers are where they are looked for.      *)
(***************************************************************************)

LEMMA PlacesAre ==
  ASSUME NEW n \in Nat, NEW S \in SUBSET (1 .. n)
  PROVE  /\ Cardinality(S) \in Nat
         /\ \A i \in S : placeIn(S, i) \in 1 .. Cardinality(S)
         /\ \A i, k \in S : i < k => placeIn(S, i) < placeIn(S, k)
         /\ \A p \in 1 .. Cardinality(S) : \E i \in S : placeIn(S, i) = p
<1>1. IsFiniteSet(S) /\ Cardinality(S) \in Nat
  <2>1. 1 \in Int /\ n \in Int OBVIOUS
  <2>2. IsFiniteSet(1 .. n) BY <2>1, FS_Interval
  <2>3. IsFiniteSet(S) BY <2>2, FS_Subset
  <2> QED BY <2>3, FS_CardinalityType
<1> DEFINE below(i) == {j \in S : j <= i}
<1>2. \A i \in S : IsFiniteSet(below(i)) /\ Cardinality(below(i)) \in Nat /\ Cardinality(below(i)) <= Cardinality(S)
  <2>1. \A i \in S : below(i) \in SUBSET S OBVIOUS
  <2> HIDE DEF below
  <2> QED BY <1>1, <2>1, FS_Subset, FS_CardinalityType
<1>3. \A i \in S : i \in below(i) OBVIOUS
<1>4. \A i \in S : placeIn(S, i) = Cardinality(below(i)) BY DEF placeIn
<1>5. \A i, k \in S : i < k => below(i) \in SUBSET below(k) /\ k \in below(k) /\ k \notin below(i)
  <2>1. SUFFICES ASSUME NEW i \in S, NEW k \in S, i < k
                 PROVE  below(i) \in SUBSET below(k) /\ k \in below(k) /\ k \notin below(i) OBVIOUS
  <2>2. i \in Nat /\ k \in Nat /\ \A j \in S : j \in Nat OBVIOUS
  <2>3. \A j \in below(i) : j \in below(k) BY <2>1, <2>2
  <2>4. k \in below(k) /\ k \notin below(i) BY <2>1, <2>2
  <2> HIDE DEF below
  <2> QED BY <2>3, <2>4
<1> HIDE DEF below
<1>6. \A i \in S : placeIn(S, i) \in 1 .. Cardinality(S) BY <1>2, <1>3, FS_EmptySet, <1>1, <1>4
<1>7. \A i, k \in S : i < k => placeIn(S, i) < placeIn(S, k)
  <2>1. SUFFICES ASSUME NEW i \in S, NEW k \in S, i < k PROVE placeIn(S, i) < placeIn(S, k) OBVIOUS
  <2>2. Cardinality(below(i)) <= Cardinality(below(k)) BY <1>2, <1>5, <2>1, FS_Subset
  <2>3. Cardinality(below(i)) # Cardinality(below(k)) BY <1>2, <1>5, <2>1, FS_Subset
  <2> QED BY <1>2, <1>4, <2>2, <2>3
<1>8. PICK c \in Nat : c = Cardinality(S) BY <1>1
<1>9. PICK f : f = [i \in S |-> placeIn(S, i)] OBVIOUS
<1>10. f \in Injection(S, 1 .. c)
  <2>1. f \in [S -> 1 .. c] BY <1>6, <1>8, <1>9
  <2>2. \A i, k \in S : f[i] = f[k] => i = k
    <3>1. SUFFICES ASSUME NEW i \in S, NEW k \in S, f[i] = f[k], i # k PROVE FALSE OBVIOUS
    <3>2. i < k \/ k < i BY <3>1
    <3> QED BY <1>6, <1>7, <1>9, <3>1, <3>2
  <2> QED BY <2>1, <2>2 DEF Injection, IsInjective
<1>11. IsFiniteSet(1 .. c) /\ Cardinality(1 .. c) = c BY FS_Interval
<1>12. f \in Surjection(S, 1 .. c) BY <1>8, <1>10, <1>11, FS_Injection
<1>13. \A p \in 1 .. c : \E i \in S : f[i] = p BY <1>12 DEF Surjection
<1> QED BY <1>1, <1>6, <1>7, <1>8, <1>9, <1>13

LEMMA ChosenIs ==
  ASSUME NEW T, NEW s \in Seq(T), NEW S \in SUBSET (1 .. Len(s))
  PROVE  /\ chosen(s, S) \in Seq(T) /\ Len(chosen(s, S)) = Cardinality(S) /\ Cardinality(S) \in Nat
         /\ \A i \in S : placeIn(S, i) \in 1 .. Cardinality(S) /\ chosen(s, S)[placeIn(S, i)] = s[i]
         /\ \A p \in 1 .. Cardinality(S) : \E i \in S : p = placeIn(S, i) /\ chosen(s, S)[p] = s[i]
<1>1. PICK n \in Nat : n = Len(s) BY LenProperties
<1>2. PICK c \in Nat : c = Cardinality(S) BY <1>1, PlacesAre
<1>3. /\ \A i \in S : placeIn(S, i) \in 1 .. c
      /\ \A i, k \in S : i < k => placeIn(S, i) < placeIn(S, k)
      /\ \A p \in 1 .. c : \E i \in S : placeIn(S, i) = p BY <1>1, <1>2, PlacesAre
<1>4. chosen(s, S) = [p \in 1 .. c |-> s[CHOOSE i \in S : placeIn(S, i) = p]] BY <1>2 DEF chosen
<1>5. ASSUME NEW i \in S PROVE (CHOOSE k \in S : placeIn(S, k) = placeIn(S, i)) = i BY <1>1, <1>3
<1>6. ASSUME NEW i \in S PROVE placeIn(S, i) \in 1 .. c /\ chosen(s, S)[placeIn(S, i)] = s[i]
  <2>1. PICK p \in 1 .. c : p = placeIn(S, i) BY <1>3
  <2>2. chosen(s, S)[p] = s[CHOOSE k \in S : placeIn(S, k) = p] BY <1>4
  <2>3. (CHOOSE k \in S : placeIn(S, k) = p) = i BY <1>5, <2>1
  <2> QED BY <2>1, <2>2, <2>3
<1>7. ASSUME NEW p \in 1 .. c PROVE \E i \in S : p = placeIn(S, i) /\ chosen(s, S)[p] = s[i]
  BY <1>3, <1>6
<1>8. \A i \in S : s[i] \in T BY <1>1, ElementOfSeq
<1>9. chosen(s, S) \in [1 .. c -> T] BY <1>7, <1>8, <1>4
<1>10. chosen(s, S) \in Seq(T) /\ Len(chosen(s, S)) = c BY <1>9, SeqDef, LenProperties
<1> QED BY <1>2, <1>6, <1>7, <1>10

-----------------------------------------------------------------------------
(* The events that contracts emit, and the tokens that they name. *)

TokenIds == {"undefined", "first", "second", "sword", "shield"}
EventNames == {"Transfer", "Deposit", "Withdrawal", "Approval", "TransferSingle", "TransferBatch"}

Events ==
  {event \in [contract : {"coin", "art", "items"}, name : EventNames, from : {"user", "other", "zero", "undefined"},
              to : {"user", "other", "burnt", "undefined"}, ids : Seq(TokenIds)] :
     /\ \A i \in DOMAIN event.ids : <<event.contract, event.ids[i]>> \in Tokens
     /\ "user" \in {event.from, event.to} => event.name \in SupportedEvents
     /\ event.contract = "art" /\ event.from = "zero" => \A i \in DOMAIN event.ids : event.ids[i] = "second"
     /\ event.contract = "art" => event.to # "undefined"}

\* The tokens that are asked for; one that is minted is not the user's yet.
Asked ==
  {row \in [key : Tokens, mint : BOOLEAN] : row.mint => row.key = <<"art", "second">>}

Names(event, token) ==
  isOfUser(event) /\ \E i \in DOMAIN event.ids : token = <<event.contract, event.ids[i]>>

Owners == [{"first", "second"} -> {"user", "other", "zero", "burnt"}]

LEMMA SimulatedTokensAre ==
  Tokens = {<<"coin", "undefined">>, <<"art", "first">>, <<"art", "second">>, <<"items", "sword">>,
            <<"items", "shield">>}
BY DEF TokenIdsOf, Tokens

LEMMA EventIs ==
  ASSUME NEW contract \in {"coin", "art", "items"}, NEW name \in EventNames,
         NEW from \in {"user", "other", "zero", "undefined"}, NEW to \in {"user", "other", "burnt", "undefined"},
         NEW ids \in Seq(TokenIds), \A i \in DOMAIN ids : <<contract, ids[i]>> \in Tokens,
         "user" \in {from, to} => name \in SupportedEvents,
         contract = "art" /\ from = "zero" => \A i \in DOMAIN ids : ids[i] = "second",
         contract = "art" => to # "undefined"
  PROVE  Event(contract, name, from, to, ids) \in Events
BY DEF Event, Events

LEMMA IdsAre ==
  /\ \A id \in TokenIds : <<id>> \in Seq(TokenIds) /\ DOMAIN <<id>> = {1} /\ <<id>>[1] = id
  /\ \A id1, id2 \in TokenIds : /\ <<id1, id2>> \in Seq(TokenIds) /\ DOMAIN <<id1, id2>> = {1, 2}
                           /\ <<id1, id2>>[1] = id1 /\ <<id1, id2>>[2] = id2
OBVIOUS

LEMMA EmittableAre ==
  ASSUME owner \in Owners, owner["first"] # "zero", NEW event \in Emittable
  PROVE  event \in Events
<1>1. PICK undef : undef = <<"undefined">> OBVIOUS
<1>2. undef \in Seq(TokenIds) /\ DOMAIN undef = {1} /\ undef[1] = "undefined"
  BY <1>1, IdsAre DEF TokenIds
<1>3. ASSUME NEW f \in Parties, NEW t \in Parties, event = Event("coin", "Transfer", f, t, <<"undefined">>)
      PROVE  event \in Events
  BY <1>1, <1>2, <1>3, EventIs, SimulatedTokensAre DEF Parties, EventNames, SupportedEvents
<1>4. CASE event = Event("coin", "Deposit", "undefined", "user", <<"undefined">>)
  BY <1>1, <1>2, <1>4, EventIs, SimulatedTokensAre DEF EventNames, SupportedEvents
<1>5. CASE event = Event("coin", "Withdrawal", "user", "undefined", <<"undefined">>)
  BY <1>1, <1>2, <1>5, EventIs, SimulatedTokensAre DEF EventNames, SupportedEvents
<1>6. CASE event = Event("coin", "Approval", "undefined", "undefined", <<"undefined">>)
  BY <1>1, <1>2, <1>6, EventIs, SimulatedTokensAre DEF EventNames, SupportedEvents
<1>7. ASSUME NEW id \in {"first", "second"}, owner[id] # "burnt", NEW t \in {"user", "other", "burnt"},
             event = Event("art", "Transfer", owner[id], t, <<id>>)
      PROVE  event \in Events
  <2>1. PICK ids : ids = <<id>> OBVIOUS
  <2>2. ids \in Seq(TokenIds) /\ DOMAIN ids = {1} /\ ids[1] = id BY <2>1, IdsAre DEF TokenIds
  <2>3. PICK f \in {"user", "other", "zero"} : f = owner[id] /\ (f = "zero" => id = "second")
    BY <1>7 DEF Owners
  <2>4. <<"art", id>> \in Tokens BY SimulatedTokensAre
  <2> QED BY <1>7, <2>1, <2>2, <2>3, <2>4, EventIs DEF EventNames, SupportedEvents
<1>8. ASSUME NEW f \in Parties, NEW t \in Parties, event = Event("items", "TransferSingle", f, t, <<"sword">>)
      PROVE  event \in Events
  <2>1. PICK ids : ids = <<"sword">> OBVIOUS
  <2>2. ids \in Seq(TokenIds) /\ DOMAIN ids = {1} /\ ids[1] = "sword" BY <2>1, IdsAre DEF TokenIds
  <2> QED BY <1>8, <2>1, <2>2, EventIs, SimulatedTokensAre DEF Parties, EventNames, SupportedEvents
<1>9. ASSUME NEW f \in Parties, NEW t \in Parties, NEW ids \in {<<"sword", "shield">>, <<"sword", "sword">>},
             event = Event("items", "TransferBatch", f, t, ids)
      PROVE  event \in Events
  <2>1. PICK id1 \in TokenIds, id2 \in TokenIds :
          id1 = "sword" /\ id2 \in {"sword", "shield"} /\ ids = <<id1, id2>> BY <1>9 DEF TokenIds
  <2>2. PICK pair : pair = <<id1, id2>> OBVIOUS
  <2>3. pair \in Seq(TokenIds) /\ DOMAIN pair = {1, 2} /\ pair[1] = id1 /\ pair[2] = id2
    BY <2>2, IdsAre
  <2>4. ids \in Seq(TokenIds) /\ DOMAIN ids = {1, 2} /\ ids[1] = "sword" /\ ids[2] \in {"sword", "shield"}
    BY <2>1, <2>2, <2>3
  <2> QED BY <1>9, <2>4, EventIs, SimulatedTokensAre DEF Parties, EventNames, SupportedEvents
<1>10. TokenIdsOf("art") = {"first", "second"} BY DEF TokenIdsOf
<1>11. \/ event \in {Event("coin", "Transfer", f, t, <<"undefined">>) : f \in Parties, t \in Parties}
       \/ event \in {Event("coin", "Deposit", "undefined", "user", <<"undefined">>),
                     Event("coin", "Withdrawal", "user", "undefined", <<"undefined">>),
                     Event("coin", "Approval", "undefined", "undefined", <<"undefined">>)}
       \/ event \in {Event("art", "Transfer", owner[id], t, <<id>>) :
                       id \in {i \in TokenIdsOf("art") : owner[i] # "burnt"}, t \in {"user", "other", "burnt"}}
       \/ event \in {Event("items", "TransferSingle", f, t, <<"sword">>) : f \in Parties, t \in Parties}
       \/ event \in {Event("items", "TransferBatch", f, t, ids) :
                       f \in Parties, t \in Parties, ids \in {<<"sword", "shield">>, <<"sword", "sword">>}}
  BY DEF Emittable
<1>12. ASSUME event \in {Event("art", "Transfer", owner[id], t, <<id>>) :
                id \in {i \in TokenIdsOf("art") : owner[i] # "burnt"}, t \in {"user", "other", "burnt"}}
       PROVE  event \in Events
  <2>1. PICK id \in {i \in TokenIdsOf("art") : owner[i] # "burnt"}, t \in {"user", "other", "burnt"} :
          event = Event("art", "Transfer", owner[id], t, <<id>>) BY <1>12
  <2>2. id \in {"first", "second"} /\ owner[id] # "burnt" BY <1>10
  <2> QED BY <1>7, <2>1, <2>2
<1>13. ASSUME event \in {Event("items", "TransferBatch", f, t, ids) :
                f \in Parties, t \in Parties, ids \in {<<"sword", "shield">>, <<"sword", "sword">>}}
       PROVE  event \in Events BY <1>9, <1>13
<1>14. ASSUME event \in {Event("items", "TransferSingle", f, t, <<"sword">>) : f \in Parties, t \in Parties}
       PROVE  event \in Events BY <1>8, <1>14
<1>15. ASSUME event \in {Event("coin", "Transfer", f, t, <<"undefined">>) : f \in Parties, t \in Parties}
       PROVE  event \in Events BY <1>3, <1>15
<1> QED BY <1>4, <1>5, <1>6, <1>11, <1>12, <1>13, <1>14, <1>15

LEMMA GivenIs ==
  ASSUME NEW event \in Events, NEW token \in Tokens
  PROVE  Given(event, token) \in Int /\ (Given(event, token) # 0 => Names(event, token))
<1>1. event.ids \in Seq(TokenIds) /\ ("user" \in {event.from, event.to} => event.name \in SupportedEvents)
  BY DEF Events
<1>2. PICK n \in Nat : DOMAIN event.ids = 1 .. n BY <1>1, LenProperties
<1>3. PICK S : S = {i \in DOMAIN event.ids : event.ids[i] = token[2]} OBVIOUS
<1>4. IsFiniteSet(S) /\ Cardinality(S) \in Nat
  <2>1. 1 \in Int /\ n \in Int OBVIOUS
  <2>2. IsFiniteSet(1 .. n) BY <2>1, FS_Interval
  <2> QED BY <1>2, <1>3, <2>2, FS_Subset, FS_CardinalityType
<1>5. PICK amount \in Nat : amount = Cardinality(S) BY <1>4
<1>6. Given(event, token) =
        IF token[1] # event.contract THEN 0
        ELSE (IF event.to = "user" THEN amount ELSE 0) - (IF event.from = "user" THEN amount ELSE 0)
  BY <1>3, <1>5 DEF Given
<1>7. ASSUME Given(event, token) # 0 PROVE Names(event, token)
  BY <1>6, <1>7, <1>3, <1>4, <1>5, FS_EmptySet, SimulatedTokensAre, <1>1 DEF Names, isOfUser
<1> QED BY <1>6, <1>7

LEMMA UserEventsAre ==
  ASSUME listed \in [own : Seq(Events), nested : Seq(Events)]
  PROVE  /\ extractLogs \in Seq(Events) /\ userEvents \in Seq(Events)
         /\ \A n \in DOMAIN extractLogs : isOfUser(extractLogs[n]) =>
              \E k \in 1 .. Len(userEvents) : userEvents[k] = extractLogs[n]
<1>1. PICK logs \in Seq(Events) : logs = extractLogs BY ConcatProperties DEF extractLogs
<1>2. PICK S : S = {n \in DOMAIN logs : isOfUser(logs[n])} OBVIOUS
<1>3. DOMAIN logs = 1 .. Len(logs) BY LenProperties
<1>4. S \in SUBSET (1 .. Len(logs)) BY <1>2, <1>3
<1>5. PICK named : named = chosen(logs, S) OBVIOUS
<1>6. userEvents = named BY <1>1, <1>2, <1>5 DEF userEvents
<1>7. /\ named \in Seq(Events) /\ Len(named) = Cardinality(S)
      /\ \A i \in S : placeIn(S, i) \in 1 .. Cardinality(S) /\ named[placeIn(S, i)] = logs[i]
  BY <1>4, <1>5, ChosenIs
<1>8. \A n \in S : \E k \in 1 .. Len(named) : named[k] = logs[n] BY <1>7
<1> QED BY <1>1, <1>2, <1>6, <1>7, <1>8

LEMMA TokensOfAre ==
  ASSUME NEW event \in Events
  PROVE  /\ eventTokenIds(event) \in Seq(Asked)
         /\ \A i \in DOMAIN event.ids :
              /\ i \in 1 .. Len(eventTokenIds(event))
              /\ eventTokenIds(event)[i].key = <<event.contract, event.ids[i]>>
<1>1. /\ event.ids \in Seq(TokenIds) /\ \A i \in DOMAIN event.ids : <<event.contract, event.ids[i]>> \in Tokens
      /\ event.contract = "art" /\ event.from = "zero" => \A i \in DOMAIN event.ids : event.ids[i] = "second"
  BY DEF Events
<1>2. PICK n \in Nat : DOMAIN event.ids = 1 .. n BY <1>1, LenProperties
<1>3. PICK rows : rows = eventTokenIds(event) OBVIOUS
<1>4. PICK mint \in BOOLEAN : mint = (event.contract = "art" /\ event.from = "zero") OBVIOUS
<1>5. rows = [i \in 1 .. n |-> [key |-> <<event.contract, event.ids[i]>>, mint |-> mint]]
  BY <1>2, <1>3, <1>4 DEF eventTokenIds
<1>6. \A i \in 1 .. n : rows[i] \in Asked /\ rows[i].key = <<event.contract, event.ids[i]>>
  BY <1>1, <1>2, <1>4, <1>5 DEF Asked
<1>7. rows \in [1 .. n -> Asked] BY <1>5, <1>6
<1>8. rows \in Seq(Asked) /\ Len(rows) = n BY <1>7, SeqDef, LenProperties
<1> QED BY <1>2, <1>3, <1>6, <1>8

\* The sequences of the tokens of each event, one after another.
Joins(events, f, m) ==
  f = [n \in 0 .. m |-> IF n = 0 THEN <<>> ELSE f[n - 1] \o eventTokenIds(events[n])]

LEMMA TheyJoin == ASSUME NEW events PROVE \A m \in Nat : \E f : Joins(events, f, m)
<1> DEFINE S == {m \in Nat : ~\E f : Joins(events, f, m)}
<1>1. SUFFICES ASSUME S # {} PROVE FALSE OBVIOUS
<1>2. PICK m \in S : \A n \in S : m <= n BY <1>1, LeastIsThere
<1>3. m # 0
  <2>1. Joins(events, [n \in 0 .. 0 |-> <<>>], 0) BY DEF Joins
  <2> QED BY <2>1
<1>4. PICK f : Joins(events, f, m - 1) BY <1>3, <1>2
<1>5. PICK g : g = [n \in 0 .. m |-> IF n = m THEN f[m - 1] \o eventTokenIds(events[m]) ELSE f[n]]
  OBVIOUS
<1>6. \A n \in 0 .. m : g[n] = IF n = 0 THEN <<>> ELSE g[n - 1] \o eventTokenIds(events[n])
  <2>1. SUFFICES ASSUME NEW n \in 0 .. m
                 PROVE  g[n] = IF n = 0 THEN <<>> ELSE g[n - 1] \o eventTokenIds(events[n]) OBVIOUS
  <2>2. CASE n = m BY <1>3, <1>5, <2>2
  <2>3. CASE n # m
    <3>1. n \in 0 .. m - 1 /\ g[n] = f[n] BY <1>5, <2>3
    <3>2. n # 0 => n - 1 \in 0 .. m /\ n - 1 # m BY <2>3
    <3>3. n # 0 => g[n - 1] = f[n - 1] BY <1>5, <3>2
    <3> QED BY <1>4, <3>1, <3>3 DEF Joins
  <2> QED BY <2>2, <2>3
<1>7. Joins(events, g, m) BY <1>5, <1>6 DEF Joins
<1> QED BY <1>7

\* Every token of the events is asked for by one of the rows.
AsksForAll(rows, events) ==
  \A n \in 1 .. Len(events) : \A i \in DOMAIN events[n].ids :
    \E p \in 1 .. Len(rows) : rows[p].key = <<events[n].contract, events[n].ids[i]>>

LEMMA JoinedAre ==
  ASSUME NEW events \in Seq(Events), NEW all, Joins(events, all, Len(events))
  PROVE  all[Len(events)] \in Seq(Asked) /\ AsksForAll(all[Len(events)], events)
<1>1. PICK N \in Nat : N = Len(events) BY LenProperties
<1>4. all[0] = <<>> /\ \A n \in 1 .. N : all[n] = all[n - 1] \o eventTokenIds(events[n])
  BY <1>1 DEF Joins
<1> DEFINE Has(m) == /\ all[m] \in Seq(Asked)
                     /\ \A n \in 1 .. m : \A i \in DOMAIN events[n].ids :
                          \E p \in 1 .. Len(all[m]) : all[m][p].key = <<events[n].contract, events[n].ids[i]>>
<1> HIDE DEF Has
<1>5. \A m \in 0 .. N : Has(m)
  <2> DEFINE S == {m \in 0 .. N : ~Has(m)}
  <2>1. SUFFICES ASSUME S # {} PROVE FALSE OBVIOUS
  <2>2. S \in SUBSET Nat OBVIOUS
  <2>3. PICK m \in S : \A n \in S : m <= n
    <3> HIDE DEF S
    <3> QED BY <2>1, <2>2, LeastIsThere
  <2>4. m \in 0 .. N /\ ~Has(m) OBVIOUS
  <2>5. m # 0
    <3>1. Has(0)
      <4>1. <<>> \in Seq(Asked) OBVIOUS
      <4>2. all[0] \in Seq(Asked) BY <1>4, <4>1
      <4>3. \A n \in 1 .. 0 : FALSE OBVIOUS
      <4> QED BY <4>2, <4>3, Zenon DEF Has
    <3> QED BY <2>4, <3>1
  <2>6. m \in 1 .. N /\ m - 1 \in 0 .. N /\ ~(m <= m - 1) BY <2>4, <2>5
  <2>7. Has(m - 1) BY <2>3, <2>6
  <2>8. PICK old : old = all[m - 1] OBVIOUS
  <2>9. PICK new : new = eventTokenIds(events[m]) OBVIOUS
  <2>10. /\ old \in Seq(Asked)
         /\ \A n \in 1 .. m - 1 : \A i \in DOMAIN events[n].ids :
              \E p \in 1 .. Len(old) : old[p].key = <<events[n].contract, events[n].ids[i]>>
    BY <2>7, <2>8 DEF Has
  <2>11. events[m] \in Events BY <1>1, <2>6, ElementOfSeq
  <2>12. /\ new \in Seq(Asked)
         /\ \A i \in DOMAIN events[m].ids :
              i \in 1 .. Len(new) /\ new[i].key = <<events[m].contract, events[m].ids[i]>>
    BY <2>9, <2>11, TokensOfAre
  <2>13. all[m] = old \o new BY <1>4, <2>6, <2>8, <2>9
  <2> HIDE DEF S
  <2>14. PICK both : both = old \o new OBVIOUS
  <2>15. /\ both \in Seq(Asked) /\ Len(both) = Len(old) + Len(new) /\ Len(old) \in Nat /\ Len(new) \in Nat
         /\ \A p \in 1 .. Len(old) + Len(new) : both[p] = IF p <= Len(old) THEN old[p] ELSE new[p - Len(old)]
    BY <2>10, <2>12, <2>14, ConcatProperties, LenProperties
  <2>16. ASSUME NEW n \in 1 .. m, NEW i \in DOMAIN events[n].ids
         PROVE  \E p \in 1 .. Len(both) : both[p].key = <<events[n].contract, events[n].ids[i]>>
    <3>1. CASE n = m
      <4>1. i \in 1 .. Len(new) /\ new[i].key = <<events[n].contract, events[n].ids[i]>>
        BY <2>12, <2>16, <3>1
      <4>2. Len(old) + i \in 1 .. Len(both) /\ both[Len(old) + i] = new[i] BY <2>15, <4>1
      <4> QED BY <4>1, <4>2
    <3>2. CASE n # m
      <4>1. n \in 1 .. m - 1 BY <2>4, <3>2
      <4>2. PICK p \in 1 .. Len(old) : old[p].key = <<events[n].contract, events[n].ids[i]>>
        BY <2>10, <2>16, <4>1
      <4>3. p \in 1 .. Len(both) /\ both[p] = old[p] BY <2>15
      <4> QED BY <4>2, <4>3
    <3> QED BY <3>1, <3>2
  <2>17. Has(m) BY <2>13, <2>14, <2>15, <2>16 DEF Has
  <2> QED BY <2>4, <2>17
<1>6. Has(N) BY <1>5
<1>7. PICK rows : rows = all[N] OBVIOUS
<1>8. rows \in Seq(Asked) /\ AsksForAll(rows, events) BY <1>1, <1>6, <1>7 DEF Has, AsksForAll
<1> QED BY <1>1, <1>7, <1>8

LEMMA EventTokensAre ==
  ASSUME listed \in [own : Seq(Events), nested : Seq(Events)]
  PROVE  /\ EventTokens \in Seq(Asked)
         /\ \A n \in DOMAIN extractLogs, token \in Tokens : Names(extractLogs[n], token) =>
              \E p \in 1 .. Len(EventTokens) : EventTokens[p].key = token
<1>1. PICK events \in Seq(Events) : events = userEvents BY UserEventsAre
<1>2. PICK all : all = CHOOSE f : Joins(events, f, Len(events)) OBVIOUS
<1>3. PICK rows : rows = all[Len(events)] OBVIOUS
<1>4. EventTokens = rows BY <1>1, <1>2, <1>3 DEF EventTokens, Joins
<1>5. rows \in Seq(Asked) /\ AsksForAll(rows, events)
  BY LenProperties, <1>2, TheyJoin, JoinedAre, <1>3
<1>6. ASSUME NEW n \in DOMAIN extractLogs, NEW token \in Tokens, Names(extractLogs[n], token)
      PROVE  \E p \in 1 .. Len(rows) : rows[p].key = token
  <2>1. PICK event : event = extractLogs[n] OBVIOUS
  <2>2. isOfUser(event) /\ \E i \in DOMAIN event.ids : token = <<event.contract, event.ids[i]>>
    BY <1>6, <2>1 DEF Names
  <2>3. PICK k \in 1 .. Len(events) : events[k] = event BY <1>1, <2>1, <2>2, UserEventsAre
  <2>4. PICK i \in DOMAIN event.ids : token = <<event.contract, event.ids[i]>> BY <2>2
  <2>5. PICK p \in 1 .. Len(rows) : rows[p].key = <<events[k].contract, events[k].ids[i]>>
    BY <1>5, <2>3, <2>4 DEF AsksForAll
  <2> QED BY <2>3, <2>4, <2>5
<1> QED BY <1>4, <1>5, <1>6

\* Each token is asked for once.
AreApart(tokens) ==
  \A i, k \in 1 .. Len(tokens) : tokens[i].key = tokens[k].key => i = k

LEMMA FirstsAre ==
  ASSUME listed \in [own : Seq(Events), nested : Seq(Events)]
  PROVE  /\ firstEventTokens \in Seq(Asked) /\ AreApart(firstEventTokens)
         /\ \A n \in DOMAIN extractLogs, token \in Tokens : Names(extractLogs[n], token) =>
              \E p \in 1 .. Len(firstEventTokens) : firstEventTokens[p].key = token
<1>1. PICK all \in Seq(Asked) : all = EventTokens BY EventTokensAre
<1>2. PICK N \in Nat : N = Len(all) /\ DOMAIN all = 1 .. N BY LenProperties
<1>3. PICK S : S = {n \in 1 .. N : \A i \in 1 .. n - 1 : all[i].key # all[n].key} OBVIOUS
<1>4. PICK firsts : firsts = chosen(all, S) OBVIOUS
<1>5. firstEventTokens = firsts BY <1>1, <1>2, <1>3, <1>4 DEF firstEventTokens
<1>6. S \in SUBSET (1 .. Len(all)) BY <1>2, <1>3
<1>7. /\ firsts \in Seq(Asked) /\ Len(firsts) = Cardinality(S)
      /\ \A i \in S : placeIn(S, i) \in 1 .. Cardinality(S) /\ firsts[placeIn(S, i)] = all[i]
      /\ \A p \in 1 .. Cardinality(S) : \E i \in S : p = placeIn(S, i) /\ firsts[p] = all[i]
  BY <1>4, <1>6, ChosenIs
<1>8. AreApart(firsts)
  <2>1. SUFFICES ASSUME NEW p \in 1 .. Len(firsts), NEW q \in 1 .. Len(firsts), firsts[p].key = firsts[q].key
                 PROVE  p = q BY DEF AreApart
  <2>2. PICK i \in S : p = placeIn(S, i) /\ firsts[p] = all[i] BY <1>7
  <2>3. PICK k \in S : q = placeIn(S, k) /\ firsts[q] = all[k] BY <1>7
  <2>4. i = k BY <1>3, <2>1, <2>2, <2>3
  <2> QED BY <2>2, <2>3, <2>4
<1>9. ASSUME NEW n \in DOMAIN extractLogs, NEW token \in Tokens, Names(extractLogs[n], token)
      PROVE  \E p \in 1 .. Len(firsts) : firsts[p].key = token
  <2>1. PICK R : R = {p \in 1 .. N : all[p].key = token} OBVIOUS
  <2>2. R # {} /\ R \in SUBSET Nat BY <1>1, <1>2, <1>9, <2>1, EventTokensAre
  <2>3. PICK m \in R : \A p \in R : m <= p BY <2>2, LeastIsThere
  <2>4. m \in 1 .. N /\ all[m].key = token BY <2>1
  <2>5. \A i \in 1 .. m - 1 : all[i].key # token BY <2>1, <2>3, <2>4
  <2>6. m \in S BY <1>3, <2>4, <2>5
  <2> QED BY <1>7, <2>4, <2>6
<1> QED BY <1>5, <1>7, <1>8, <1>9

TokenAmounts == [Tokens -> Int]
Changes == [token : Tokens, previous : Int, new : Int]

\* The told of the balances before are those of the tokens that are asked for before.
LEMMA AnswersAre ==
  ASSUME NEW tokens \in Seq(Asked), held \in TokenAmounts, gain \in TokenAmounts, held[<<"art", "second">>] = 0,
         NEW i \in 1 .. Len(tokens),
         NEW before, before = tokensBefore(tokens), NEW told, told = balanceAnswers(before, tokens)
  PROVE  /\ previousBalance(told, tokens, i) = held[tokens[i].key]
         /\ newBalance(told, before, i) = held[tokens[i].key] + gain[tokens[i].key]
<1>1. PICK N \in Nat : N = Len(tokens) /\ DOMAIN tokens = 1 .. N
  BY LenProperties
<1>2. PICK S : S = {n \in 1 .. N : ~tokens[n].mint}
  OBVIOUS
<1>3. S \in SUBSET (1 .. Len(tokens)) /\ before = chosen(tokens, S)
  BY <1>1, <1>2 DEF tokensBefore
<1>4. PICK c \in Nat : c = Cardinality(S)
  BY <1>1, <1>3, PlacesAre
<1>5. /\ before \in Seq(Asked) /\ Len(before) = c
      /\ \A n \in S : placeIn(S, n) \in 1 .. c /\ before[placeIn(S, n)] = tokens[n]
  BY <1>3, <1>4, ChosenIs
<1>6. PICK first : first = [n \in DOMAIN before |-> held[before[n].key]]
  OBVIOUS
<1>7. PICK last : last = [n \in DOMAIN tokens |-> held[tokens[n].key] + gain[tokens[n].key]]
  OBVIOUS
<1>8. \A n \in 1 .. N : tokens[n] \in Asked
  BY <1>1, ElementOfSeq
<1>9. \A row \in Asked : row.key \in Tokens /\ (row.mint => row.key = <<"art", "second">>)
  BY DEF Asked
<1>10. first \in Seq(Int) /\ Len(first) = c /\ \A n \in 1 .. c : first[n] = held[before[n].key]
  <2>1. DOMAIN before = 1 .. c /\ \A n \in 1 .. c : before[n] \in Asked
    BY <1>5, LenProperties, ElementOfSeq
  <2>2. first \in [1 .. c -> Int]
    BY <1>6, <1>9, <2>1 DEF TokenAmounts
  <2>3. first \in Seq(Int) /\ Len(first) = c
    BY <2>2, SeqDef, LenProperties
  <2> QED BY <1>6, <2>1, <2>3
<1>11. last \in Seq(Int) /\ Len(last) = N /\ \A n \in 1 .. N : last[n] = held[tokens[n].key] + gain[tokens[n].key]
  <2>1. last \in [1 .. N -> Int]
    BY <1>1, <1>7, <1>8, <1>9 DEF TokenAmounts
  <2>2. last \in Seq(Int) /\ Len(last) = N
    BY <2>1, SeqDef, LenProperties
  <2> QED BY <1>1, <1>7, <2>2
<1>12. PICK middle \in Seq(Int) : middle = <<0>> /\ Len(middle) = 1
  <2>1. <<0>> \in Seq(Int) /\ Len(<<0>>) = 1
    OBVIOUS
  <2> QED BY <2>1
<1>13. PICK head : head = first \o middle
  OBVIOUS
<1>14. /\ head \in Seq(Int) /\ Len(head) = c + 1
       /\ \A n \in 1 .. c : head[n] = first[n]
  <2>1. /\ head \in Seq(Int) /\ Len(head) = Len(first) + Len(middle)
        /\ \A n \in 1 .. Len(first) + Len(middle) :
             head[n] = IF n <= Len(first) THEN first[n] ELSE middle[n - Len(first)]
    BY <1>10, <1>12, <1>13, ConcatProperties
  <2> QED BY <1>10, <1>12, <2>1
<1>15. told = head \o last
  BY <1>6, <1>7, <1>12, <1>13 DEF balanceAnswers
<1>16. \A n \in 1 .. Len(head) + Len(last) : told[n] = IF n <= Len(head) THEN head[n] ELSE last[n - Len(head)]
  <2>1. head \in Seq(Int) /\ last \in Seq(Int) BY <1>11, <1>14
  <2>2. \A n \in 1 .. Len(head) + Len(last) :
          (head \o last)[n] = IF n <= Len(head) THEN head[n] ELSE last[n - Len(head)]
    BY <2>1, ConcatProperties
  <2> QED BY <1>15, <2>2
<1>17. \A n \in 1 .. c : told[n] = held[before[n].key]
  <2>1. Len(head) = c + 1 /\ Len(last) = N BY <1>11, <1>14
  <2>2. \A n \in 1 .. c : n \in 1 .. Len(head) + Len(last) /\ n <= Len(head) BY <2>1
  <2>3. \A n \in 1 .. c : told[n] = head[n] BY <1>16, <2>2
  <2>4. \A n \in 1 .. c : head[n] = first[n] BY <1>14
  <2> QED BY <1>10, <2>3, <2>4
<1>18. newBalance(told, before, i) = held[tokens[i].key] + gain[tokens[i].key]
  <2>1. i + c + 1 \in 1 .. Len(head) + Len(last) /\ ~(i + c + 1 <= Len(head)) /\ i + c + 1 - Len(head) = i
    BY <1>1, <1>11, <1>14
  <2>2. told[i + c + 1] = last[i]
    BY <1>16, <2>1
  <2> QED BY <1>1, <1>5, <1>11, <2>2 DEF newBalance
<1>19. CASE tokens[i].mint
  <2>1. tokens[i].key = <<"art", "second">>
    BY <1>1, <1>8, <1>9, <1>19
  <2> QED BY <1>18, <1>19, <2>1 DEF previousBalance
<1>20. CASE ~tokens[i].mint
  <2>1. i \in S
    BY <1>1, <1>2, <1>20
  <2>2. placeIn(S, i) = 1 + Cardinality({j \in 1 .. i - 1 : ~tokens[j].mint})
    <3>1. PICK earlier : earlier = {j \in 1 .. i - 1 : ~tokens[j].mint}
      OBVIOUS
    <3>2. IsFiniteSet(earlier)
      <4>1. 1 \in Int /\ i - 1 \in Int
        BY <1>1
      <4>2. IsFiniteSet(1 .. i - 1)
        BY <4>1, FS_Interval
      <4> QED BY <3>1, <4>2, FS_Subset
    <3>3. i \notin earlier
      BY <1>1, <3>1
    <3>4. {j \in S : j <= i} = earlier \cup {i}
      BY <1>1, <1>2, <2>1, <3>1
    <3>5. Cardinality(earlier \cup {i}) = Cardinality(earlier) + 1 /\ Cardinality(earlier) \in Nat
      BY <3>2, <3>3, FS_AddElement, FS_CardinalityType
    <3>6. placeIn(S, i) = Cardinality({j \in S : j <= i})
      BY DEF placeIn
    <3>7. Cardinality({j \in S : j <= i}) = Cardinality(earlier) + 1
      BY <3>4, <3>5
    <3>8. Cardinality({j \in 1 .. i - 1 : ~tokens[j].mint}) = Cardinality(earlier)
      BY <3>1
    <3> QED BY <3>5, <3>6, <3>7, <3>8
  <2>3. told[placeIn(S, i)] = held[tokens[i].key]
    BY <1>5, <1>17, <2>1
  <2> QED BY <1>18, <1>20, <2>2, <2>3 DEF previousBalance
<1> QED BY <1>19, <1>20, <1>18

\* A token changes by what the user gains of it, and is shown once if that is not nothing.
LEMMA ChangesAre ==
  ASSUME NEW tokens \in Seq(Asked), AreApart(tokens), held \in TokenAmounts, gain \in TokenAmounts,
         held[<<"art", "second">>] = 0, NEW shown, shown = balanceChanges(tokens)
  PROVE  /\ shown \in Seq(Changes)
         /\ \A p \in 1 .. Len(shown) :
              LET token == shown[p].token IN
              /\ gain[token] # 0 /\ shown[p].previous = held[token] /\ shown[p].new = held[token] + gain[token]
         /\ \A i \in 1 .. Len(tokens) : gain[tokens[i].key] # 0 =>
              \E p \in 1 .. Len(shown) : shown[p].token = tokens[i].key
         /\ \A p, q \in 1 .. Len(shown) : shown[p].token = shown[q].token => p = q
<1>1. PICK N \in Nat : N = Len(tokens) /\ DOMAIN tokens = 1 .. N BY LenProperties
<1>2. PICK before : before = tokensBefore(tokens) OBVIOUS
<1>3. PICK told : told = balanceAnswers(before, tokens) OBVIOUS
<1>4. PICK all : all = [i \in DOMAIN tokens |->
                          [token |-> tokens[i].key, previous |-> previousBalance(told, tokens, i),
                           new |-> newBalance(told, before, i)]] OBVIOUS
<1>5. PICK S : S = {i \in DOMAIN all : all[i].previous # all[i].new} OBVIOUS
<1>6. shown = chosen(all, S) BY <1>2, <1>3, <1>4, <1>5 DEF balanceChanges
<1>7. \A i \in 1 .. N : tokens[i].key \in Tokens BY <1>1, ElementOfSeq DEF Asked
<1>8. ASSUME NEW i \in 1 .. N
      PROVE  /\ all[i] \in Changes /\ all[i].token = tokens[i].key
             /\ all[i].previous = held[tokens[i].key] /\ all[i].new = held[tokens[i].key] + gain[tokens[i].key]
  <2>1. PICK token \in Tokens : token = tokens[i].key BY <1>7
  <2>2. PICK previous \in Int : previous = held[token] BY DEF TokenAmounts
  <2>3. PICK more \in Int : more = gain[token] BY DEF TokenAmounts
  <2>4. previousBalance(told, tokens, i) = previous /\ newBalance(told, before, i) = previous + more
    BY <1>1, <1>2, <1>3, <2>1, <2>2, <2>3, AnswersAre
  <2>5. all[i] = [token |-> token, previous |-> previous, new |-> previous + more]
    BY <1>1, <1>4, <2>1, <2>4
  <2> QED BY <2>1, <2>2, <2>3, <2>5 DEF Changes
<1>9. all \in Seq(Changes) /\ Len(all) = N BY <1>1, <1>4, <1>8, SeqDef, LenProperties
<1>10. S = {i \in 1 .. N : all[i].previous # all[i].new} BY <1>1, <1>4, <1>5
<1>11. S \in SUBSET (1 .. Len(all)) BY <1>9, <1>10
<1>12. /\ shown \in Seq(Changes) /\ Len(shown) = Cardinality(S) /\ Cardinality(S) \in Nat
       /\ \A i \in S : placeIn(S, i) \in 1 .. Cardinality(S) /\ shown[placeIn(S, i)] = all[i]
       /\ \A p \in 1 .. Cardinality(S) : \E i \in S : p = placeIn(S, i) /\ shown[p] = all[i]
  <2>1. /\ chosen(all, S) \in Seq(Changes) /\ Len(chosen(all, S)) = Cardinality(S) /\ Cardinality(S) \in Nat
        /\ \A i \in S : placeIn(S, i) \in 1 .. Cardinality(S) /\ chosen(all, S)[placeIn(S, i)] = all[i]
        /\ \A p \in 1 .. Cardinality(S) : \E i \in S : p = placeIn(S, i) /\ chosen(all, S)[p] = all[i]
    BY <1>9, <1>11, ChosenIs
  <2> QED BY <1>6, <2>1
<1>13. \A i \in 1 .. N : i \in S <=> gain[tokens[i].key] # 0
  <2>1. SUFFICES ASSUME NEW i \in 1 .. N PROVE i \in S <=> gain[tokens[i].key] # 0 OBVIOUS
  <2>2. PICK previous \in Int : previous = held[tokens[i].key] BY <1>7 DEF TokenAmounts
  <2>3. PICK more \in Int : more = gain[tokens[i].key] BY <1>7 DEF TokenAmounts
  <2>4. i \in S <=> previous # previous + more BY <1>8, <1>10, <2>2, <2>3
  <2> QED BY <2>3, <2>4
<1>14. ASSUME NEW p \in 1 .. Len(shown)
       PROVE  /\ gain[shown[p].token] # 0 /\ shown[p].previous = held[shown[p].token]
              /\ shown[p].new = held[shown[p].token] + gain[shown[p].token]
  <2>1. PICK i \in S : shown[p] = all[i] BY <1>12
  <2>2. i \in 1 .. N BY <1>10
  <2> QED BY <1>8, <1>13, <2>1, <2>2
<1>15. ASSUME NEW i \in 1 .. Len(tokens), gain[tokens[i].key] # 0
       PROVE  \E p \in 1 .. Len(shown) : shown[p].token = tokens[i].key
  BY <1>1, <1>13, <1>15, <1>12, <1>8
<1>16. ASSUME NEW p \in 1 .. Len(shown), NEW q \in 1 .. Len(shown), shown[p].token = shown[q].token
       PROVE  p = q
  <2>1. PICK i \in S : p = placeIn(S, i) /\ shown[p] = all[i] BY <1>12
  <2>2. PICK k \in S : q = placeIn(S, k) /\ shown[q] = all[k] BY <1>12
  <2>3. i \in 1 .. N /\ k \in 1 .. N BY <1>10
  <2>4. tokens[i].key = tokens[k].key BY <1>8, <1>16, <2>1, <2>2, <2>3
  <2>5. i = k BY <1>1, <2>3, <2>4 DEF AreApart
  <2> QED BY <2>1, <2>2, <2>5
<1> QED BY <1>12, <1>14, <1>15, <1>16

-----------------------------------------------------------------------------
(* The simulation. *)

GainsAreListed ==
  \A token \in Tokens : gain[token] # 0 => \E n \in DOMAIN extractLogs : Names(extractLogs[n], token)

SimulationInv ==
  /\ owner \in Owners /\ owner["first"] # "zero"
  /\ listed \in [own : Seq(Events), nested : Seq(Events)]
  /\ gain \in TokenAmounts /\ held \in TokenAmounts /\ held[<<"art", "second">>] = 0
  /\ GainsAreListed
  /\ simulation \in {"executing", "balances", "shown"}
  /\ simulation = "executing" => shownChanges = Nothing
  /\ simulation = "balances" => shownChanges = [Nothing EXCEPT !.native = nativeGain]
  /\ ShownChangesAreTrue

LEMMA InitialSimulation == SimulationInit => SimulationInv
<1> SUFFICES ASSUME SimulationInit PROVE SimulationInv OBVIOUS
<1>1. owner \in Owners /\ owner["first"] # "zero" BY DEF TokenIdsOf, SimulationInit, Owners
<1>2. listed \in [own : Seq(Events), nested : Seq(Events)] BY DEF SimulationInit
<1>3. gain \in TokenAmounts /\ held \in TokenAmounts /\ held[<<"art", "second">>] = 0
  BY SimulatedTokensAre DEF SimulationInit, TokenAmounts
<1>4. GainsAreListed BY DEF SimulationInit, GainsAreListed
<1> QED BY <1>1, <1>2, <1>3, <1>4 DEF SimulationInit, SimulationInv, ShownChangesAreTrue

\* Logs that have more events still have the old ones.
Keeps(s, t) == \A n \in 1 .. Len(s) : \E m \in 1 .. Len(t) : t[m] = s[n]
IsJoin(s, a, b) == s = a \o b

LEMMA EventsStay ==
  ASSUME NEW a \in Seq(Events), NEW b \in Seq(Events), NEW c \in Seq(Events), NEW d \in Seq(Events),
         Keeps(a, c), Keeps(b, d), NEW old, IsJoin(old, a, b), NEW new, IsJoin(new, c, d)
  PROVE  Keeps(c, new) /\ Keeps(d, new) /\ Keeps(old, new)
<1>1. /\ \A n \in 1 .. Len(a) : \E m \in 1 .. Len(c) : c[m] = a[n]
      /\ \A n \in 1 .. Len(b) : \E m \in 1 .. Len(d) : d[m] = b[n]
  BY DEF Keeps
<1>2. Len(a) \in Nat /\ Len(b) \in Nat /\ Len(c) \in Nat /\ Len(d) \in Nat
  BY LenProperties
<1>5. /\ old \in Seq(Events) /\ Len(old) = Len(a) + Len(b)
      /\ \A n \in 1 .. Len(a) + Len(b) : old[n] = IF n <= Len(a) THEN a[n] ELSE b[n - Len(a)]
  BY ConcatProperties DEF IsJoin
<1>6. /\ new \in Seq(Events) /\ Len(new) = Len(c) + Len(d)
      /\ \A n \in 1 .. Len(c) + Len(d) : new[n] = IF n <= Len(c) THEN c[n] ELSE d[n - Len(c)]
  BY ConcatProperties DEF IsJoin
<1>7. 1 .. Len(old) = 1 .. Len(a) + Len(b) /\ 1 .. Len(new) = 1 .. Len(c) + Len(d)
  BY <1>5, <1>6
<1>8. ASSUME NEW m \in 1 .. Len(c) PROVE \E n \in 1 .. Len(new) : new[n] = c[m]
  <2>1. m \in 1 .. Len(c) + Len(d) /\ m <= Len(c)
    BY <1>2
  <2> QED BY <1>6, <1>7, <2>1
<1>9. ASSUME NEW m \in 1 .. Len(d) PROVE \E n \in 1 .. Len(new) : new[n] = d[m]
  <2>1. Len(c) + m \in 1 .. Len(c) + Len(d) /\ ~(Len(c) + m <= Len(c)) /\ Len(c) + m - Len(c) = m
    BY <1>2
  <2>2. new[Len(c) + m] = d[m]
    BY <1>6, <2>1
  <2> QED BY <1>7, <2>1, <2>2
<1>20. ASSUME NEW n \in 1 .. Len(old) PROVE \E m \in 1 .. Len(new) : new[m] = old[n]
  <2>1. n \in 1 .. Len(a) \/ n - Len(a) \in 1 .. Len(b)
    BY <1>2, <1>7
  <2>2. CASE n \in 1 .. Len(a)
    <3>1. old[n] = a[n]
      BY <1>2, <1>5, <2>2
    <3>2. PICK k \in 1 .. Len(c) : c[k] = a[n]
      BY <1>1, <2>2
    <3> QED BY <1>8, <3>1, <3>2
  <2>3. CASE n \notin 1 .. Len(a)
    <3>1. n - Len(a) \in 1 .. Len(b) /\ old[n] = b[n - Len(a)]
      BY <1>2, <1>5, <1>7, <2>1, <2>3
    <3>2. PICK k \in 1 .. Len(d) : d[k] = b[n - Len(a)]
      BY <1>1, <3>1
    <3> QED BY <1>9, <3>1, <3>2
  <2> QED BY <2>2, <2>3
<1> QED BY <1>8, <1>9, <1>20 DEF Keeps

LEMMA EventIsListed ==
  ASSUME NEW event \in Events, NEW call \in {"own", "nested"}, listed \in [own : Seq(Events), nested : Seq(Events)],
         listed' = [listed EXCEPT ![call] = Append(@, event)]
  PROVE  /\ listed' \in [own : Seq(Events), nested : Seq(Events)]
         /\ \E n \in DOMAIN extractLogs' : extractLogs'[n] = event
         /\ \A n \in DOMAIN extractLogs : \E m \in DOMAIN extractLogs' : extractLogs'[m] = extractLogs[n]
<1>1. PICK a \in Seq(Events) : a = listed.own /\ a = listed["own"] OBVIOUS
<1>2. PICK b \in Seq(Events) : b = listed.nested /\ b = listed["nested"] OBVIOUS
<1>3. ASSUME NEW s \in Seq(Events)
      PROVE  /\ Append(s, event) \in Seq(Events)
             /\ Keeps(s, Append(s, event)) /\ Keeps(s, s)
             /\ \E m \in 1 .. Len(Append(s, event)) : Append(s, event)[m] = event
  <2>1. Len(s) \in Nat BY LenProperties
  <2>2. PICK t : t = Append(s, event) OBVIOUS
  <2>3. /\ t \in Seq(Events) /\ Len(t) = Len(s) + 1
        /\ \A n \in 1 .. Len(s) : t[n] = s[n]
        /\ t[Len(s) + 1] = event BY <2>2, AppendProperties
  <2>4. Len(s) + 1 \in 1 .. Len(t) /\ \A n \in 1 .. Len(s) : n \in 1 .. Len(t) BY <2>1, <2>3
  <2> QED BY <2>2, <2>3, <2>4 DEF Keeps
<1>4. PICK c \in Seq(Events) : c = IF call = "own" THEN Append(a, event) ELSE a BY <1>3
<1>5. PICK d \in Seq(Events) : d = IF call = "own" THEN b ELSE Append(b, event) BY <1>3
<1>6. listed' = [own |-> c, nested |-> d] BY <1>1, <1>4, <1>2, <1>5
<1>7. PICK old : old = a \o b OBVIOUS
<1>8. PICK new : new = c \o d OBVIOUS
<1>9. extractLogs = old /\ extractLogs' = new
  <2>1. extractLogs = listed.own \o listed.nested /\ extractLogs' = listed'.own \o listed'.nested
    BY DEF extractLogs
  <2>2. listed'.own = c /\ listed'.nested = d BY <1>6
  <2> QED BY <1>1, <1>2, <1>7, <1>8, <2>1, <2>2
<1>10. Keeps(a, c) /\ Keeps(b, d) BY <1>3, <1>4, <1>5
<1>11. (\E m \in 1 .. Len(c) : c[m] = event) \/ (\E m \in 1 .. Len(d) : d[m] = event)
  BY <1>3, <1>4, <1>5
<1>12. Keeps(c, new) /\ Keeps(d, new) /\ Keeps(old, new)
  <2>1. IsJoin(old, a, b) /\ IsJoin(new, c, d) BY <1>7, <1>8 DEF IsJoin
  <2> QED BY <1>10, <2>1, EventsStay
<1>13. \E n \in 1 .. Len(new) : new[n] = event BY <1>11, <1>12 DEF Keeps
<1>14. [own |-> c, nested |-> d] \in [own : Seq(Events), nested : Seq(Events)] OBVIOUS
<1>15. listed' \in [own : Seq(Events), nested : Seq(Events)] BY <1>6, <1>14
<1>16. DOMAIN old = 1 .. Len(old) /\ DOMAIN new = 1 .. Len(new)
  BY <1>7, <1>8, ConcatProperties, LenProperties
<1> QED BY <1>9, <1>12, <1>13, <1>15, <1>16 DEF Keeps

LEMMA SimulationIs ==
  ASSUME SimulationInv
  PROVE  /\ <<"coin", "undefined">> \in Tokens /\ <<"art", "second">> \in Tokens
         /\ <<"coin", "undefined">> # <<"art", "second">>
         /\ \A token \in Tokens : gain[token] \in Int
BY SimulatedTokensAre DEF SimulationInv, TokenAmounts

LEMMA EventIsEmitted ==
  ASSUME SimulationInv, NEW event \in Emittable, NEW call \in {"own", "nested"}, emit(event, call)
  PROVE  SimulationInv'
<1>1. event \in Events BY EmittableAre DEF SimulationInv
<1>2. /\ simulation = "executing" /\ shownChanges = Nothing
      /\ UNCHANGED <<simulation, held, shownChanges>>
      /\ listed' = [listed EXCEPT ![call] = Append(@, event)]
      /\ gain' = [token \in Tokens |-> gain[token] + Given(event, token)]
      /\ owner' = IF event.contract = "art" THEN [owner EXCEPT ![event.ids[1]] = event.to] ELSE owner
  BY DEF emit, SimulationInv
<1>3. owner' \in Owners /\ owner'["first"] # "zero" BY <1>1, <1>2 DEF SimulationInv, Events, Owners
<1>4. /\ listed' \in [own : Seq(Events), nested : Seq(Events)]
      /\ \E n \in DOMAIN extractLogs' : extractLogs'[n] = event
      /\ \A n \in DOMAIN extractLogs : \E m \in DOMAIN extractLogs' : extractLogs'[m] = extractLogs[n]
  BY <1>1, <1>2, EventIsListed DEF SimulationInv
<1>5. gain' \in TokenAmounts BY <1>1, GivenIs, SimulationIs, <1>2 DEF TokenAmounts
<1>6. GainsAreListed'
  <2>1. SUFFICES ASSUME NEW token \in Tokens, gain'[token] # 0
                 PROVE  \E n \in DOMAIN extractLogs' : Names(extractLogs'[n], token)
    BY DEF GainsAreListed
  <2>2. PICK more \in Int : more = Given(event, token) BY <1>1, GivenIs
  <2>3. gain'[token] = gain[token] + more /\ gain[token] \in Int BY <1>2, <2>2, SimulationIs
  <2>4. CASE gain[token] # 0 BY <2>4, <1>4 DEF SimulationInv, GainsAreListed
  <2>5. CASE gain[token] = 0 BY <1>1, <2>1, <2>2, <2>3, <2>5, GivenIs, <1>4
  <2> QED BY <2>4, <2>5
<1>7. ShownChangesAreTrue' BY <1>2 DEF ShownChangesAreTrue
<1> QED BY <1>2, <1>3, <1>4, <1>5, <1>6, <1>7 DEF SimulationInv

\* What is shown, once all answers are there.
LEMMA ShownIs ==
  ASSUME SimulationInv, NEW shown, shown = changes, NEW token \in Tokens,
         NEW S, S = {i \in DOMAIN shown : shown[i].token = token}
  PROVE  /\ Cardinality(S) = IF gain[token] = 0 THEN 0 ELSE 1
         /\ \A i \in S : shown[i].previous = held[token] /\ shown[i].new = held[token] + gain[token]
<1>1. PICK tokens \in Seq(Asked) : tokens = firstEventTokens BY FirstsAre DEF SimulationInv
<1>2. /\ AreApart(tokens)
      /\ \A n \in DOMAIN extractLogs : Names(extractLogs[n], token) =>
           \E p \in 1 .. Len(tokens) : tokens[p].key = token BY <1>1, FirstsAre DEF SimulationInv
<1>3. shown = balanceChanges(tokens) BY <1>1 DEF changes
<1>4. held \in TokenAmounts /\ gain \in TokenAmounts /\ held[<<"art", "second">>] = 0
  BY DEF SimulationInv
<1>5. /\ shown \in Seq(Changes)
      /\ \A p \in 1 .. Len(shown) :
           /\ gain[shown[p].token] # 0 /\ shown[p].previous = held[shown[p].token]
           /\ shown[p].new = held[shown[p].token] + gain[shown[p].token]
      /\ \A i \in 1 .. Len(tokens) : gain[tokens[i].key] # 0 =>
           \E p \in 1 .. Len(shown) : shown[p].token = tokens[i].key
      /\ \A p, q \in 1 .. Len(shown) : shown[p].token = shown[q].token => p = q
  BY <1>2, <1>3, <1>4, ChangesAre
<1>6. DOMAIN shown = 1 .. Len(shown) BY <1>5, LenProperties
<1>7. \A i \in S : /\ gain[token] # 0 /\ shown[i].previous = held[token]
                   /\ shown[i].new = held[token] + gain[token] BY <1>5, <1>6
<1>8. CASE gain[token] = 0 BY <1>7, <1>8, FS_EmptySet
<1>9. CASE gain[token] # 0
  <2>1. PICK i \in 1 .. Len(tokens) : tokens[i].key = token
    BY <1>2, <1>9 DEF SimulationInv, GainsAreListed
  <2>2. PICK p \in 1 .. Len(shown) : shown[p].token = token BY <1>5, <1>9, <2>1
  <2>3. S = {p} BY <1>5, <1>6, <2>2
  <2> QED BY <1>7, <1>9, <2>3, FS_Singleton
<1> QED BY <1>8, <1>9

LEMMA BalancesAreShown == ASSUME SimulationInv, getTokenBalanceChanges PROVE SimulationInv'
<1>1. /\ simulation' = "shown" /\ UNCHANGED <<listed, owner, gain, nativeGain, held>>
      /\ shownChanges' = [shownChanges EXCEPT !.tokens = changes]
      /\ shownChanges = [Nothing EXCEPT !.native = nativeGain]
  BY DEF getTokenBalanceChanges, SimulationInv
<1>2. PICK shown : shown = changes OBVIOUS
<1>3. PICK native : native = nativeGain OBVIOUS
<1>4. shownChanges' = [error |-> "none", native |-> native, tokens |-> shown]
  BY <1>1, <1>2, <1>3 DEF Nothing
<1>5. shownChanges'.error = "none" /\ shownChanges'.native = nativeGain' /\ shownChanges'.tokens = shown
  BY <1>4, <1>1, <1>3
<1>6. ASSUME NEW token \in Tokens
      PROVE  /\ Cardinality({i \in DOMAIN shown : shown[i].token = token}) = IF gain'[token] = 0 THEN 0 ELSE 1
             /\ \A i \in {n \in DOMAIN shown : shown[n].token = token} :
                  shown[i].previous = held'[token] /\ shown[i].new = held'[token] + gain'[token]
  <2>1. PICK S : S = {i \in DOMAIN shown : shown[i].token = token} OBVIOUS
  <2>2. /\ Cardinality(S) = IF gain[token] = 0 THEN 0 ELSE 1
        /\ \A i \in S : shown[i].previous = held[token] /\ shown[i].new = held[token] + gain[token]
    BY <1>2, <2>1, ShownIs
  <2> QED BY <1>1, <2>1, <2>2
<1>7. ShownChangesAreTrue' BY <1>5, <1>6 DEF ShownChangesAreTrue
<1>8. GainsAreListed' BY <1>1 DEF SimulationInv, GainsAreListed, extractLogs
<1> QED BY <1>1, <1>7, <1>8 DEF SimulationInv

LEMMA NativeIsShown == ASSUME SimulationInv, getSimulationData PROVE SimulationInv'
<1>1. /\ simulation = "executing" /\ UNCHANGED <<listed, owner, gain, nativeGain, held>>
      /\ shownChanges' = [shownChanges EXCEPT !.native = nativeGain]
      /\ simulation' = IF firstEventTokens = <<>> THEN "shown" ELSE "balances"
      /\ shownChanges = Nothing BY DEF getSimulationData, SimulationInv
<1>2. GainsAreListed' BY <1>1 DEF SimulationInv, GainsAreListed, extractLogs
<1>3. shownChanges' = [Nothing EXCEPT !.native = nativeGain'] BY <1>1
<1>4. ShownChangesAreTrue'
  <2>1. CASE firstEventTokens = <<>>
    <3>1. \A token \in Tokens : gain[token] = 0
      <4>1. SUFFICES ASSUME NEW token \in Tokens, gain[token] # 0 PROVE FALSE OBVIOUS
      <4>2. PICK n \in DOMAIN extractLogs : Names(extractLogs[n], token)
        BY <4>1 DEF SimulationInv, GainsAreListed
      <4>3. \E p \in 1 .. Len(firstEventTokens) : firstEventTokens[p].key = token
        BY <4>2, FirstsAre DEF SimulationInv
      <4>4. Len(firstEventTokens) = 0 BY <2>1
      <4> QED BY <4>3, <4>4
    <3>2. shownChanges'.error = "none" /\ shownChanges'.native = nativeGain' /\ shownChanges'.tokens = <<>>
      BY <1>3 DEF Nothing
    <3>3. \A token : {i \in DOMAIN shownChanges'.tokens : shownChanges'.tokens[i].token = token} = {}
      BY <3>2
    <3>4. \A token \in Tokens : gain'[token] = 0 BY <1>1, <3>1
    <3>5. Cardinality({}) = 0 BY FS_EmptySet
    <3> QED BY <3>2, <3>3, <3>4, <3>5 DEF ShownChangesAreTrue
  <2>2. CASE firstEventTokens # <<>> BY <1>1, <2>2 DEF ShownChangesAreTrue
  <2> QED BY <2>1, <2>2
<1> QED BY <1>1, <1>2, <1>3, <1>4 DEF SimulationInv

LEMMA NothingIsShown == ASSUME SimulationInv, simulationFails PROVE SimulationInv'
BY DEF simulationFails, ShownChangesAreTrue, Nothing, SimulationInv, GainsAreListed, extractLogs

LEMMA CoinIsReceived == ASSUME SimulationInv, coinReceived PROVE SimulationInv'
<1>1. /\ simulation = "balances" /\ UNCHANGED <<simulation, listed, owner, gain, nativeGain, shownChanges>>
      /\ held' = [held EXCEPT ![<<"coin", "undefined">>] = 2] BY DEF coinReceived
<1>2. held' \in TokenAmounts /\ held'[<<"art", "second">>] = 0
  BY <1>1, SimulationIs DEF SimulationInv, TokenAmounts
<1>3. GainsAreListed' BY <1>1 DEF SimulationInv, GainsAreListed, extractLogs
<1>4. ShownChangesAreTrue' BY <1>1 DEF ShownChangesAreTrue
<1> QED BY <1>1, <1>2, <1>3, <1>4 DEF SimulationInv

LEMMA SimulationStep == ASSUME SimulationInv, SimulationNext PROVE SimulationInv'
BY EventIsEmitted, BalancesAreShown, NativeIsShown, NothingIsShown, CoinIsReceived DEF SimulationNext

LEMMA SimulationIdle == ASSUME SimulationInv, UNCHANGED simulationVars PROVE SimulationInv'
<1>1. UNCHANGED <<simulation, listed, owner, gain, nativeGain, held, shownChanges>>
  BY DEF simulationVars
<1>2. GainsAreListed' BY <1>1 DEF SimulationInv, GainsAreListed, extractLogs
<1> DEFINE True(s, change, more, native, has) ==
             LET shown == change.tokens
                 Shown(token) == {i \in DOMAIN shown : shown[i].token = token}
             IN s = "shown" =>
                  IF change.error # "none" THEN shown = <<>> /\ change.native = 0
                  ELSE /\ change.native = native
                       /\ \A token \in Tokens :
                            /\ Cardinality(Shown(token)) = IF more[token] = 0 THEN 0 ELSE 1
                            /\ \A i \in Shown(token) : /\ shown[i].previous = has[token]
                                                       /\ shown[i].new = has[token] + more[token]
<1>3. ShownChangesAreTrue = True(simulation, shownChanges, gain, nativeGain, held)
  BY DEF ShownChangesAreTrue
<1>4. ShownChangesAreTrue' = True(simulation', shownChanges', gain', nativeGain', held')
  BY DEF ShownChangesAreTrue
<1>5. ShownChangesAreTrue BY DEF SimulationInv
<1> HIDE DEF True
<1>6. ShownChangesAreTrue' BY <1>1, <1>3, <1>4, <1>5
<1> QED BY <1>1, <1>2, <1>6 DEF SimulationInv

-----------------------------------------------------------------------------

(***************************************************************************)
(* Swaps.  While a swap is followed it is confirmed, and what is followed  *)
(* knows its balance before and its kind, and so does the copy that waits; *)
(* no balance after it is read before.  There is one swap at most, and to  *)
(* add it is the first step.                                               *)
(***************************************************************************)
SwapRecords ==
  [type : SwapTypes \cup {"payment"}, status : {"unapproved", "submitted", "confirmed"},
   kept : SUBSET {"type", "symbols", "destination", "recipient"}, isDefault : BOOLEAN,
   pre : Int, post : Int, changes : Nat]

\* What is followed of a swap, and its copy.
IsOf(f, s) ==
  s.type = "swap" /\ s.status = "confirmed" /\ s.pre = f.pre /\ s.isDefault = f.isDefault

IsFollowed(f) ==
  /\ f.step \in {"none", "asking", "sleeping", "failed", "ended"}
  /\ f.step \in {"asking", "sleeping"} /\ swap # NoSwap => IsOf(f, swap) /\ swap.post = Unread
  /\ f.step = "sleeping" => f.copy = NoSwap \/ (f.copy \in SwapRecords /\ IsOf(f, f.copy))
  /\ f.step = "ended" /\ swap # NoSwap =>
       /\ swap.status = "confirmed"
       /\ swap.post # Unread /\ swap.isDefault => swap.post # swap.pre \/ f.attempt = SwapAttempts
  /\ f.step = "failed" /\ swap # NoSwap => swap.status = "confirmed" /\ swap.post = Unread
  /\ f.step = "none" /\ swap # NoSwap => swap.post = Unread

SwapInv ==
  /\ swap = NoSwap \/ swap \in SwapRecords
  /\ balances \in [before : Int, now : Int]
  /\ swapSteps \in Nat
  /\ swapSteps = 0 => swap = NoSwap /\ following.step = "none"
  /\ IsFollowed(following)
  /\ undone # "before"
  /\ swap # NoSwap /\ swap.type # "swap" => swap.post = Unread

LEMMA InitialSwap == SwapsInit => SwapInv
BY DEF SwapsInit, SwapInv, IsFollowed, NotFollowing

\* Others change the transaction, but nothing of what is followed.
LEMMA SwapIs ==
  ASSUME SwapInv, NEW s \in SwapRecords, swap' = s,
         balances' \in [before : Int, now : Int], swapSteps' \in Nat \ {0},
         undone' # "before",
         s.type # "swap" => s.post = Unread,
         NEW f, following' = f,
         f.step \in {"none", "asking", "sleeping", "failed", "ended"},
         f.step \in {"asking", "sleeping"} => IsOf(f, s) /\ s.post = Unread,
         f.step = "sleeping" => f.copy = NoSwap \/ (f.copy \in SwapRecords /\ IsOf(f, f.copy)),
         f.step = "ended" => /\ s.status = "confirmed"
                             /\ s.post # Unread /\ s.isDefault => s.post # s.pre \/ f.attempt = SwapAttempts,
         f.step = "failed" => s.status = "confirmed" /\ s.post = Unread,
         f.step = "none" => s.post = Unread
  PROVE  SwapInv'
BY DEF IsFollowed, IsOf, SwapInv

LEMMA SwapIsGone ==
  ASSUME SwapInv, swap' = NoSwap, balances' \in [before : Int, now : Int], swapSteps' \in Nat \ {0},
         undone' # "before",
         NEW f, following' = f, f.step \in {"none", "asking", "sleeping", "failed", "ended"},
         f.step = "sleeping" => f.copy = NoSwap \/ (f.copy \in SwapRecords /\ IsOf(f, f.copy))
  PROVE  SwapInv'
BY DEF IsFollowed, IsOf, SwapInv

LEMMA SwapIsAdded ==
  ASSUME SwapInv, NEW type \in SwapTypes \cup {"payment"},
         NEW named \in SUBSET {"type", "symbols", "destination", "recipient"},
         NEW typeNamed \in SwapTypes, NEW isDefault \in BOOLEAN, NEW hasApproveTx \in BOOLEAN,
         NEW failsSimulation \in BOOLEAN, NEW isSwapsDisabled \in BOOLEAN,
         addSwap(type, named, typeNamed, isDefault, hasApproveTx, failsSimulation, isSwapsDisabled)
  PROVE  SwapInv'
<1>1. swapSteps = 0 /\ swapSteps' = swapSteps + 1 /\ UNCHANGED <<balances, following, undone>>
  BY DEF addSwap, swapStep
<1>2. PICK kept \in SUBSET {"type", "symbols", "destination", "recipient"} :
        kept = IF isSwapsDisabled THEN {} ELSE named \cap fieldsOf(type) OBVIOUS
<1>3. PICK kind \in SwapTypes \cup {"payment"} : kind = IF "type" \in kept THEN typeNamed ELSE type
  OBVIOUS
<1>4. PICK takes \in BOOLEAN : takes = (isDefault /\ "destination" \in kept) OBVIOUS
<1>5. PICK s : s = [type |-> kind, status |-> "unapproved", kept |-> kept, isDefault |-> takes,
                    pre |-> Unread, post |-> Unread, changes |-> 0] OBVIOUS
<1>6. s \in SwapRecords /\ s.post = Unread BY <1>5 DEF SwapRecords, Unread
<1>7. swap' = s BY <1>2, <1>3, <1>4, <1>5 DEF addSwap
<1>8. following.step = "none" /\ balances \in [before : Int, now : Int] /\ undone # "before"
  BY <1>1 DEF SwapInv
<1>9. PICK f : f = following OBVIOUS
<1> QED BY <1>1, <1>6, <1>7, <1>8, <1>9, SwapIs

\* The steps of others start from a transaction that is there.
LEMMA SwapWas ==
  ASSUME SwapInv, swap # NoSwap
  PROVE  swap \in SwapRecords /\ swapSteps \in Nat \ {0}
BY DEF SwapInv

LEMMA SwapIsSubmitted == ASSUME SwapInv, swapSubmitted PROVE SwapInv'
BY SwapWas, SwapIs DEF swapSubmitted, SwapInv, SwapRecords, IsFollowed, IsOf

LEMMA SwapIsConfirmed == ASSUME SwapInv, swapConfirmed PROVE SwapInv'
BY SwapWas, SwapIs DEF swapConfirmed, SwapRecords, SwapInv, IsFollowed, IsOf, NotFollowing

LEMMA SwapIsRemoved == ASSUME SwapInv, swapRemoved PROVE SwapInv'
BY SwapIsGone DEF SwapInv, IsFollowed, swapRemoved, swapStep

LEMMA BalancesChange ==
  ASSUME SwapInv, balances' \in [before : Int, now : Int], swapSteps' \in Nat,
         swapSteps' = swapSteps \/ swapSteps' # 0, UNCHANGED <<swap, following, undone>>
  PROVE  SwapInv'
BY DEF SwapInv, IsFollowed, IsOf

LEMMA BlockHasPayment == ASSUME SwapInv, newBlockHasPayment PROVE SwapInv'
BY BalancesChange DEF newBlockHasPayment, SwapInv, swapStep

LEMMA SwapIsChanged == ASSUME SwapInv, swapChanged PROVE SwapInv'
BY SwapWas, SwapIs DEF swapChanged, SwapRecords, SwapInv, swapStep, IsFollowed, IsOf

\* A copy is recorded that still is of what was followed; without one, nothing is recorded.
LEMMA CopyIsRecorded ==
  ASSUME SwapInv, following.step \in {"asking", "sleeping"},
         NEW copy, NEW attempt, balanceRecorded(copy, attempt), UNCHANGED <<balances, swapSteps>>,
         swap # NoSwap /\ copy # NoSwap =>
           /\ copy \in SwapRecords /\ IsOf(following, copy)
           /\ attempt = SwapAttempts \/ (copy.changes = swap.changes /\ (copy.isDefault => copy.post # copy.pre))
  PROVE  SwapInv'
BY SwapIsGone, SwapWas, SwapIs DEF balanceRecorded, SwapInv, IsFollowed, IsOf

\* The copy has the balance, and all else of the transaction.
LEMMA CopyIs ==
  ASSUME SwapInv, following.step = "asking", NEW balance \in Int, swap # NoSwap
  PROVE  /\ withPost(balance) \in SwapRecords /\ IsOf(following, withPost(balance))
         /\ withPost(balance).post = balance /\ withPost(balance).changes = swap.changes
BY SwapWas DEF SwapInv, IsFollowed, withPost, SwapRecords, IsOf

LEMMA BalanceIsAnswered ==
  ASSUME SwapInv, NEW balance \in Int, balanceAnswered(balance) PROVE SwapInv'
<1>1. following.step = "asking" /\ UNCHANGED <<balances, swapSteps>> BY DEF balanceAnswered
<1>2. PICK copy : copy = withPost(balance) OBVIOUS
<1>3. swap = NoSwap => copy = NoSwap BY <1>2 DEF withPost
<1>4. swap # NoSwap => /\ copy \in SwapRecords /\ IsOf(following, copy)
                       /\ copy.post = balance /\ copy.changes = swap.changes BY <1>1, <1>2, CopyIs
<1>5. CASE isSettled(following, balance)
  BY <1>2, <1>5, <1>4, <1>1, CopyIsRecorded DEF balanceAnswered, isSettled, IsOf
<1>6. CASE ~isSettled(following, balance)
  BY <1>2, <1>6, <1>3, <1>4, <1>1, SwapIsGone, SwapWas, SwapIs DEF balanceAnswered, IsOf, SwapInv, IsFollowed
<1> QED BY <1>5, <1>6

LEMMA SwapSleeps == ASSUME SwapInv, sleptEnough PROVE SwapInv'
BY CopyIsRecorded, SwapIsGone, SwapWas, SwapIs DEF sleptEnough, SwapInv, IsFollowed, IsOf

LEMMA BalanceFails == ASSUME SwapInv, balanceFailed PROVE SwapInv'
BY SwapIsGone, SwapWas, SwapIs DEF balanceFailed, SwapInv, IsFollowed, IsOf

LEMMA SwapsStep == ASSUME SwapInv, SwapsNext PROVE SwapInv'
BY SwapIsAdded, BalanceIsAnswered, SwapIsSubmitted, SwapIsConfirmed, BlockHasPayment, SwapIsChanged,
   SwapIsRemoved, SwapSleeps, BalanceFails DEF SwapInv, SwapsNext

LEMMA SwapsIdle == ASSUME SwapInv, UNCHANGED swapVars PROVE SwapInv'
BY DEF SwapInv, swapVars, IsFollowed, IsOf

LEMMA SwapsStayFollowed == ASSUME SwapInv PROVE SwapsAreFollowed
BY DEF SwapInv, IsFollowed, SwapsAreFollowed

-----------------------------------------------------------------------------

(***************************************************************************)
(* And so do the phishing lists, the tokens that are detected, what        *)
(* transactions would change, and swaps.                                   *)
(***************************************************************************)
LEMMA InformedTogether ==
  ASSUME PhishingAssumption, DetectionAssumption
  PROVE  DappsSpec => [](PhishingInv /\ DetectionInv /\ SimulationInv /\ SwapInv)
<1> DEFINE Inv == PhishingInv /\ DetectionInv /\ SimulationInv /\ SwapInv
<1>1. DappsInit => Inv
  BY InitialLists, InitialDetection, InitialSimulation, InitialSwap DEF DappsInit
<1>2. ASSUME Inv, [DappsNext]_dappVars PROVE Inv'
  BY <1>2, PhishingStep, PhishingIdle, DetectionStep, DetectionIdle, SimulationStep, SimulationIdle,
     SwapsStep, SwapsIdle DEF listSteps, DappsNext, networkSteps, callSteps, feeSteps, changeSteps,
     messageManagerSteps, tokenSteps, restrictedSteps, logSteps, tradeSteps, dappVars
<1> QED BY <1>1, <1>2, PTL DEF DappsSpec

(***************************************************************************)
(* The lists of phishing sites have no gaps and sites are judged by them,  *)
(* the changes that are shown are the transaction's, swaps are followed,   *)
(* and no token that is detected is another's, nor is one missed: for any  *)
(* lists, sites, events, accounts and attempts.                            *)
(***************************************************************************)
THEOREM UsersAlwaysInformed == DappsSpec => []UsersAreInformed
<1>1. PhishingInv /\ DetectionInv /\ SimulationInv /\ SwapInv => UsersAreInformed
  BY NoGapsAreLeft, SitesStayJudged, AllIsDetected, SwapsStayFollowed, PhishingAssumption DEF
     UsersAreInformed, SimulationInv
<1> QED BY <1>1, InformedTogether, PhishingAssumption, DetectionAssumption, PTL
=============================================================================
