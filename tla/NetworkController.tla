-------------------------- MODULE NetworkController --------------------------
(***************************************************************************)
(* NetworkController with its lookups: eth_getBlockByNumber requests whose *)
(* answer, arriving when it may, is written to state.networksMetadata.     *)
(***************************************************************************)
EXTENDS NetworkClients

CONSTANTS
  Calls,             \* bound: asynchronous calls in flight at once
  Supports1559,      \* the chains whose blocks have a baseFeePerGas
  CompatMayBeAsked   \* getEIP1559Compatibility may be called without an ID

ASSUME LookupsAssumption ==
  /\ Supports1559 \subseteq Chains
  /\ CompatMayBeAsked \in BOOLEAN

VARIABLES
  networksMetadata,
  calls,          \* the lookups in flight
  lookedUp,       \* history: a lookup of the selection has been recorded
  infuraBlocked   \* a subscriber's flag for infuraIsBlocked and infuraIsUnblocked

lookupVars == <<networksMetadata, calls, lookedUp, infuraBlocked>>
networkControllerVars == <<clientVars, lookupVars>>

\* "unknown" also stands for the status unavailable, which the code treats alike.
Metadata == [status : {"unknown", "available", "blocked"},
             eip1559 : {"yes", "no", "unset"}]
NoMetadata == [status |-> "none", eip1559 |-> "unset"]
UnknownStatus == [status |-> "unknown", eip1559 |-> "unset"]

\* kind: lookupNetwork without an ID, lookupNetworkByClientId, or
\* getEIP1559Compatibility without an ID.  client is the one that was asked.
Call == [kind : {"selected", "byId", "compat"}, id : Ids,
         client : Client \cup {NoClient}, isInfura : BOOLEAN,
         networkChanged : BOOLEAN]
Idle == [kind |-> "idle"]

-----------------------------------------------------------------------------

\* determineEIP1559Compatibility(id) is under way, with a client of the registry
\* that the same step leaves behind.
askedWith(kind, id, changed) ==
  [kind |-> kind, id |-> id, client |-> getNetworkClientById(id, registry'),
   isInfura |-> IF providerProxy' = NoClient THEN FALSE ELSE providerProxy'.id \in Infura,
   networkChanged |-> changed]

\* Fault: the listener is in place before its own switch is announced.
askedTooEarly(kind, id) == askedWith(kind, id, kind = "selected")

asked(kind, id) == askedWith(kind, id, FALSE)

start(c, kind, id) ==
  /\ calls[c] = Idle
  /\ calls' = [calls EXCEPT ![c] = asked(kind, id)]

\* What the client may answer, with the status the errors stand for.
answers(call) ==
  IF call.client = NoClient THEN {UnknownStatus}
  ELSE {[status |-> "available",
         eip1559 |-> IF call.client.chain \in Supports1559 THEN "yes" ELSE "no"],
        [status |-> "available", eip1559 |-> "unset"],
        UnknownStatus}
       \cup (IF call.id \in Infura
             THEN {[status |-> "blocked", eip1559 |-> "unset"]} ELSE {})

\* Fault: nobody listens to networkDidChange.
networkDidChangeUnheard == calls

\* networkDidChange reaches the listener of every lookupNetwork in flight.
networkDidChange ==
  [c \in Calls |-> IF calls[c].kind = "selected"
                   THEN [calls[c] EXCEPT !.networkChanged = TRUE] ELSE calls[c]]

withMetadata(id) ==
  [networksMetadata EXCEPT ![id] = IF @ = NoMetadata THEN UnknownStatus ELSE @]

\* The rest of refreshNetwork after an attempt to select id: nothing when it
\* threw, otherwise metadata for id, networkDidChange and a lookup.
afterSelection(id, c, announce) ==
  \/ /\ getNetworkClientById(id, registry') # NoClient
     /\ calls[c] = Idle
     /\ calls' = [(IF announce THEN networkDidChange ELSE calls)
                    EXCEPT ![c] = asked("selected", id)]
     /\ networksMetadata' = withMetadata(id)
     /\ lookedUp' = FALSE
     /\ UNCHANGED infuraBlocked
  \/ /\ getNetworkClientById(id, registry') = NoClient
     /\ UNCHANGED lookupVars

-----------------------------------------------------------------------------

LookupsInit ==
  /\ ClientsInit
  /\ networksMetadata = [id \in Ids |-> NoMetadata]
  /\ calls = [c \in Calls |-> Idle]
  /\ lookedUp = FALSE
  /\ infuraBlocked = FALSE

\* The wallet calls initializeProvider once, at startup.
Initialize(c) ==
  /\ providerProxy = NoClient
  /\ initializeProvider
  /\ afterSelection(selectedNetworkClientId, c, FALSE)

SetActive(id, c) == setActiveNetwork(id) /\ afterSelection(id, c, TRUE)

Reset(c) == resetConnection /\ afterSelection(selectedNetworkClientId, c, TRUE)

Rollback(c) ==
  rollbackToPreviousProvider /\ afterSelection(previouslySelectedNetworkClientId, c, TRUE)

Upsert(id, chain, c) ==
  \/ upsertNetworkConfiguration(id, chain, TRUE) /\ afterSelection(id, c, TRUE)
  \/ upsertNetworkConfiguration(id, chain, FALSE) /\ UNCHANGED lookupVars

\* networksMetadata keeps its entry for a network that is removed.
RemoveNetwork(id) == removeNetworkConfiguration(id) /\ UNCHANGED lookupVars

LoadBackup(backup) == loadBackup(backup) /\ UNCHANGED lookupVars

\* Every lookup needs the registry, so it creates it when it is the first.
looking ==
  /\ ensureRegistry
  /\ UNCHANGED <<selectedNetworkClientId, previouslySelectedNetworkClientId,
                 networkConfigurations, providerProxy, destroyed, created, issued>>
  /\ UNCHANGED <<networksMetadata, lookedUp, infuraBlocked>>

\* lookupNetwork() returns at once before the provider is initialised.
lookupNetwork(c) ==
  /\ providerProxy # NoClient
  /\ looking
  /\ start(c, "selected", selectedNetworkClientId)

lookupNetworkByClientId(id, c) == looking /\ start(c, "byId", id)

\* With metadata for the network it answers from state, without a request.
get1559CompatibilityWithNetworkClientId(id, c) ==
  networksMetadata[id] = NoMetadata /\ lookupNetworkByClientId(id, c)

\* Answers from state when the selected network's support is known.
getEIP1559Compatibility(c) ==
  /\ CompatMayBeAsked
  /\ providerProxy # NoClient
  /\ networksMetadata[selectedNetworkClientId].eip1559 = "unset"
  /\ looking
  /\ start(c, "compat", selectedNetworkClientId)

-----------------------------------------------------------------------------
(***************************************************************************)
(* The answers.                                                            *)
(***************************************************************************)

record(id, metadata) == networksMetadata' = [networksMetadata EXCEPT ![id] = metadata]

finish(c) == calls' = [calls EXCEPT ![c] = Idle] /\ UNCHANGED clientVars

\* Fault: only an answer unblocks, whatever the network.
reportedIfAnswered(call, metadata) ==
  IF metadata.status = "available" THEN FALSE
  ELSE IF metadata.status = "blocked" THEN TRUE
  ELSE infuraBlocked

\* infuraIsBlocked and infuraIsUnblocked, as a subscriber sees them.
reported(call, metadata) ==
  IF ~call.isInfura \/ metadata.status = "available" THEN FALSE
  ELSE IF metadata.status = "blocked" THEN TRUE
  ELSE infuraBlocked

\* After the await in lookupNetwork.
lookupAnswered(c, metadata) ==
  /\ calls[c].kind = "selected"
  /\ finish(c)
  /\ \/ /\ calls[c].networkChanged
        /\ UNCHANGED <<networksMetadata, lookedUp, infuraBlocked>>
     \/ /\ ~calls[c].networkChanged
        /\ record(selectedNetworkClientId, metadata)
        /\ lookedUp' = TRUE
        /\ infuraBlocked' = reported(calls[c], metadata)

\* After the await in lookupNetworkByClientId, which passes on the error that
\* there is no such client.
lookupByIdAnswered(c, metadata) ==
  /\ calls[c].kind = "byId"
  /\ finish(c)
  /\ IF calls[c].client = NoClient THEN UNCHANGED networksMetadata
     ELSE record(calls[c].id, metadata)
  /\ UNCHANGED <<lookedUp, infuraBlocked>>

\* After the await in getEIP1559Compatibility, which passes on every error.
compatAnswered(c, metadata) ==
  /\ calls[c].kind = "compat"
  /\ finish(c)
  /\ IF metadata.eip1559 = "unset" THEN UNCHANGED networksMetadata
     ELSE record(selectedNetworkClientId,
                 [networksMetadata[selectedNetworkClientId]
                    EXCEPT !.eip1559 = metadata.eip1559])
  /\ UNCHANGED <<lookedUp, infuraBlocked>>

answered(c) ==
  /\ calls[c] # Idle
  /\ \E metadata \in answers(calls[c]) :
       lookupAnswered(c, metadata) \/ lookupByIdAnswered(c, metadata)
         \/ compatAnswered(c, metadata)

LookupsNext ==
  \/ \E c \in Calls :
       \/ Initialize(c) \/ Reset(c) \/ Rollback(c)
       \/ lookupNetwork(c) \/ getEIP1559Compatibility(c) \/ answered(c)
       \/ \E id \in Ids : \/ SetActive(id, c) \/ lookupNetworkByClientId(id, c)
                          \/ get1559CompatibilityWithNetworkClientId(id, c)
       \/ \E id \in Custom, chain \in Chains : Upsert(id, chain, c)
  \/ \E id \in Custom : RemoveNetwork(id)
  \/ \E backup \in Backups : LoadBackup(backup)

LookupsSpec == LookupsInit /\ [][LookupsNext]_networkControllerVars

\* Every eth_getBlockByNumber request is answered, or fails, sooner or later.
FairLookups == LookupsSpec /\ \A c \in Calls : WF_networkControllerVars(answered(c))

-----------------------------------------------------------------------------

LookupsTypeOK ==
  /\ ClientsTypeOK
  /\ networksMetadata \in [Ids -> Metadata \cup {NoMetadata}]
  /\ calls \in [Calls -> Call \cup {Idle}]
  /\ lookedUp \in BOOLEAN
  /\ infuraBlocked \in BOOLEAN

(***************************************************************************)
(* "If the network has changed, then lookupNetwork either has been or is   *)
(* in the process of being called" (comment in lookupNetwork): discarding  *)
(* an answer never leaves the selected network without a lookup.           *)
(***************************************************************************)
SelectionIsLookedUp ==
  \/ providerProxy = NoClient
  \/ lookedUp
  \/ \E c \in Calls : calls[c].kind = "selected" /\ ~calls[c].networkChanged

(***************************************************************************)
(* "no metadata for the (now previously) selected network will be updated" *)
(* (doc of lookupNetwork), and none of the new one with the answer of the  *)
(* old: a lookup records its answer for the network it asked, or not at    *)
(* all.                                                                    *)
(***************************************************************************)
LookupRecordsItsNetwork ==
  [][\A c \in Calls :
       calls[c].kind = "selected" /\ calls'[c] = Idle =>
         \A id \in Ids : networksMetadata'[id] # networksMetadata[id] =>
           id = calls[c].id /\ id = selectedNetworkClientId]_networkControllerVars

(***************************************************************************)
(* "Always publish infuraIsUnblocked ... to prevent consumers from being   *)
(* stuck in a blocked state" (comment in lookupNetwork): once a custom     *)
(* network has been looked up, no subscriber thinks the user is blocked.   *)
(***************************************************************************)
NotStuckBlocked ==
  lookedUp /\ selectedNetworkClientId \in Custom => ~infuraBlocked

\* Types, and what the lookups leave behind.
LookupsInform == LookupsTypeOK /\ SelectionIsLookedUp /\ NotStuckBlocked

(***************************************************************************)
(* Once nobody starts another call, the answers on their way settle what   *)
(* is known of the selected network: the lookup of the last switch is      *)
(* recorded, however many answers of earlier ones are discarded.           *)
(***************************************************************************)
SelectionSettles ==
  <>[][\A c \in Calls : calls[c] = Idle => calls'[c] = Idle]_networkControllerVars
    => (providerProxy # NoClient ~> lookedUp)
=============================================================================
