----------------------- MODULE MultichainTrackingHelper -----------------------
(***************************************************************************)
(* How incoming transactions reach the wallet, and one set of trackers per *)
(* network client (packages/transaction-controller).                       *)
(*                                                                         *)
(* IncomingTransactionHelper: each helper asks an explorer for what is     *)
(* newer than the last block it has fetched of the selected account,       *)
(* alternating between transactions and token transfers, and moves the     *)
(* cursor to the newest block of the answer.  The helpers of one chain     *)
(* share the explorer's client (EtherscanRemoteTransactionSource), which   *)
(* has a mutex and the alternating flag; the cursors are state of the      *)
(* controller.                                                             *)
(*                                                                         *)
(* MultichainTrackingHelper: the map follows the clients of                *)
(* NetworkController; each entry has a helper for incoming transactions    *)
(* and a nonce tracker.  The nonce of a transaction is taken under a lock  *)
(* per chain and account, which is acquired before the trackers of the     *)
(* client are looked up.  The clients are clients of one chain; the nonces *)
(* are those of one account.                                               *)
(***************************************************************************)
EXTENDS PendingTransactionTracker, Integers, FiniteSets, Sequences

CONSTANTS
  Helpers,      \* the helper objects
  Accounts,     \* accounts of the user
  MaxHeight,    \* how many blocks bring something for the user
  MaxSelections \* how often the user selects another account

ASSUME IncomingAssumption ==
  /\ Helpers # {} /\ Accounts # {}
  /\ MaxHeight \in Nat /\ MaxSelections \in Nat

VARIABLES
  remote,         \* [account, variation] -> the blocks with such a transaction
  incoming,       \* the transactions in state.transactions that came from helpers
  lastFetched,    \* state.lastFetchedBlockNumbers, 0 for an absent key
  selected,       \* the selected account
  helper,         \* each helper's call of `update'
  updatesWaiting, \* each helper's calls that wait for its mutex
  polling,        \* the helpers that listen to blocks
  tokenRequest,   \* #isTokenRequestPending
  sourceLock,     \* who fetches, and behind it who waits
  selections,     \* how often another account was selected
  crossed         \* history: an answer was filed under something it was not asked for

explorerVars == <<tokenRequest, sourceLock>>
incomingVars == <<remote, incoming, lastFetched, selected, helper, updatesWaiting, polling,
                  explorerVars, selections, crossed>>

Variations == {"normal", "token"}
Height == 0..MaxHeight
IdleHelper == [step |-> "idle"]

IncomingTypeOK ==
  /\ remote \in [Accounts \X Variations -> SUBSET Height]
  /\ incoming \in SUBSET (Accounts \X Variations \X Height)
  /\ lastFetched \in [Accounts \X Variations -> Height]
  /\ selected \in Accounts
  /\ helper \in [Helpers -> {IdleHelper} \cup
       [step : {"waiting", "fetching"}, account : Accounts, from : 1..(MaxHeight + 1),
        key : Variations, asked : Variations]]
  /\ updatesWaiting \in [Helpers -> 0..1]
  /\ polling \in SUBSET Helpers
  /\ tokenRequest \in BOOLEAN
  /\ sourceLock \in Seq(Helpers)
  /\ selections \in 0..MaxSelections
  /\ crossed \in BOOLEAN

IncomingInit ==
  /\ remote = [av \in Accounts \X Variations |-> {}]
  /\ incoming = {}
  /\ lastFetched = [av \in Accounts \X Variations |-> 0]
  /\ selected = CHOOSE a \in Accounts : TRUE
  /\ helper = [h \in Helpers |-> IdleHelper]
  /\ updatesWaiting = [h \in Helpers |-> 0]
  /\ polling = {}
  /\ tokenRequest = FALSE
  /\ sourceLock = <<>>
  /\ selections = 0
  /\ crossed = FALSE

-----------------------------------------------------------------------------

height == Cardinality(UNION {remote[av] : av \in Accounts \X Variations})

\* getLastBlockVariations
variation == IF tokenRequest THEN "token" ELSE "normal"

\* A block with something for the user.
incomingMined(a, v) ==
  /\ height < MaxHeight
  /\ remote' = [remote EXCEPT ![<<a, v>>] = @ \cup {height + 1}]
  /\ UNCHANGED <<incoming, lastFetched, selected, helper, updatesWaiting, polling, explorerVars,
                 selections, crossed>>

accountSelected(a) ==
  /\ a # selected /\ selections < MaxSelections
  /\ selected' = a
  /\ selections' = selections + 1
  /\ crossed' = (crossed \/ \E h \in Helpers : helper[h] # IdleHelper)
  /\ UNCHANGED <<remote, incoming, lastFetched, helper, updatesWaiting, polling, explorerVars>>

\* `start' and `stop' of a helper.
pollingChanges(h) ==
  /\ polling' = IF h \in polling THEN polling \ {h} ELSE polling \cup {h}
  /\ UNCHANGED <<remote, incoming, lastFetched, selected, helper, updatesWaiting, explorerVars,
                 selections, crossed>>

\* `update' gets the mutex of h: what to fetch is decided here, and the call waits for
\* the explorer's client.
fetchFor(h) ==
  /\ helper' = [helper EXCEPT ![h] =
       [step |-> "waiting", account |-> selected, key |-> variation, asked |-> variation,
        from |-> lastFetched[<<selected, variation>>] + 1]]
  /\ sourceLock' = Append(sourceLock, h)

\* A block for a helper that polls, or updateIncomingTransactions.
update(h) ==
  /\ \/ /\ helper[h] = IdleHelper
        /\ fetchFor(h)
        /\ UNCHANGED updatesWaiting
     \/ /\ helper[h] # IdleHelper /\ updatesWaiting[h] = 0
        /\ updatesWaiting' = [updatesWaiting EXCEPT ![h] = 1]
        /\ UNCHANGED <<helper, sourceLock>>
  /\ UNCHANGED <<remote, incoming, lastFetched, selected, polling, tokenRequest, selections,
                 crossed>>

mutexGranted(h) ==
  /\ helper[h] = IdleHelper /\ updatesWaiting[h] = 1
  /\ fetchFor(h)
  /\ updatesWaiting' = [updatesWaiting EXCEPT ![h] = 0]
  /\ UNCHANGED <<remote, incoming, lastFetched, selected, polling, tokenRequest, selections,
                 crossed>>

\* fetchTransactions has the client's mutex: it asks for what is due now.
fetchStarts(h) ==
  /\ sourceLock # <<>> /\ h = Head(sourceLock)
  /\ helper[h].step = "waiting"
  /\ helper' = [helper EXCEPT ![h].step = "fetching", ![h].asked = variation]
  /\ crossed' = (crossed \/ helper[h].key # variation)
  /\ UNCHANGED <<remote, incoming, lastFetched, selected, updatesWaiting, polling, explorerVars,
                 selections>>

\* #getFromBlock of a helper that fetched up to block `from' - 1.
answerFor(h) ==
  {b \in remote[<<helper[h].account, helper[h].asked>>] : b >= helper[h].from}

newest(blocks) == CHOOSE b \in blocks : \A c \in blocks : c <= b

\* Fault: the variation is read after the fetch, which has changed it.
cursorOfNextMoved(h, blocks) ==
  LET key == <<selected, IF helper[h].key = "token" THEN "normal" ELSE "token">> IN
  IF blocks = {} THEN lastFetched
  ELSE [lastFetched EXCEPT ![key] = newest(blocks)]

\* The key of the cursor is read after the fetch: the account may be another one.
cursorMoved(h, blocks) ==
  LET key == <<selected, helper[h].key>> IN
  IF blocks = {} \/ lastFetched[key] >= newest(blocks) THEN lastFetched
  ELSE [lastFetched EXCEPT ![key] = newest(blocks)]

\* What is in the list already is not new.
newTransactions(h, blocks) ==
  {<<helper[h].account, helper[h].asked, b>> : b \in blocks} \ incoming

onIncomingTransactions(added) == incoming' = incoming \cup added

\* The explorer answers; h is still in the tracking map if it is heard.
fetched(h, heard) ==
  /\ helper[h].step = "fetching"
  /\ \E blocks \in {{}, answerFor(h)} : \* an error it reports is an empty answer
       IF heard
       THEN /\ onIncomingTransactions(newTransactions(h, blocks))
            /\ lastFetched' = cursorMoved(h, blocks)
       ELSE UNCHANGED <<incoming, lastFetched>>
  /\ tokenRequest' = ~tokenRequest
  /\ sourceLock' = Tail(sourceLock)
  /\ helper' = [helper EXCEPT ![h] = IdleHelper]
  /\ UNCHANGED <<remote, selected, updatesWaiting, polling, selections, crossed>>

fetchFails(h) ==
  /\ helper[h].step = "fetching"
  /\ sourceLock' = Tail(sourceLock)
  /\ helper' = [helper EXCEPT ![h] = IdleHelper]
  /\ UNCHANGED <<remote, incoming, lastFetched, selected, updatesWaiting, polling, tokenRequest,
                 selections, crossed>>

-----------------------------------------------------------------------------

(***************************************************************************)
(* The cursor skips nothing: every transaction for the user up to the last *)
(* fetched block has been handed to the wallet.  (As long as no answer was *)
(* filed under another account or variation than it was asked for, which   *)
(* the code does when the account changes during a fetch, or two helpers   *)
(* of a chain wait for its explorer together.)                             *)
(***************************************************************************)
NothingIsSkipped ==
  ~crossed =>
    \A a \in Accounts, v \in Variations :
      \A b \in remote[<<a, v>>] : b <= lastFetched[<<a, v>>] => <<a, v, b>> \in incoming

-----------------------------------------------------------------------------
(* MultichainTrackingHelper. *)

CONSTANTS
  ClientIds,     \* network client ids
  NoHelper,      \* a client that is not in the map
  NonceCalls,    \* calls of getNonceLock
  MaxConfigured  \* how often network clients are added or removed

ASSUME TrackingAssumption ==
  ClientIds # {} /\ NoHelper \notin Helpers /\ MaxConfigured \in Nat

VARIABLES
  registry,     \* getNetworkClientRegistry()
  trackingMap,  \* the helper of each client, and with it the other trackers
  retired,      \* helpers that were in the map
  nonceCall,    \* where each call of getNonceLock stands
  nonceMutex,   \* the holder of the lock, and behind it the calls that wait
  configured    \* how often the registry changed

nonceVars == <<nonceCall, nonceMutex>>
mapVars == <<registry, trackingMap, retired, configured>>
trackingVars == <<incomingVars, mapVars, nonceVars>>

TrackingTypeOK ==
  /\ IncomingTypeOK
  /\ registry \in SUBSET ClientIds
  /\ trackingMap \in [ClientIds -> Helpers \cup {NoHelper}]
  /\ retired \in SUBSET Helpers
  /\ nonceCall \in [NonceCalls ->
       [step : {"idle", "waiting", "asking", "holding", "done", "threw"},
        client : ClientIds]]
  /\ nonceMutex \in Seq(NonceCalls)
  /\ configured \in 0..MaxConfigured

TrackingInit ==
  /\ IncomingInit
  \* The wallet starts with a client, and its trackers.
  /\ LET first == CHOOSE c \in ClientIds : TRUE IN
       /\ registry = {first}
       /\ trackingMap = [c \in ClientIds |->
            IF c = first THEN CHOOSE h \in Helpers : TRUE ELSE NoHelper]
  /\ retired = {}
  /\ nonceCall = [n \in NonceCalls |-> [step |-> "idle", client |-> CHOOSE c \in ClientIds : TRUE]]
  /\ nonceMutex = <<>>
  /\ configured = 0

-----------------------------------------------------------------------------

tracked == {trackingMap[c] : c \in ClientIds} \ {NoHelper}

withoutStopped(hs) == polling \ hs

\* #refreshTrackingMap: a client is added with new trackers; those of a client that is
\* gone are stopped, and nobody listens to them any more.
clientAdded(c) ==
  /\ c \notin registry /\ configured < MaxConfigured
  /\ registry' = registry \cup {c}
  /\ \E h \in Helpers \ (tracked \cup retired) : trackingMap' = [trackingMap EXCEPT ![c] = h]
  /\ configured' = configured + 1
  /\ UNCHANGED <<incomingVars, retired, nonceVars>>

clientRemoved(c) ==
  /\ c \in registry /\ configured < MaxConfigured
  /\ registry' = registry \ {c}
  /\ trackingMap' = [trackingMap EXCEPT ![c] = NoHelper]
  /\ retired' = retired \cup {trackingMap[c]}
  /\ polling' = withoutStopped({trackingMap[c]})
  /\ configured' = configured + 1
  /\ UNCHANGED <<remote, incoming, lastFetched, selected, helper, updatesWaiting, explorerVars,
                 selections, crossed, nonceVars>>

-----------------------------------------------------------------------------

\* getNonceLock: throws for an unknown client, or waits for the lock.
getNonceLock(n, c) ==
  /\ nonceCall[n].step = "idle" /\ c \in registry
  /\ nonceCall' = [nonceCall EXCEPT ![n] = [step |-> "waiting", client |-> c]]
  /\ nonceMutex' = Append(nonceMutex, n)
  /\ UNCHANGED <<incomingVars, mapVars>>

\* The lock is acquired.  Without trackers the call throws, and keeps it.
nonceMutexGranted(n) ==
  /\ nonceMutex # <<>> /\ n = Head(nonceMutex)
  /\ nonceCall[n].step = "waiting"
  /\ nonceCall' = [nonceCall EXCEPT ![n].step =
       IF trackingMap[nonceCall[n].client] = NoHelper THEN "threw" ELSE "asking"]
  /\ UNCHANGED <<incomingVars, mapVars, nonceMutex>>

nonceCallEnds(n) ==
  /\ nonceCall' = [nonceCall EXCEPT ![n].step = "done"]
  /\ nonceMutex' = Tail(nonceMutex)
  /\ UNCHANGED <<incomingVars, mapVars>>

\* The nonce tracker of the client fails.
nonceTrackerFails(n) == nonceCall[n].step = "asking" /\ nonceCallEnds(n)

nonceTrackerAnswers(n) ==
  /\ nonceCall[n].step = "asking"
  /\ nonceCall' = [nonceCall EXCEPT ![n].step = "holding"]
  /\ UNCHANGED <<incomingVars, mapVars, nonceMutex>>

\* The caller is done with the nonce.
releaseLock(n) == nonceCall[n].step = "holding" /\ nonceCallEnds(n)

-----------------------------------------------------------------------------

clientsChange == \E c \in ClientIds : clientAdded(c) \/ clientRemoved(c)

\* A call of update is asked for by a block or by the user: whether the helper polls
\* changes nothing for it.
IncomingNext ==
  \/ clientsChange
  \/ /\ \/ \E a \in Accounts : accountSelected(a) \/ (\E v \in Variations : incomingMined(a, v))
        \/ \E h \in tracked : update(h)
        \/ \E h \in Helpers : mutexGranted(h) \/ fetchStarts(h) \/ fetchFails(h)
                              \/ fetched(h, h \in tracked)
     /\ UNCHANGED <<mapVars, nonceVars>>

NoncesNext ==
  \/ clientsChange
  \/ \E h \in tracked : pollingChanges(h) /\ UNCHANGED <<mapVars, nonceVars>>
  \/ \E n \in NonceCalls :
       \/ \E c \in ClientIds : getNonceLock(n, c)
       \/ nonceMutexGranted(n) \/ nonceTrackerFails(n) \/ nonceTrackerAnswers(n) \/ releaseLock(n)

-----------------------------------------------------------------------------

(***************************************************************************)
(* The trackers follow the network clients: there is one set for each      *)
(* client, and nothing that was removed from the map listens to blocks.    *)
(***************************************************************************)
TrackersFollowClients ==
  /\ \A c \in ClientIds : c \in registry <=> trackingMap[c] # NoHelper
  /\ polling \subseteq tracked

(***************************************************************************)
(* The lock of a chain and an account belongs to a call that still runs    *)
(* ("Ensure `releaseLock` is called once processing of the `nonce` value   *)
(* is complete"), or to one whose network client was removed while it      *)
(* waited: that one throws with the lock.                                  *)
(***************************************************************************)
NonceLockIsHeldByCall ==
  nonceMutex # <<>> =>
    LET holder == nonceCall[Head(nonceMutex)]
    IN \/ holder.step \in {"waiting", "asking", "holding"}
       \/ holder.step = "threw" /\ retired # {}

-----------------------------------------------------------------------------

(***************************************************************************)
(* TransactionController runs these helpers beside the tracker of          *)
(* submitted transactions (PendingTransactionTracker).  They share only    *)
(* the list of transactions, to which the helpers add confirmed ones that  *)
(* the tracker ignores, so a behaviour of the specification is one of      *)
(* either part, and `part' says which.                                     *)
(***************************************************************************)
VARIABLE part

allVars == <<part, trackerVars, trackingVars>>

TypeOK == TrackerTypeOK /\ TrackingTypeOK

Init ==
  /\ part \in {"pending", "incoming", "nonces"}
  /\ TrackerInit
  /\ TrackingInit

pending(A) == part = "pending" /\ A /\ UNCHANGED <<part, trackingVars>>

Next ==
  \/ pending(TrackerNext)
  \/ part = "incoming" /\ IncomingNext /\ UNCHANGED <<part, trackerVars>>
  \/ part = "nonces" /\ NoncesNext /\ UNCHANGED <<part, trackerVars>>

\* Blocks keep coming, requests end, and continuations run.  Nothing is assumed of
\* what is mined, and of the user.
Fairness ==
  /\ WF_allVars(pending(newBlock))
  /\ WF_allVars(pending(checkAnswered))
  /\ WF_allVars(pending(\E c \in Calls : checksStart(c)))
  /\ \A p \in Polls : WF_allVars(pending(resubmitted(p)))

Spec == Init /\ [][Next]_allVars /\ Fairness

(***************************************************************************)
(* The helpers of the network clients keep up: every variable has its      *)
(* type, no incoming transaction is skipped, the helpers and nonce         *)
(* trackers there are belong to the network clients there are, and a nonce *)
(* lock that is held is held by a call that will release it, or by one     *)
(* that lost its client.                                                   *)
(***************************************************************************)
HelpersKeepUp ==
  TypeOK /\ NothingIsSkipped /\ TrackersFollowClients /\ NonceLockIsHeldByCall
=============================================================================
