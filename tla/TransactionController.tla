------------------------ MODULE TransactionController ------------------------
(***************************************************************************)
(* From addTransaction to a submitted transaction (packages/transaction-   *)
(* controller): the request of a dapp, the confirmation by the user, and   *)
(* approveTransaction, which signs and publishes under a mutex and a nonce *)
(* lock.  JavaScript runs one callback at a time: each action is the code  *)
(* between two awaits.  Signer, network and user answer when they like;    *)
(* the wallet may be closed at any moment, and only state.transactions     *)
(* outlives it.  What becomes of submitted transactions is the subject of  *)
(* PendingTransactionTracker; here they are confirmed at some point.       *)
(***************************************************************************)
EXTENDS TransactionStore, ApprovalController, Sequences

CONSTANTS
  Requests,          \* calls of addTransaction; one that adds a transaction gives it its id
  ActionOf,          \* [Requests -> Actions]
  NoAction,          \* a call without an actionId
  OriginOf,          \* [Requests -> Origins]
  SkipsApproval,     \* calls with requireApproval === false
  MaxRestarts,       \* how often the wallet is closed
  MaxNetworkChanges, \* how often NetworkController changes its state
  MaxWipes           \* how often transactions are cleared

ASSUME TransactionsAssumption ==
  /\ IsFiniteSet(Requests) /\ TxIds = Requests /\ ApprovalIds = Requests
  /\ OriginOf \in [Requests -> Origins]
  /\ DOMAIN ActionOf = Requests
  /\ SkipsApproval \subseteq Requests
  /\ "transaction" \in Types
  /\ NoTx \notin [status : Statuses, nonce : Nat \cup {NoNonce}, time : Nat]
  /\ MaxRestarts \in Nat /\ MaxNetworkChanges \in Nat /\ MaxWipes \in Nat

VARIABLES
  transactions,           \* state.transactions
  request,                \* where each call of addTransaction and processApproval stands
  txOf,                   \* the transaction each call is about
  finished,               \* what finishedPromise of each call has resolved to
  mutex,                  \* the holder of this.mutex, and behind it those who wait
  approval,               \* where the holder of the mutex stands, and its nonce
  approvingTransactionIds,
  nonceLock,              \* the holder of the nonce lock, and behind it those who wait
  published,              \* history: how often the network was given each transaction
  accepted,               \* history: the transactions the user confirmed
  networkCount,           \* the nonce the network expects next
  clock,                  \* Date.now()
  restarts, networkChanges, wipes

requestVars == <<request, txOf, finished>>
lockVars == <<mutex, approval, approvingTransactionIds, nonceLock>>
worldVars == <<networkCount, clock, restarts, networkChanges, wipes>>
vars == <<transactions, approvalVars, requestVars, lockVars, published, accepted, worldVars>>

Steps == {"idle", "adding", "awaiting", "approving", "finishing",
          "fulfilled", "rejected", "lost"}
TransactionMeta == [status : Statuses, nonce : Nat \cup {NoNonce}, time : Nat]

\* Who calls approveTransaction: processApproval, or submitApprovedTransactions.
Call == [tx : Requests, by : {"request", "boot"}]
Idle == [step |-> "start", nonce |-> NoNonce]

TypeOK ==
  /\ ApprovalsTypeOK
  /\ transactions \in [Requests -> TransactionMeta \cup {NoTx}]
  /\ request \in [Requests -> Steps]
  /\ txOf \in [Requests -> Requests]
  /\ finished \in [Requests -> Statuses \cup {"rejected", "none", "waiting"}]
  /\ mutex \in Seq(Call)
  /\ approval \in [step : {"start", "nonce", "signing", "publishing", "published", "leaked"},
                   nonce : Nat \cup {NoNonce}]
  /\ approvingTransactionIds \in SUBSET Requests
  /\ nonceLock \in Seq({"approval", "other"})
  /\ published \in [Requests -> Nat]
  /\ accepted \in SUBSET Requests
  /\ {networkCount, clock, restarts, networkChanges, wipes} \subseteq Nat

Init ==
  /\ ApprovalsInit
  /\ transactions = [t \in Requests |-> NoTx]
  /\ request = [r \in Requests |-> "idle"]
  /\ txOf = [r \in Requests |-> r]
  /\ finished = [r \in Requests |-> "none"]
  /\ mutex = <<>>
  /\ approval = Idle
  /\ approvingTransactionIds = {}
  /\ nonceLock = <<>>
  /\ published = [t \in Requests |-> 0]
  /\ accepted = {}
  /\ networkCount = 0 /\ clock = 0
  /\ restarts = 0 /\ networkChanges = 0 /\ wipes = 0

-----------------------------------------------------------------------------

\* `${id}:finished' resolves the promises of all calls that wait for id.
emitFinished(waiting, ts, status) ==
  [r \in Requests |-> IF waiting[r] = "waiting" /\ txOf[r] \in ts THEN status ELSE waiting[r]]

isTransactionCompleted(T, t) == T[t] # NoTx /\ isLocalFinalState(T[t].status)

\* The calls with the action of r whose transactions are in the list.
withActionId(r) ==
  {t \in present(transactions) : ActionOf[r] # NoAction /\ ActionOf[t] = ActionOf[r]}

\* getTransactionWithActionId finds the oldest one; the list is not locked, and
\* the gas of the transaction is still to be estimated.
addRequested(r) ==
  /\ request[r] = "idle"
  /\ request' = [request EXCEPT ![r] = "adding"]
  /\ \/ /\ withActionId(r) = {}
        /\ UNCHANGED txOf
     \/ \E t \in withActionId(r) :
          /\ \A u \in withActionId(r) : transactions[t].time <= transactions[u].time
          /\ txOf' = [txOf EXCEPT ![r] = t]
  /\ UNCHANGED <<transactions, approvalVars, finished, lockVars, published, accepted, worldVars>>

\* Some validation or estimate throws.
addFails(r) ==
  /\ request[r] = "adding"
  /\ request' = [request EXCEPT ![r] = "rejected"]
  /\ UNCHANGED <<transactions, approvalVars, txOf, finished, lockVars, published, accepted,
                 worldVars>>

newTransaction(status) == [status |-> status, nonce |-> NoNonce, time |-> clock]

\* addMetadata; a new transaction is not over, so it is never trimmed itself.
addMetadata(r, status) ==
  LET T == [transactions EXCEPT ![r] = newTransaction("unapproved")] IN
  \E kept \in SUBSET Requests :
    /\ IsTrimmedTo(T, kept)
    /\ transactions' =
         withStatus([t \in Requests |-> IF t \in kept THEN T[t] ELSE NoTx], r, status)
    /\ clock' = clock + 1

\* The rest of addTransaction, and processApproval up to its first await: the
\* user is asked, or there is nothing to ask, or addRequest throws and the
\* transaction fails.
addTransaction(r) ==
  LET asks == r \notin SkipsApproval
      approvalRequest == [origin |-> OriginOf[r], type |-> "transaction"]
      throws == asks /\ ~mayAdd(r, OriginOf[r], "transaction")
  IN /\ request[r] = "adding"
     /\ txOf[r] = r
     /\ addMetadata(r, IF throws THEN "failed" ELSE "unapproved")
     /\ finished' = [finished EXCEPT ![r] = IF throws THEN "failed" ELSE "waiting"]
     /\ \/ /\ asks /\ ~throws
           /\ add(r, approvalRequest)
           /\ request' = [request EXCEPT ![r] = "awaiting"]
           /\ UNCHANGED mutex
        \/ /\ ~asks
           /\ mutex' = Append(mutex, [tx |-> r, by |-> "request"])
           /\ request' = [request EXCEPT ![r] = "approving"]
           /\ UNCHANGED approvalVars
        \/ /\ throws
           /\ request' = [request EXCEPT ![r] = "finishing"]
           /\ UNCHANGED <<approvalVars, mutex>>
     /\ UNCHANGED <<txOf, approval, approvingTransactionIds, nonceLock, published, accepted,
                    networkCount, restarts, networkChanges, wipes>>

\* The same for a call that found a transaction with its actionId before: it
\* only waits for that transaction to be finished.
joinTransaction(r) ==
  LET t == txOf[r] IN
  /\ request[r] = "adding"
  /\ t # r
  /\ request' = [request EXCEPT ![r] = "finishing"]
  /\ finished' = [finished EXCEPT ![r] =
                    IF isTransactionCompleted(transactions, t)
                    THEN transactions[t].status ELSE "waiting"]
  /\ UNCHANGED <<transactions, approvalVars, txOf, lockVars, published, accepted, worldVars>>

-----------------------------------------------------------------------------

\* The user confirms.  What the interface changed comes along, and replaces what
\* the list has of it; its status and nonce are those in the list.
userAccepts(r) ==
  /\ request[r] = "awaiting"
  /\ delete(r)
  /\ accepted' = accepted \cup {r}
  /\ mutex' = Append(mutex, [tx |-> r, by |-> "request"])
  /\ request' = [request EXCEPT ![r] = "approving"]
  /\ UNCHANGED <<transactions, txOf, finished, approval, approvingTransactionIds, nonceLock,
                 published, worldVars>>

\* Fault: cancelTransaction returns before it rejects the call.
cancelTransactionListed(rs) ==
  LET cancelled == rs \cap present(transactions)
      T == without(transactions, cancelled)
  IN /\ \E kept \in SUBSET Requests :
          /\ IsTrimmedTo(T, kept)
          /\ transactions' = without(T, Requests \ kept)
     /\ finished' = emitFinished(finished, cancelled, "rejected")
     /\ request' = [r \in Requests |-> IF r \in cancelled THEN "rejected" ELSE request[r]]
     /\ UNCHANGED <<txOf, lockVars, published, accepted, worldVars>>

\* cancelTransaction for each of rs: without the transaction nobody is told.
cancelTransaction(rs) ==
  LET cancelled == rs \cap present(transactions)
      T == without(transactions, cancelled)
  IN /\ \E kept \in SUBSET Requests :
          /\ IsTrimmedTo(T, kept)
          /\ transactions' = without(T, Requests \ kept)
     /\ finished' = emitFinished(finished, cancelled, "rejected")
     /\ request' = [r \in Requests |-> IF r \in rs THEN "rejected" ELSE request[r]]
     /\ UNCHANGED <<txOf, lockVars, published, accepted, worldVars>>

userRejects(r) ==
  /\ request[r] = "awaiting"
  /\ delete(r)
  /\ cancelTransaction({r})

\* ApprovalController.clear: everything that is pending is rejected.
approvalsCleared ==
  /\ approvals # {}
  /\ clear
  /\ cancelTransaction(approvals)

-----------------------------------------------------------------------------

holder == Head(mutex).tx

\* The finally block of approveTransaction, and processApproval after it.
leaveApproval ==
  /\ mutex' = Tail(mutex)
  /\ approval' = Idle
  /\ approvingTransactionIds' = approvingTransactionIds \ {holder}
  /\ nonceLock' = IF nonceLock # <<>> /\ Head(nonceLock) = "approval"
                  THEN Tail(nonceLock) ELSE nonceLock
  /\ request' = IF Head(mutex).by = "request"
                THEN [request EXCEPT ![holder] = "finishing"] ELSE request

\* Fault: nobody is told.
failTransactionSilently ==
  /\ transactions' = updateTransaction(transactions, holder,
                       [status |-> "failed", nonce |-> approval.nonce,
                        time |-> transactions[holder].time])
  /\ UNCHANGED finished

\* failTransaction writes what approveTransaction knows of the transaction.
failTransaction ==
  /\ transactions' = updateTransaction(transactions, holder,
                       [status |-> "failed", nonce |-> approval.nonce,
                        time |-> transactions[holder].time])
  /\ finished' = emitFinished(finished, {holder}, "failed")

\* What no step of approveTransaction touches.
approvalRest == <<approvalVars, txOf, accepted, networkCount, clock, restarts,
                  networkChanges, wipes>>

(***************************************************************************)
(* The next call has the mutex and looks for its transaction.  This is     *)
(* before the try block: an error does not release the mutex, and reaches  *)
(* processApproval, which fails the transaction it was given, or nobody.   *)
(***************************************************************************)
transactionNotFound ==
  /\ mutex # <<>> /\ approval.step = "start"
  /\ transactions[holder] = NoTx
  /\ approval' = [approval EXCEPT !.step = "leaked"]
  /\ \/ /\ Head(mutex).by = "request"
        /\ request' = [request EXCEPT ![holder] = "finishing"]
        /\ finished' = emitFinished(finished, {holder}, "failed")
     \/ /\ Head(mutex).by = "boot"
        /\ UNCHANGED <<request, finished>>
  /\ UNCHANGED <<transactions, mutex, approvingTransactionIds, nonceLock, published,
                 approvalRest>>

approvedWith(nonce) ==
  /\ transactions' = [transactions EXCEPT ![holder].status = "approved",
                                          ![holder].nonce = nonce]
  /\ approval' = [step |-> "signing", nonce |-> nonce]

\* A transaction that has a nonce keeps it and needs no lock; another one waits
\* for the nonce lock.
approvalStarts ==
  /\ mutex # <<>> /\ approval.step = "start"
  /\ transactions[holder] # NoTx
  /\ \/ /\ holder \in approvingTransactionIds
        /\ leaveApproval
        /\ UNCHANGED transactions
     \/ /\ holder \notin approvingTransactionIds
        /\ approvingTransactionIds' = approvingTransactionIds \cup {holder}
        /\ \/ /\ transactions[holder].nonce # NoNonce
              /\ approvedWith(transactions[holder].nonce)
              /\ UNCHANGED nonceLock
           \/ /\ transactions[holder].nonce = NoNonce
              /\ approval' = [approval EXCEPT !.step = "nonce"]
              /\ nonceLock' = Append(nonceLock, "approval")
              /\ UNCHANGED transactions
        /\ UNCHANGED <<mutex, request>>
  /\ UNCHANGED <<finished, published, approvalRest>>

\* Fault: transactions that are on their way do not count.
suggestsConfirmedNonce(nonce) ==
  IsNextNonce(without(transactions, {t \in present(transactions) :
                                       transactions[t].status = "submitted"}),
              networkCount, nonce)

suggestsNonce(nonce) == IsNextNonce(transactions, networkCount, nonce)

\* The nonce lock is granted.  If the transaction is gone by now, approving it
\* throws, as does a network that does not answer.
nonceLockGranted ==
  /\ mutex # <<>> /\ approval.step = "nonce" /\ Head(nonceLock) = "approval"
  /\ transactions[holder] # NoTx
  /\ \E nonce \in 0..networkCount + Cardinality(Requests) :
       suggestsNonce(nonce) /\ approvedWith(nonce)
  /\ UNCHANGED <<finished, mutex, approvingTransactionIds, nonceLock, request, published,
                 approvalRest>>

approvalFails ==
  /\ mutex # <<>>
  /\ \/ approval.step = "nonce" /\ Head(nonceLock) = "approval"
     \/ approval.step \in {"signing", "publishing", "published"}
  /\ failTransaction
  /\ leaveApproval
  /\ UNCHANGED <<published, approvalRest>>

\* signTransaction; abortTransactionSigning makes approvalFails happen instead.
signed ==
  /\ mutex # <<>> /\ approval.step = "signing"
  /\ approval' = [approval EXCEPT !.step = "publishing"]
  /\ transactions' = withStatus(transactions, holder, "signed")
  /\ UNCHANGED <<finished, mutex, approvingTransactionIds, nonceLock, request, published,
                 approvalRest>>

\* The network takes the transaction; its answer is still under way.
networkTakes ==
  /\ mutex # <<>> /\ approval.step = "publishing"
  /\ approval' = [approval EXCEPT !.step = "published"]
  /\ published' = [published EXCEPT ![holder] = @ + 1]
  /\ UNCHANGED <<transactions, finished, mutex, approvingTransactionIds, nonceLock, request,
                 approvalRest>>

submitted ==
  /\ mutex # <<>> /\ approval.step = "published"
  /\ transactions[holder] # NoTx
  /\ transactions' = [transactions EXCEPT ![holder].status = "submitted"]
  /\ finished' = emitFinished(finished, {holder}, "submitted")
  /\ leaveApproval
  /\ UNCHANGED <<published, approvalRest>>

\* What processApproval returns or throws.
settle(r) ==
  /\ request[r] = "finishing"
  /\ finished[r] # "waiting"
  /\ request' = [request EXCEPT ![r] =
                   IF finished[r] = "submitted" THEN "fulfilled" ELSE "rejected"]
  /\ UNCHANGED <<transactions, approvalVars, txOf, finished, lockVars, published, accepted,
                 worldVars>>

-----------------------------------------------------------------------------

\* approveTransactionsWithSameNonce and the users of getNonceLock.
otherTakesNonceLock ==
  /\ \A i \in DOMAIN nonceLock : nonceLock[i] # "other"
  /\ nonceLock' = Append(nonceLock, "other")
  /\ UNCHANGED <<transactions, approvalVars, requestVars, mutex, approval,
                 approvingTransactionIds, published, accepted, worldVars>>

otherReleasesNonceLock ==
  /\ nonceLock # <<>> /\ Head(nonceLock) = "other"
  /\ nonceLock' = Tail(nonceLock)
  /\ UNCHANGED <<transactions, approvalVars, requestVars, mutex, approval,
                 approvingTransactionIds, published, accepted, worldVars>>

\* The tracker finds that a submitted transaction is confirmed.
confirmed(t) ==
  /\ transactions[t] # NoTx
  /\ transactions[t].status = "submitted"
  /\ transactions' = markNonceDuplicatesDropped(withStatus(transactions, t, "confirmed"), t)
  /\ networkCount' = IF transactions[t].nonce < networkCount THEN networkCount
                     ELSE transactions[t].nonce + 1
  /\ UNCHANGED <<approvalVars, requestVars, lockVars, published, accepted, clock, restarts,
                 networkChanges, wipes>>

\* wipeTransactions takes all of them, clearUnapprovedTransactions some; the
\* approvals of those that go stay pending, and nobody is told.
transactionsWiped ==
  /\ wipes < MaxWipes
  /\ \/ transactions' = without(transactions, Requests)
     \/ transactions' = without(transactions, {t \in present(transactions) :
                                                 transactions[t].status = "unapproved"})
  /\ transactions' # transactions
  /\ wipes' = wipes + 1
  /\ UNCHANGED <<approvalVars, requestVars, lockVars, published, accepted, networkCount,
                 clock, restarts, networkChanges>>

\* Fault: what has been signed is submitted again, too.
approvedOrSigned(t) == transactions[t].status \in {"approved", "signed"}

\* Fault: what has not been confirmed is submitted, too.
approvedOrUnapproved(t) == transactions[t].status \in {"approved", "unapproved"}

isApproved(t) == transactions[t].status = "approved"

\* submitApprovedTransactions calls approveTransaction for each, in the order
\* of the list, behind the calls of `waiting'.
submitApprovedTransactions(waiting) ==
  LET ts == {t \in present(transactions) : isApproved(t)}
      rank(t) == Cardinality({u \in ts : transactions[u].time <= transactions[t].time})
  IN mutex' = waiting \o [i \in 1..Cardinality(ts) |->
                            [tx |-> CHOOSE t \in ts : rank(t) = i, by |-> "boot"]]

\* NetworkController announces a change of its state, any change.
networkChanged ==
  /\ networkChanges < MaxNetworkChanges
  /\ \E t \in present(transactions) : isApproved(t)
  /\ networkChanges' = networkChanges + 1
  /\ submitApprovedTransactions(mutex)
  /\ UNCHANGED <<transactions, approvalVars, requestVars, approval, approvingTransactionIds,
                 nonceLock, published, accepted, networkCount, clock, restarts, wipes>>

\* The wallet is closed and opened: the constructor submits what is approved, and
\* initApprovals asks the user again about what is not, or fails it.
restarted ==
  LET unapproved == {t \in present(transactions) : transactions[t].status = "unapproved"}
      asked == {t \in unapproved :
                  \/ "transaction" \in Unlimited
                  \/ \A u \in unapproved : OriginOf[u] = OriginOf[t] =>
                        transactions[t].time <= transactions[u].time}
  IN /\ restarts < MaxRestarts
     /\ restarts' = restarts + 1
     /\ approval' = Idle
     /\ approvingTransactionIds' = {}
     /\ nonceLock' = <<>>
     /\ submitApprovedTransactions(<<>>)
     /\ restoredWith(asked, [t \in asked |-> [origin |-> OriginOf[t], type |-> "transaction"]])
     /\ transactions' = [t \in Requests |-> IF t \in unapproved \ asked
                                            THEN [transactions[t] EXCEPT !.status = "failed"]
                                            ELSE transactions[t]]
     /\ request' = [r \in Requests |->
                      IF r \in asked THEN "awaiting"
                      ELSE IF request[r] \in {"idle", "fulfilled", "rejected"} THEN request[r]
                      ELSE "lost"]
     /\ finished' = [r \in Requests |-> IF r \in asked THEN "waiting"
                                        ELSE IF finished[r] = "waiting" THEN "none"
                                        ELSE finished[r]]
     /\ UNCHANGED <<txOf, published, accepted, networkCount, clock, networkChanges, wipes>>

Next ==
  \/ \E r \in Requests :
       \/ addRequested(r) \/ addFails(r) \/ addTransaction(r) \/ joinTransaction(r)
       \/ userAccepts(r) \/ userRejects(r) \/ settle(r) \/ confirmed(r)
  \/ approvalsCleared
  \/ transactionNotFound \/ approvalStarts \/ nonceLockGranted \/ approvalFails
  \/ signed \/ networkTakes \/ submitted
  \/ otherTakesNonceLock \/ otherReleasesNonceLock
  \/ transactionsWiped \/ networkChanged \/ restarted

\* Signer, network and the other users of the nonce lock answer in the end.
approvalAdvances ==
  \/ transactionNotFound \/ approvalStarts \/ nonceLockGranted \/ approvalFails
  \/ signed \/ networkTakes \/ submitted

Fairness ==
  /\ WF_vars(approvalAdvances)
  /\ WF_vars(otherReleasesNonceLock)
  /\ \A r \in Requests : WF_vars(settle(r))

Spec == Init /\ [][Next]_vars /\ Fairness

-----------------------------------------------------------------------------

(***************************************************************************)
(* No transaction is signed and published without its user, whatever is    *)
(* cleared, submitted again or asked again after a restart.                *)
(***************************************************************************)
PublishedWasAccepted ==
  \A t \in Requests :
    published[t] > 0 \/ t \in approvingTransactionIds => t \in accepted \cup SkipsApproval

(***************************************************************************)
(* Across restarts each transaction is given to the network at most once:  *)
(* the constructor submits what is approved, and what has been given to    *)
(* the network is signed by then.  (A change of the network's state can    *)
(* make it happen twice.)                                                  *)
(***************************************************************************)
PublishedOnce == networkChanges = 0 => \A t \in Requests : published[t] <= 1

(***************************************************************************)
(* "must set transaction to submitted/failed before releasing lock"        *)
(* (approveTransaction): two transactions on their way never have the same *)
(* nonce, whoever else holds the nonce lock and whatever failed before.    *)
(***************************************************************************)
NoncesDistinct ==
  networkChanges = 0 => \A t, u \in present(transactions) :
    /\ t # u
    /\ transactions[t].status = "submitted"
    /\ transactions[u].status = "submitted"
    => transactions[t].nonce # transactions[u].nonce

\* Types, and what the network is given: each transaction once, each nonce once.
PublicationsAreDistinct == TypeOK /\ PublishedOnce /\ NoncesDistinct

(***************************************************************************)
(* The user is asked exactly what somebody waits for an answer to: no      *)
(* confirmation is left over, and no call waits without one.               *)
(***************************************************************************)
AwaitedIsAsked == \A r \in Requests : request[r] = "awaiting" <=> r \in approvals

Rank(status) ==
  CASE status = "unapproved" -> 0
    [] status = "approved" -> 1
    [] status = "signed" -> 2
    [] status = "submitted" -> 3
    [] OTHER -> 4

(***************************************************************************)
(* Restarts, losses and failures only move a transaction forwards, and it  *)
(* keeps the nonce it once has.                                            *)
(***************************************************************************)
StatusesAdvance ==
  [][networkChanges' = 0 =>
       \A t \in present(transactions) : transactions'[t] # NoTx =>
         /\ Rank(transactions'[t].status) >= Rank(transactions[t].status)
         /\ transactions[t].nonce # NoNonce => transactions'[t].nonce = transactions[t].nonce
    ]_vars

HasSettled(r) == request[r] \in {"fulfilled", "rejected", "lost"}

Decided(r) ==
  /\ request[r] \in {"approving", "finishing"}
  /\ transactions[txOf[r]] # NoTx
  /\ request[txOf[r]] # "awaiting"

\* The wallet was closed between signing and publishing: nobody goes on with t.
IsStranded(t) ==
  /\ transactions[t] # NoTx
  /\ transactions[t].status = "signed"
  /\ \A i \in DOMAIN mutex : mutex[i].tx # t

(***************************************************************************)
(* As long as nobody clears transactions that are being processed and no   *)
(* change of the network has one of them approved twice, every call is     *)
(* answered, the ones that wait for a transaction with their actionId,     *)
(* too: however the signer, the network and the holders of the nonce lock  *)
(* fail, whatever is trimmed, and whenever the wallet is closed, except    *)
(* between signing and publishing.                                         *)
(***************************************************************************)
DecisionsAreAnswered ==
  \A r \in Requests :
    Decided(r) ~> (\/ HasSettled(r) \/ request[r] = "awaiting" \/ IsStranded(txOf[r])
                  \/ wipes > 0 \/ networkChanges > 0)
=============================================================================
