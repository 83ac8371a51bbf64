---------------------- MODULE TransactionControllerProofs ----------------------
(***************************************************************************)
(* What a user confirms is what is published, once and with a nonce of its *)
(* own, for any number of transactions and whatever fails, is cleared or   *)
(* is cut short by a restart.                                              *)
(***************************************************************************)
EXTENDS TransactionController, ApprovalControllerProofs, SequenceTheorems

Allowed == accepted \cup SkipsApproval

IsAt(steps) == approval.step \in steps

\* The holder has a nonce and its transaction is on its way to the network.
OnItsWay == {"signing", "publishing", "published"}

HolderExists == ~IsAt({"start"}) => mutex # <<>>

\* Times are distinct, and in the past.
TimesAreDistinct ==
  \A t \in present(transactions) :
    /\ transactions[t].time < clock
    /\ \A u \in present(transactions) : u # t => transactions[u].time # transactions[t].time

\* A transaction is given a nonce when it is approved, and the holder knows it.
NoncesAreKnown ==
  /\ \A t \in present(transactions) :
       /\ transactions[t].status \in {"approved", "signed", "submitted"} =>
            transactions[t].nonce \in Nat
       /\ transactions[t].status = "unapproved" => transactions[t].nonce = NoNonce
  /\ IsAt(OnItsWay) => /\ approval.nonce \in Nat
                       /\ transactions[holder] # NoTx =>
                            transactions[holder].nonce = approval.nonce
  /\ IsAt({"start"}) => approval.nonce = NoNonce
  /\ IsAt({"nonce"}) => /\ approval.nonce = NoNonce
                        /\ transactions[holder] # NoTx => transactions[holder].nonce = NoNonce

\* A call is with the user, in the queue for the mutex once, or neither.
CallsAreQueuedOnce ==
  /\ \A i \in 1..Len(mutex) :
       /\ request[mutex[i].tx] \notin {"idle", "adding", "awaiting"}
       /\ mutex[i].by = "request" /\ (i > 1 \/ ~IsAt({"leaked"})) =>
            request[mutex[i].tx] = "approving"
  /\ \A i, j \in 1..Len(mutex) :
       i # j /\ mutex[i].by = "request" /\ mutex[j].by = "request" => mutex[i].tx # mutex[j].tx

\* Who has added a transaction does not add it again, and what the user is asked
\* about is not approved yet.
AddedOnce ==
  \A t \in present(transactions) :
    /\ request[t] \notin {"idle", "adding"}
    /\ request[t] = "awaiting" => transactions[t].status = "unapproved"

\* Everything that is on its way to the network was confirmed.
OnlyAllowed ==
  /\ \A i \in 1..Len(mutex) : mutex[i].tx \in Allowed
  /\ \A t \in present(transactions) : transactions[t].status = "approved" => t \in Allowed
  /\ \A t \in Requests : published[t] > 0 \/ t \in approvingTransactionIds => t \in Allowed

ConsentInv ==
  /\ TypeOK /\ ApprovalsAgree
  /\ HolderExists /\ TimesAreDistinct /\ NoncesAreKnown
  /\ AwaitedIsAsked /\ CallsAreQueuedOnce /\ AddedOnce /\ OnlyAllowed

-----------------------------------------------------------------------------
(* As long as no change of the network submits what is approved again.     *)

\* Each transaction is in the queue once.
QueuedOnce ==
  /\ \A i, j \in 1..Len(mutex) : i # j => mutex[i].tx # mutex[j].tx
  /\ approvingTransactionIds = IF IsAt({"start", "leaked"}) THEN {} ELSE {holder}

\* A transaction that waits for the mutex has got no further than being
\* approved, and only the holder's is approved.
ApprovedIsNext ==
  /\ \A t \in present(transactions) : transactions[t].status = "approved" =>
       mutex # <<>> /\ t = holder /\ IsAt({"start", "signing"})
  /\ \A i \in 1..Len(mutex) : transactions[mutex[i].tx] # NoTx =>
       IF i > 1 \/ IsAt({"start", "nonce"})
       THEN transactions[mutex[i].tx].status \in {"unapproved", "approved"}
       ELSE /\ IsAt({"signing"}) => transactions[mutex[i].tx].status = "approved"
            /\ IsAt({"publishing", "published"}) => transactions[mutex[i].tx].status = "signed"

\* What will be submitted next has a nonce that nothing submitted has.
GoesNext(t) ==
  transactions[t].status = "approved" \/ (mutex # <<>> /\ t = holder /\ IsAt(OnItsWay))

NextNonceIsFree ==
  \A t, u \in present(transactions) :
    GoesNext(t) /\ u # t /\ transactions[u].status = "submitted" =>
      transactions[t].nonce # transactions[u].nonce

\* What was published is not in the queue any more, nor can it return to it.
PublishedIsOver ==
  \A t \in Requests : published[t] > 0 =>
    /\ published[t] = 1
    /\ request[t] \notin {"idle", "adding", "awaiting"}
    /\ t \in present(transactions) => transactions[t].status \notin {"unapproved", "approved"}
    /\ \A i \in 1..Len(mutex) : mutex[i].tx = t => i = 1 /\ IsAt({"published", "leaked"})

PublicationInv ==
  networkChanges = 0 =>
    QueuedOnce /\ ApprovedIsNext /\ NextNonceIsFree /\ PublishedIsOver /\ NoncesDistinct

-----------------------------------------------------------------------------
(* The list of transactions, the queue for the mutex, and their types.     *)

Metas == [Requests -> TransactionMeta \cup {NoTx}]

LEMMA MetaIsThere ==
  ASSUME TransactionsAssumption
  PROVE  \A T \in Metas : \A t \in Requests :
           /\ t \in present(T) <=> T[t] # NoTx
           /\ T[t] # NoTx <=> T[t] \in TransactionMeta
BY DEF TransactionsAssumption, Metas, present, TransactionMeta

LEMMA PresentAre ==
  ASSUME TransactionsAssumption
  PROVE  \A T : present(T) = {t \in Requests : T[t] # NoTx}
BY DEF TransactionsAssumption, present

LEMMA ListTypes ==
  ASSUME TransactionsAssumption, NEW T \in Metas, NEW t \in Requests
  PROVE  /\ \A status \in Statuses : withStatus(T, t, status) \in Metas
         /\ \A meta \in TransactionMeta : updateTransaction(T, t, meta) \in Metas
         /\ \A ts : without(T, ts) \in Metas
         /\ markNonceDuplicatesDropped(T, t) \in Metas
BY PresentAre DEF Metas, withStatus, TransactionMeta, updateTransaction, without, TransactionsAssumption,
   markNonceDuplicatesDropped, sameNonceTransactions, Statuses

LEMMA QueueIs ==
  ASSUME TypeOK
  PROVE  /\ Len(mutex) \in Nat
         /\ \A i \in 1..Len(mutex) :
              mutex[i] \in Call /\ mutex[i].tx \in Requests /\ mutex[i].by \in {"request", "boot"}
         /\ mutex # <<>> => /\ 1 \in 1..Len(mutex)
                            /\ Head(mutex) = mutex[1] /\ holder = mutex[1].tx
                            /\ holder \in Requests
                            /\ Tail(mutex) \in Seq(Call)
                            /\ Len(Tail(mutex)) = Len(mutex) - 1
                            /\ \A i \in 1..Len(mutex) - 1 : Tail(mutex)[i] = mutex[i + 1]
<1>1. mutex \in Seq(Call) /\ Len(mutex) \in Nat BY DEF TypeOK
<1>2. \A i \in 1..Len(mutex) : mutex[i] \in Call BY <1>1, ElementOfSeq
<1>3. \A call \in Call : call.tx \in Requests /\ call.by \in {"request", "boot"} BY DEF Call
<1>4. ASSUME mutex # <<>>
      PROVE  /\ 1 \in 1..Len(mutex) /\ Head(mutex) = mutex[1] /\ Tail(mutex) \in Seq(Call)
             /\ Len(Tail(mutex)) = Len(mutex) - 1
             /\ \A i \in 1..Len(mutex) - 1 : Tail(mutex)[i] = mutex[i + 1]
  BY <1>1, <1>4, HeadTailProperties
<1> QED BY <1>1, <1>2, <1>3, <1>4 DEF holder

LEMMA Queueing ==
  ASSUME TypeOK, NEW call \in Call, mutex' = Append(mutex, call)
  PROVE  /\ mutex' \in Seq(Call) /\ mutex' # <<>>
         /\ Len(mutex') = Len(mutex) + 1
         /\ mutex'[Len(mutex) + 1] = call
         /\ \A i \in 1..Len(mutex) : mutex'[i] = mutex[i]
         /\ mutex # <<>> => Head(mutex') = Head(mutex)
BY AppendProperties DEF TypeOK

(***************************************************************************)
(* The approved transactions are queued once each, behind those who wait.  *)
(***************************************************************************)
approvedOnes == {t \in present(transactions) : isApproved(t)}
notAfter(t) == {u \in approvedOnes : transactions[u].time <= transactions[t].time}

LEMMA Ranks ==
  ASSUME TransactionsAssumption, TypeOK, TimesAreDistinct
  PROVE  /\ Cardinality(approvedOnes) \in Nat
         /\ \A i \in 1..Cardinality(approvedOnes) :
              \E t \in approvedOnes : Cardinality(notAfter(t)) = i
<1> DEFINE n == Cardinality(approvedOnes)
           rank == [t \in approvedOnes |-> Cardinality(notAfter(t))]
<1>1. approvedOnes \in SUBSET Requests /\ IsFiniteSet(approvedOnes)
  BY FS_Subset DEF approvedOnes, present, TransactionsAssumption
<1>2. n \in Nat BY <1>1, FS_CardinalityType
<1>3. \A t \in approvedOnes : transactions[t].time \in Nat
  BY <1>1 DEF TypeOK, TransactionMeta, approvedOnes, present
<1>4. \A t \in approvedOnes :
        /\ notAfter(t) \in SUBSET approvedOnes /\ t \in notAfter(t) /\ IsFiniteSet(notAfter(t))
        /\ Cardinality(notAfter(t)) \in 1..n
  <2> TAKE t \in approvedOnes
  <2>1. notAfter(t) \in SUBSET approvedOnes /\ t \in notAfter(t) BY <1>3 DEF notAfter
  <2>2. IsFiniteSet(notAfter(t)) /\ Cardinality(notAfter(t)) <= n BY <1>1, <2>1, FS_Subset
  <2>3. Cardinality(notAfter(t)) \in Nat /\ Cardinality(notAfter(t)) # 0
    BY <2>1, <2>2, FS_CardinalityType, FS_EmptySet
  <2> QED BY <1>2, <2>1, <2>2, <2>3
<1>5. ASSUME NEW t \in approvedOnes, NEW u \in approvedOnes,
             transactions[t].time < transactions[u].time
      PROVE  Cardinality(notAfter(t)) # Cardinality(notAfter(u))
  <2>1. notAfter(t) \in SUBSET notAfter(u) /\ u \notin notAfter(t) /\ u \in notAfter(u)
    BY <1>3, <1>5 DEF notAfter
  <2>2. IsFiniteSet(notAfter(u)) BY <1>4
  <2>3. Cardinality(notAfter(u)) = Cardinality(notAfter(t)) => notAfter(u) = notAfter(t)
    BY <2>1, <2>2, FS_Subset
  <2> QED BY <2>1, <2>3
<1>6. \A t, u \in approvedOnes :
        t # u => transactions[t].time < transactions[u].time \/ transactions[u].time < transactions[t].time
  BY <1>3 DEF TimesAreDistinct, approvedOnes
<1>7. rank \in Injection(approvedOnes, 1..n) BY <1>4, <1>5, <1>6 DEF Injection, IsInjective
<1>8. IsFiniteSet(1..n) /\ Cardinality(1..n) = n BY <1>2, FS_Interval
<1>9. rank \in Surjection(approvedOnes, 1..n)
  <2> HIDE DEF rank
  <2> QED BY <1>7, <1>8, FS_Injection
<1> QED BY <1>2, <1>9 DEF Surjection

LEMMA Resubmitting ==
  ASSUME TransactionsAssumption, TypeOK, TimesAreDistinct,
         NEW waiting \in Seq(Call), submitApprovedTransactions(waiting)
  PROVE  /\ mutex' \in Seq(Call)
         /\ Len(mutex') = Len(waiting) + Cardinality(approvedOnes)
         /\ Cardinality(approvedOnes) \in Nat
         /\ \A i \in 1..Len(waiting) : mutex'[i] = waiting[i]
         /\ \A i \in Len(waiting) + 1..Len(mutex') :
              /\ mutex'[i].by = "boot" /\ mutex'[i].tx \in approvedOnes
              /\ \A j \in Len(waiting) + 1..Len(mutex') : i # j => mutex'[i].tx # mutex'[j].tx
<1> DEFINE n == Cardinality(approvedOnes)
           next(i) == CHOOSE t \in approvedOnes : Cardinality(notAfter(t)) = i
           calls == [i \in 1..n |-> [tx |-> next(i), by |-> "boot"]]
<1>1. n \in Nat BY Ranks
<1>2. mutex' = waiting \o calls BY DEF submitApprovedTransactions, approvedOnes, notAfter
<1>3. \A i \in 1..n : next(i) \in approvedOnes /\ Cardinality(notAfter(next(i))) = i BY Ranks
<1>4. approvedOnes \subseteq Requests BY DEF approvedOnes, present, TransactionsAssumption
<1>5. \A i \in 1..n : calls[i] \in Call BY <1>3, <1>4 DEF Call
<1>6. calls \in Seq(Call) /\ Len(calls) = n BY <1>1, <1>5
<1>7. \A i \in 1..n : calls[i].by = "boot" /\ calls[i].tx = next(i) OBVIOUS
<1>8. \A i, j \in 1..n : i # j => calls[i].tx # calls[j].tx BY <1>3, <1>7
<1> HIDE DEF calls, n, next
<1>9. /\ mutex' \in Seq(Call) /\ Len(mutex') = Len(waiting) + n
      /\ \A i \in 1..Len(waiting) + n :
           mutex'[i] = IF i <= Len(waiting) THEN waiting[i] ELSE calls[i - Len(waiting)]
  BY <1>2, <1>6, ConcatProperties
<1>10. Len(waiting) \in Nat OBVIOUS
<1>11. \A i \in 1..Len(waiting) : mutex'[i] = waiting[i] BY <1>1, <1>9, <1>10
<1>12. \A i \in Len(waiting) + 1..Len(mutex') :
         i - Len(waiting) \in 1..n /\ mutex'[i] = calls[i - Len(waiting)] BY <1>1, <1>9, <1>10
<1>13. \A i \in Len(waiting) + 1..Len(mutex') : mutex'[i].by = "boot" /\ mutex'[i].tx \in approvedOnes
  BY <1>3, <1>7, <1>12
<1>14. \A i, j \in Len(waiting) + 1..Len(mutex') : i # j => mutex'[i].tx # mutex'[j].tx
  <2> TAKE i, j \in Len(waiting) + 1..Len(mutex')
  <2>1. i # j => i - Len(waiting) # j - Len(waiting) BY <1>9, <1>10, <1>1
  <2> QED BY <1>8, <1>12, <2>1
<1> QED BY <1>1, <1>9, <1>11, <1>13, <1>14 DEF n

-----------------------------------------------------------------------------
(* Types, and the copies of the pending confirmations.                     *)

Outcomes == Statuses \cup {"rejected", "none", "waiting"}

LEMMA Emitting ==
  ASSUME TypeOK, NEW ts, NEW status \in Outcomes
  PROVE  emitFinished(finished, ts, status) \in [Requests -> Outcomes]
BY DEF TypeOK, emitFinished, Outcomes

\* What leaving approveTransaction keeps well typed.
LEMMA LeavingTypes ==
  ASSUME TypeOK, mutex # <<>>, leaveApproval
  PROVE  /\ mutex' \in Seq(Call) /\ approval' = Idle
         /\ approvingTransactionIds' \in SUBSET Requests
         /\ nonceLock' \in Seq({"approval", "other"})
         /\ request' \in [Requests -> Steps]
BY QueueIs, HeadTailProperties DEF leaveApproval, TypeOK, Steps

LEMMA FailingTypes ==
  ASSUME TransactionsAssumption, TypeOK, mutex # <<>>, failTransaction
  PROVE  transactions' \in Metas /\ finished' \in [Requests -> Outcomes]
BY QueueIs, Emitting, ListTypes DEF TypeOK, Metas, failTransaction, updateTransaction, Outcomes, Statuses,
   TransactionMeta

\* What a cancellation of requests leaves is part of what was listed.
LEMMA Cancelling ==
  ASSUME TransactionsAssumption, TypeOK, NEW rs \in SUBSET Requests, cancelTransaction(rs)
  PROVE  /\ transactions' \in Metas
         /\ finished' \in [Requests -> Outcomes]
         /\ request' = [r \in Requests |-> IF r \in rs THEN "rejected" ELSE request[r]]
         /\ \A t \in Requests : transactions'[t] \in {transactions[t], NoTx}
         /\ \A t \in rs : transactions'[t] = NoTx
<1> DEFINE cancelled == rs \cap present(transactions)
           T == without(transactions, cancelled)
<1>1. transactions \in Metas BY DEF TypeOK, Metas
<1>2. PICK kept \in SUBSET Requests : transactions' = without(T, Requests \ kept)
  BY DEF cancelTransaction
<1>3. \A t \in Requests : T[t] = IF t \in cancelled THEN NoTx ELSE transactions[t]
  BY DEF without, TransactionsAssumption
<1>4. \A t \in Requests : transactions'[t] = IF t \notin kept THEN NoTx ELSE T[t]
  BY <1>2 DEF without, TransactionsAssumption
<1>5. transactions' = [t \in Requests |-> transactions'[t]]
  BY <1>2 DEF without, TransactionsAssumption
<1>6. \A t \in Requests : transactions'[t] \in {transactions[t], NoTx} BY <1>3, <1>4
<1>7. \A t \in rs : transactions'[t] = NoTx BY <1>3, <1>4, PresentAre
<1>8. transactions' \in Metas BY <1>1, <1>5, <1>6 DEF Metas
<1> QED BY <1>6, <1>7, <1>8, Emitting DEF cancelTransaction, Outcomes

\* A new transaction: what is trimmed for it is gone.
LEMMA AddingMetadata ==
  ASSUME TransactionsAssumption, TypeOK, NEW r \in Requests, NEW status \in Statuses,
         transactions[r] = NoTx, addMetadata(r, status)
  PROVE  /\ transactions' \in Metas
         /\ clock' = clock + 1
         /\ transactions'[r] = [status |-> status, nonce |-> NoNonce, time |-> clock]
         /\ \A t \in Requests \ {r} : transactions'[t] \in {transactions[t], NoTx}
<1> DEFINE T == [transactions EXCEPT ![r] = newTransaction("unapproved")]
<1>1. transactions \in Metas /\ clock \in Nat BY DEF TypeOK, Metas
<1>2. newTransaction("unapproved") \in TransactionMeta
  BY <1>1 DEF newTransaction, TransactionMeta, Statuses
<1>3. T \in Metas BY <1>1, <1>2 DEF Metas
<1>4. PICK kept \in SUBSET Requests :
        /\ IsTrimmedTo(T, kept)
        /\ transactions' =
             withStatus([t \in Requests |-> IF t \in kept THEN T[t] ELSE NoTx], r, status)
  BY DEF addMetadata
<1> DEFINE U == [t \in Requests |-> IF t \in kept THEN T[t] ELSE NoTx]
<1>5. U \in Metas BY <1>3 DEF Metas
<1>6. T[r] = newTransaction("unapproved") /\ T[r] # NoTx BY <1>1, <1>2, MetaIsThere, <1>3 DEF Metas
<1>7. r \in kept
  <2>1. r \in present(T) BY <1>6, PresentAre
  <2>2. ~isFinalState(T[r].status) BY <1>6 DEF isFinalState, newTransaction
  <2> HIDE DEF T
  <2> QED BY <1>4, <2>1, <2>2 DEF IsTrimmedTo
<1>8. U[r] = newTransaction("unapproved") /\ U[r] # NoTx BY <1>6, <1>7
<1>9. \A t \in Requests \ {r} : U[t] \in {transactions[t], NoTx} BY <1>1 DEF Metas
<1>10. transactions' = withStatus(U, r, status) BY <1>4
<1> HIDE DEF U
<1>11. transactions' = [U EXCEPT ![r].status = status] BY <1>8, <1>10 DEF withStatus
<1>12. transactions'[r] = [status |-> status, nonce |-> NoNonce, time |-> clock]
  BY <1>5, <1>8, <1>11 DEF Metas, newTransaction
<1>13. \A t \in Requests \ {r} : transactions'[t] = U[t] BY <1>5, <1>11 DEF Metas
<1>14. transactions' \in Metas BY <1>5, <1>10, ListTypes
<1> QED BY <1>9, <1>12, <1>13, <1>14 DEF addMetadata

LEMMA TypesUnfold ==
  TypeOK <=>
    /\ ApprovalsTypeOK /\ transactions \in Metas /\ request \in [Requests -> Steps]
    /\ txOf \in [Requests -> Requests] /\ finished \in [Requests -> Outcomes]
    /\ mutex \in Seq(Call)
    /\ approval \in [step : {"start", "nonce", "signing", "publishing", "published", "leaked"},
                     nonce : Nat \cup {NoNonce}]
    /\ approvingTransactionIds \in SUBSET Requests
    /\ nonceLock \in Seq({"approval", "other"})
    /\ published \in [Requests -> Nat] /\ accepted \in SUBSET Requests
    /\ networkCount \in Nat /\ clock \in Nat
    /\ restarts \in Nat /\ networkChanges \in Nat /\ wipes \in Nat
BY DEF TypeOK, Metas, Outcomes

LEMMA IdleIsTyped ==
  Idle \in [step : {"start", "nonce", "signing", "publishing", "published", "leaked"},
            nonce : Nat \cup {NoNonce}]
BY DEF Idle

LEMMA FiniteApprovals ==
  ASSUME TransactionsAssumption, ApprovalsTypeOK
  PROVE  IsFiniteSet(approvals)
BY FS_Subset DEF TransactionsAssumption, ApprovalsTypeOK

LEMMA KeptApprovals ==
  ASSUME ApprovalsInv, UNCHANGED approvalVars
  PROVE  ApprovalsInv'
BY DEF ApprovalsInv, ApprovalsTypeOK, ApprovalsAgree, approvalVars, countOf

TypesInv == TypeOK /\ ApprovalsAgree

\* A step keeps the types of what it leaves alone.
LEMMA TypesKept ==
  ASSUME TypeOK, ApprovalsInv',
         transactions' = transactions \/ transactions' \in Metas,
         request' = request \/ request' \in [Requests -> Steps],
         txOf' = txOf \/ txOf' \in [Requests -> Requests],
         finished' = finished \/ finished' \in [Requests -> Outcomes],
         mutex' = mutex \/ mutex' \in Seq(Call),
         \/ approval' = approval
         \/ approval' \in [step : {"start", "nonce", "signing", "publishing", "published", "leaked"},
                           nonce : Nat \cup {NoNonce}],
         \/ approvingTransactionIds' = approvingTransactionIds
         \/ approvingTransactionIds' \in SUBSET Requests,
         nonceLock' = nonceLock \/ nonceLock' \in Seq({"approval", "other"}),
         published' = published \/ published' \in [Requests -> Nat],
         accepted' = accepted \/ accepted' \in SUBSET Requests,
         networkCount' \in Nat, clock' \in Nat, restarts' \in Nat, networkChanges' \in Nat,
         wipes' \in Nat
  PROVE  TypesInv'
<1>1. ApprovalsTypeOK' /\ ApprovalsAgree' BY DEF ApprovalsInv
<1>2. /\ transactions' \in [Requests -> TransactionMeta \cup {NoTx}]
      /\ request' \in [Requests -> Steps]
      /\ txOf' \in [Requests -> Requests]
      /\ finished' \in [Requests -> Statuses \cup {"rejected", "none", "waiting"}]
  BY DEF TypeOK, Metas, Outcomes
<1>3. /\ mutex' \in Seq(Call)
      /\ approval' \in [step : {"start", "nonce", "signing", "publishing", "published", "leaked"},
                        nonce : Nat \cup {NoNonce}]
      /\ approvingTransactionIds' \in SUBSET Requests
      /\ nonceLock' \in Seq({"approval", "other"})
      /\ published' \in [Requests -> Nat]
      /\ accepted' \in SUBSET Requests BY DEF TypeOK
<1>4. {networkCount', clock', restarts', networkChanges', wipes'} \subseteq Nat OBVIOUS
<1> QED BY ONLY <1>1, <1>2, <1>3, <1>4 DEF TypesInv, TypeOK, Call, TransactionMeta, Steps
LEMMA RequestTypes ==
  ASSUME TransactionsAssumption, ApprovalsAssumption, ConsentInv, NEW r \in Requests,
         addRequested(r) \/ addFails(r) \/ addTransaction(r) \/ joinTransaction(r) \/ settle(r)
  PROVE  TypesInv'
<1>1. TypeOK /\ ApprovalsInv BY FiniteApprovals DEF ConsentInv, TypeOK, ApprovalsInv
<1>2. CASE addRequested(r)
  <2>1. withActionId(r) \subseteq Requests BY PresentAre DEF withActionId
  <2>2. txOf' \in [Requests -> Requests] BY <1>1, <1>2, <2>1, TypesUnfold DEF addRequested
  <2>3. request' \in [Requests -> Steps] BY <1>1, <1>2, TypesUnfold DEF addRequested, Steps
  <2> QED
    BY <1>1, <1>2, <2>2, <2>3, TypesUnfold, TypesKept, KeptApprovals DEF addRequested, lockVars, worldVars
<1>3. CASE addFails(r) \/ settle(r)
  BY <1>1, <1>3, TypesUnfold, TypesKept, KeptApprovals DEF addFails, settle, Steps, lockVars, worldVars
<1>4. CASE joinTransaction(r)
  BY <1>1, <1>4, TypesUnfold, MetaIsThere, TypesKept, KeptApprovals DEF joinTransaction, Steps,
     TransactionMeta, Outcomes, isTransactionCompleted, lockVars, worldVars
<1>5. CASE addTransaction(r)
  <2>1. transactions[r] = NoTx BY <1>1, <1>5, PresentAre DEF addTransaction, ConsentInv, AddedOnce
  <2>2. PICK status \in Statuses : addMetadata(r, status) BY <1>5 DEF addTransaction, Statuses
  <2>3. transactions' \in Metas /\ clock' = clock + 1 BY <1>1, <2>1, <2>2, AddingMetadata
  <2>4. request' \in [Requests -> Steps] /\ finished' \in [Requests -> Outcomes]
    BY <1>1, <1>5, TypesUnfold DEF addTransaction, Steps, Outcomes, Statuses
  <2>5. [tx |-> r, by |-> "request"] \in Call BY DEF Call
  <2>6. mutex' = mutex \/ mutex' \in Seq(Call) BY <1>1, <1>5, <2>5, Queueing DEF addTransaction
  <2>7. ApprovalsInv'
    <3> DEFINE a == [origin |-> OriginOf[r], type |-> "transaction"]
    <3>1. a \in Approval BY DEF TransactionsAssumption, Approval
    <3>2. add(r, a) => r \in ApprovalIds \ approvals
      BY <1>5 DEF addTransaction, mayAdd, TransactionsAssumption, add, ConsentInv, AwaitedIsAsked
    <3>3. add(r, a) \/ UNCHANGED approvalVars BY <1>5 DEF addTransaction
    <3> HIDE DEF a
    <3> QED BY <1>1, <3>1, <3>2, <3>3, KeptApprovals, Adding
  <2> QED BY <1>1, <1>5, <2>3, <2>4, <2>6, <2>7, TypesUnfold, TypesKept DEF addTransaction
<1> QED BY <1>2, <1>3, <1>4, <1>5

LEMMA UserTypes ==
  ASSUME TransactionsAssumption, ApprovalsAssumption, ConsentInv,
         (\E r \in Requests : userAccepts(r) \/ userRejects(r)) \/ approvalsCleared
  PROVE  TypesInv'
<1>1. TypeOK /\ ApprovalsInv BY FiniteApprovals DEF ConsentInv, TypeOK, ApprovalsInv
<1>2. ASSUME NEW r \in Requests, userAccepts(r) PROVE TypesInv'
  BY <1>1, <1>2, Deleting, TypesUnfold, AppendProperties, TypesKept DEF userAccepts, Call, Steps, worldVars
<1>3. ASSUME NEW rs \in SUBSET Requests, cancelTransaction(rs), ApprovalsInv' PROVE TypesInv'
  BY <1>1, <1>3, Cancelling, TypesUnfold, TypesKept DEF Steps, cancelTransaction, lockVars, worldVars
<1>4. ASSUME NEW r \in Requests, userRejects(r) PROVE TypesInv'
  BY <1>1, <1>3, <1>4, Deleting DEF userRejects
<1>5. CASE approvalsCleared
  BY <1>1, <1>3, <1>5, Clearing DEF ApprovalsInv, ApprovalsTypeOK, TransactionsAssumption, approvalsCleared
<1> QED BY <1>2, <1>4, <1>5

LEMMA ApprovingTypes ==
  ASSUME TransactionsAssumption, ConsentInv, approvalAdvances
  PROVE  TypesInv'
<1>1. TypeOK /\ ApprovalsInv BY FiniteApprovals DEF ConsentInv, TypeOK, ApprovalsInv
<1>2. mutex # <<>> /\ holder \in Requests /\ ApprovalsInv'
  BY <1>1, QueueIs, KeptApprovals DEF approvalAdvances, transactionNotFound, approvalStarts, nonceLockGranted,
     approvalFails, signed, networkTakes, submitted, approvalRest
<1>3. UNCHANGED <<txOf, accepted, networkCount, clock, restarts, networkChanges, wipes>>
  BY DEF approvalAdvances, transactionNotFound, approvalStarts, nonceLockGranted, approvalFails, signed,
     networkTakes, submitted, approvalRest
<1>4. networkCount' \in Nat /\ clock' \in Nat /\ restarts' \in Nat /\ networkChanges' \in Nat
      /\ wipes' \in Nat BY <1>1, <1>3, TypesUnfold
<1>5. ASSUME NEW nonce \in Nat, transactions[holder] # NoTx, approvedWith(nonce)
      PROVE  /\ transactions' \in Metas
             /\ approval' = [step |-> "signing", nonce |-> nonce]
  <2>1. transactions \in Metas /\ transactions[holder] \in TransactionMeta
    BY <1>1, <1>2, <1>5, TypesUnfold, MetaIsThere
  <2> QED BY <1>2, <1>5, <2>1 DEF approvedWith, Metas, TransactionMeta, Statuses
<1>6. CASE transactionNotFound
  <2>1. request' = request \/ request' \in [Requests -> Steps]
    BY <1>1, <1>6, TypesUnfold DEF transactionNotFound, Steps
  <2>2. finished' = finished \/ finished' \in [Requests -> Outcomes]
    BY <1>1, <1>6, Emitting DEF transactionNotFound, Outcomes, Statuses
  <2> QED
    BY <1>1, <1>2, <1>3, <1>4, <1>6, <2>1, <2>2, TypesUnfold, TypesKept DEF transactionNotFound
<1>7. CASE approvalStarts
  <2>1. CASE leaveApproval /\ UNCHANGED transactions
    BY <1>1, <1>2, <1>3, <1>4, <1>7, <2>1, LeavingTypes, TypesKept, IdleIsTyped DEF approvalStarts
  <2>2. CASE approvingTransactionIds' = approvingTransactionIds \cup {holder}
    <3>1. approvingTransactionIds' \in SUBSET Requests BY <1>1, <1>2, <2>2, TypesUnfold
    <3>2. CASE approvedWith(transactions[holder].nonce) /\ transactions[holder].nonce # NoNonce
               /\ UNCHANGED <<nonceLock, mutex, request>>
      <4>1. transactions[holder] # NoTx /\ transactions[holder].nonce \in Nat
        BY <1>1, <1>2, <1>7, <3>2, TypesUnfold, MetaIsThere DEF approvalStarts, TransactionMeta
      <4> QED
        BY <1>1, <1>2, <1>3, <1>4, <1>5, <1>7, <3>1, <3>2, <4>1, TypesUnfold, TypesKept DEF approvalStarts
    <3>3. CASE /\ approval' = [approval EXCEPT !.step = "nonce"]
               /\ nonceLock' = Append(nonceLock, "approval")
               /\ UNCHANGED <<transactions, mutex, request>>
      <4>1. nonceLock' \in Seq({"approval", "other"}) BY <1>1, <3>3, TypesUnfold, AppendProperties
      <4> QED
        BY <1>1, <1>2, <1>3, <1>4, <1>7, <3>1, <3>3, <4>1, TypesUnfold, TypesKept DEF approvalStarts
    <3> QED BY <1>7, <2>2, <3>2, <3>3 DEF approvalStarts, leaveApproval
  <2> QED BY <1>7, <2>1, <2>2 DEF approvalStarts
<1>8. CASE nonceLockGranted
  BY <1>8, FS_CardinalityType, <1>1, TypesUnfold, <1>2, <1>3, <1>4, <1>5, TypesKept DEF nonceLockGranted,
     TransactionsAssumption
<1>9. CASE approvalFails
  BY <1>1, <1>2, <1>3, <1>4, <1>9, LeavingTypes, FailingTypes, TypesKept, IdleIsTyped DEF approvalFails
<1>10. CASE signed
  BY <1>1, <1>2, <1>10, ListTypes, TypesUnfold, <1>3, <1>4, TypesKept DEF signed, Statuses
<1>11. CASE networkTakes
  <2>1. published' \in [Requests -> Nat] BY <1>1, <1>2, <1>11, TypesUnfold DEF networkTakes
  <2> QED BY <1>1, <1>2, <1>3, <1>4, <1>11, <2>1, TypesUnfold, TypesKept DEF networkTakes
<1>12. CASE submitted
  <2>1. transactions' \in Metas
    BY <1>12, <1>1, <1>2, ListTypes, TypesUnfold DEF submitted, withStatus, Statuses
  <2>2. finished' \in [Requests -> Outcomes]
    BY <1>1, <1>12, Emitting DEF submitted, Outcomes, Statuses
  <2> QED
    BY <1>1, <1>2, <1>3, <1>4, <1>12, <2>1, <2>2, LeavingTypes, TypesKept, IdleIsTyped DEF submitted
<1> QED BY <1>6, <1>7, <1>8, <1>9, <1>10, <1>11, <1>12 DEF approvalAdvances

LEMMA OtherTypes ==
  ASSUME TransactionsAssumption, ConsentInv,
         \/ otherTakesNonceLock \/ otherReleasesNonceLock \/ transactionsWiped \/ networkChanged
         \/ \E t \in Requests : confirmed(t)
  PROVE  TypesInv'
<1>1. TypeOK /\ ApprovalsInv BY FiniteApprovals DEF ConsentInv, TypeOK, ApprovalsInv
<1>2. ApprovalsInv'
  BY <1>1, KeptApprovals DEF otherTakesNonceLock, otherReleasesNonceLock, transactionsWiped, networkChanged,
     confirmed
<1>3. CASE otherTakesNonceLock
  BY <1>1, <1>3, TypesUnfold, AppendProperties, <1>2, TypesKept DEF otherTakesNonceLock, requestVars,
     worldVars
<1>4. CASE otherReleasesNonceLock
  BY <1>1, <1>4, TypesUnfold, HeadTailProperties, <1>2, TypesKept DEF otherReleasesNonceLock, requestVars,
     worldVars
<1>5. CASE transactionsWiped
  BY <1>1, TypesUnfold, ListTypes, <1>2, <1>5, TypesKept DEF without, Metas, TransactionsAssumption,
     transactionsWiped, requestVars, lockVars
<1>6. CASE networkChanged
  BY <1>1, <1>6, Resubmitting, TypesUnfold, <1>2, TypesKept DEF networkChanged, ConsentInv, requestVars
<1>7. ASSUME NEW t \in Requests, confirmed(t) PROVE TypesInv'
  <2>1. transactions[t].nonce \in Nat
    BY <1>1, <1>7, PresentAre DEF confirmed, ConsentInv, NoncesAreKnown
  <2>2. networkCount' \in Nat BY <1>1, <1>7, <2>1, TypesUnfold DEF confirmed
  <2>3. transactions' \in Metas BY <1>1, <1>7, TypesUnfold, ListTypes DEF confirmed, Statuses
  <2> QED
    BY <1>1, <1>2, <1>7, <2>2, <2>3, TypesUnfold, TypesKept DEF confirmed, requestVars, lockVars
<1> QED BY <1>3, <1>4, <1>5, <1>6, <1>7

\* The constructor starts from the list alone.
reconfirmed ==
  {t \in present(transactions) : transactions[t].status = "unapproved"}

LEMMA RestartTypes ==
  ASSUME TransactionsAssumption, ApprovalsAssumption, ConsentInv, restarted
  PROVE  TypesInv'
<1>1. TypeOK /\ transactions \in Metas BY TypesUnfold DEF ConsentInv, TransactionsAssumption
<1>2. PICK asked \in SUBSET reconfirmed :
        /\ restoredWith(asked, [t \in asked |-> [origin |-> OriginOf[t], type |-> "transaction"]])
        /\ transactions' = [t \in Requests |-> IF t \in reconfirmed \ asked
                                               THEN [transactions[t] EXCEPT !.status = "failed"]
                                               ELSE transactions[t]]
        /\ request' = [r \in Requests |->
                         IF r \in asked THEN "awaiting"
                         ELSE IF request[r] \in {"idle", "fulfilled", "rejected"} THEN request[r]
                         ELSE "lost"]
        /\ finished' = [r \in Requests |-> IF r \in asked THEN "waiting"
                                           ELSE IF finished[r] = "waiting" THEN "none"
                                           ELSE finished[r]] BY DEF restarted, reconfirmed
<1>3. reconfirmed \subseteq Requests /\ \A t \in reconfirmed : transactions[t] \in TransactionMeta
  BY <1>1, PresentAre, MetaIsThere DEF reconfirmed
<1>4. ApprovalsInv' BY <1>3, FS_Subset, <1>1, <1>2, Restored DEF Approval, TransactionsAssumption
<1>5. transactions' \in Metas BY <1>1, <1>2, <1>3 DEF Metas, TransactionMeta, Statuses
<1>6. request' \in [Requests -> Steps] /\ finished' \in [Requests -> Outcomes]
  BY <1>1, <1>2, TypesUnfold DEF Steps, Outcomes
<1>7. <<>> \in Seq(Call) /\ <<>> \in Seq({"approval", "other"}) OBVIOUS
<1>8. mutex' \in Seq(Call) BY <1>1, <1>7, Resubmitting DEF restarted, ConsentInv
<1>9. /\ approval' = Idle /\ nonceLock' = <<>> /\ approvingTransactionIds' = {}
      /\ restarts' = restarts + 1
      /\ UNCHANGED <<txOf, published, accepted, networkCount, clock, networkChanges, wipes>>
  BY DEF restarted
<1> QED BY <1>1, <1>4, <1>5, <1>6, <1>7, <1>8, <1>9, TypesUnfold, TypesKept, IdleIsTyped

-----------------------------------------------------------------------------
(* The calls, their places in the queue and what they were allowed.        *)

RestInv ==
  /\ HolderExists /\ TimesAreDistinct /\ NoncesAreKnown
  /\ AwaitedIsAsked /\ CallsAreQueuedOnce /\ AddedOnce /\ OnlyAllowed

LEMMA Present ==
  ASSUME TransactionsAssumption
  PROVE  /\ present(transactions) = {t \in Requests : transactions[t] # NoTx}
         /\ present(transactions)' = {t \in Requests : transactions'[t] # NoTx}
BY DEF TransactionsAssumption, present

\* Calls that neither ask the user nor add anything.
LEMMA Moving ==
  ASSUME ConsentInv, NEW r \in Requests, NEW step, step # "awaiting",
         request' = [request EXCEPT ![r] = step],
         \/ request[r] \in {"idle", "adding"}
         \/ request[r] = "finishing" /\ step \notin {"idle", "adding"},
         UNCHANGED <<transactions, approvalVars, lockVars, published, accepted, clock>>
  PROVE  RestInv'
<1>1. request \in [Requests -> Steps] /\ TypeOK BY TypesUnfold DEF ConsentInv
<1>2. HolderExists' /\ TimesAreDistinct' /\ NoncesAreKnown' /\ OnlyAllowed'
  BY DEF ConsentInv, HolderExists, TimesAreDistinct, NoncesAreKnown, OnlyAllowed, lockVars, holder, present,
     IsAt, Allowed
<1>3. AwaitedIsAsked' BY <1>1 DEF ConsentInv, AwaitedIsAsked, approvalVars
<1>4. AddedOnce' BY <1>1 DEF ConsentInv, AddedOnce, present
<1>5. CallsAreQueuedOnce' BY <1>1, QueueIs DEF ConsentInv, CallsAreQueuedOnce, lockVars, IsAt
<1> QED BY <1>2, <1>3, <1>4, <1>5 DEF RestInv

LEMMA RequestRest ==
  ASSUME TransactionsAssumption, ConsentInv, NEW r \in Requests,
         addRequested(r) \/ addFails(r) \/ joinTransaction(r) \/ settle(r)
  PROVE  RestInv'
BY Moving DEF addRequested, worldVars, addFails, joinTransaction, settle

LEMMA AddRest ==
  ASSUME TransactionsAssumption, ConsentInv, NEW r \in Requests, addTransaction(r)
  PROVE  RestInv'
<1>1. TypeOK /\ request \in [Requests -> Steps] /\ transactions \in Metas /\ clock \in Nat
  BY TypesUnfold DEF ConsentInv
<1>2. transactions[r] = NoTx /\ request[r] = "adding"
  BY <1>1, Present DEF addTransaction, ConsentInv, AddedOnce
<1>3. PICK status \in {"unapproved", "failed"} :
        /\ addMetadata(r, status)
        /\ request'[r] = "awaiting" => status = "unapproved"
  BY <1>1 DEF addTransaction
<1>4. /\ clock' = clock + 1
      /\ transactions'[r] = [status |-> status, nonce |-> NoNonce, time |-> clock]
      /\ \A t \in Requests \ {r} : transactions'[t] \in {transactions[t], NoTx}
      /\ transactions' \in Metas
  BY <1>1, <1>2, <1>3, AddingMetadata DEF Statuses
<1>5. UNCHANGED <<approval, approvingTransactionIds, published, accepted>>
  BY DEF addTransaction
<1>6. PICK step \in {"awaiting", "approving", "finishing"} :
        /\ request' = [request EXCEPT ![r] = step]
        /\ step = "awaiting" => approvals' = approvals \cup {r}
        /\ step # "awaiting" => approvals' = approvals
        /\ \/ mutex' = mutex
           \/ /\ mutex' = Append(mutex, [tx |-> r, by |-> "request"])
              /\ step = "approving" /\ r \in SkipsApproval
  BY DEF addTransaction, add, approvalVars
<1>7. [tx |-> r, by |-> "request"] \in Call
  BY DEF Call
<1>8. \A i \in 1..Len(mutex) : mutex[i].tx # r
  BY <1>2 DEF ConsentInv, CallsAreQueuedOnce
<1>9. mutex # <<>> => mutex' # <<>> /\ holder' = holder /\ holder # r /\ holder \in Requests
  BY <1>1, <1>6, <1>7, <1>8, Queueing, QueueIs DEF holder
<1>10. /\ Len(mutex) \in Nat
       /\ \A i \in 1..Len(mutex) : mutex'[i] = mutex[i] /\ mutex[i].tx \in Requests
       /\ \/ Len(mutex') = Len(mutex)
          \/ /\ Len(mutex') = Len(mutex) + 1
             /\ mutex'[Len(mutex) + 1] = [tx |-> r, by |-> "request"]
             /\ step = "approving" /\ r \in SkipsApproval
  BY <1>1, <1>6, <1>7, Queueing, QueueIs
<1>11. HolderExists'
  BY <1>5, <1>9 DEF ConsentInv, HolderExists, IsAt
<1>12. TimesAreDistinct'
  <2>1. \A t \in Requests : transactions[t] # NoTx => transactions[t].time \in Nat
    BY <1>1, MetaIsThere DEF TransactionMeta
  <2>2. transactions'[r].time = clock
    BY <1>4
  <2> QED BY <1>1, <1>4, <2>1, <2>2, Present DEF ConsentInv, TimesAreDistinct
<1>13. NoncesAreKnown'
  <2>1. \A t \in present(transactions)' :
          /\ transactions'[t].status \in {"approved", "signed", "submitted"} =>
               transactions'[t].nonce \in Nat
          /\ transactions'[t].status = "unapproved" => transactions'[t].nonce = NoNonce
    BY <1>4, Present DEF ConsentInv, NoncesAreKnown
  <2>2. approval.step # "start" => transactions'[holder'] \in {transactions[holder], NoTx} /\ holder' = holder
    BY <1>4, <1>9 DEF ConsentInv, HolderExists, IsAt
  <2> QED BY <1>5, <2>1, <2>2 DEF ConsentInv, NoncesAreKnown, IsAt, OnItsWay
<1>14. AwaitedIsAsked'
  BY <1>1, <1>2, <1>6 DEF ConsentInv, AwaitedIsAsked
<1>15. CallsAreQueuedOnce'
  <2>1. \A i \in 1..Len(mutex) : request'[mutex[i].tx] = request[mutex[i].tx]
    BY <1>1, <1>6, <1>8, <1>10
  <2>2. request'[r] = step
    BY <1>1, <1>6
  <2> QED BY <1>5, <1>8, <1>10, <2>1, <2>2 DEF ConsentInv, CallsAreQueuedOnce, IsAt
<1>16. AddedOnce'
  BY <1>1, <1>3, <1>4, <1>6, Present DEF ConsentInv, AddedOnce
<1>17. OnlyAllowed'
  <2>1. \A t \in present(transactions)' : transactions'[t].status = "approved" => t \in Allowed
    BY <1>4, Present DEF ConsentInv, OnlyAllowed
  <2>2. Allowed' = Allowed
    BY <1>5 DEF Allowed
  <2> QED BY <1>5, <1>10, <2>1, <2>2 DEF ConsentInv, OnlyAllowed, Allowed
<1> QED BY <1>11, <1>12, <1>13, <1>14, <1>15, <1>16, <1>17 DEF RestInv

LEMMA AcceptRest ==
  ASSUME TransactionsAssumption, ConsentInv, NEW r \in Requests, userAccepts(r)
  PROVE  RestInv'
<1>1. TypeOK /\ request \in [Requests -> Steps] BY TypesUnfold DEF ConsentInv
<1>2. /\ request[r] = "awaiting" /\ request' = [request EXCEPT ![r] = "approving"]
      /\ approvals' = approvals \ {r} /\ accepted' = accepted \cup {r}
      /\ mutex' = Append(mutex, [tx |-> r, by |-> "request"])
      /\ UNCHANGED <<transactions, approval, approvingTransactionIds, published, clock>>
  BY DEF userAccepts, delete, worldVars
<1>3. [tx |-> r, by |-> "request"] \in Call BY DEF Call
<1>4. \A i \in 1..Len(mutex) : mutex[i].tx # r BY <1>2 DEF ConsentInv, CallsAreQueuedOnce
<1>5. mutex # <<>> => mutex' # <<>> /\ holder' = holder BY <1>1, <1>2, <1>3, Queueing DEF holder
<1>6. /\ Len(mutex) \in Nat /\ Len(mutex') = Len(mutex) + 1
      /\ \A i \in 1..Len(mutex) : mutex'[i] = mutex[i] /\ mutex[i].tx \in Requests
      /\ mutex'[Len(mutex) + 1] = [tx |-> r, by |-> "request"]
  BY <1>1, <1>2, <1>3, Queueing, QueueIs
<1>7. HolderExists' /\ TimesAreDistinct'
  BY <1>2, <1>5 DEF ConsentInv, HolderExists, TimesAreDistinct, IsAt, present
<1>8. NoncesAreKnown'
  BY <1>2, <1>5 DEF ConsentInv, NoncesAreKnown, HolderExists, IsAt, present, OnItsWay
<1>9. AwaitedIsAsked' /\ AddedOnce' BY <1>1, <1>2, Present DEF ConsentInv, AwaitedIsAsked, AddedOnce
<1>10. CallsAreQueuedOnce' BY <1>1, <1>2, <1>4, <1>6 DEF ConsentInv, CallsAreQueuedOnce, IsAt
<1>11. OnlyAllowed' BY <1>2, <1>6 DEF ConsentInv, OnlyAllowed, Allowed, present
<1> QED BY <1>7, <1>8, <1>9, <1>10, <1>11 DEF RestInv

LEMMA CancelRest ==
  ASSUME TransactionsAssumption, ConsentInv, NEW rs \in SUBSET approvals, cancelTransaction(rs),
         approvals' = approvals \ rs
  PROVE  RestInv'
<1>1. TypeOK /\ request \in [Requests -> Steps] /\ rs \in SUBSET Requests
  BY TypesUnfold DEF ConsentInv, ApprovalsTypeOK, TransactionsAssumption
<1>2. /\ request' = [r \in Requests |-> IF r \in rs THEN "rejected" ELSE request[r]]
      /\ \A t \in Requests : transactions'[t] \in {transactions[t], NoTx}
      /\ UNCHANGED <<mutex, approval, approvingTransactionIds, published, accepted, clock>>
  BY <1>1, Cancelling DEF cancelTransaction, lockVars, worldVars
<1>3. \A r \in rs : request[r] = "awaiting" BY <1>1 DEF ConsentInv, AwaitedIsAsked
<1>4. \A i \in 1..Len(mutex) : mutex[i].tx \in Requests /\ mutex[i].tx \notin rs
  BY <1>1, <1>3, QueueIs DEF ConsentInv, CallsAreQueuedOnce
<1>5. HolderExists' /\ TimesAreDistinct'
  BY <1>2, Present DEF ConsentInv, HolderExists, TimesAreDistinct, IsAt
<1>6. NoncesAreKnown'
  BY <1>1, QueueIs, <1>2, Present DEF holder, ConsentInv, NoncesAreKnown, HolderExists, IsAt, OnItsWay
<1>7. AwaitedIsAsked' /\ AddedOnce' BY <1>1, <1>2, Present DEF ConsentInv, AwaitedIsAsked, AddedOnce
<1>8. CallsAreQueuedOnce' BY <1>2, <1>4 DEF ConsentInv, CallsAreQueuedOnce, IsAt
<1>9. OnlyAllowed' BY <1>2, Present DEF ConsentInv, OnlyAllowed, Allowed
<1> QED BY <1>5, <1>6, <1>7, <1>8, <1>9 DEF RestInv

LEMMA UserRest ==
  ASSUME TransactionsAssumption, ConsentInv,
         (\E r \in Requests : userAccepts(r) \/ userRejects(r)) \/ approvalsCleared
  PROVE  RestInv'
BY CancelRest, AcceptRest DEF userRejects, delete, approvalsCleared, clear

\* Only the holder's transaction changes, and it stays where it is in time.
LEMMA TimesKept ==
  ASSUME TransactionsAssumption, ConsentInv, clock' = clock,
         \A t \in Requests : transactions'[t] # NoTx =>
           transactions[t] # NoTx /\ transactions'[t].time = transactions[t].time
  PROVE  TimesAreDistinct'
BY Present DEF ConsentInv, TimesAreDistinct

\* The holder leaves, with its transaction as it was, submitted or failed.
LEMMA Leaving ==
  ASSUME TransactionsAssumption, ConsentInv, mutex # <<>>, leaveApproval,
         UNCHANGED <<approvals, accepted, published, clock>>,
         \A t \in Requests \ {holder} : transactions'[t] = transactions[t],
         \/ transactions'[holder] = transactions[holder]
         \/ /\ transactions[holder] # NoTx
            /\ transactions'[holder].time = transactions[holder].time
            /\ \/ transactions'[holder].status = "failed"
               \/ /\ transactions'[holder].status = "submitted"
                  /\ transactions'[holder].nonce \in Nat
  PROVE  RestInv'
<1>1. TypeOK /\ request \in [Requests -> Steps] /\ holder \in Requests
  BY TypesUnfold, QueueIs DEF ConsentInv
<1>2. /\ approval' = Idle /\ IsAt({"start"})'
      /\ approvingTransactionIds' \subseteq approvingTransactionIds
      /\ Len(mutex) \in Nat /\ Len(mutex') = Len(mutex) - 1
      /\ \A i \in 1..Len(mutex') : mutex'[i] = mutex[i + 1] /\ i + 1 \in 1..Len(mutex)
      /\ holder = mutex[1].tx /\ 1 \in 1..Len(mutex)
      /\ request' = IF mutex[1].by = "request" THEN [request EXCEPT ![holder] = "finishing"]
                    ELSE request BY <1>1, QueueIs DEF leaveApproval, Idle, IsAt
<1>3. request[holder] \notin {"idle", "adding", "awaiting"}
  BY <1>2 DEF ConsentInv, CallsAreQueuedOnce
<1>4. HolderExists' BY <1>2 DEF HolderExists
<1>5. TimesAreDistinct' BY <1>1, TimesKept
<1>6. NoncesAreKnown' BY <1>2, Present DEF ConsentInv, NoncesAreKnown, IsAt, OnItsWay, Idle
<1>7. AwaitedIsAsked' BY <1>1, <1>2, <1>3 DEF ConsentInv, AwaitedIsAsked
<1>8. AddedOnce' BY <1>1, <1>2, <1>3, Present DEF ConsentInv, AddedOnce
<1>9. CallsAreQueuedOnce'
  <2>1. \A i \in 1..Len(mutex') :
          /\ mutex'[i] = mutex[i + 1] /\ i + 1 \in 1..Len(mutex) /\ i + 1 > 1
          /\ mutex[i + 1].tx \in Requests BY <1>1, <1>2, QueueIs
  <2>2. \A i \in 1..Len(mutex') : request'[mutex'[i].tx] \notin {"idle", "adding", "awaiting"}
    BY <1>1, <1>2, <2>1 DEF ConsentInv, CallsAreQueuedOnce
  <2>3. \A i \in 1..Len(mutex') : mutex'[i].by = "request" => request'[mutex'[i].tx] = "approving"
    BY <1>1, <1>2, <2>1 DEF ConsentInv, CallsAreQueuedOnce
  <2>5. \A i, j \in 1..Len(mutex') :
          i # j /\ mutex'[i].by = "request" /\ mutex'[j].by = "request" => mutex'[i].tx # mutex'[j].tx
    <3> SUFFICES ASSUME NEW i \in 1..Len(mutex'), NEW j \in 1..Len(mutex'), i # j,
                        mutex'[i].by = "request", mutex'[j].by = "request"
                 PROVE  mutex'[i].tx # mutex'[j].tx OBVIOUS
    <3>1. i + 1 # j + 1 BY <1>2
    <3>2. mutex[i + 1].tx # mutex[j + 1].tx BY <2>1, <3>1 DEF ConsentInv, CallsAreQueuedOnce
    <3> QED BY <2>1, <3>2
  <2> QED BY <2>2, <2>3, <2>5 DEF CallsAreQueuedOnce
<1>10. OnlyAllowed' BY <1>2, Present DEF Allowed, ConsentInv, OnlyAllowed
<1> QED BY <1>4, <1>5, <1>6, <1>7, <1>8, <1>9, <1>10 DEF RestInv

\* The holder goes on, with its transaction approved or signed.
LEMMA Staying ==
  ASSUME TransactionsAssumption, ConsentInv, mutex # <<>>,
         UNCHANGED <<mutex, request, approvals, accepted, clock>>,
         ~IsAt({"leaked"}),
         approvingTransactionIds' \subseteq approvingTransactionIds \cup {holder},
         \A t \in Requests \ {holder} : published'[t] = published[t],
         \A t \in Requests \ {holder} : transactions'[t] = transactions[t],
         \/ transactions'[holder] = transactions[holder]
         \/ /\ transactions[holder] # NoTx
            /\ transactions'[holder].time = transactions[holder].time
            /\ transactions'[holder].status \in {"approved", "signed"}
            /\ transactions'[holder].nonce \in Nat,
         approval'.step \in OnItsWay =>
           /\ approval'.nonce \in Nat
           /\ transactions'[holder] # NoTx => transactions'[holder].nonce = approval'.nonce,
         approval'.step # "start",
         approval'.step = "nonce" =>
           /\ approval'.nonce = NoNonce
           /\ transactions'[holder] # NoTx => transactions'[holder].nonce = NoNonce
  PROVE  RestInv'
BY QueueIs, TimesKept, Present DEF ConsentInv, holder, CallsAreQueuedOnce, OnlyAllowed, HolderExists,
   AwaitedIsAsked, NoncesAreKnown, IsAt, AddedOnce, Allowed, RestInv

LEMMA ApprovingRest ==
  ASSUME TransactionsAssumption, ConsentInv, approvalAdvances
  PROVE  RestInv'
<1>1. mutex # <<>>
  BY DEF approvalAdvances, transactionNotFound, approvalStarts, nonceLockGranted, approvalFails, signed,
     networkTakes, submitted
<1>2. /\ TypeOK /\ holder \in Requests /\ transactions \in Metas /\ published \in [Requests -> Nat]
      /\ 1 \in 1..Len(mutex) /\ holder = mutex[1].tx /\ Head(mutex) = mutex[1]
      /\ approval = [step |-> approval.step, nonce |-> approval.nonce]
  BY <1>1, TypesUnfold, QueueIs DEF ConsentInv
<1>3. transactions[holder] # NoTx => transactions[holder] \in TransactionMeta BY <1>2, MetaIsThere
<1>4. UNCHANGED <<approvals, accepted, clock>>
  BY DEF approvalAdvances, transactionNotFound, approvalStarts, nonceLockGranted, approvalFails, signed,
     networkTakes, submitted, approvalRest, approvalVars
<1>5. ASSUME NEW nonce \in Nat, transactions[holder] # NoTx, approvedWith(nonce)
      PROVE  /\ \A t \in Requests \ {holder} : transactions'[t] = transactions[t]
             /\ transactions'[holder].time = transactions[holder].time
             /\ transactions'[holder].status = "approved"
             /\ transactions'[holder].nonce = nonce
             /\ approval' = [step |-> "signing", nonce |-> nonce]
  BY <1>2, <1>3, <1>5 DEF approvedWith, Metas, TransactionMeta
<1>6. CASE transactionNotFound
  <2>1. /\ transactions[holder] = NoTx
        /\ UNCHANGED <<transactions, mutex, approvingTransactionIds, published>>
        /\ IsAt({"start"}) /\ approval'.step = "leaked"
        /\ request' = IF mutex[1].by = "request" THEN [request EXCEPT ![holder] = "finishing"]
                      ELSE request BY <1>2, <1>6, QueueIs, <1>1 DEF transactionNotFound, IsAt
  <2>2. request[holder] \notin {"idle", "adding", "awaiting"} /\ request \in [Requests -> Steps]
    BY <1>2, TypesUnfold DEF ConsentInv, CallsAreQueuedOnce
  <2>3. HolderExists' /\ TimesAreDistinct' BY <1>1, <1>2, <1>4, <2>1, TimesKept DEF HolderExists
  <2>4. NoncesAreKnown' /\ OnlyAllowed'
    BY <1>4, <2>1, Present DEF ConsentInv, NoncesAreKnown, OnlyAllowed, IsAt, OnItsWay, Allowed
  <2>5. AwaitedIsAsked' /\ AddedOnce'
    BY <1>2, <1>4, <2>1, <2>2, Present DEF ConsentInv, AwaitedIsAsked, AddedOnce
  <2>6. CallsAreQueuedOnce' BY <1>2, QueueIs, <2>1, <2>2 DEF ConsentInv, CallsAreQueuedOnce, IsAt
  <2> QED BY <2>3, <2>4, <2>5, <2>6 DEF RestInv
<1>7. CASE approvalStarts
  BY <1>7, <1>1, <1>4, Leaving, <1>3, <1>5, Staying, <1>2 DEF approvalStarts, IsAt, TransactionMeta,
     ConsentInv, NoncesAreKnown, OnItsWay
<1>8. CASE nonceLockGranted
  <2>1. PICK nonce \in 0..networkCount + Cardinality(Requests) : approvedWith(nonce)
    BY <1>8 DEF nonceLockGranted
  <2>2. nonce \in Nat BY FS_CardinalityType, <1>2, TypesUnfold DEF TransactionsAssumption
  <2>3. /\ ~IsAt({"leaked"}) /\ transactions[holder] # NoTx
        /\ UNCHANGED <<mutex, request, approvingTransactionIds, published>>
    BY <1>8 DEF nonceLockGranted, IsAt
  <2>4. approval'.step = "signing" /\ approval'.nonce = nonce BY <1>5, <2>1, <2>2, <2>3
  <2> QED BY <1>1, <1>4, <1>5, <2>1, <2>2, <2>3, <2>4, Staying
<1>9. CASE approvalFails
  BY <1>9, <1>2, <1>1, <1>4, Leaving DEF approvalFails, failTransaction, updateTransaction, Metas
<1>10. CASE signed
  BY <1>2, <1>10, <1>3, <1>1, <1>4, Staying DEF signed, withStatus, Metas, TransactionMeta, IsAt, ConsentInv,
     NoncesAreKnown, OnItsWay
<1>11. CASE networkTakes
  BY <1>11, <1>2, <1>1, <1>4, Staying DEF networkTakes, IsAt, ConsentInv, NoncesAreKnown, OnItsWay
<1>12. CASE submitted
  BY <1>12, <1>2, <1>3, <1>1, <1>4, Leaving DEF submitted, ConsentInv, NoncesAreKnown, IsAt, OnItsWay, Metas,
     TransactionMeta
<1> QED BY <1>6, <1>7, <1>8, <1>9, <1>10, <1>11, <1>12 DEF approvalAdvances

LEMMA ConfirmedList ==
  ASSUME TransactionsAssumption, TypeOK, NEW t \in Requests, confirmed(t)
  PROVE  /\ transactions[t] # NoTx /\ transactions[t].status = "submitted"
         /\ transactions'[t] = [transactions[t] EXCEPT !.status = "confirmed"]
         /\ \A u \in Requests \ {t} :
              transactions'[u] =
                IF /\ transactions[u] # NoTx
                   /\ transactions[u].nonce = transactions[t].nonce
                   /\ transactions[u].status # "failed"
                THEN [transactions[u] EXCEPT !.status = "dropped"] ELSE transactions[u]
         /\ \A u \in Requests :
              transactions'[u] # NoTx =>
                /\ transactions[u] # NoTx
                /\ transactions'[u].time = transactions[u].time
                /\ transactions'[u].nonce = transactions[u].nonce
                /\ transactions'[u].status \in {transactions[u].status, "confirmed", "dropped"}
<1> DEFINE T == withStatus(transactions, t, "confirmed")
<1>1. /\ transactions[t] # NoTx /\ transactions[t].status = "submitted"
      /\ transactions' = markNonceDuplicatesDropped(T, t) BY DEF confirmed
<1>2. transactions \in Metas /\ \A u \in Requests : transactions[u] # NoTx => transactions[u] \in TransactionMeta
  BY TypesUnfold, MetaIsThere
<1>3. T = [transactions EXCEPT ![t].status = "confirmed"] BY <1>1 DEF withStatus
<1>4. /\ T[t] = [transactions[t] EXCEPT !.status = "confirmed"] /\ T[t] # NoTx
      /\ T[t].nonce = transactions[t].nonce
      /\ \A u \in Requests \ {t} : T[u] = transactions[u]
  BY <1>2, <1>3, <1>1 DEF Metas, TransactionMeta, Statuses, TransactionsAssumption
<1> HIDE DEF T
<1>5. \A u \in Requests :
        transactions'[u] = IF u \in sameNonceTransactions(T, t) /\ T[u].status # "failed"
                           THEN [T[u] EXCEPT !.status = "dropped"] ELSE T[u]
  BY <1>1, <1>4 DEF markNonceDuplicatesDropped, TransactionsAssumption
<1>6. \A u \in Requests :
        u \in sameNonceTransactions(T, t) <=> u # t /\ T[u] # NoTx /\ T[u].nonce = T[t].nonce
  BY PresentAre DEF sameNonceTransactions
<1>7. transactions'[t] = [transactions[t] EXCEPT !.status = "confirmed"] BY <1>4, <1>5, <1>6
<1>8. \A u \in Requests \ {t} :
        transactions'[u] =
          IF /\ transactions[u] # NoTx
             /\ transactions[u].nonce = transactions[t].nonce
             /\ transactions[u].status # "failed"
          THEN [transactions[u] EXCEPT !.status = "dropped"] ELSE transactions[u]
  BY <1>4, <1>5, <1>6
<1>9. \A u \in Requests :
        transactions'[u] # NoTx =>
          /\ transactions[u] # NoTx
          /\ transactions'[u].time = transactions[u].time
          /\ transactions'[u].nonce = transactions[u].nonce
          /\ transactions'[u].status \in {transactions[u].status, "confirmed", "dropped"}
  <2> TAKE u \in Requests
  <2>1. CASE u = t BY <1>1, <1>2, <1>7, <2>1 DEF TransactionMeta
  <2>2. CASE u # t BY <1>8, <2>2, <1>2 DEF TransactionMeta
  <2> QED BY <2>1, <2>2
<1> QED BY <1>1, <1>7, <1>8, <1>9

LEMMA ConfirmedRest ==
  ASSUME TransactionsAssumption, ConsentInv, NEW t \in Requests, confirmed(t)
  PROVE  RestInv'
<1>1. /\ TypeOK
      /\ \A u \in Requests :
           transactions'[u] # NoTx =>
             /\ transactions[u] # NoTx
             /\ transactions'[u].time = transactions[u].time
             /\ transactions'[u].nonce = transactions[u].nonce
             /\ transactions'[u].status \in {transactions[u].status, "confirmed", "dropped"}
  BY ConfirmedList DEF ConsentInv
<1>2. UNCHANGED <<mutex, approval, approvingTransactionIds, request, approvals, accepted, published,
                  clock>> /\ holder' = holder
  BY DEF confirmed, approvalVars, requestVars, lockVars, holder
<1>3. HolderExists' /\ AwaitedIsAsked' /\ CallsAreQueuedOnce' /\ TimesAreDistinct'
  BY <1>1, <1>2, TimesKept DEF ConsentInv, HolderExists, AwaitedIsAsked, CallsAreQueuedOnce, IsAt
<1>4. NoncesAreKnown'
  BY <1>1, QueueIs, <1>2, Present DEF ConsentInv, NoncesAreKnown, HolderExists, IsAt, OnItsWay
<1>5. AddedOnce'
  <2>1. \A u \in present(transactions) :
          request[u] = "awaiting" /\ transactions'[u] # NoTx =>
            transactions'[u].status = "unapproved"
    <3> SUFFICES ASSUME NEW u \in present(transactions), request[u] = "awaiting",
                        transactions'[u] # NoTx
                 PROVE  transactions'[u].status = "unapproved" OBVIOUS
    <3>1. u \in Requests /\ transactions[u] # NoTx /\ transactions[u].status = "unapproved"
      BY Present DEF ConsentInv, AddedOnce
    <3>2. transactions[u].nonce = NoNonce /\ transactions[t].nonce \in Nat /\ u # t
      BY <3>1, Present, ConfirmedList DEF ConsentInv, NoncesAreKnown, TypeOK
    <3>3. NoNonce \notin Nat BY StoreAssumption DEF StoreAssumption
    <3> QED BY <1>1, <3>1, <3>2, <3>3, ConfirmedList
  <2> QED BY <1>1, <1>2, <2>1, Present DEF ConsentInv, AddedOnce
<1>6. OnlyAllowed' BY <1>1, <1>2, Present DEF ConsentInv, OnlyAllowed, Allowed
<1> QED BY <1>3, <1>4, <1>5, <1>6 DEF RestInv

LEMMA OtherRest ==
  ASSUME TransactionsAssumption, ConsentInv,
         otherTakesNonceLock \/ otherReleasesNonceLock \/ transactionsWiped \/ networkChanged
  PROVE  RestInv'
<1>1. TypeOK /\ transactions \in Metas BY TypesUnfold DEF ConsentInv
<1>2. CASE otherTakesNonceLock \/ otherReleasesNonceLock
  <2>1. UNCHANGED <<transactions, mutex, approval, approvingTransactionIds, request, approvals, accepted,
                    published, clock>>
    BY <1>2 DEF otherTakesNonceLock, otherReleasesNonceLock, requestVars, approvalVars, worldVars
  <2> QED
    BY <2>1 DEF ConsentInv, RestInv, HolderExists, TimesAreDistinct, NoncesAreKnown, AwaitedIsAsked,
       CallsAreQueuedOnce, AddedOnce, OnlyAllowed, holder, present, IsAt, Allowed
<1>3. CASE transactionsWiped
  <2>1. UNCHANGED <<mutex, approval, approvingTransactionIds, request, approvals, accepted, published,
                    clock>> /\ holder' = holder
    BY <1>3 DEF transactionsWiped, approvalVars, requestVars, lockVars, holder
  <2>2. \A t \in Requests : transactions'[t] \in {transactions[t], NoTx}
    BY <1>3 DEF transactionsWiped, without, TransactionsAssumption
  <2>3. HolderExists' /\ AwaitedIsAsked' /\ CallsAreQueuedOnce' /\ TimesAreDistinct'
    BY <2>1, <2>2, TimesKept DEF ConsentInv, HolderExists, AwaitedIsAsked, CallsAreQueuedOnce, IsAt
  <2>4. NoncesAreKnown'
    BY <1>1, QueueIs, <2>1, <2>2, Present DEF ConsentInv, NoncesAreKnown, HolderExists, IsAt, OnItsWay
  <2>5. AddedOnce' /\ OnlyAllowed'
    BY <2>1, <2>2, Present DEF ConsentInv, AddedOnce, OnlyAllowed, Allowed
  <2> QED BY <2>3, <2>4, <2>5 DEF RestInv
<1>4. CASE networkChanged
  <2>1. UNCHANGED <<transactions, approval, approvingTransactionIds, request, approvals, accepted,
                    published, clock>> BY <1>4 DEF networkChanged, approvalVars, requestVars
  <2>2. mutex \in Seq(Call) /\ Len(mutex) \in Nat /\ submitApprovedTransactions(mutex) /\ TimesAreDistinct
    BY <1>1, <1>4, TypesUnfold DEF networkChanged, ConsentInv
  <2>3. /\ mutex' \in Seq(Call) /\ Len(mutex') \in Nat /\ Len(mutex') >= Len(mutex)
        /\ \A i \in 1..Len(mutex) : mutex'[i] = mutex[i]
        /\ \A i \in Len(mutex) + 1..Len(mutex') : mutex'[i].by = "boot" /\ mutex'[i].tx \in approvedOnes
    BY <1>1, <2>2, Resubmitting
  <2>4. mutex # <<>> => mutex' # <<>> /\ holder' = holder BY <1>1, <2>3, QueueIs DEF holder
  <2>5. \A t \in approvedOnes : /\ t \in present(transactions) /\ t \in Allowed
                                /\ request[t] \notin {"idle", "adding", "awaiting"}
    BY DEF approvedOnes, isApproved, ConsentInv, OnlyAllowed, AddedOnce
  <2>6. HolderExists' /\ TimesAreDistinct' /\ AwaitedIsAsked' /\ AddedOnce'
    BY <2>1, <2>4, Present DEF ConsentInv, HolderExists, TimesAreDistinct, AwaitedIsAsked, AddedOnce, IsAt
  <2>7. NoncesAreKnown'
    BY <2>1, <2>4, Present DEF ConsentInv, NoncesAreKnown, HolderExists, IsAt, OnItsWay
  <2>8. CallsAreQueuedOnce'
    <3>1. \A i \in 1..Len(mutex') : i \in 1..Len(mutex) \/ i \in Len(mutex) + 1..Len(mutex')
      BY <2>2, <2>3
    <3>2. \A i \in 1..Len(mutex') : mutex'[i].by = "request" => i \in 1..Len(mutex) BY <2>3, <3>1
    <3>3. \A i \in 1..Len(mutex') :
            /\ request'[mutex'[i].tx] \notin {"idle", "adding", "awaiting"}
            /\ mutex'[i].by = "request" /\ (i > 1 \/ ~IsAt({"leaked"})') =>
                 request'[mutex'[i].tx] = "approving"
      <4> SUFFICES ASSUME NEW i \in 1..Len(mutex')
                   PROVE  /\ request'[mutex'[i].tx] \notin {"idle", "adding", "awaiting"}
                          /\ mutex'[i].by = "request" /\ (i > 1 \/ ~IsAt({"leaked"})') =>
                               request'[mutex'[i].tx] = "approving" OBVIOUS
      <4>1. CASE i \in 1..Len(mutex) BY <2>1, <2>3, <4>1 DEF ConsentInv, CallsAreQueuedOnce, IsAt
      <4>2. CASE i \in Len(mutex) + 1..Len(mutex') BY <2>1, <2>3, <2>5, <4>2
      <4> QED BY <3>1, <4>1, <4>2
    <3>4. \A i, j \in 1..Len(mutex') :
            i # j /\ mutex'[i].by = "request" /\ mutex'[j].by = "request" => mutex'[i].tx # mutex'[j].tx
      BY <2>3, <3>2 DEF ConsentInv, CallsAreQueuedOnce
    <3> QED BY <3>3, <3>4 DEF CallsAreQueuedOnce
  <2>9. OnlyAllowed' BY <2>2, <2>3, <2>1, <2>5, Present DEF ConsentInv, OnlyAllowed, Allowed
  <2> QED BY <2>6, <2>7, <2>8, <2>9 DEF RestInv
<1> QED BY <1>2, <1>3, <1>4

\* What a restart leaves of the list, and who is asked and queued after it.
LEMMA RestartedAs ==
  ASSUME TransactionsAssumption, ConsentInv, restarted
  PROVE  /\ IsAt({"start"})' /\ approval' = Idle /\ approvingTransactionIds' = {}
         /\ UNCHANGED <<accepted, published, clock, networkChanges>>
         /\ Len(mutex') = Cardinality(approvedOnes) /\ Len(mutex') \in Nat
         /\ \A i \in 1..Len(mutex') :
              /\ mutex'[i].by = "boot" /\ mutex'[i].tx \in approvedOnes
              /\ \A j \in 1..Len(mutex') : i # j => mutex'[i].tx # mutex'[j].tx
         /\ approvals' \in SUBSET reconfirmed
         /\ \A t \in Requests :
              /\ transactions'[t] =
                   IF t \in reconfirmed \ approvals' THEN [transactions[t] EXCEPT !.status = "failed"]
                   ELSE transactions[t]
              /\ request'[t] = IF t \in approvals' THEN "awaiting"
                               ELSE IF request[t] \in {"idle", "fulfilled", "rejected"} THEN request[t]
                               ELSE "lost"
<1>1. TypeOK /\ TimesAreDistinct BY DEF ConsentInv
<1>2. <<>> \in Seq(Call) /\ Len(<<>>) = 0 OBVIOUS
<1>3. submitApprovedTransactions(<<>>) BY DEF restarted
<1>4. /\ Len(mutex') = Cardinality(approvedOnes) /\ Len(mutex') \in Nat
      /\ \A i \in 1..Len(mutex') :
           /\ mutex'[i].by = "boot" /\ mutex'[i].tx \in approvedOnes
           /\ \A j \in 1..Len(mutex') : i # j => mutex'[i].tx # mutex'[j].tx
  <2>1. /\ mutex' \in Seq(Call)
        /\ Len(mutex') = Len(<<>>) + Cardinality(approvedOnes)
        /\ Cardinality(approvedOnes) \in Nat
        /\ \A i \in Len(<<>>) + 1..Len(mutex') :
             /\ mutex'[i].by = "boot" /\ mutex'[i].tx \in approvedOnes
             /\ \A j \in Len(<<>>) + 1..Len(mutex') : i # j => mutex'[i].tx # mutex'[j].tx
    BY <1>1, <1>2, <1>3, Resubmitting
  <2>2. Len(<<>>) = 0 /\ Len(<<>>) + 1..Len(mutex') = 1..Len(mutex') OBVIOUS
  <2> QED BY <2>1, <2>2
<1>5. PICK asked \in SUBSET reconfirmed :
        /\ restoredWith(asked, [t \in asked |-> [origin |-> OriginOf[t], type |-> "transaction"]])
        /\ transactions' = [t \in Requests |-> IF t \in reconfirmed \ asked
                                               THEN [transactions[t] EXCEPT !.status = "failed"]
                                               ELSE transactions[t]]
        /\ request' = [r \in Requests |->
                         IF r \in asked THEN "awaiting"
                         ELSE IF request[r] \in {"idle", "fulfilled", "rejected"} THEN request[r]
                         ELSE "lost"] BY DEF restarted, reconfirmed
<1>6. approvals' = asked BY <1>5 DEF restoredWith
<1>7. /\ approval' = Idle /\ approvingTransactionIds' = {}
      /\ UNCHANGED <<accepted, published, clock, networkChanges>> BY DEF restarted
<1> QED BY <1>4, <1>5, <1>6, <1>7 DEF IsAt, Idle

LEMMA RestartRest ==
  ASSUME TransactionsAssumption, ConsentInv, restarted
  PROVE  RestInv'
<1>1. /\ TypeOK /\ transactions \in Metas
      /\ \A t \in Requests : transactions[t] # NoTx => transactions[t] \in TransactionMeta
  BY TypesUnfold, MetaIsThere DEF ConsentInv
<1>2. reconfirmed \subseteq Requests /\ approvedOnes \subseteq Requests
  BY Present DEF reconfirmed, approvedOnes
<1>3. \A t \in Requests : transactions'[t] # NoTx =>
        /\ transactions[t] # NoTx
        /\ transactions'[t].time = transactions[t].time
        /\ transactions'[t].nonce = transactions[t].nonce
        /\ transactions'[t].status = IF t \in reconfirmed \ approvals' THEN "failed"
                                     ELSE transactions[t].status
  <2>1. \A t \in reconfirmed : transactions[t] # NoTx /\ transactions[t] \in TransactionMeta
    BY <1>1, Present DEF reconfirmed
  <2> QED BY <2>1, RestartedAs DEF TransactionMeta
<1>4. HolderExists' /\ TimesAreDistinct' BY <1>3, RestartedAs, TimesKept DEF HolderExists
<1>5. NoncesAreKnown'
  BY <1>3, RestartedAs, Present DEF ConsentInv, NoncesAreKnown, IsAt, OnItsWay, Idle
<1>6. AwaitedIsAsked' BY <1>2, RestartedAs DEF AwaitedIsAsked
<1>7. AddedOnce'
  <2> SUFFICES ASSUME NEW t \in Requests, transactions'[t] # NoTx
               PROVE  /\ request'[t] \notin {"idle", "adding"}
                      /\ request'[t] = "awaiting" => transactions'[t].status = "unapproved"
    BY Present DEF AddedOnce
  <2>1. transactions[t] # NoTx /\ t \in present(transactions) BY <1>3, Present
  <2>2. request[t] \notin {"idle", "adding"} BY <2>1 DEF ConsentInv, AddedOnce
  <2>3. CASE t \in approvals' BY <2>3, RestartedAs, <1>3 DEF reconfirmed
  <2>4. CASE t \notin approvals' BY <2>2, <2>4, RestartedAs
  <2> QED BY <2>3, <2>4
<1>8. \A t \in approvedOnes :
        /\ t \notin reconfirmed /\ t \in Allowed
        /\ request'[t] \notin {"idle", "adding", "awaiting"}
  BY <1>2, RestartedAs DEF approvedOnes, isApproved, reconfirmed, ConsentInv, OnlyAllowed, AddedOnce
<1>9. CallsAreQueuedOnce' BY <1>8, RestartedAs DEF CallsAreQueuedOnce
<1>10. OnlyAllowed' BY <1>3, <1>8, RestartedAs, Present DEF ConsentInv, OnlyAllowed, Allowed
<1> QED BY <1>4, <1>5, <1>6, <1>7, <1>9, <1>10 DEF RestInv

LEMMA InitialConsent ==
  ASSUME TransactionsAssumption, Init
  PROVE  ConsentInv
<1>1. present(transactions) = {} BY Present DEF Init
<1>2. ApprovalsTypeOK /\ ApprovalsAgree BY InitialApprovals DEF Init, ApprovalsInv
<1>3. TypeOK BY <1>2 DEF Init, TypeOK, Idle, Steps
<1>4. /\ HolderExists /\ TimesAreDistinct /\ NoncesAreKnown /\ AwaitedIsAsked
      /\ CallsAreQueuedOnce /\ AddedOnce /\ OnlyAllowed
  BY <1>1 DEF Init, ApprovalsInit, Idle, IsAt, OnItsWay, HolderExists, TimesAreDistinct, NoncesAreKnown,
     AwaitedIsAsked, CallsAreQueuedOnce, AddedOnce, OnlyAllowed
<1> QED BY <1>2, <1>3, <1>4 DEF ConsentInv

LEMMA ConsentStep ==
  ASSUME TransactionsAssumption, ApprovalsAssumption, ConsentInv, [Next]_vars
  PROVE  ConsentInv'
<1>1. CASE UNCHANGED vars
  BY <1>1 DEF vars, approvalVars, requestVars, lockVars, worldVars, ConsentInv, TypeOK, ApprovalsTypeOK,
     ApprovalsAgree, countOf, HolderExists, TimesAreDistinct, NoncesAreKnown, AwaitedIsAsked,
     CallsAreQueuedOnce, AddedOnce, OnlyAllowed, holder, present, IsAt, Allowed
<1>2. CASE Next
  <2>1. TypesInv'
    BY <1>2, RequestTypes, UserTypes, ApprovingTypes, OtherTypes, RestartTypes DEF Next, approvalAdvances
  <2>2. RestInv'
    BY <1>2, RequestRest, AddRest, UserRest, ApprovingRest, ConfirmedRest, OtherRest, RestartRest DEF Next,
       approvalAdvances
  <2> QED BY <2>1, <2>2 DEF ConsentInv, TypesInv, RestInv
<1> QED BY <1>1, <1>2

(***************************************************************************)
(* Nothing is published or approved that its user has not confirmed,       *)
(* whatever is cleared, submitted again or asked again after a restart.    *)
(***************************************************************************)
THEOREM PublishedIsAccepted == Spec => []PublishedWasAccepted
<1>1. ConsentInv => PublishedWasAccepted
  BY DEF ConsentInv, OnlyAllowed, Allowed, PublishedWasAccepted
<1>2. Init => ConsentInv BY InitialConsent, TransactionsAssumption
<1>3. ConsentInv /\ [Next]_vars => ConsentInv'
  BY ConsentStep, TransactionsAssumption, ApprovalsAssumption
<1> QED BY <1>1, <1>2, <1>3, PTL DEF Spec

(***************************************************************************)
(* The user is asked exactly about the calls that wait for an answer.      *)
(***************************************************************************)
THEOREM AskedIsAwaited == Spec => []AwaitedIsAsked
<1>1. ConsentInv => AwaitedIsAsked BY DEF ConsentInv
<1>2. Init => ConsentInv BY InitialConsent, TransactionsAssumption
<1>3. ConsentInv /\ [Next]_vars => ConsentInv'
  BY ConsentStep, TransactionsAssumption, ApprovalsAssumption
<1> QED BY <1>1, <1>2, <1>3, PTL DEF Spec

-----------------------------------------------------------------------------
(* What is published, once and with a nonce of its own.                    *)

SubmittedDiffer ==
  \A t, u \in present(transactions) :
    t # u /\ transactions[t].status = "submitted" /\ transactions[u].status = "submitted" =>
      transactions[t].nonce # transactions[u].nonce

PublicationParts ==
  QueuedOnce /\ ApprovedIsNext /\ NextNonceIsFree /\ PublishedIsOver /\ SubmittedDiffer

LEMMA PublicationUnfolds ==
  /\ PublicationInv <=> (networkChanges = 0 => PublicationParts)
  /\ PublicationInv' <=> (networkChanges' = 0 => PublicationParts')
BY DEF PublicationInv, PublicationParts, NoncesDistinct, SubmittedDiffer

\* Transactions leave the list, or are over without having been queued.
LEMMA Fading ==
  ASSUME TransactionsAssumption, ConsentInv, PublicationParts,
         UNCHANGED <<mutex, approval, approvingTransactionIds, published>>,
         \A t \in Requests : transactions'[t] # NoTx =>
           /\ transactions[t] # NoTx
           /\ transactions'[t].nonce = transactions[t].nonce
           /\ \/ transactions'[t].status = transactions[t].status
              \/ /\ transactions'[t].status \in {"confirmed", "dropped", "failed"}
                 /\ \A i \in 1..Len(mutex) : mutex[i].tx = t => i = 1 /\ IsAt({"leaked"}),
         \A t \in Requests : published[t] > 0 => request'[t] \notin {"idle", "adding", "awaiting"}
  PROVE  PublicationParts'
BY QueueIs, Present DEF ConsentInv, holder, PublicationParts, QueuedOnce, IsAt, ApprovedIsNext, GoesNext,
   NextNonceIsFree, PublishedIsOver, SubmittedDiffer

\* A call queues itself behind the others, or fails at once.
LEMMA Appending ==
  ASSUME TransactionsAssumption, ConsentInv, PublicationParts,
         NEW r \in Requests, request[r] \in {"adding", "awaiting"},
         UNCHANGED <<approval, approvingTransactionIds, published>>,
         \/ mutex' = mutex
         \/ /\ mutex' = Append(mutex, [tx |-> r, by |-> "request"])
            /\ transactions'[r] # NoTx => transactions'[r].status = "unapproved",
         transactions'[r] # NoTx => transactions'[r].status \in {"unapproved", "failed"},
         \A t \in Requests \ {r} : transactions'[t] \in {transactions[t], NoTx},
         \A t \in Requests \ {r} : request'[t] = request[t]
  PROVE  PublicationParts'
<1>1. /\ TypeOK /\ Len(mutex) \in Nat
      /\ \A i \in 1..Len(mutex) : mutex[i].tx \in Requests /\ mutex[i].tx # r
      /\ mutex # <<>> => 1 \in 1..Len(mutex) /\ holder = mutex[1].tx
  BY QueueIs DEF ConsentInv, CallsAreQueuedOnce
<1>2. [tx |-> r, by |-> "request"] \in Call BY DEF Call
<1>3. /\ \A i \in 1..Len(mutex) : mutex'[i] = mutex[i]
      /\ \/ Len(mutex') = Len(mutex)
         \/ /\ Len(mutex') = Len(mutex) + 1 /\ mutex'[Len(mutex) + 1].tx = r
            /\ transactions'[r] # NoTx => transactions'[r].status = "unapproved"
      /\ mutex # <<>> => mutex' # <<>> /\ holder' = holder BY <1>1, <1>2, Queueing DEF holder
<1>4. published[r] = 0 /\ \A t \in Requests : published[t] \in Nat
  BY <1>1, TypesUnfold DEF PublicationParts, PublishedIsOver
<1>5. ~IsAt({"start"}) => mutex # <<>> BY DEF ConsentInv, HolderExists
<1>6. \A i \in 1..Len(mutex') :
        i \in 1..Len(mutex) \/ (i = Len(mutex) + 1 /\ mutex'[i].tx = r
                                /\ (transactions'[r] # NoTx => transactions'[r].status = "unapproved"))
  BY <1>1, <1>3
<1>7. QueuedOnce'
  <2>1. \A i, j \in 1..Len(mutex') : i # j => mutex'[i].tx # mutex'[j].tx
    <3> SUFFICES ASSUME NEW i \in 1..Len(mutex'), NEW j \in 1..Len(mutex'), i # j
                 PROVE  mutex'[i].tx # mutex'[j].tx OBVIOUS
    <3>1. CASE i \in 1..Len(mutex) /\ j \in 1..Len(mutex)
      BY <1>3, <3>1 DEF PublicationParts, QueuedOnce
    <3>2. CASE ~(i \in 1..Len(mutex) /\ j \in 1..Len(mutex)) BY <1>1, <1>3, <1>6, <3>2
    <3> QED BY <3>1, <3>2
  <2>2. approvingTransactionIds' = IF IsAt({"start", "leaked"})' THEN {} ELSE {holder'}
    BY <1>3, <1>5 DEF PublicationParts, QueuedOnce, IsAt
  <2> QED BY <2>1, <2>2 DEF QueuedOnce
<1>8. ApprovedIsNext' BY <1>3, Present, <1>1, <1>6, <1>5 DEF PublicationParts, ApprovedIsNext, IsAt
<1>9. NextNonceIsFree'
  <2>1. \A t \in present(transactions)' : GoesNext(t)' => GoesNext(t) /\ t # r
    <3> SUFFICES ASSUME NEW t \in Requests, transactions'[t] # NoTx, GoesNext(t)'
                 PROVE  GoesNext(t) /\ t # r BY Present
    <3>1. CASE transactions'[t].status = "approved" BY <3>1 DEF GoesNext
    <3>2. CASE mutex' # <<>> /\ t = holder' /\ IsAt(OnItsWay)'
      BY <1>1, <1>3, <1>5, <3>2 DEF GoesNext, IsAt, OnItsWay
    <3> QED BY <3>1, <3>2 DEF GoesNext
  <2>2. \A u \in present(transactions)' : transactions'[u].status = "submitted" =>
          u # r /\ u \in present(transactions) /\ transactions'[u] = transactions[u] BY Present
  <2>3. \A t \in present(transactions)' : t # r => t \in present(transactions)
                                                  /\ transactions'[t] = transactions[t] BY Present
  <2> QED BY <2>1, <2>2, <2>3 DEF PublicationParts, NextNonceIsFree
<1>10. PublishedIsOver'
  <2> SUFFICES ASSUME NEW t \in Requests, published'[t] > 0
               PROVE  /\ published'[t] = 1
                      /\ request'[t] \notin {"idle", "adding", "awaiting"}
                      /\ t \in present(transactions)' =>
                           transactions'[t].status \notin {"unapproved", "approved"}
                      /\ \A i \in 1..Len(mutex') :
                           mutex'[i].tx = t => i = 1 /\ IsAt({"published", "leaked"})'
    BY DEF PublishedIsOver
  <2>1. t # r /\ published[t] > 0 BY <1>4
  <2>2. t \in present(transactions)' => transactions'[t] = transactions[t] /\ t \in present(transactions)
    BY <2>1, Present
  <2>3. \A i \in 1..Len(mutex') : mutex'[i].tx = t => i \in 1..Len(mutex) /\ mutex[i].tx = t
    BY <1>3, <1>6, <2>1
  <2> QED BY <2>1, <2>2, <2>3 DEF PublicationParts, PublishedIsOver, IsAt
<1>11. SubmittedDiffer' BY Present DEF PublicationParts, SubmittedDiffer
<1> QED BY <1>7, <1>8, <1>9, <1>10, <1>11 DEF PublicationParts

\* The holder leaves, with its transaction gone, failed or submitted.
LEMMA Ending ==
  ASSUME TransactionsAssumption, ConsentInv, PublicationParts, mutex # <<>>, leaveApproval,
         UNCHANGED published,
         \A t \in Requests \ {holder} : transactions'[t] = transactions[t],
         transactions'[holder] # NoTx =>
           \/ transactions'[holder].status = "failed"
           \/ /\ IsAt({"published"}) /\ transactions[holder] # NoTx
              /\ transactions'[holder].status = "submitted"
              /\ transactions'[holder].nonce = transactions[holder].nonce
  PROVE  PublicationParts'
<1>1. /\ TypeOK /\ request \in [Requests -> Steps] /\ holder \in Requests
      /\ Len(mutex) \in Nat /\ Len(mutex') = Len(mutex) - 1
      /\ \A i \in 1..Len(mutex') : mutex'[i] = mutex[i + 1] /\ i + 1 \in 1..Len(mutex) /\ i + 1 > 1
      /\ \A i \in 1..Len(mutex) : mutex[i].tx \in Requests
      /\ holder = mutex[1].tx /\ 1 \in 1..Len(mutex)
      /\ IsAt({"start"})' /\ ~IsAt(OnItsWay)'
  BY TypesUnfold, QueueIs DEF ConsentInv, leaveApproval, Idle, IsAt, OnItsWay
<1>2. \A i \in 1..Len(mutex') : mutex'[i].tx # holder BY <1>1 DEF PublicationParts, QueuedOnce
<1>3. \A t \in Requests : transactions'[t] # NoTx => transactions'[t].status # "approved"
  BY <1>1, Present DEF PublicationParts, ApprovedIsNext
<1>4. QueuedOnce'
  <2>1. \A i, j \in 1..Len(mutex') : i # j => mutex'[i].tx # mutex'[j].tx
    <3> SUFFICES ASSUME NEW i \in 1..Len(mutex'), NEW j \in 1..Len(mutex'), i # j
                 PROVE  mutex'[i].tx # mutex'[j].tx OBVIOUS
    <3>1. i + 1 # j + 1 /\ i + 1 \in 1..Len(mutex) /\ j + 1 \in 1..Len(mutex) BY <1>1
    <3>2. mutex[i + 1].tx # mutex[j + 1].tx BY <3>1 DEF PublicationParts, QueuedOnce
    <3> QED BY <1>1, <3>2
  <2>2. approvingTransactionIds' = {} BY DEF leaveApproval, PublicationParts, QueuedOnce
  <2> QED BY <1>1, <2>1, <2>2 DEF QueuedOnce, IsAt
<1>5. ApprovedIsNext'
  <2>1. \A i \in 1..Len(mutex') : transactions'[mutex'[i].tx] # NoTx =>
          transactions'[mutex'[i].tx].status \in {"unapproved", "approved"}
    <3> SUFFICES ASSUME NEW i \in 1..Len(mutex'), transactions'[mutex'[i].tx] # NoTx
                 PROVE  transactions'[mutex'[i].tx].status \in {"unapproved", "approved"} OBVIOUS
    <3>1. transactions'[mutex'[i].tx] = transactions[mutex[i + 1].tx] BY <1>1, <1>2
    <3> QED BY <1>1, <3>1 DEF PublicationParts, ApprovedIsNext
  <2> QED BY <1>1, <1>3, <2>1, Present DEF ApprovedIsNext, IsAt
<1>6. NextNonceIsFree' BY <1>1, <1>3, Present DEF NextNonceIsFree, GoesNext
<1>7. PublishedIsOver'
  <2> SUFFICES ASSUME NEW t \in Requests, published'[t] > 0
               PROVE  /\ published'[t] = 1
                      /\ request'[t] \notin {"idle", "adding", "awaiting"}
                      /\ t \in present(transactions)' =>
                           transactions'[t].status \notin {"unapproved", "approved"}
                      /\ \A i \in 1..Len(mutex') :
                           mutex'[i].tx = t => i = 1 /\ IsAt({"published", "leaked"})'
    BY DEF PublishedIsOver
  <2>1. /\ published[t] = 1 /\ request[t] \notin {"idle", "adding", "awaiting"}
        /\ t \in present(transactions) => transactions[t].status \notin {"unapproved", "approved"}
        /\ \A i \in 1..Len(mutex) : mutex[i].tx = t => i = 1
    BY DEF PublicationParts, PublishedIsOver
  <2>2. request'[t] \in {request[t], "finishing"} BY <1>1 DEF leaveApproval
  <2>3. t \in present(transactions)' => transactions'[t].status \notin {"unapproved", "approved"}
    BY <2>1, Present
  <2>4. \A i \in 1..Len(mutex') : mutex'[i].tx # t BY <1>1, <2>1
  <2> QED BY <2>1, <2>2, <2>3, <2>4
<1>8. SubmittedDiffer'
  <2> SUFFICES ASSUME NEW t \in Requests, NEW u \in Requests, t # u,
                      transactions'[t] # NoTx, transactions'[u] # NoTx,
                      transactions'[t].status = "submitted", transactions'[u].status = "submitted"
               PROVE  transactions'[t].nonce # transactions'[u].nonce BY Present DEF SubmittedDiffer
  <2>1. CASE t # holder /\ u # holder BY <2>1, Present DEF PublicationParts, SubmittedDiffer
  <2>2. ASSUME NEW v \in Requests \ {holder}, transactions[v] # NoTx,
               transactions[v].status = "submitted", transactions'[holder] # NoTx,
               transactions'[holder].status = "submitted"
        PROVE  transactions'[holder].nonce # transactions[v].nonce
    BY <2>2, <1>1, Present DEF GoesNext, IsAt, OnItsWay, PublicationParts, NextNonceIsFree
  <2> QED BY <2>1, <2>2
<1> QED BY <1>4, <1>5, <1>6, <1>7, <1>8 DEF PublicationParts

\* The holder goes on by one step.
LEMMA GoingOn ==
  ASSUME TransactionsAssumption, ConsentInv, PublicationParts, mutex # <<>>,
         UNCHANGED <<mutex, request>>,
         IsAt({"start", "nonce", "signing", "publishing"}),
         approval'.step \in {"nonce", "signing", "publishing", "published"},
         approvingTransactionIds' = {holder},
         published' = IF approval'.step = "published" THEN [published EXCEPT ![holder] = @ + 1]
                      ELSE published,
         \A t \in Requests \ {holder} : transactions'[t] = transactions[t],
         transactions'[holder] # NoTx =>
           /\ transactions'[holder].status =
                CASE approval'.step = "nonce" -> "unapproved"
                  [] approval'.step = "signing" -> "approved"
                  [] OTHER -> "signed"
           /\ approval'.step # "nonce" => \A u \in Requests \ {holder} :
                transactions[u] # NoTx /\ transactions[u].status = "submitted" =>
                  transactions'[holder].nonce # transactions[u].nonce
  PROVE  PublicationParts'
<1>1. /\ TypeOK /\ holder \in Requests /\ holder' = holder
      /\ published \in [Requests -> Nat]
      /\ \A i \in 1..Len(mutex) : mutex[i].tx \in Requests
      /\ holder = mutex[1].tx /\ 1 \in 1..Len(mutex) /\ Len(mutex) \in Nat
  BY TypesUnfold, QueueIs DEF ConsentInv, holder
<1>2. \A i \in 1..Len(mutex) : i > 1 => mutex[i].tx \in Requests \ {holder}
  <2>1. \A i, j \in 1..Len(mutex) : i # j => mutex[i].tx # mutex[j].tx
    BY DEF PublicationParts, QueuedOnce
  <2> QED BY <1>1, <2>1
<1>3. \A t \in Requests \ {holder} : transactions[t] # NoTx => transactions[t].status # "approved"
  BY Present DEF PublicationParts, ApprovedIsNext
<1>4. published[holder] = 0 BY <1>1 DEF PublicationParts, PublishedIsOver, IsAt
<1>5. QueuedOnce' BY <1>1 DEF PublicationParts, QueuedOnce, IsAt
<1>6. ApprovedIsNext'
  <2>1. \A t \in present(transactions)' : transactions'[t].status = "approved" =>
          mutex' # <<>> /\ t = holder' /\ IsAt({"start", "signing"})'
    BY <1>1, <1>3, Present DEF IsAt
  <2>2. ASSUME NEW i \in 1..Len(mutex'), transactions'[mutex'[i].tx] # NoTx
        PROVE  IF i > 1 \/ IsAt({"start", "nonce"})'
               THEN transactions'[mutex'[i].tx].status \in {"unapproved", "approved"}
               ELSE /\ IsAt({"signing"})' => transactions'[mutex'[i].tx].status = "approved"
                    /\ IsAt({"publishing", "published"})' =>
                         transactions'[mutex'[i].tx].status = "signed"
    BY <1>1, <2>2, <1>2 DEF IsAt, PublicationParts, ApprovedIsNext
  <2> QED BY <2>1, <2>2 DEF ApprovedIsNext
<1>7. NextNonceIsFree'
  <2> SUFFICES ASSUME NEW t \in Requests, NEW u \in Requests, transactions'[t] # NoTx,
                      transactions'[u] # NoTx, GoesNext(t)', u # t,
                      transactions'[u].status = "submitted"
               PROVE  transactions'[t].nonce # transactions'[u].nonce BY Present DEF NextNonceIsFree
  <2>1. t = holder BY <1>1, <1>3 DEF GoesNext
  <2>2. approval'.step # "nonce" BY <2>1 DEF GoesNext, IsAt, OnItsWay
  <2> QED BY <2>1, <2>2
<1>8. PublishedIsOver'
  <2> SUFFICES ASSUME NEW t \in Requests, published'[t] > 0
               PROVE  /\ published'[t] = 1
                      /\ request'[t] \notin {"idle", "adding", "awaiting"}
                      /\ t \in present(transactions)' =>
                           transactions'[t].status \notin {"unapproved", "approved"}
                      /\ \A i \in 1..Len(mutex') :
                           mutex'[i].tx = t => i = 1 /\ IsAt({"published", "leaked"})'
    BY DEF PublishedIsOver
  <2>1. CASE t = holder BY <1>1, <1>4, <2>1, Present, <1>2 DEF ConsentInv, CallsAreQueuedOnce, IsAt
  <2>2. CASE t # holder BY <1>1, <2>2, Present DEF PublicationParts, PublishedIsOver
  <2> QED BY <2>1, <2>2
<1>9. SubmittedDiffer' BY Present DEF PublicationParts, SubmittedDiffer
<1> QED BY <1>5, <1>6, <1>7, <1>8, <1>9 DEF PublicationParts

\* What is still approved when the wallet is opened was the next to be signed.
LEMMA Reopening ==
  ASSUME TransactionsAssumption, ConsentInv, PublicationParts, restarted
  PROVE  PublicationParts'
<1>1. /\ TypeOK /\ transactions \in Metas /\ request \in [Requests -> Steps]
      /\ \A t \in Requests : transactions[t] # NoTx => transactions[t] \in TransactionMeta
  BY TypesUnfold, MetaIsThere DEF ConsentInv
<1>2. \A t \in Requests : transactions'[t] # NoTx =>
        /\ transactions[t] # NoTx
        /\ transactions'[t].nonce = transactions[t].nonce
        /\ transactions'[t].status \in {transactions[t].status, "failed"}
        /\ transactions[t].status # "unapproved" => transactions'[t] = transactions[t]
  <2> SUFFICES ASSUME NEW t \in Requests, transactions'[t] # NoTx
               PROVE  /\ transactions[t] # NoTx
                      /\ transactions'[t].nonce = transactions[t].nonce
                      /\ transactions'[t].status \in {transactions[t].status, "failed"}
                      /\ transactions[t].status # "unapproved" => transactions'[t] = transactions[t]
    OBVIOUS
  <2>1. CASE t \in reconfirmed \ approvals'
    <3>1. transactions'[t] = [transactions[t] EXCEPT !.status = "failed"] BY <2>1, RestartedAs
    <3>2. transactions[t] \in TransactionMeta /\ transactions[t].status = "unapproved"
      BY <1>1, <2>1, Present DEF reconfirmed
    <3> QED BY <3>1, <3>2, <1>1, <2>1, Present DEF TransactionMeta, reconfirmed
  <2>2. CASE t \notin reconfirmed \ approvals' BY <2>2, RestartedAs
  <2> QED BY <2>1, <2>2
<1>3. \A t \in approvedOnes : /\ t \in Requests /\ transactions[t] # NoTx
                              /\ transactions[t].status = "approved"
                              /\ mutex # <<>> /\ t = holder
                              /\ transactions'[t] = transactions[t]
  <2>1. \A t \in approvedOnes : /\ t \in Requests /\ transactions[t] # NoTx
                                /\ transactions[t].status = "approved" /\ t \notin reconfirmed
    BY Present DEF approvedOnes, isApproved, reconfirmed
  <2> QED BY <2>1, Present, RestartedAs DEF PublicationParts, ApprovedIsNext
<1>4. /\ IsAt({"start"})' /\ ~IsAt(OnItsWay)' /\ approvingTransactionIds' = {}
      /\ published' = published
      /\ Len(mutex') = Cardinality(approvedOnes) /\ Len(mutex') \in Nat
      /\ \A i \in 1..Len(mutex') :
              /\ mutex'[i].tx \in approvedOnes
              /\ \A j \in 1..Len(mutex') : i # j => mutex'[i].tx # mutex'[j].tx
      /\ approvals' \subseteq reconfirmed BY RestartedAs DEF IsAt, Idle, OnItsWay
<1>5. QueuedOnce' BY <1>4 DEF QueuedOnce, IsAt
<1>6. ApprovedIsNext'
  <2>1. ASSUME NEW t \in Requests, transactions'[t] # NoTx, transactions'[t].status = "approved"
        PROVE  mutex' # <<>> /\ t = holder'
    <3>1. t \in approvedOnes BY <1>2, <2>1, Present DEF approvedOnes, isApproved
    <3>2. Cardinality(approvedOnes) # 0
      BY <1>3, FS_Subset, <3>1, FS_EmptySet DEF TransactionsAssumption
    <3>3. 1 \in 1..Len(mutex') BY <1>4, <3>2
    <3>4. mutex'[1].tx = holder /\ t = holder BY <1>3, <1>4, <3>1, <3>3
    <3>5. mutex' # <<>> BY <3>3
    <3>6. mutex' \in Seq(Call) BY <1>1, RestartTypes, ApprovalsAssumption DEF TypesInv, TypeOK
    <3>7. Head(mutex') = mutex'[1] BY <3>5, <3>6
    <3> QED BY <3>4, <3>5, <3>7 DEF holder
  <2> QED BY <1>3, <1>4, <2>1, Present DEF ApprovedIsNext, IsAt
<1>7. NextNonceIsFree'
  <2> SUFFICES ASSUME NEW t \in Requests, NEW u \in Requests, transactions'[t] # NoTx,
                      transactions'[u] # NoTx, GoesNext(t)', u # t,
                      transactions'[u].status = "submitted"
               PROVE  transactions'[t].nonce # transactions'[u].nonce BY Present DEF NextNonceIsFree
  <2>1. transactions[t].status = "approved" /\ transactions[u].status = "submitted"
    BY <1>2, <1>4 DEF GoesNext
  <2> QED BY <1>2, <2>1, Present DEF PublicationParts, NextNonceIsFree, GoesNext
<1>8. PublishedIsOver'
  <2> SUFFICES ASSUME NEW t \in Requests, published[t] > 0
               PROVE  /\ published[t] = 1
                      /\ request'[t] \notin {"idle", "adding", "awaiting"}
                      /\ transactions'[t] # NoTx =>
                           transactions'[t].status \notin {"unapproved", "approved"}
                      /\ \A i \in 1..Len(mutex') : mutex'[i].tx # t
    BY <1>4, Present DEF PublishedIsOver
  <2>1. /\ published[t] = 1 /\ request[t] \notin {"idle", "adding", "awaiting"}
        /\ transactions[t] # NoTx => transactions[t].status \notin {"unapproved", "approved"}
    BY Present DEF PublicationParts, PublishedIsOver
  <2>2. t \notin approvals' /\ t \notin approvedOnes BY <1>3, <1>4, <2>1, Present DEF reconfirmed
  <2>3. request'[t] \in {request[t], "lost"} BY <2>2, RestartedAs
  <2> QED BY <1>2, <1>4, <2>1, <2>2, <2>3
<1>9. SubmittedDiffer' BY <1>2, Present DEF PublicationParts, SubmittedDiffer
<1> QED BY <1>5, <1>6, <1>7, <1>8, <1>9 DEF PublicationParts

\* A transaction gets no further back, and keeps its nonce.
Advances(t) ==
  transactions[t] # NoTx /\ transactions'[t] # NoTx =>
    /\ Rank(transactions'[t].status) >= Rank(transactions[t].status)
    /\ transactions[t].nonce # NoNonce => transactions'[t].nonce = transactions[t].nonce

LEMMA Ranked ==
  /\ Rank("unapproved") = 0 /\ Rank("approved") = 1 /\ Rank("signed") = 2 /\ Rank("submitted") = 3
  /\ \A status \in {"confirmed", "dropped", "failed"} : Rank(status) = 4
  /\ \A status : Rank(status) \in 0..4
BY DEF Rank

LEMMA CallsPublication ==
  ASSUME TransactionsAssumption, ConsentInv, PublicationParts, NEW r \in Requests,
         \/ addRequested(r) \/ addFails(r) \/ addTransaction(r) \/ joinTransaction(r)
         \/ userAccepts(r) \/ settle(r)
  PROVE  PublicationParts' /\ \A t \in Requests : Advances(t)
<1>1. TypeOK /\ request \in [Requests -> Steps] BY TypesUnfold DEF ConsentInv
<1>2. CASE addRequested(r) \/ addFails(r) \/ joinTransaction(r) \/ settle(r)
  <2>1. PICK step \in Steps :
          /\ request' = [request EXCEPT ![r] = step]
          /\ \/ request[r] \in {"idle", "adding"}
             \/ request[r] = "finishing" /\ step \notin {"idle", "adding", "awaiting"}
    BY <1>2 DEF addRequested, addFails, joinTransaction, settle, Steps
  <2>2. UNCHANGED <<transactions, mutex, approval, approvingTransactionIds, published>>
    BY <1>2 DEF addRequested, addFails, joinTransaction, settle, lockVars
  <2>3. \A t \in Requests : published[t] > 0 => request'[t] \notin {"idle", "adding", "awaiting"}
    BY <1>1, <2>1 DEF PublicationParts, PublishedIsOver
  <2>4. PublicationParts' BY <2>2, <2>3, Fading
  <2>5. \A t \in Requests : Advances(t) BY <2>2, Ranked DEF Advances
  <2> QED BY <2>4, <2>5
<1>3. CASE addTransaction(r)
  <2>1. transactions[r] = NoTx /\ request[r] = "adding"
    BY <1>1, <1>3, Present DEF addTransaction, ConsentInv, AddedOnce
  <2>2. PICK status \in {"unapproved", "failed"} :
          /\ addMetadata(r, status)
          /\ \/ mutex' = mutex
             \/ /\ mutex' = Append(mutex, [tx |-> r, by |-> "request"]) /\ status = "unapproved"
    BY <1>3 DEF addTransaction
  <2>3. /\ transactions'[r] = [status |-> status, nonce |-> NoNonce, time |-> clock]
        /\ \A t \in Requests \ {r} : transactions'[t] \in {transactions[t], NoTx}
    BY <1>1, <2>1, <2>2, AddingMetadata DEF Statuses
  <2>4. /\ UNCHANGED <<approval, approvingTransactionIds, published>>
        /\ \A t \in Requests \ {r} : request'[t] = request[t] BY <1>1, <1>3 DEF addTransaction
  <2>5. transactions'[r].status = status BY <2>3
  <2>6. PublicationParts' BY <2>1, <2>2, <2>3, <2>4, <2>5, Appending
  <2>7. \A t \in Requests : Advances(t) BY <2>1, <2>3, Ranked DEF Advances
  <2> QED BY <2>6, <2>7
<1>4. CASE userAccepts(r)
  BY <1>1, <1>4, Present, Appending, Ranked DEF userAccepts, ConsentInv, AddedOnce, Advances
<1> QED BY <1>2, <1>3, <1>4

LEMMA CancelPublication ==
  ASSUME TransactionsAssumption, ConsentInv, PublicationParts,
         (\E r \in Requests : userRejects(r)) \/ approvalsCleared
  PROVE  PublicationParts' /\ \A t \in Requests : Advances(t)
<1>1. TypeOK BY DEF ConsentInv
<1>2. PICK rs \in SUBSET Requests : cancelTransaction(rs)
  BY DEF approvalsCleared, ConsentInv, TypeOK, ApprovalsTypeOK, TransactionsAssumption, userRejects
<1>3. /\ request' = [r \in Requests |-> IF r \in rs THEN "rejected" ELSE request[r]]
      /\ \A t \in Requests : transactions'[t] \in {transactions[t], NoTx}
      /\ UNCHANGED <<mutex, approval, approvingTransactionIds, published>>
  BY <1>1, <1>2, Cancelling DEF cancelTransaction, lockVars
<1>4. \A t \in Requests : published[t] > 0 => request'[t] \notin {"idle", "adding", "awaiting"}
  BY <1>3 DEF PublicationParts, PublishedIsOver
<1>5. PublicationParts' BY <1>3, <1>4, Fading
<1>6. \A t \in Requests : Advances(t) BY <1>3, Ranked DEF Advances
<1> QED BY <1>5, <1>6

LEMMA ApprovalPublication ==
  ASSUME TransactionsAssumption, ConsentInv, PublicationParts, approvalAdvances
  PROVE  PublicationParts' /\ \A t \in Requests : Advances(t)
<1>1. mutex # <<>>
  BY DEF approvalAdvances, transactionNotFound, approvalStarts, nonceLockGranted, approvalFails, signed,
     networkTakes, submitted
<1>2. /\ TypeOK /\ holder \in Requests /\ transactions \in Metas /\ published \in [Requests -> Nat]
      /\ 1 \in 1..Len(mutex) /\ holder = mutex[1].tx /\ Head(mutex) = mutex[1]
      /\ approval = [step |-> approval.step, nonce |-> approval.nonce]
      /\ request \in [Requests -> Steps] BY <1>1, TypesUnfold, QueueIs DEF ConsentInv
<1>3. transactions[holder] # NoTx => transactions[holder] \in TransactionMeta BY <1>2, MetaIsThere
<1>4. /\ IsAt({"start", "leaked"}) => approvingTransactionIds = {}
      /\ ~IsAt({"start", "leaked"}) => approvingTransactionIds = {holder}
  BY DEF PublicationParts, QueuedOnce
<1>5. transactions[holder] # NoTx =>
        /\ IsAt({"start", "nonce"}) => transactions[holder].status \in {"unapproved", "approved"}
        /\ IsAt({"signing"}) => transactions[holder].status = "approved"
        /\ IsAt({"publishing", "published"}) => transactions[holder].status = "signed"
  BY <1>2 DEF PublicationParts, ApprovedIsNext, IsAt
<1>6. transactions[holder] # NoTx =>
        /\ transactions[holder].status = "unapproved" => transactions[holder].nonce = NoNonce
        /\ transactions[holder].status = "approved" => transactions[holder].nonce # NoNonce
        /\ IsAt(OnItsWay) => transactions[holder].nonce = approval.nonce
        /\ IsAt({"nonce"}) => /\ transactions[holder].nonce = NoNonce /\ approval.nonce = NoNonce
                              /\ transactions[holder].status = "unapproved"
  BY <1>2, <1>5, Present, StoreAssumption DEF ConsentInv, NoncesAreKnown, StoreAssumption, IsAt
<1>7. transactions[holder] # NoTx /\ GoesNext(holder) =>
        \A u \in Requests \ {holder} :
          transactions[u] # NoTx /\ transactions[u].status = "submitted" =>
            transactions[holder].nonce # transactions[u].nonce
  BY <1>2, Present DEF PublicationParts, NextNonceIsFree
<1>8. ASSUME NEW nonce \in Nat, transactions[holder] # NoTx, approvedWith(nonce)
      PROVE  /\ \A t \in Requests \ {holder} : transactions'[t] = transactions[t]
             /\ transactions'[holder].status = "approved"
             /\ transactions'[holder].nonce = nonce
             /\ approval'.step = "signing"
  BY <1>2, <1>3, <1>8 DEF approvedWith, Metas, TransactionMeta
<1>9. ASSUME \A t \in Requests \ {holder} : transactions'[t] = transactions[t], Advances(holder)
      PROVE  \A t \in Requests : Advances(t) BY <1>9, Ranked DEF Advances
<1>10. CASE transactionNotFound
  <2>1. /\ transactions[holder] = NoTx
        /\ UNCHANGED <<transactions, mutex, approvingTransactionIds, published>>
        /\ approval.step = "start" /\ approval'.step = "leaked"
        /\ \A t \in Requests : request'[t] \in {request[t], "finishing"}
    BY <1>2, <1>10 DEF transactionNotFound
  <2>2. holder' = holder BY <2>1 DEF holder
  <2>3. QueuedOnce' /\ SubmittedDiffer'
    BY <2>1, Present DEF PublicationParts, QueuedOnce, SubmittedDiffer, IsAt
  <2>4. ApprovedIsNext' BY <2>1, Present, <1>2, QueueIs DEF PublicationParts, ApprovedIsNext, IsAt
  <2>5. NextNonceIsFree'
    BY <2>1, <2>2, Present DEF PublicationParts, NextNonceIsFree, GoesNext, IsAt, OnItsWay
  <2>6. PublishedIsOver' BY <2>1, Present DEF PublicationParts, PublishedIsOver, IsAt
  <2>7. \A t \in Requests : Advances(t) BY <2>1, Ranked DEF Advances
  <2> QED BY <2>3, <2>4, <2>5, <2>6, <2>7 DEF PublicationParts
<1>11. CASE approvalStarts
  <2>1. /\ IsAt({"start"}) /\ transactions[holder] # NoTx /\ UNCHANGED published
        /\ approvingTransactionIds = {}
        /\ UNCHANGED <<mutex, request>> /\ approvingTransactionIds' = {holder}
    BY <1>4, <1>11 DEF approvalStarts, IsAt
  <2>2. CASE approvedWith(transactions[holder].nonce) /\ transactions[holder].nonce # NoNonce
    <3>1. transactions[holder].nonce \in Nat /\ transactions[holder].status = "approved"
      BY <1>3, <1>5, <1>6, <2>1, <2>2 DEF TransactionMeta, IsAt
    <3>2. GoesNext(holder) BY <3>1 DEF GoesNext
    <3>3. /\ \A t \in Requests \ {holder} : transactions'[t] = transactions[t]
          /\ transactions'[holder].status = "approved"
          /\ transactions'[holder].nonce = transactions[holder].nonce
          /\ approval'.step = "signing" BY <1>8, <2>1, <2>2, <3>1
    <3>4. PublicationParts' BY <1>1, <1>7, <2>1, <3>2, <3>3, GoingOn DEF IsAt
    <3> QED BY <1>9, <3>1, <3>3, <3>4, Ranked DEF Advances
  <2>3. CASE /\ approval' = [approval EXCEPT !.step = "nonce"]
             /\ transactions[holder].nonce = NoNonce /\ UNCHANGED transactions
    BY <1>5, <1>6, <2>1, <2>3, <1>2, <1>1, GoingOn, <1>9, Ranked DEF IsAt, Advances
  <2> QED BY <1>11, <2>1, <2>2, <2>3 DEF approvalStarts
<1>12. CASE nonceLockGranted
  <2>1. PICK nonce \in 0..networkCount + Cardinality(Requests) :
          suggestsNonce(nonce) /\ approvedWith(nonce) BY <1>12 DEF nonceLockGranted
  <2>2. nonce \in Nat BY FS_CardinalityType, <1>2, TypesUnfold DEF TransactionsAssumption
  <2>3. /\ IsAt({"nonce"}) /\ transactions[holder] # NoTx
        /\ UNCHANGED <<mutex, request, published>> /\ approvingTransactionIds' = {holder}
    BY <1>4, <1>12 DEF nonceLockGranted, IsAt
  <2>4. nonce \notin noncesWith(transactions, {"submitted"}) BY <2>1 DEF suggestsNonce, IsNextNonce
  <2>5. \A u \in Requests : transactions[u] # NoTx /\ transactions[u].status = "submitted" =>
          nonce # transactions[u].nonce BY <2>4, Present DEF noncesWith
  <2>6. /\ \A t \in Requests \ {holder} : transactions'[t] = transactions[t]
        /\ transactions'[holder].status = "approved"
        /\ transactions'[holder].nonce = nonce
        /\ approval'.step = "signing" BY <1>8, <2>1, <2>2, <2>3
  <2>7. PublicationParts' BY <1>1, <2>3, <2>5, <2>6, GoingOn DEF IsAt
  <2>8. Advances(holder) BY <1>6, <2>3, <2>6, Ranked DEF Advances, IsAt
  <2> QED BY <1>9, <2>6, <2>7, <2>8
<1>13. CASE approvalFails
  <2>1. \/ transactions' = transactions /\ transactions[holder] = NoTx
        \/ /\ transactions[holder] # NoTx
           /\ transactions' = [transactions EXCEPT ![holder] =
                 [status |-> "failed", nonce |-> approval.nonce, time |-> transactions[holder].time]]
    BY <1>13 DEF approvalFails, failTransaction, updateTransaction
  <2>2. \A t \in Requests \ {holder} : transactions'[t] = transactions[t] BY <1>2, <2>1 DEF Metas
  <2>3. transactions'[holder] # NoTx =>
          /\ transactions[holder] # NoTx /\ transactions'[holder].status = "failed"
          /\ transactions'[holder].nonce = approval.nonce BY <1>2, <2>1 DEF Metas
  <2>4. IsAt({"nonce"}) \/ IsAt(OnItsWay) BY <1>13 DEF approvalFails, IsAt, OnItsWay
  <2>5. PublicationParts' BY <1>1, <1>13, <2>2, <2>3, Ending DEF approvalFails
  <2>6. Advances(holder) BY <1>6, <2>3, <2>4, Ranked DEF Advances
  <2> QED BY <1>9, <2>2, <2>5, <2>6
<1>14. CASE signed
  <2>1. \A t \in Requests \ {holder} : transactions'[t] = transactions[t]
    BY <1>2, <1>14 DEF signed, withStatus, Metas
  <2>2. transactions'[holder] # NoTx =>
           /\ transactions[holder] # NoTx
           /\ transactions'[holder].status = "signed"
           /\ transactions'[holder].nonce = transactions[holder].nonce
    BY <1>2, <1>3, <1>14 DEF signed, withStatus, Metas, TransactionMeta
  <2>3. /\ IsAt({"signing"}) /\ approval'.step = "publishing"
        /\ UNCHANGED <<mutex, request, published>> /\ approvingTransactionIds' = {holder}
    BY <1>2, <1>4, <1>14 DEF signed, IsAt
  <2>4. GoesNext(holder) BY <1>1, <2>3 DEF GoesNext, IsAt, OnItsWay
  <2>5. PublicationParts' BY <1>1, <1>7, <2>1, <2>2, <2>3, <2>4, GoingOn DEF IsAt
  <2>6. Advances(holder) BY <1>5, <2>2, <2>3, Ranked DEF Advances
  <2> QED BY <1>9, <2>1, <2>5, <2>6
<1>15. CASE networkTakes
  BY <1>2, <1>4, <1>15, <1>1, <1>5, <1>7, GoingOn, <1>9, Ranked DEF networkTakes, IsAt, GoesNext, OnItsWay,
     Advances
<1>16. CASE submitted
  BY <1>16, <1>2, <1>3, <1>1, Ending, <1>5, Ranked, <1>9 DEF submitted, IsAt, Metas, TransactionMeta, Advances
<1> QED BY <1>10, <1>11, <1>12, <1>13, <1>14, <1>15, <1>16 DEF approvalAdvances

LEMMA OtherPublication ==
  ASSUME TransactionsAssumption, ConsentInv, PublicationParts,
         \/ otherTakesNonceLock \/ otherReleasesNonceLock \/ transactionsWiped \/ restarted
         \/ \E t \in Requests : confirmed(t)
  PROVE  PublicationParts' /\ \A t \in Requests : Advances(t)
<1>1. /\ TypeOK /\ request \in [Requests -> Steps]
      /\ \A t \in Requests : published[t] > 0 => request[t] \notin {"idle", "adding", "awaiting"}
  BY TypesUnfold DEF ConsentInv, PublicationParts, PublishedIsOver
<1>2. CASE otherTakesNonceLock \/ otherReleasesNonceLock
  BY <1>2, <1>1, Fading, Ranked DEF otherTakesNonceLock, otherReleasesNonceLock, requestVars, Advances
<1>3. CASE transactionsWiped
  BY <1>3, <1>1, Fading, Ranked DEF transactionsWiped, requestVars, lockVars, without, TransactionsAssumption,
     Advances
<1>4. CASE restarted
  <2>1. \A t \in Requests : transactions[t] # NoTx => transactions[t] \in TransactionMeta
    BY <1>1, TypesUnfold, MetaIsThere
  <2>2. ASSUME NEW t \in Requests, transactions[t] # NoTx
        PROVE  \/ transactions'[t] = transactions[t]
               \/ transactions'[t].status = "failed" /\ transactions'[t].nonce = transactions[t].nonce
    BY <1>4, RestartedAs, <2>1, <2>2 DEF TransactionMeta
  <2>3. \A t \in Requests : transactions[t] # NoTx => Rank(transactions[t].status) <= 4 BY Ranked
  <2>4. \A t \in Requests : Advances(t) BY <2>2, Ranked DEF Advances
  <2> QED BY <1>4, <2>4, Reopening
<1>5. ASSUME NEW t \in Requests, confirmed(t)
      PROVE  PublicationParts' /\ \A u \in Requests : Advances(u)
  <2>1. UNCHANGED <<mutex, approval, approvingTransactionIds, request, published>>
    BY <1>5 DEF confirmed, requestVars, lockVars
  <2>2. /\ transactions[t] # NoTx /\ transactions[t].status = "submitted"
        /\ transactions[t].nonce \in Nat
    BY <1>1, <1>5, ConfirmedList, Present DEF ConsentInv, NoncesAreKnown
  <2>3. \A u \in Requests : transactions'[u] # NoTx =>
          /\ transactions[u] # NoTx
          /\ transactions'[u].nonce = transactions[u].nonce
          /\ transactions'[u].status \in {transactions[u].status, "confirmed", "dropped"}
          /\ u = t \/ transactions[u].nonce = transactions[t].nonce
               \/ transactions'[u] = transactions[u] BY <1>1, <1>5, ConfirmedList
  <2>4. ASSUME NEW u \in Requests, transactions[u] # NoTx,
               u = t \/ transactions[u].nonce = transactions[t].nonce,
               NEW i \in 1..Len(mutex), mutex[i].tx = u
        PROVE  i = 1 /\ IsAt({"leaked"})
    <3>1. mutex # <<>> /\ holder = mutex[1].tx /\ Len(mutex) \in Nat BY <1>1, QueueIs
    <3>2. /\ transactions[u].status = "unapproved" => transactions[u].nonce = NoNonce
          /\ NoNonce \notin Nat
      BY <2>4, Present, StoreAssumption DEF ConsentInv, NoncesAreKnown, StoreAssumption
    <3>3. transactions[u].status # "unapproved" BY <2>2, <2>4, <3>2
    <3>4. GoesNext(u) => FALSE
      BY <3>1, <2>4, <2>2, Present DEF PublicationParts, ApprovedIsNext, GoesNext, IsAt, OnItsWay,
         NextNonceIsFree
    <3>5. transactions[u].status # "approved" /\ ~(u = holder /\ IsAt(OnItsWay))
      BY <3>1, <3>4 DEF GoesNext
    <3>6. ~(i > 1 \/ IsAt({"start", "nonce"}))
      BY <2>4, <3>3, <3>5 DEF PublicationParts, ApprovedIsNext
    <3>7. i = 1 BY <3>1, <3>6
    <3>8. approval.step \in {"start", "nonce", "signing", "publishing", "published", "leaked"}
      BY <1>1, TypesUnfold
    <3> QED BY <2>4, <3>1, <3>5, <3>6, <3>7, <3>8 DEF IsAt, OnItsWay
  <2>5. PublicationParts' BY <1>1, <2>1, <2>3, <2>4, Fading
  <2>6. \A u \in Requests : Advances(u) BY <2>3, Ranked DEF Advances
  <2> QED BY <2>5, <2>6
<1> QED BY <1>2, <1>3, <1>4, <1>5

LEMMA PublicationStep ==
  ASSUME TransactionsAssumption, ApprovalsAssumption, ConsentInv, PublicationInv, [Next]_vars
  PROVE  /\ PublicationInv'
         /\ networkChanges' = 0 => \A t \in Requests : Advances(t)
<1> SUFFICES ASSUME networkChanges' = 0
             PROVE  PublicationParts' /\ \A t \in Requests : Advances(t) BY PublicationUnfolds
<1>1. TypeOK /\ networkChanges \in Nat BY TypesUnfold DEF ConsentInv
<1>2. CASE UNCHANGED vars
  BY <1>2, PublicationUnfolds, Fading, Ranked DEF vars, requestVars, lockVars, worldVars, PublicationParts,
     PublishedIsOver, Advances
<1>3. CASE networkChanged BY <1>1, <1>3 DEF networkChanged
<1>4. CASE Next /\ ~networkChanged
  <2>1. networkChanges' = networkChanges
    <3>1. CASE approvalAdvances
      BY <3>1 DEF approvalAdvances, transactionNotFound, approvalStarts, nonceLockGranted, approvalFails,
         signed, networkTakes, submitted, approvalRest
    <3>2. CASE otherTakesNonceLock \/ otherReleasesNonceLock \/ transactionsWiped \/ restarted
               \/ approvalsCleared
      BY <3>2 DEF otherTakesNonceLock, otherReleasesNonceLock, transactionsWiped, restarted, approvalsCleared,
         cancelTransaction, worldVars
    <3>3. ASSUME NEW r \in Requests,
                 \/ addRequested(r) \/ addFails(r) \/ addTransaction(r) \/ joinTransaction(r)
                 \/ userAccepts(r) \/ userRejects(r) \/ settle(r) \/ confirmed(r)
          PROVE  networkChanges' = networkChanges
      BY <3>3 DEF addRequested, addFails, addTransaction, joinTransaction, userAccepts, userRejects, settle,
         confirmed, cancelTransaction, worldVars
    <3> QED BY <1>4, <3>1, <3>2, <3>3 DEF Next, approvalAdvances
  <2>2. PublicationParts BY <2>1, PublicationUnfolds
  <2> QED
    BY <1>4, <2>2, CallsPublication, CancelPublication, ApprovalPublication, OtherPublication DEF Next,
       approvalAdvances
<1> QED BY <1>2, <1>3, <1>4

LEMMA InitialPublication ==
  ASSUME TransactionsAssumption, Init
  PROVE  PublicationInv
BY Present DEF Init, Idle, IsAt, PublicationInv, QueuedOnce, ApprovedIsNext, NextNonceIsFree, PublishedIsOver,
   NoncesDistinct

(***************************************************************************)
(* As long as no change of the network has something approved twice, each  *)
(* transaction is given to the network at most once, and no two that are   *)
(* on their way have the same nonce, across restarts and failures and      *)
(* whoever else takes the nonce lock.                                      *)
(***************************************************************************)
THEOREM PublishedOnceEach == Spec => []PublicationsAreDistinct
<1>1. ConsentInv /\ PublicationInv => PublicationsAreDistinct
  <2>1. ConsentInv => TypeOK BY DEF ConsentInv
  <2>2. ConsentInv /\ PublicationInv => PublishedOnce
    <3> SUFFICES ASSUME ConsentInv, PublicationInv, networkChanges = 0, NEW t \in Requests
                 PROVE  published[t] <= 1 BY DEF PublishedOnce
    <3>1. published[t] \in Nat BY TypesUnfold DEF ConsentInv
    <3>2. published[t] > 0 => published[t] = 1 BY DEF PublicationInv, PublishedIsOver
    <3> QED BY <3>1, <3>2
  <2>3. PublicationInv => NoncesDistinct BY DEF PublicationInv, NoncesDistinct
  <2> QED BY <2>1, <2>2, <2>3 DEF PublicationsAreDistinct
<1>2. Init => ConsentInv /\ PublicationInv
  BY InitialConsent, InitialPublication, TransactionsAssumption
<1>3. ConsentInv /\ PublicationInv /\ [Next]_vars => ConsentInv' /\ PublicationInv'
  BY ConsentStep, PublicationStep, TransactionsAssumption, ApprovalsAssumption
<1> QED BY <1>1, <1>2, <1>3, PTL DEF Spec

(***************************************************************************)
(* A transaction only moves forwards, and keeps the nonce it once has,     *)
(* whatever fails, is lost or is started again.                            *)
(***************************************************************************)
THEOREM TransactionsAdvance == Spec => StatusesAdvance
<1> DEFINE Forwards == networkChanges' = 0 =>
       \A t \in present(transactions) : transactions'[t] # NoTx =>
         /\ Rank(transactions'[t].status) >= Rank(transactions[t].status)
         /\ transactions[t].nonce # NoNonce => transactions'[t].nonce = transactions[t].nonce
<1>1. ConsentInv /\ PublicationInv /\ [Next]_vars => Forwards
  BY PublicationStep, Present, TransactionsAssumption, ApprovalsAssumption DEF Advances
<1>2. Init => ConsentInv /\ PublicationInv
  BY InitialConsent, InitialPublication, TransactionsAssumption
<1>3. ConsentInv /\ PublicationInv /\ [Next]_vars => ConsentInv' /\ PublicationInv'
  BY ConsentStep, PublicationStep, TransactionsAssumption, ApprovalsAssumption
<1>4. ConsentInv /\ PublicationInv /\ [Next]_vars => [Forwards]_vars BY <1>1
<1> HIDE DEF Forwards
<1>5. Spec => [][Forwards]_vars BY <1>2, <1>3, <1>4, PTL DEF Spec
<1> QED BY <1>5 DEF StatusesAdvance, Forwards
=============================================================================
