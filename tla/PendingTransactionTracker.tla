---------------------- MODULE PendingTransactionTracker ----------------------
(***************************************************************************)
(* What becomes of submitted transactions (packages/transaction-           *)
(* controller): on every block the tracker asks the network for receipts   *)
(* under a global lock, confirms, fails or drops transactions, and sends   *)
(* again those that are due; the user speeds transactions up or stops them *)
(* meanwhile.  Each check, each pass of resubmissions and each replacement *)
(* works on the copy of the transaction it began with, and writes it back  *)
(* after its awaits.                                                       *)
(*                                                                         *)
(* One account on one chain.  The network mines one transaction per nonce, *)
(* in order.  A node that is out of sync denies receipts a few times.      *)
(***************************************************************************)
EXTENDS TransactionStore, Sequences

CONSTANTS
  Polls,             \* slots for calls of #onLatestBlock
  Replacements,      \* calls of speedUpTransaction and stopTransaction, and the ids they add
  MaxNonce,          \* the nonces are 0..MaxNonce
  DroppedBlockCount, \* DROPPED_BLOCK_COUNT
  MaxRetryDistance,  \* MAX_RETRY_BLOCK_DISTANCE
  MaxRetries,        \* retries are told apart up to this one
  MaxBlocks,         \* blocks are told apart up to this one
  MaxMishaps         \* how often a request fails, a node denies a receipt, the wallet is closed

ASSUME TrackerAssumption ==
  /\ Replacements \subseteq TxIds
  /\ Polls \subseteq Nat /\ Polls \cap Replacements = {}
  /\ {MaxNonce, DroppedBlockCount, MaxRetryDistance, MaxRetries, MaxBlocks, MaxMishaps}
       \subseteq Nat
  \* What a check may be told before the block of a transaction arrives, and by nodes
  \* that are out of sync, is not enough to drop it.
  /\ MaxMishaps < DroppedBlockCount

VARIABLES
  transactions,      \* state.transactions
  droppedBlockCount, \* #droppedBlockCountByHash, 0 for an absent entry
  globalLock,        \* the holder of the lock, and behind it the calls that wait for it
  calls,             \* each call that takes the lock
  checks,            \* [call, tx] -> the call of #checkTransaction
  passes,            \* each poll's call of #resubmitTransactions
  replacing,         \* each call of speedUpTransaction or stopTransaction
  mined,             \* what the network has for each nonce
  sent,              \* the nonce with which the network was given each transaction
  block,             \* the latest block
  mishaps,           \* how many of them there were
  clock              \* Date.now()

trackerCallVars == <<globalLock, calls, checks, passes, replacing>>
networkVars == <<mined, sent, block>>
trackerWorld == <<mishaps, clock>>
trackerVars == <<transactions, droppedBlockCount, trackerCallVars, networkVars, trackerWorld>>

Calls == Polls \cup Replacements
Nonces == 0..MaxNonce
Unmined == [by |-> NoTx, success |-> TRUE]
PendingMeta == [status : Statuses, nonce : Nonces, time : Nat, hash : BOOLEAN,
                firstRetryBlockNumber : Nat, retryCount : Nat]  \* 0 for no block

\* What stands for no transaction is none, and the network's own are others.
ASSUME NoTxAssumption ==
  /\ NoTx \notin PendingMeta
  /\ NoTx \notin TxIds \cup {"elsewhere"} /\ "elsewhere" \notin TxIds

NoCheck == [step |-> "none"]
NoPass == [snapshots |-> [t \in TxIds |-> NoTx], publishing |-> NoTx, fresh |-> FALSE]
NoReplacement == [step |-> "idle"]

TrackerTypeOK ==
  /\ transactions \in [TxIds -> PendingMeta \cup {NoTx}]
  /\ droppedBlockCount \in [TxIds -> 0..DroppedBlockCount]
  /\ globalLock \in Seq(Calls)
  /\ calls \in [Calls -> [step : {"idle", "waiting", "checking", "resubmitting"},
                          block : 0..MaxBlocks]]
  /\ checks \in [Calls \X TxIds ->
                   {NoCheck} \cup [step : {"receipt", "block", "count"}, meta : PendingMeta]]
  /\ passes \in [Polls -> [snapshots : [TxIds -> PendingMeta \cup {NoTx}],
                           publishing : TxIds \cup {NoTx}, fresh : BOOLEAN]]
  /\ replacing \in [Replacements ->
       {NoReplacement, [step |-> "done"]}
         \cup [step : {"publishing", "forcing"}, kind : {"cancel", "retry"},
               tx : TxIds, meta : PendingMeta, fresh : BOOLEAN]]
  /\ mined \in [Nonces -> [by : TxIds \cup {NoTx, "elsewhere"}, success : BOOLEAN]]
  /\ sent \in [TxIds -> Nonces \cup {NoNonce}]
  /\ block \in 0..MaxBlocks
  /\ mishaps \in 0..MaxMishaps
  /\ clock \in Nat

\* One transaction is pending, or two; the first may be a custodian's without a hash.
TrackerInit ==
  /\ \E first \in TxIds \ Replacements, hash \in BOOLEAN :
       LET submitted(n, h) == [status |-> "submitted", nonce |-> n, time |-> n, hash |-> h,
                               firstRetryBlockNumber |-> 0, retryCount |-> 0]
           none == [t \in TxIds |-> NoTx]
       IN \/ transactions = [none EXCEPT ![first] = submitted(0, hash)]
          \/ /\ 1 \in Nonces
             /\ \E second \in TxIds \ (Replacements \cup {first}) :
                  transactions = [none EXCEPT ![first] = submitted(0, hash),
                                              ![second] = submitted(1, TRUE)]
  /\ sent = [t \in TxIds |-> IF transactions[t] = NoTx \/ ~transactions[t].hash
                             THEN NoNonce ELSE transactions[t].nonce]
  /\ droppedBlockCount = [t \in TxIds |-> 0]
  /\ globalLock = <<>>
  /\ calls = [c \in Calls |-> [step |-> "idle", block |-> 0]]
  /\ checks = [ct \in Calls \X TxIds |-> NoCheck]
  /\ passes = [p \in Polls |-> NoPass]
  /\ replacing = [r \in Replacements |-> NoReplacement]
  /\ mined = [n \in Nonces |-> Unmined]
  /\ block = 0
  /\ mishaps = 0
  /\ clock = 2

-----------------------------------------------------------------------------

\* getTransactionCount of the network.
transactionCount == Cardinality({n \in Nonces : mined[n] # Unmined})

getPendingTransactions(T) == {t \in present(T) : T[t].status = "submitted"}

\* The tracker listens to blocks exactly when something is pending: every change of
\* the state calls startIfPendingTransactions, which starts or stops it.
running == getPendingTransactions(transactions) # {}

isNonceTaken(T, t, meta) ==
  \E u \in present(T) \ {t} : T[u].status = "confirmed" /\ T[u].nonce = meta.nonce

\* The listeners of the tracker's hub put the copy back, with the outcome.
settled(T, t, meta, status) == updateTransaction(T, t, [meta EXCEPT !.status = status])

\* onConfirmedTransaction drops the others with the nonce.
confirmed(T, t, meta) == markNonceDuplicatesDropped(settled(T, t, meta, "confirmed"), t)

mishap ==
  /\ mishaps < MaxMishaps
  /\ mishaps' = mishaps + 1

nonceSpent(meta) == mined[meta.nonce] # Unmined

-----------------------------------------------------------------------------

\* The network mines a transaction it was given, one of another device, or one
\* that a relayer has sent for this wallet (x), which is told of it later.
mines(n) ==
  /\ n = transactionCount
  /\ \/ /\ \E t \in {t \in TxIds : sent[t] = n}, success \in BOOLEAN :
             mined' = [mined EXCEPT ![n] = [by |-> t, success |-> success]]
        /\ UNCHANGED sent
     \/ /\ mined' = [mined EXCEPT ![n] = [by |-> "elsewhere", success |-> TRUE]]
        /\ UNCHANGED sent
     \/ \E x \in Replacements :
          /\ sent[x] = NoNonce /\ replacing[x] = NoReplacement
          /\ sent' = [sent EXCEPT ![x] = n]
          /\ mined' = [mined EXCEPT ![n] = [by |-> x, success |-> TRUE]]
  /\ UNCHANGED <<transactions, droppedBlockCount, trackerCallVars, block, trackerWorld>>

\* #onLatestBlock asks for the global lock, in a free slot.
newBlock ==
  LET free == {p \in Polls : calls[p].step = "idle" /\ \A t \in TxIds : checks[<<p, t>>] = NoCheck}
  IN /\ block' = IF block < MaxBlocks THEN block + 1 ELSE block
     /\ \/ /\ ~running /\ block < MaxBlocks
           /\ UNCHANGED <<globalLock, calls>>
        \/ /\ running
           /\ \E p \in free :
                /\ \A q \in free : p <= q
                /\ calls' = [calls EXCEPT ![p] = [step |-> "waiting", block |-> block']]
                /\ globalLock' = Append(globalLock, p)
     /\ UNCHANGED <<transactions, droppedBlockCount, checks, passes, replacing, mined, sent,
                    trackerWorld>>

-----------------------------------------------------------------------------

isResubmitDue(meta, latest) ==
  LET distance == {2 ^ meta.retryCount, MaxRetryDistance}
  IN /\ meta.firstRetryBlockNumber # 0
     /\ \E d \in distance : latest - meta.firstRetryBlockNumber >= d

(***************************************************************************)
(* The pass of poll p goes through `snapshots', the oldest first, as far   *)
(* as the next transaction that is due, which is sent to the network; one  *)
(* that is seen for the first time is given its first block.               *)
(***************************************************************************)
passGoesOn(p, T, snapshots) ==
  LET latest == calls[p].block
      left == {t \in TxIds : snapshots[t] # NoTx}
      due == {t \in left : isResubmitDue(snapshots[t], latest)}
      before(t) == {u \in left : snapshots[u].time < snapshots[t].time}
      next == {t \in due : before(t) \cap due = {}}
      seen == IF next = {} THEN left ELSE UNION {before(t) : t \in next}
  IN /\ transactions' = [t \in TxIds |->
          IF t \in seen /\ T[t] # NoTx /\ snapshots[t].firstRetryBlockNumber = 0
          THEN [snapshots[t] EXCEPT !.firstRetryBlockNumber = latest] ELSE T[t]]
     /\ \/ /\ next = {}
           /\ passes' = [passes EXCEPT ![p] = NoPass]
           /\ calls' = [calls EXCEPT ![p].step = "idle"]
        \/ \E t \in next :
             /\ passes' = [passes EXCEPT ![p] =
                  [snapshots |-> [u \in TxIds |-> IF u \in seen THEN NoTx ELSE snapshots[u]],
                   publishing |-> t, fresh |-> ~nonceSpent(snapshots[t])]]
             /\ calls' = [calls EXCEPT ![p].step = "resubmitting"]

(***************************************************************************)
(* The checks of c are over: its lock is released, a poll goes on with     *)
(* what is pending now, and a forced check ends the replacement that asked *)
(* for it.                                                                 *)
(***************************************************************************)
lockReleased(c, T) ==
  /\ globalLock' = Tail(globalLock)
  /\ IF c \in Polls
     THEN /\ passGoesOn(c, T, [t \in TxIds |-> IF t \in getPendingTransactions(T) THEN T[t]
                                               ELSE NoTx])
          /\ UNCHANGED replacing
     ELSE /\ transactions' = T
          /\ replacing' = [replacing EXCEPT ![c] = [step |-> "done"]]
          /\ calls' = [calls EXCEPT ![c].step = "idle"]
          /\ UNCHANGED passes

\* #checkTransaction of each of metas up to its first await: fail or drop it, or ask
\* for its receipt.
checksStart(c) ==
  LET pending == getPendingTransactions(transactions)
      metas == IF c \in Polls THEN [t \in pending |-> transactions[t]]
               ELSE [t \in {replacing[c].tx} |-> replacing[c].meta]
      hashless == {t \in DOMAIN metas : ~metas[t].hash}
      taken == {t \in DOMAIN metas \ hashless : isNonceTaken(transactions, t, metas[t])}
      asked == DOMAIN metas \ (hashless \cup taken)
      T == [t \in TxIds |->
              IF transactions[t] = NoTx THEN NoTx
              ELSE IF t \in hashless THEN [metas[t] EXCEPT !.status = "failed"]
              ELSE IF t \in taken THEN [metas[t] EXCEPT !.status = "dropped"]
              ELSE transactions[t]]
  IN /\ globalLock # <<>> /\ c = Head(globalLock)
     /\ calls[c].step = "waiting"
     /\ checks' = [ct \in Calls \X TxIds |->
          IF ct[1] = c /\ ct[2] \in asked THEN [step |-> "receipt", meta |-> metas[ct[2]]]
          ELSE checks[ct]]
     /\ IF asked = {} THEN lockReleased(c, T)
        ELSE /\ calls' = [calls EXCEPT ![c].step = "checking"]
             /\ transactions' = T
             /\ UNCHANGED <<globalLock, passes, replacing>>
     /\ UNCHANGED <<droppedBlockCount, networkVars, trackerWorld>>

checkGoesOn(c, t, step) ==
  /\ checks' = [checks EXCEPT ![<<c, t>>].step = step]
  /\ UNCHANGED <<transactions, globalLock, calls, passes, replacing>>

\* Fault: an error leaves the lock with its holder.
isOverIfAllEnd(c, t, throws) == ~throws /\ \A u \in TxIds \ {t} : checks[<<c, u>>] = NoCheck

\* Promise.all: the checks of c are over with its last one, or with an error.
isOver(c, t, throws) == throws \/ \A u \in TxIds \ {t} : checks[<<c, u>>] = NoCheck

\* The check of t ends and leaves T, or throws; it may be one that was left behind
\* by an error of another one.
checkEnds(c, t, T, throws) ==
  /\ checks' = [checks EXCEPT ![<<c, t>>] = NoCheck]
  /\ IF calls[c].step = "checking" /\ isOver(c, t, throws) THEN lockReleased(c, T)
     ELSE /\ transactions' = T
          /\ UNCHANGED <<globalLock, calls, passes, replacing>>

\* A request of a check fails.  #warnTransaction puts the copy back, if it was for the
\* receipt or its block.
checkFails(c, t) ==
  LET step == checks[<<c, t>>].step IN
  /\ step # "none"
  /\ mishap
  /\ checkEnds(c, t, IF step = "count" THEN transactions
                     ELSE updateTransaction(transactions, t, checks[<<c, t>>].meta), step = "count")
  /\ UNCHANGED <<droppedBlockCount, networkVars, clock>>

receiptAnswered(c, t) ==
  LET meta == checks[<<c, t>>].meta
      found == mined[meta.nonce].by = t
  IN /\ checks[<<c, t>>].step = "receipt"
     /\ \/ /\ found /\ mined[meta.nonce].success
           /\ checkGoesOn(c, t, "block")
           /\ UNCHANGED mishaps
        \/ /\ found /\ ~mined[meta.nonce].success
           /\ checkEnds(c, t, settled(transactions, t, meta, "failed"), FALSE)
           /\ UNCHANGED mishaps
        \/ /\ ~found
           /\ checkGoesOn(c, t, "count")
           /\ UNCHANGED mishaps
        \/ /\ found /\ mishap
           /\ checkGoesOn(c, t, "count")
     /\ UNCHANGED <<droppedBlockCount, networkVars, clock>>

\* #onTransactionConfirmed, with the block of the receipt.
blockAnswered(c, t) ==
  /\ checks[<<c, t>>].step = "block"
  /\ checkEnds(c, t, confirmed(transactions, t, checks[<<c, t>>].meta), FALSE)
  /\ UNCHANGED <<droppedBlockCount, networkVars, trackerWorld>>

\* Fault: the transaction is dropped with the last count instead of after it.
isHitEarly(count) == count + 1 >= DroppedBlockCount

isHit(count) == count >= DroppedBlockCount

\* #isTransactionDropped: the nonce is spent, and has been for some checks.
countAnswered(c, t) ==
  LET meta == checks[<<c, t>>].meta
      spent == meta.nonce < transactionCount
      hit == isHit(droppedBlockCount[t])
  IN /\ checks[<<c, t>>].step = "count"
     /\ checkEnds(c, t, IF spent /\ hit THEN settled(transactions, t, meta, "dropped")
                        ELSE transactions, FALSE)
     /\ droppedBlockCount' = [droppedBlockCount EXCEPT ![t] =
          IF ~spent THEN @ ELSE IF hit THEN 0 ELSE @ + 1]
     /\ UNCHANGED <<networkVars, trackerWorld>>

-----------------------------------------------------------------------------

\* The network answers to what a pass has sent: it has taken it (if the nonce was free
\* by then), refuses it with a known error, which ends the pass, or with another one,
\* which is noted as a warning.
resubmitted(p) ==
  LET t == passes[p].publishing
      meta == passes[p].snapshots[t]
      left == [passes[p].snapshots EXCEPT ![t] = NoTx]
  IN /\ t # NoTx
     /\ \/ /\ passes[p].fresh
           /\ LET retried == [meta EXCEPT !.retryCount = IF @ < MaxRetries THEN @ + 1 ELSE @]
              IN passGoesOn(p, updateTransaction(transactions, t, retried), left)
           /\ UNCHANGED mishaps
        \/ /\ nonceSpent(meta)
           /\ passes' = [passes EXCEPT ![p] = NoPass]
           /\ calls' = [calls EXCEPT ![p].step = "idle"]
           /\ UNCHANGED <<transactions, mishaps>>
        \/ /\ mishap
           /\ passGoesOn(p, updateTransaction(transactions, t, meta), left)
     /\ UNCHANGED <<droppedBlockCount, globalLock, checks, replacing, networkVars, clock>>

-----------------------------------------------------------------------------

\* speedUpTransaction ("retry") and stopTransaction ("cancel"): the user replaces a
\* pending transaction; the new one is signed and sent.
replace(r, t, kind) ==
  /\ replacing[r] = NoReplacement /\ sent[r] = NoNonce
  /\ t \in getPendingTransactions(transactions)
  /\ replacing' = [replacing EXCEPT ![r] =
       [step |-> "publishing", kind |-> kind, tx |-> t, meta |-> transactions[t],
        fresh |-> ~nonceSpent(transactions[t])]]
  /\ UNCHANGED <<transactions, droppedBlockCount, globalLock, calls, checks, passes,
                 networkVars, trackerWorld>>

\* A cancel transaction is a new one; a retry is a copy of what the call began with.
replacement(r) ==
  LET meta == replacing[r].meta
      now == clock
  IN IF replacing[r].kind = "retry" THEN [meta EXCEPT !.time = now, !.hash = TRUE]
     ELSE [status |-> "submitted", nonce |-> meta.nonce, time |-> now, hash |-> TRUE,
           firstRetryBlockNumber |-> 0, retryCount |-> 0]

\* publishTransactionForRetry returns: the replacement is added, and what is over is
\* trimmed.
replacementPublished(r) ==
  LET T == [transactions EXCEPT ![r] = replacement(r)] IN
  /\ replacing[r].step = "publishing" /\ replacing[r].fresh
  /\ \E kept \in SUBSET TxIds :
       /\ IsTrimmedTo(T, kept)
       /\ transactions' = without(T, TxIds \ kept)
  /\ replacing' = [replacing EXCEPT ![r] = [step |-> "done"]]
  /\ sent' = [sent EXCEPT ![r] = replacing[r].meta.nonce]
  /\ clock' = clock + 1
  /\ UNCHANGED <<droppedBlockCount, globalLock, calls, checks, passes, mined, block,
                 mishaps>>

\* "nonce too low": the transaction is checked at once.  Another error ends the call.
replacementRefused(r) ==
  /\ replacing[r].step = "publishing"
  /\ \/ /\ nonceSpent(replacing[r].meta)
        /\ replacing' = [replacing EXCEPT ![r].step = "forcing"]
        /\ globalLock' = Append(globalLock, r)
        /\ calls' = [calls EXCEPT ![r].step = "waiting"]
        /\ UNCHANGED mishaps
     \/ /\ mishap
        /\ replacing' = [replacing EXCEPT ![r] = [step |-> "done"]]
        /\ UNCHANGED <<globalLock, calls>>
  /\ UNCHANGED <<transactions, droppedBlockCount, checks, passes, networkVars, clock>>

\* validateConfirmedExternalTransaction: its nonce is neither pending nor confirmed here.
isValidExternal(n) ==
  n # NoNonce /\ n \notin noncesWith(transactions, {"submitted", "confirmed"})

\* The lists that the one with x added may be trimmed to.
addExternalTransaction(x, meta) ==
  LET T == [transactions EXCEPT ![x] = meta]
  IN {without(T, TxIds \ kept) : kept \in {kept \in SUBSET TxIds : IsTrimmedTo(T, kept)}}

confirmExternalTransaction(x) ==
  LET n == sent[x]
      meta == [status |-> "confirmed", nonce |-> n, time |-> clock, hash |-> TRUE,
               firstRetryBlockNumber |-> 0, retryCount |-> 0]
  IN /\ replacing[x] = NoReplacement /\ transactions[x] = NoTx /\ isValidExternal(n)
     /\ \E T \in addExternalTransaction(x, meta) :
          transactions' = markNonceDuplicatesDropped(T, x)
     /\ clock' = clock + 1
     /\ replacing' = [replacing EXCEPT ![x] = [step |-> "done"]]
     /\ UNCHANGED <<droppedBlockCount, globalLock, calls, checks, passes, networkVars,
                    mishaps>>

\* The wallet is closed and opened: state.transactions is what is left.
trackerRestarts ==
  /\ mishap
  /\ droppedBlockCount' = [t \in TxIds |-> 0]
  /\ globalLock' = <<>>
  /\ calls' = [c \in Calls |-> [step |-> "idle", block |-> 0]]
  /\ checks' = [ct \in Calls \X TxIds |-> NoCheck]
  /\ passes' = [p \in Polls |-> NoPass]
  /\ replacing' = [r \in Replacements |->
                     IF replacing[r] = NoReplacement THEN NoReplacement ELSE [step |-> "done"]]
  /\ UNCHANGED <<transactions, networkVars, clock>>

-----------------------------------------------------------------------------

checkAnswered ==
  \E c \in Calls, t \in TxIds :
    receiptAnswered(c, t) \/ blockAnswered(c, t) \/ countAnswered(c, t)

TrackerNext ==
  \/ newBlock \/ checkAnswered \/ trackerRestarts
  \/ \E n \in Nonces : mines(n)
  \/ \E c \in Calls : checksStart(c)
  \/ \E c \in Calls, t \in TxIds : checkFails(c, t)
  \/ \E p \in Polls : resubmitted(p)
  \/ \E r \in Replacements :
       \/ \E t \in TxIds, kind \in {"retry", "cancel"} : replace(r, t, kind)
       \/ replacementPublished(r) \/ replacementRefused(r)
       \/ confirmExternalTransaction(r)

-----------------------------------------------------------------------------

(***************************************************************************)
(* What the wallet says of a transaction is what the network did with it:  *)
(* confirmed ones are in a block, failed ones are reverted or were never   *)
(* sent, and a dropped one has lost its nonce to another, although nodes   *)
(* that are out of sync deny receipts ("We wait this many blocks before    *)
(* emitting a 'transaction-dropped' event.  This is because we could be    *)
(* talking to a node that is out of sync").                                *)
(***************************************************************************)
OutcomesAreTrue ==
  \A t \in present(transactions) :
    LET outcome == mined[transactions[t].nonce] IN
    CASE transactions[t].status = "confirmed" -> outcome.by = t /\ outcome.success
      [] transactions[t].status = "failed" ->
           ~transactions[t].hash \/ (outcome.by = t /\ ~outcome.success)
      [] transactions[t].status = "dropped" -> outcome # Unmined /\ outcome.by # t
      [] OTHER -> TRUE

(***************************************************************************)
(* A transaction may become pending again when a pass or a check writes    *)
(* back its copy of before, but not for ever: once a nonce is spent, a     *)
(* time comes from which on nothing of that nonce is pending.              *)
(***************************************************************************)
SpentNoncesSettle ==
  \A n \in Nonces :
    <>[](mined[n] # Unmined => n \notin noncesWith(transactions, {"submitted"}))
=============================================================================
