--------------------------- MODULE TransactionStore ---------------------------
(***************************************************************************)
(* state.transactions of TransactionController (packages/transaction-      *)
(* controller), and what its methods do to it.  The transactions of one    *)
(* account on one chain, all of one day: a transaction is a record with at *)
(* least a status, a nonce and the time it was added at.  The operators    *)
(* take and return the whole list, as a function of transaction ids.       *)
(***************************************************************************)
EXTENDS Integers, FiniteSets

CONSTANTS
  TxIds,         \* transaction ids
  NoTx,          \* an id that is not in the list
  NoNonce,       \* a transaction without a nonce
  HistoryLimit   \* transactionHistoryLimit

ASSUME StoreAssumption ==
  /\ NoNonce \notin Nat
  /\ HistoryLimit \in Nat

Statuses == {"unapproved", "approved", "signed", "submitted",
             "confirmed", "dropped", "failed"}

isFinalState(status) == status \in {"rejected", "confirmed", "failed"}

isLocalFinalState(status) == status \in {"confirmed", "failed", "rejected", "submitted"}

present(T) == {t \in TxIds : T[t] # NoTx}

\* An id that is not in the list is not added to it.
updateTransaction(T, t, meta) == IF T[t] = NoTx THEN T ELSE [T EXCEPT ![t] = meta]

withStatus(T, t, status) ==
  IF T[t] = NoTx THEN T ELSE [T EXCEPT ![t].status = status]

without(T, ts) == [t \in TxIds |-> IF t \in ts THEN NoTx ELSE T[t]]

(***************************************************************************)
(* trimTransactionsForState keeps `kept' of T.  It walks from the newest   *)
(* to the oldest; one that is over goes when the limit of distinct nonces  *)
(* is reached and no newer one that stays has its nonce.                   *)
(***************************************************************************)
IsTrimmedTo(T, kept) ==
  /\ kept \subseteq present(T)
  /\ \A t \in present(T) :
       LET nonces == {T[u].nonce : u \in {u \in kept : T[u].time > T[t].time}}
       IN t \in kept <=> \/ T[t].nonce \in nonces
                         \/ Cardinality(nonces) < HistoryLimit
                         \/ ~isFinalState(T[t].status)

\* The transactions that share the nonce of the confirmed transaction t.
sameNonceTransactions(T, t) ==
  {u \in present(T) \ {t} : T[u].nonce = T[t].nonce}

markNonceDuplicatesDropped(T, t) ==
  IF T[t] = NoTx THEN T
  ELSE [u \in TxIds |->
          IF u \in sameNonceTransactions(T, t) /\ T[u].status # "failed"
          THEN [T[u] EXCEPT !.status = "dropped"] ELSE T[u]]

noncesWith(T, statuses) == {T[t].nonce : t \in {t \in present(T) : T[t].status \in statuses}}

(***************************************************************************)
(* The nonce the NonceTracker suggests (@metamask/nonce-tracker, outside   *)
(* this repository): from the number of transactions the network has       *)
(* confirmed, or what is confirmed in the list if that is more, the first  *)
(* one that no submitted transaction of the list has.                      *)
(***************************************************************************)
IsNextNonce(T, networkCount, nonce) ==
  LET confirmed == noncesWith(T, {"confirmed"})
      pending == noncesWith(T, {"submitted"})
      start == {n \in {networkCount} \cup {c + 1 : c \in confirmed} :
                  n >= networkCount /\ \A c \in confirmed : n > c}
  IN \E first \in start :
       /\ nonce >= first
       /\ nonce \notin pending
       /\ \A n \in first..(nonce - 1) : n \in pending
=============================================================================
