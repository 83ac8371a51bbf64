----------------------------- MODULE TrackingProofs -----------------------------
(***************************************************************************)
(* What the wallet says of a submitted transaction is what the network did *)
(* with it, for any transactions, polls and replacements, whatever answers *)
(* are late, denied or lost; and incoming transactions, trackers and nonce *)
(* locks keep up with the accounts and the network clients.                *)
(***************************************************************************)
EXTENDS MultichainTrackingHelper, FiniteSetTheorems, WellFoundedInduction, TLAPS

\* A copy of transaction t names the nonce it was sent with.
IsCopyOf(t, meta) == meta.hash => sent[t] = meta.nonce

\* What is written back later is a copy from when t was pending.
IsPendingCopy(t, meta) == IsCopyOf(t, meta) /\ meta.status = "submitted"

\* The outcome that meta has for t is that of the network.
IsTrue(t, meta) ==
  LET outcome == mined[meta.nonce] IN
  /\ meta.status = "confirmed" => outcome.by = t /\ outcome.success
  /\ meta.status = "failed" => ~meta.hash \/ (outcome.by = t /\ ~outcome.success)
  /\ meta.status = "dropped" => outcome # Unmined /\ outcome.by # t

Lists == [TxIds -> PendingMeta \cup {NoTx}]

Sound(T) ==
  /\ T \in Lists
  /\ \A t \in TxIds : T[t] # NoTx => IsCopyOf(t, T[t]) /\ IsTrue(t, T[t])

AreCopies(snapshots) ==
  /\ snapshots \in Lists
  /\ \A t \in TxIds : snapshots[t] # NoTx => IsPendingCopy(t, snapshots[t])

IsSoundPass(pass) ==
  /\ pass \in [snapshots : Lists, publishing : TxIds \cup {NoTx}, fresh : BOOLEAN]
  /\ AreCopies(pass.snapshots)
  /\ pass.publishing # NoTx => pass.snapshots[pass.publishing] # NoTx

\* A check for a block has found t in it.
IsSoundCheck(t, check) ==
  check # NoCheck =>
    /\ IsPendingCopy(t, check.meta) /\ check.meta.hash
    /\ check.step = "block" => mined[check.meta.nonce] = [by |-> t, success |-> TRUE]

CopiesAreSound ==
  /\ \A p \in Polls : IsSoundPass(passes[p])
  /\ \A c \in Calls, t \in TxIds : IsSoundCheck(t, checks[<<c, t>>])
  /\ \A r \in Replacements : replacing[r].step \in {"publishing", "forcing"} =>
       IsPendingCopy(replacing[r].tx, replacing[r].meta)

\* The network mines nonces one after the other, with what it was sent; what a
\* relayer has sent for a replacement that the wallet knows nothing of is mined.
MinedWasSent ==
  /\ \A n \in Nonces, t \in TxIds : mined[n].by = t => sent[t] = n
  /\ \A r \in Replacements : replacing[r] = NoReplacement /\ sent[r] # NoNonce =>
       mined[sent[r]] = [by |-> r, success |-> TRUE]
  /\ \A r \in Replacements : replacing[r].step = "publishing" => sent[r] = NoNonce

MinedInOrder ==
  \E k \in 0..(MaxNonce + 1) : \A n \in Nonces : mined[n] # Unmined <=> n < k

\* The call whose checks are under way has the lock.
LockIsHeld ==
  \A c \in Calls : calls[c].step = "checking" => globalLock # <<>> /\ c = Head(globalLock)

Unchecked(c) == \A t \in TxIds : checks[<<c, t>>] = NoCheck

\* A pass that waits for the network is that of a call.
PassIsCalled ==
  \A p \in Polls : passes[p].publishing # NoTx => calls[p].step = "resubmitting"

\* Replacements that force a check.
ForcedOnce ==
  \A r \in Replacements :
    /\ calls[r].step \in {"waiting", "checking"} => replacing[r].step = "forcing"
    /\ replacing[r].step \in {"idle", "publishing"} => Unchecked(r)

\* The calls that an error has left behind with checks.
LeftBehind == {c \in Calls : calls[c].step # "checking" /\ ~Unchecked(c)}

LeftByMishaps ==
  /\ IsFiniteSet(LeftBehind) /\ Cardinality(LeftBehind) <= mishaps
  /\ \A c \in Calls : calls[c].step = "waiting" => Unchecked(c)

\* The checks that did not find t in a block.
Counting(t) == {c \in Calls : checks[<<c, t>>].step = "count"}

\* Of a transaction that is in a block only as many checks count that it is not as
\* began before, or as were denied the receipt.
CountsAreLate ==
  /\ \A t \in TxIds : droppedBlockCount[t] > 0 => sent[t] \in Nonces /\ mined[sent[t]] # Unmined
  /\ \A t \in TxIds : sent[t] \in Nonces /\ mined[sent[t]].by = t =>
       IsFiniteSet(Counting(t)) /\ Cardinality(Counting(t)) + droppedBlockCount[t] <= mishaps + 1

ControlInv ==
  /\ TrackerTypeOK /\ Sound(transactions) /\ CopiesAreSound
  /\ MinedWasSent /\ MinedInOrder
  /\ LockIsHeld /\ PassIsCalled /\ ForcedOnce /\ LeftByMishaps

TrackerInv == ControlInv /\ CountsAreLate

-----------------------------------------------------------------------------
(* Incoming transactions, the map of trackers, and the nonce lock.         *)

\* The explorer's client is used by the first helper that waits for it.
FetchesInTurn ==
  \A h \in Helpers : helper[h].step = "fetching" => sourceLock # <<>> /\ h = Head(sourceLock)

\* The blocks with something for the user are those up to the height, which no cursor is beyond.
BlocksInOrder ==
  \E k \in Height :
    /\ UNION {remote[av] : av \in Accounts \X Variations} = 1..k
    /\ \A av \in Accounts \X Variations : lastFetched[av] <= k

\* A helper asks for everything that its cursor has not reached, wherever this is by now.
FetchesFit ==
  \A h \in Helpers : helper[h] # IdleHelper =>
    /\ helper[h].from <= lastFetched[<<helper[h].account, helper[h].key>>] + 1
    /\ ~crossed => /\ helper[h].account = selected
                   /\ helper[h].step = "fetching" => helper[h].asked = helper[h].key

IncomingInv ==
  IncomingTypeOK /\ FetchesInTurn /\ BlocksInOrder /\ FetchesFit /\ NothingIsSkipped

\* Calls wait for the nonce lock once, behind its holder; a client is lost by removal.
NonceCallsInTurn ==
  /\ \A i, j \in DOMAIN nonceMutex : nonceMutex[i] = nonceMutex[j] => i = j
  /\ \A i \in DOMAIN nonceMutex :
       nonceCall[nonceMutex[i]].step \in
         IF i = 1 THEN {"waiting", "asking", "holding", "threw"} ELSE {"waiting"}
  /\ \A n \in NonceCalls :
       /\ nonceCall[n].step \in {"asking", "holding"} => nonceMutex # <<>> /\ n = Head(nonceMutex)
       /\ nonceCall[n].step = "threw" => retired # {}
       /\ nonceCall[n].step = "waiting" => nonceCall[n].client \in registry \/ retired # {}

HelpersInv ==
  TrackingTypeOK /\ IncomingInv /\ TrackersFollowClients /\ NonceCallsInTurn


-----------------------------------------------------------------------------
(* Lists, passes and the lock.                                             *)

LEMMA SoundOutcomes ==
  ASSUME Sound(transactions)
  PROVE  OutcomesAreTrue
BY DEF Sound, IsTrue, OutcomesAreTrue, present

\* What the network has is in order: its count of transactions is the next nonce.
LEMMA CountOfMined ==
  ASSUME TrackerAssumption, MinedInOrder
  PROVE  /\ transactionCount \in Nat
         /\ \A n \in Nonces : mined[n] # Unmined <=> n < transactionCount
<1>1. MaxNonce \in Nat BY DEF TrackerAssumption
<1>2. PICK k \in 0..(MaxNonce + 1) : \A n \in Nonces : mined[n] # Unmined <=> n < k
  BY DEF MinedInOrder
<1>3. {n \in Nonces : mined[n] # Unmined} = 0..(k - 1) BY <1>1, <1>2 DEF Nonces
<1>4. Cardinality(0..(k - 1)) = k BY <1>1, FS_Interval
<1>5. transactionCount = k BY <1>3, <1>4, Zenon DEF transactionCount
<1> QED BY <1>1, <1>2, <1>5

\* A copy of what was pending may be written back at any time.
LEMMA CopyIsWritten ==
  ASSUME NEW T, Sound(T), NEW U \in Lists,
         \A t \in TxIds : U[t] = T[t] \/ U[t] = NoTx \/ IsPendingCopy(t, U[t])
  PROVE  Sound(U)
BY DEF Sound, IsPendingCopy, IsTrue

\* What is pending in a list are such copies.
LEMMA PendingAreCopies ==
  ASSUME NEW T, Sound(T)
  PROVE  AreCopies([t \in TxIds |-> IF t \in getPendingTransactions(T) THEN T[t] ELSE NoTx])
BY DEF Sound, AreCopies, IsPendingCopy, getPendingTransactions, present, Lists

\* Poll p goes on as step says, with pass.
IsPassOf(p, pass, step) ==
  /\ IsSoundPass(pass) /\ step \in {"idle", "resubmitting"}
  /\ pass.publishing # NoTx => step = "resubmitting"
  /\ passes' = [passes EXCEPT ![p] = pass]
  /\ calls' = [calls EXCEPT ![p].step = step]

LEMMA PassGoesOn ==
  ASSUME ControlInv, TrackerAssumption, NoTxAssumption, NEW p \in Polls,
         NEW T, Sound(T), NEW snapshots, AreCopies(snapshots), passGoesOn(p, T, snapshots)
  PROVE  /\ Sound(transactions')
         /\ \E pass, step : IsPassOf(p, pass, step)
<1> DEFINE latest == calls[p].block
           left == {t \in TxIds : snapshots[t] # NoTx}
           due == {t \in left : isResubmitDue(snapshots[t], latest)}
           before(t) == {u \in left : snapshots[u].time < snapshots[t].time}
           next == {t \in due : before(t) \cap due = {}}
           seen == IF next = {} THEN left ELSE UNION {before(t) : t \in next}
           rest == [u \in TxIds |-> IF u \in seen THEN NoTx ELSE snapshots[u]]
<1>1. latest \in Nat BY DEF ControlInv, TrackerTypeOK, TrackerAssumption, Calls
<1>2. /\ transactions' = [t \in TxIds |->
            IF t \in seen /\ T[t] # NoTx /\ snapshots[t].firstRetryBlockNumber = 0
            THEN [snapshots[t] EXCEPT !.firstRetryBlockNumber = latest] ELSE T[t]]
      /\ \/ /\ next = {}
            /\ passes' = [passes EXCEPT ![p] = NoPass]
            /\ calls' = [calls EXCEPT ![p].step = "idle"]
         \/ \E t \in next :
              /\ passes' = [passes EXCEPT ![p] =
                   [snapshots |-> rest, publishing |-> t, fresh |-> ~nonceSpent(snapshots[t])]]
              /\ calls' = [calls EXCEPT ![p].step = "resubmitting"] BY DEF passGoesOn
<1>3. seen \subseteq left OBVIOUS
<1>4. Sound(transactions')
  <2>1. \A t \in left :
          /\ [snapshots[t] EXCEPT !.firstRetryBlockNumber = latest] \in PendingMeta
          /\ IsPendingCopy(t, [snapshots[t] EXCEPT !.firstRetryBlockNumber = latest])
    BY <1>1 DEF AreCopies, Lists, PendingMeta, IsPendingCopy, IsCopyOf
  <2>2. transactions' \in Lists BY <1>2, <1>3, <2>1 DEF Sound, Lists
  <2>3. \A t \in TxIds : transactions'[t] = T[t] \/ IsPendingCopy(t, transactions'[t])
    BY <1>2, <1>3, <2>1
  <2> QED BY <2>2, <2>3, CopyIsWritten
<1>5. CASE next = {}
  <2>1. IsSoundPass(NoPass) BY DEF IsSoundPass, NoPass, AreCopies, Lists
  <2>2. IsPassOf(p, NoPass, "idle") BY <1>2, <1>5, <2>1 DEF IsPassOf, NoPass
  <2> QED BY <1>4, <2>2
<1>6. CASE next # {}
  <2>1. PICK t \in next :
          /\ passes' = [passes EXCEPT ![p] =
               [snapshots |-> rest, publishing |-> t, fresh |-> ~nonceSpent(snapshots[t])]]
          /\ calls' = [calls EXCEPT ![p].step = "resubmitting"] BY <1>2, <1>6
  <2>2. t \notin seen /\ t \in left BY <1>6
  <2>3. AreCopies(rest) BY DEF AreCopies, Lists
  <2>4. rest[t] # NoTx /\ t \in TxIds BY <2>2
  <2> HIDE DEF rest, next, seen, left
  <2>5. IsSoundPass([snapshots |-> rest, publishing |-> t, fresh |-> ~nonceSpent(snapshots[t])])
    BY <2>3, <2>4 DEF IsSoundPass, AreCopies, nonceSpent
  <2>6. IsPassOf(p, [snapshots |-> rest, publishing |-> t, fresh |-> ~nonceSpent(snapshots[t])],
                 "resubmitting") BY <2>1, <2>5 DEF IsPassOf
  <2> QED BY <1>4, <2>6
<1> QED BY <1>5, <1>6

LEMMA LockReleased ==
  ASSUME ControlInv, TrackerAssumption, NoTxAssumption, NEW c \in Calls,
         NEW T, Sound(T), lockReleased(c, T)
  PROVE  /\ Sound(transactions')
         /\ globalLock' = Tail(globalLock)
         /\ \/ /\ c \in Polls /\ replacing' = replacing
               /\ \E pass, step : IsPassOf(c, pass, step)
            \/ /\ c \in Replacements /\ passes' = passes
               /\ replacing' = [replacing EXCEPT ![c] = [step |-> "done"]]
               /\ calls' = [calls EXCEPT ![c].step = "idle"]
BY PassGoesOn, PendingAreCopies DEF lockReleased, Calls

-----------------------------------------------------------------------------
(* Checks end.                                                             *)

LEMMA CheckCounts ==
  ASSUME NEW check, check.step # "none"
  PROVE  check # NoCheck
BY DEF NoCheck

LEMMA CountingIsSmall ==
  ASSUME ControlInv, TrackerAssumption, NEW t \in TxIds
  PROVE  IsFiniteSet(Counting(t)) /\ Cardinality(Counting(t)) <= mishaps + 1
<1>1. /\ IsFiniteSet(LeftBehind) /\ Cardinality(LeftBehind) <= mishaps /\ mishaps \in Nat
      /\ Cardinality(LeftBehind) \in Nat
  BY FS_CardinalityType DEF ControlInv, LeftByMishaps, TrackerTypeOK, TrackerAssumption
<1> DEFINE holder == Head(globalLock)
           checkers == LeftBehind \cup {holder}
<1>2. Counting(t) \in SUBSET checkers
  <2>1. SUFFICES ASSUME NEW c \in Counting(t) PROVE c \in checkers OBVIOUS
  <2>2. c \in Calls /\ checks[<<c, t>>] # NoCheck BY <2>1, CheckCounts DEF Counting
  <2>3. ~Unchecked(c) BY <2>2 DEF Unchecked
  <2>4. calls[c].step = "checking" => c = holder BY <2>2 DEF ControlInv, LockIsHeld
  <2> QED BY <2>2, <2>3, <2>4 DEF LeftBehind
<1> HIDE DEF holder
<1>3. /\ IsFiniteSet(checkers)
      /\ Cardinality(checkers) = IF holder \in LeftBehind THEN Cardinality(LeftBehind)
                                 ELSE Cardinality(LeftBehind) + 1 BY <1>1, FS_AddElement
<1> HIDE DEF checkers
<1>4. IsFiniteSet(Counting(t)) /\ Cardinality(Counting(t)) <= Cardinality(checkers)
  BY <1>2, <1>3, FS_Subset
<1>5. Cardinality(Counting(t)) \in Nat BY <1>4, FS_CardinalityType
<1> QED BY <1>1, <1>3, <1>4, <1>5

LEMMA CountsKept ==
  ASSUME TrackerInv, UNCHANGED <<mined, sent, droppedBlockCount>>, mishaps' \in Nat, mishaps \in Nat,
         mishaps' >= mishaps, TrackerAssumption,
         \A c \in Calls, t \in TxIds : checks'[<<c, t>>].step = "count" => checks[<<c, t>>].step = "count"
  PROVE  CountsAreLate'
<1>1. \A t \in TxIds : Counting(t)' \in SUBSET Counting(t) BY DEF Counting
<1>2. ASSUME NEW t \in TxIds, sent[t] \in Nonces, mined[sent[t]].by = t
      PROVE  /\ IsFiniteSet(Counting(t)')
             /\ Cardinality(Counting(t)') + droppedBlockCount[t] <= mishaps' + 1
  <2>1. IsFiniteSet(Counting(t)) /\ Cardinality(Counting(t)) + droppedBlockCount[t] <= mishaps + 1
    BY <1>2 DEF TrackerInv, CountsAreLate
  <2>2. IsFiniteSet(Counting(t)') /\ Cardinality(Counting(t)') <= Cardinality(Counting(t))
    BY <1>1, <2>1, FS_Subset
  <2>3. Cardinality(Counting(t)) \in Nat /\ Cardinality(Counting(t)') \in Nat
    BY <2>1, <2>2, FS_CardinalityType
  <2>4. DroppedBlockCount \in Nat BY DEF TrackerAssumption
  <2>5. droppedBlockCount \in [TxIds -> 0..DroppedBlockCount]
    BY DEF TrackerInv, ControlInv, TrackerTypeOK
  <2>6. droppedBlockCount[t] \in 0..DroppedBlockCount BY <2>5
  <2>7. droppedBlockCount[t] \in Nat BY <2>4, <2>6
  <2>8. mishaps' \in Nat /\ mishaps' >= mishaps /\ mishaps \in Nat OBVIOUS
  <2> HIDE DEF Counting
  <2> QED BY <2>1, <2>2, <2>3, <2>7, <2>8
<1>3. \A t \in TxIds : droppedBlockCount'[t] > 0 => sent'[t] \in Nonces /\ mined'[sent'[t]] # Unmined
  BY DEF TrackerInv, CountsAreLate
<1> QED BY <1>2, <1>3 DEF CountsAreLate

LEMMA NetworkKept ==
  ASSUME ControlInv, UNCHANGED <<mined, sent>>,
         \A r \in Replacements : /\ replacing'[r].step = "publishing" => sent[r] = NoNonce
                                 /\ replacing'[r] = NoReplacement => replacing[r] = NoReplacement
  PROVE  MinedWasSent' /\ MinedInOrder'
BY DEF ControlInv, MinedWasSent, MinedInOrder

\* At most one pass goes on.
PassesGoOn ==
  \/ passes' = passes
  \/ \E p \in Polls : \E pass : IsSoundPass(pass) /\ passes' = [passes EXCEPT ![p] = pass]

\* The types of what a step that does not change the network has changed.
LEMMA TrackerTypes ==
  ASSUME ControlInv, UNCHANGED <<mined, sent>>, block' \in 0..MaxBlocks, clock' \in Nat,
         Sound(transactions'),
         droppedBlockCount' \in [TxIds -> 0..DroppedBlockCount],
         globalLock' \in Seq(Calls),
         calls' \in [Calls -> [step : {"idle", "waiting", "checking", "resubmitting"}, block : 0..MaxBlocks]],
         checks' \in [Calls \X TxIds ->
                        {NoCheck} \cup [step : {"receipt", "block", "count"}, meta : PendingMeta]],
         PassesGoOn,
         replacing' \in [Replacements ->
           {NoReplacement, [step |-> "done"]}
             \cup [step : {"publishing", "forcing"}, kind : {"cancel", "retry"},
                   tx : TxIds, meta : PendingMeta, fresh : BOOLEAN]],
         mishaps' \in 0..MaxMishaps
  PROVE  TrackerTypeOK'
<1>1. TrackerTypeOK BY DEF ControlInv
<1>2. passes' \in [Polls -> [snapshots : Lists, publishing : TxIds \cup {NoTx}, fresh : BOOLEAN]]
  <2>1. passes \in [Polls -> [snapshots : Lists, publishing : TxIds \cup {NoTx}, fresh : BOOLEAN]]
    BY <1>1 DEF TrackerTypeOK, Lists
  <2> QED BY <2>1 DEF IsSoundPass, PassesGoOn
<1>3. transactions' \in Lists BY DEF Sound
<1> QED BY <1>1, <1>2, <1>3 DEF TrackerTypeOK, Lists

LEMMA CopiesKept ==
  ASSUME ControlInv, UNCHANGED <<mined, sent>>,
         PassesGoOn,
         \A c \in Calls, t \in TxIds : IsSoundCheck(t, checks'[<<c, t>>]),
         \A r \in Replacements : replacing'[r].step \in {"publishing", "forcing"} =>
           IsPendingCopy(replacing'[r].tx, replacing'[r].meta)
  PROVE  CopiesAreSound'
BY DEF ControlInv, TrackerTypeOK, CopiesAreSound, PassesGoOn, IsSoundPass, AreCopies, IsPendingCopy, IsCopyOf,
   IsSoundCheck

LEMMA ListKept ==
  ASSUME Sound(transactions'), UNCHANGED <<mined, sent>>
  PROVE  Sound(transactions)'
BY DEF Sound, IsCopyOf, IsTrue

\* What keeps the control of the calls: nobody begins to check, checks only end, and a
\* call that is left behind with checks is one more mishap.
LEMMA CallsKept ==
  ASSUME ControlInv, NEW c \in Calls,
         \A d \in Calls, t \in TxIds : checks'[<<d, t>>] \in {checks[<<d, t>>], NoCheck},
         \A d \in Calls \ {c} : calls'[d].step = calls[d].step,
         calls'[c].step = calls[c].step
           \/ (calls'[c].step \in {"idle", "resubmitting"} /\ calls[c].step # "waiting"
                 /\ (Unchecked(c)' \/ calls[c].step # "checking" \/ mishaps' = mishaps + 1))
           \/ (calls'[c].step \in {"idle", "resubmitting"} /\ calls[c].step = "waiting"),
         mishaps \in Nat, mishaps' \in Nat, mishaps' >= mishaps
  PROVE  LeftByMishaps'
<1>1. \A d \in Calls : Unchecked(d) => Unchecked(d)' BY DEF Unchecked
<1>2. \A d \in Calls : calls'[d].step = "waiting" => Unchecked(d)'
  BY <1>1 DEF ControlInv, LeftByMishaps
<1>3. /\ IsFiniteSet(LeftBehind) /\ Cardinality(LeftBehind) <= mishaps
      /\ Cardinality(LeftBehind) \in Nat BY FS_CardinalityType DEF ControlInv, LeftByMishaps
<1>4. CASE LeftBehind' \in SUBSET LeftBehind
  BY <1>3, <1>4, FS_Subset, FS_CardinalityType, <1>2 DEF LeftByMishaps
<1>5. CASE LeftBehind' \notin SUBSET LeftBehind
  <2>1. \A d \in Calls \ {c} : d \in LeftBehind' => d \in LeftBehind BY <1>1 DEF LeftBehind
  <2>2. c \in LeftBehind' /\ c \notin LeftBehind BY <1>5, <2>1 DEF LeftBehind
  <2>3. mishaps' = mishaps + 1 BY <1>1, <2>2 DEF LeftBehind, ControlInv, LeftByMishaps
  <2>4. LeftBehind' \in SUBSET (LeftBehind \cup {c}) BY <2>1 DEF LeftBehind
  <2>5. /\ IsFiniteSet(LeftBehind \cup {c})
        /\ Cardinality(LeftBehind \cup {c}) = Cardinality(LeftBehind) + 1
    BY <1>3, <2>2, FS_AddElement
  <2>6. IsFiniteSet(LeftBehind') /\ Cardinality(LeftBehind') <= Cardinality(LeftBehind \cup {c})
        /\ Cardinality(LeftBehind') \in Nat BY <2>4, <2>5, FS_Subset, FS_CardinalityType
  <2>7. Cardinality(LeftBehind') <= mishaps' BY <1>3, <2>3, <2>5, <2>6
  <2> QED BY <1>2, <2>6, <2>7 DEF LeftByMishaps
<1> QED BY <1>4, <1>5

\* A step that changes nothing that the calls have but their checks, and writes to the list.
LEMMA ChecksChange ==
  ASSUME ControlInv,
         UNCHANGED <<mined, sent, block, clock, globalLock, calls, passes, replacing>>,
         Sound(transactions'),
         droppedBlockCount' \in [TxIds -> 0..DroppedBlockCount],
         checks' \in [Calls \X TxIds ->
                        {NoCheck} \cup [step : {"receipt", "block", "count"}, meta : PendingMeta]],
         \A c \in Calls, t \in TxIds :
           /\ IsSoundCheck(t, checks'[<<c, t>>])
           /\ checks[<<c, t>>] = NoCheck => checks'[<<c, t>>] = NoCheck,
         MaxMishaps \in Nat, mishaps' \in 0..MaxMishaps, mishaps' >= mishaps
  PROVE  ControlInv'
<1>1. \A c \in Calls : Unchecked(c) => Unchecked(c)' BY DEF Unchecked
<1>2. TrackerTypeOK' BY TrackerTypes DEF ControlInv, TrackerTypeOK, PassesGoOn
<1>3. CopiesAreSound' BY CopiesKept DEF ControlInv, CopiesAreSound, PassesGoOn
<1>4. MinedWasSent' /\ MinedInOrder' BY DEF ControlInv, MinedWasSent, MinedInOrder
<1>5. LockIsHeld' /\ PassIsCalled' /\ ForcedOnce'
  BY <1>1 DEF ControlInv, LockIsHeld, PassIsCalled, ForcedOnce, Calls
<1>6. LeftByMishaps'
  BY <1>1, FS_Subset, FS_CardinalityType DEF LeftBehind, ControlInv, LeftByMishaps, TrackerTypeOK
<1>7. Sound(transactions)' BY ListKept
<1> QED BY <1>2, <1>3, <1>4, <1>5, <1>6, <1>7 DEF ControlInv

\* The holder of the lock gives it up.
LEMMA LockGoesOn ==
  ASSUME ControlInv, TrackerAssumption, NoTxAssumption, NEW c \in Calls,
         NEW T, Sound(T), lockReleased(c, T), globalLock # <<>>, c = Head(globalLock),
         calls[c].step \in {"waiting", "checking"},
         c \in Replacements => replacing[c].step = "forcing",
         UNCHANGED <<mined, sent, block, clock>>,
         droppedBlockCount' \in [TxIds -> 0..DroppedBlockCount],
         checks' \in [Calls \X TxIds ->
                        {NoCheck} \cup [step : {"receipt", "block", "count"}, meta : PendingMeta]],
         \A d \in Calls, t \in TxIds : checks'[<<d, t>>] \in {checks[<<d, t>>], NoCheck},
         MaxMishaps \in Nat, mishaps' \in 0..MaxMishaps, mishaps' >= mishaps,
         Unchecked(c)' \/ mishaps' = mishaps + 1
  PROVE  ControlInv'
<1>1. /\ Sound(transactions')
      /\ globalLock' = Tail(globalLock)
      /\ \/ /\ c \in Polls /\ replacing' = replacing
            /\ \E pass, step : IsPassOf(c, pass, step)
         \/ /\ c \in Replacements /\ passes' = passes
            /\ replacing' = [replacing EXCEPT ![c] = [step |-> "done"]]
            /\ calls' = [calls EXCEPT ![c].step = "idle"]
  BY LockReleased
<1>2. /\ calls \in [Calls -> [step : {"idle", "waiting", "checking", "resubmitting"},
                              block : 0..MaxBlocks]]
      /\ globalLock \in Seq(Calls)
      /\ passes \in [Polls -> [snapshots : Lists, publishing : TxIds \cup {NoTx}, fresh : BOOLEAN]]
      /\ replacing \in [Replacements ->
           {NoReplacement, [step |-> "done"]}
             \cup [step : {"publishing", "forcing"}, kind : {"cancel", "retry"},
                   tx : TxIds, meta : PendingMeta, fresh : BOOLEAN]]
      /\ block \in 0..MaxBlocks /\ clock \in Nat /\ mishaps \in 0..MaxMishaps
  BY DEF ControlInv, TrackerTypeOK, Lists
<1>3. PICK step \in {"idle", "resubmitting"} : calls' = [calls EXCEPT ![c].step = step]
  BY <1>1 DEF IsPassOf
<1>13. /\ (replacing' = replacing \/ replacing' = [replacing EXCEPT ![c] = [step |-> "done"]])
       /\ \A r \in Replacements : replacing'[r] \in {replacing[r], [step |-> "done"]}
       /\ \A r \in Replacements \ {c} : replacing'[r] = replacing[r]
  <2>1. replacing' = replacing \/ replacing' = [replacing EXCEPT ![c] = [step |-> "done"]]
    BY <1>1
  <2> DEFINE R == {NoReplacement, [step |-> "done"]}
             \cup [step : {"publishing", "forcing"}, kind : {"cancel", "retry"},
                   tx : TxIds, meta : PendingMeta, fresh : BOOLEAN]
  <2>2. replacing \in [Replacements -> R]
    BY <1>2
  <2> HIDE DEF R
  <2> QED BY <2>1, <2>2
<1>4. PassesGoOn
  BY <1>1 DEF PassesGoOn, IsPassOf
<1>5. TrackerTypeOK'
  <2>1. globalLock' \in Seq(Calls)
    BY <1>1, <1>2
  <2>2. calls' \in [Calls -> [step : {"idle", "waiting", "checking", "resubmitting"},
                              block : 0..MaxBlocks]]
    <3>1. calls \in [Calls -> [step : {"idle", "waiting", "checking", "resubmitting"},
                               block : 0..MaxBlocks]]
      BY <1>2
    <3> QED BY <1>3, <3>1
  <2>3. replacing' \in [Replacements ->
           {NoReplacement, [step |-> "done"]}
             \cup [step : {"publishing", "forcing"}, kind : {"cancel", "retry"},
                   tx : TxIds, meta : PendingMeta, fresh : BOOLEAN]]
    <3> DEFINE R == {NoReplacement, [step |-> "done"]}
               \cup [step : {"publishing", "forcing"}, kind : {"cancel", "retry"},
                     tx : TxIds, meta : PendingMeta, fresh : BOOLEAN]
    <3>1. replacing \in [Replacements -> R]
      BY <1>2
    <3>2. [step |-> "done"] \in R
      OBVIOUS
    <3> HIDE DEF R
    <3>3. replacing' \in [Replacements -> R]
      BY <1>13, <3>1, <3>2
    <3> QED BY <3>3 DEF R
  <2> QED BY <1>1, <1>2, <1>4, <2>1, <2>2, <2>3, TrackerTypes
<1>6. CopiesAreSound'
  <2>1. \A r \in Replacements : replacing'[r].step \in {"publishing", "forcing"} =>
          IsPendingCopy(replacing'[r].tx, replacing'[r].meta)
    BY <1>13 DEF ControlInv, CopiesAreSound
  <2>2. \A d \in Calls, t \in TxIds : IsSoundCheck(t, checks'[<<d, t>>])
    BY DEF ControlInv, CopiesAreSound, IsSoundCheck
  <2> QED BY <1>4, <2>1, <2>2, CopiesKept
<1>7. MinedWasSent' /\ MinedInOrder'
  <2>2. \A r \in Replacements : /\ replacing'[r].step = "publishing" => sent[r] = NoNonce
                                /\ replacing'[r] = NoReplacement => replacing[r] = NoReplacement
    BY <1>13 DEF ControlInv, MinedWasSent, NoReplacement
  <2> QED BY <2>2, NetworkKept
<1>8. LockIsHeld'
  <2>1. \A d \in Calls : calls'[d].step = "checking" => d # c /\ calls[d].step = "checking"
    BY <1>2, <1>3
  <2> QED BY <2>1 DEF ControlInv, LockIsHeld
<1>9. PassIsCalled'
  <2>1. CASE c \in Polls
    <3>1. PICK pass, step1 : IsPassOf(c, pass, step1)
      BY <1>1, <2>1 DEF TrackerAssumption
    <3> QED BY <1>2, <2>1, <3>1 DEF IsPassOf, ControlInv, PassIsCalled, Calls
  <2>2. CASE c \notin Polls
    BY <1>1, <1>2, <2>2 DEF ControlInv, PassIsCalled, Calls
  <2> QED BY <2>1, <2>2
<1>10. ForcedOnce'
  <2>1. \A d \in Calls : Unchecked(d) => Unchecked(d)'
    BY DEF Unchecked
  <2>2. \A r \in Replacements : calls'[r].step \in {"waiting", "checking"} =>
          r # c /\ calls[r].step \in {"waiting", "checking"}
    BY <1>2, <1>3 DEF Calls
  <2>3. \A r \in Replacements : r # c => replacing'[r] = replacing[r]
    BY <1>13
  <2>4. \A r \in Replacements : replacing'[r].step \in {"idle", "publishing"} =>
          replacing[r].step \in {"idle", "publishing"}
    BY <1>13
  <2> QED BY <2>1, <2>2, <2>3, <2>4 DEF ControlInv, ForcedOnce, Calls
<1>11. LeftByMishaps'
  <2>1. /\ \A d \in Calls \ {c} : calls'[d].step = calls[d].step
        /\ calls'[c].step \in {"idle", "resubmitting"}
    BY <1>2, <1>3
  <2>2. mishaps \in Nat /\ mishaps' \in Nat
    BY <1>2
  <2> QED BY <2>1, <2>2, CallsKept
<1>12. Sound(transactions)'
  BY <1>1, ListKept
<1> QED BY <1>5, <1>6, <1>7, <1>8, <1>9, <1>10, <1>11, <1>12 DEF ControlInv

LEMMA CheckEnds ==
  ASSUME ControlInv, TrackerAssumption, NoTxAssumption, NEW c \in Calls, NEW t \in TxIds,
         checks[<<c, t>>] # NoCheck, NEW T, Sound(T), NEW throws \in BOOLEAN,
         checkEnds(c, t, T, throws),
         UNCHANGED <<mined, sent, block, clock>>,
         droppedBlockCount' \in [TxIds -> 0..DroppedBlockCount],
         mishaps' \in 0..MaxMishaps, mishaps' >= mishaps,
         throws => mishaps' = mishaps + 1
  PROVE  /\ ControlInv'
         /\ checks' = [checks EXCEPT ![<<c, t>>] = NoCheck]
<1>1. checks' = [checks EXCEPT ![<<c, t>>] = NoCheck]
  BY DEF checkEnds
<1>2. checks \in [Calls \X TxIds ->
                    {NoCheck} \cup [step : {"receipt", "block", "count"}, meta : PendingMeta]]
  BY DEF ControlInv, TrackerTypeOK
<1>3. checks' \in [Calls \X TxIds ->
                     {NoCheck} \cup [step : {"receipt", "block", "count"}, meta : PendingMeta]]
  BY <1>1, <1>2
<1>4. \A d \in Calls, u \in TxIds : checks'[<<d, u>>] \in {checks[<<d, u>>], NoCheck}
  BY <1>1, <1>2
<1>5. MaxMishaps \in Nat
  BY DEF TrackerAssumption
<1>6. CASE calls[c].step = "checking" /\ isOver(c, t, throws)
  <2>1. lockReleased(c, T)
    BY <1>6 DEF checkEnds
  <2>2. globalLock # <<>> /\ c = Head(globalLock)
    BY <1>6 DEF ControlInv, LockIsHeld
  <2>3. c \in Replacements => replacing[c].step = "forcing"
    BY <1>6 DEF ControlInv, ForcedOnce
  <2>4. Unchecked(c)' \/ mishaps' = mishaps + 1
    BY <1>1, <1>2, <1>6 DEF isOver, Unchecked
  <2> QED BY <1>1, <1>3, <1>4, <1>5, <1>6, <2>1, <2>2, <2>3, <2>4, LockGoesOn
<1>7. CASE ~(calls[c].step = "checking" /\ isOver(c, t, throws))
  <2>1. transactions' = T /\ UNCHANGED <<globalLock, calls, passes, replacing>>
    BY <1>7 DEF checkEnds
  <2>2. Sound(transactions')
    BY <2>1
  <2>3. \A d \in Calls, u \in TxIds :
           /\ IsSoundCheck(u, checks'[<<d, u>>])
           /\ checks[<<d, u>>] = NoCheck => checks'[<<d, u>>] = NoCheck
    BY <1>4 DEF ControlInv, CopiesAreSound, IsSoundCheck
  <2> QED BY <1>1, <1>3, <1>5, <2>1, <2>2, <2>3, ChecksChange
<1> QED BY <1>6, <1>7

-----------------------------------------------------------------------------
(* The answers to checks.                                                  *)

\* What a check has.
LEMMA CheckHas ==
  ASSUME ControlInv, NEW c \in Calls, NEW t \in TxIds, checks[<<c, t>>].step # "none"
  PROVE  /\ checks[<<c, t>>] \in [step : {"receipt", "block", "count"}, meta : PendingMeta]
         /\ checks[<<c, t>>].meta \in PendingMeta
         /\ checks[<<c, t>>].meta.nonce \in Nonces
         /\ checks[<<c, t>>] # NoCheck
         /\ IsPendingCopy(t, checks[<<c, t>>].meta) /\ checks[<<c, t>>].meta.hash
         /\ sent[t] = checks[<<c, t>>].meta.nonce
         /\ checks[<<c, t>>].step = "block" =>
              mined[checks[<<c, t>>].meta.nonce] = [by |-> t, success |-> TRUE]
BY CheckCounts DEF ControlInv, TrackerTypeOK, CopiesAreSound, PendingMeta, IsSoundCheck, IsPendingCopy,
   IsCopyOf

\* An entry of the list is replaced by one that is true.
LEMMA EntryIsWritten ==
  ASSUME NEW T, Sound(T), NEW t \in TxIds, NEW meta \in PendingMeta,
         IsCopyOf(t, meta), IsTrue(t, meta)
  PROVE  Sound(updateTransaction(T, t, meta))
BY DEF Sound, Lists, updateTransaction

LEMMA DuplicatesAreDropped ==
  ASSUME NoTxAssumption, NEW T, Sound(T), NEW t \in TxIds,
         T[t] # NoTx => T[t].status = "confirmed"
  PROVE  Sound(markNonceDuplicatesDropped(T, t))
<1>1. CASE T[t] = NoTx BY <1>1 DEF markNonceDuplicatesDropped
<1>2. CASE T[t] # NoTx
  <2> DEFINE U == markNonceDuplicatesDropped(T, t)
  <2>1. mined[T[t].nonce].by = t BY <1>2 DEF Sound, IsTrue
  <2>2. U = [u \in TxIds |->
               IF u \in sameNonceTransactions(T, t) /\ T[u].status # "failed"
               THEN [T[u] EXCEPT !.status = "dropped"] ELSE T[u]]
    BY <1>2 DEF markNonceDuplicatesDropped
  <2> HIDE DEF U
  <2>3. ASSUME NEW u \in TxIds, U[u] # T[u]
        PROVE  /\ U[u] \in PendingMeta /\ IsCopyOf(u, U[u]) /\ IsTrue(u, U[u])
    BY <2>2, <2>3, <2>1 DEF sameNonceTransactions, present, Sound, Lists, PendingMeta, Statuses, Unmined,
       NoTxAssumption, IsCopyOf, IsTrue
  <2>4. U \in Lists BY <2>2, <2>3 DEF Sound, Lists
  <2> QED BY <2>3, <2>4 DEF Sound, U
<1> QED BY <1>1, <1>2

\* A check ends without a change of the network and of the counts.
LEMMA CheckFails ==
  ASSUME TrackerInv, TrackerAssumption, NoTxAssumption, NEW c \in Calls, NEW t \in TxIds,
         checkFails(c, t)
  PROVE  TrackerInv'
<1> DEFINE step == checks[<<c, t>>].step
           T == IF step = "count" THEN transactions
                ELSE updateTransaction(transactions, t, checks[<<c, t>>].meta)
<1>1. /\ step # "none" /\ mishaps < MaxMishaps /\ mishaps' = mishaps + 1
      /\ checkEnds(c, t, T, step = "count")
      /\ UNCHANGED <<droppedBlockCount, mined, sent, block, clock>>
  BY DEF checkFails, mishap, networkVars
<1>2. /\ checks[<<c, t>>] # NoCheck /\ checks[<<c, t>>].meta \in PendingMeta
      /\ IsPendingCopy(t, checks[<<c, t>>].meta) BY <1>1, CheckHas DEF TrackerInv
<1>3. Sound(T) BY <1>2, EntryIsWritten DEF TrackerInv, ControlInv, IsPendingCopy, IsTrue
<1>4. /\ MaxMishaps \in Nat /\ mishaps \in 0..MaxMishaps
      /\ droppedBlockCount' \in [TxIds -> 0..DroppedBlockCount]
  BY <1>1 DEF TrackerInv, ControlInv, TrackerTypeOK, TrackerAssumption
<1>5. mishaps' \in 0..MaxMishaps /\ mishaps' >= mishaps /\ mishaps \in Nat /\ mishaps' \in Nat
  BY <1>1, <1>4
<1> HIDE DEF T
<1>6. (step = "count") \in BOOLEAN OBVIOUS
<1>7. ControlInv' /\ checks' = [checks EXCEPT ![<<c, t>>] = NoCheck]
  BY <1>1, <1>2, <1>3, <1>4, <1>5, <1>6, CheckEnds DEF TrackerInv
<1>8. \A d \in Calls, u \in TxIds :
        checks'[<<d, u>>].step = "count" => checks[<<d, u>>].step = "count"
  BY <1>7 DEF TrackerInv, ControlInv, TrackerTypeOK, NoCheck
<1>9. CountsAreLate' BY <1>1, <1>5, <1>8, CountsKept
<1> QED BY <1>7, <1>9 DEF TrackerInv

LEMMA BlockAnswered ==
  ASSUME TrackerInv, TrackerAssumption, NoTxAssumption, NEW c \in Calls, NEW t \in TxIds,
         blockAnswered(c, t)
  PROVE  TrackerInv'
<1> DEFINE meta == checks[<<c, t>>].meta
           T == confirmed(transactions, t, meta)
<1>1. /\ checks[<<c, t>>].step = "block"
      /\ checkEnds(c, t, T, FALSE)
      /\ UNCHANGED <<droppedBlockCount, mined, sent, block, mishaps, clock>>
  BY DEF blockAnswered, networkVars, trackerWorld
<1>2. /\ checks[<<c, t>>] # NoCheck /\ meta \in PendingMeta /\ IsPendingCopy(t, meta)
      /\ mined[meta.nonce] = [by |-> t, success |-> TRUE] BY <1>1, CheckHas DEF TrackerInv
<1>3. Sound(T)
  <2> DEFINE copy == [meta EXCEPT !.status = "confirmed"]
             U == updateTransaction(transactions, t, copy)
  <2>1. Sound(transactions) BY DEF TrackerInv, ControlInv
  <2>2. copy \in PendingMeta /\ copy.status = "confirmed" /\ copy.nonce = meta.nonce
        /\ copy.hash = meta.hash BY <1>2 DEF PendingMeta, Statuses
  <2> HIDE DEF copy
  <2>3. IsCopyOf(t, copy) /\ IsTrue(t, copy) BY <1>2, <2>2 DEF IsPendingCopy, IsCopyOf, IsTrue
  <2>4. Sound(U) BY <2>1, <2>2, <2>3, EntryIsWritten
  <2>5. U[t] # NoTx => U[t].status = "confirmed" BY <2>1, <2>2 DEF updateTransaction, Sound, Lists
  <2>6. T = markNonceDuplicatesDropped(U, t) BY DEF confirmed, settled, copy
  <2> HIDE DEF U
  <2> QED BY <2>4, <2>5, <2>6, DuplicatesAreDropped
<1>4. /\ mishaps \in 0..MaxMishaps /\ MaxMishaps \in Nat
      /\ droppedBlockCount' \in [TxIds -> 0..DroppedBlockCount]
  BY <1>1 DEF TrackerInv, ControlInv, TrackerTypeOK, TrackerAssumption
<1>5. mishaps' \in 0..MaxMishaps /\ mishaps' >= mishaps /\ mishaps \in Nat /\ mishaps' \in Nat
  BY <1>1, <1>4
<1> HIDE DEF T
<1>7. ControlInv' /\ checks' = [checks EXCEPT ![<<c, t>>] = NoCheck]
  BY <1>1, <1>2, <1>3, <1>4, <1>5, CheckEnds DEF TrackerInv
<1>8. \A d \in Calls, u \in TxIds :
        checks'[<<d, u>>].step = "count" => checks[<<d, u>>].step = "count"
  BY <1>7 DEF TrackerInv, ControlInv, TrackerTypeOK, NoCheck
<1>9. CountsAreLate' BY <1>1, <1>5, <1>8, CountsKept
<1> QED BY <1>7, <1>9 DEF TrackerInv

\* One more check counts: the transaction is not in a block, or it is a mishap.
LEMMA CountsOnceMore ==
  ASSUME TrackerInv, TrackerAssumption, UNCHANGED <<mined, sent, droppedBlockCount>>,
         mishaps' \in Nat, mishaps \in Nat, mishaps' >= mishaps,
         NEW c \in Calls, NEW t \in TxIds,
         \A d \in Calls, u \in TxIds : (d # c \/ u # t) =>
           (checks'[<<d, u>>].step = "count" => checks[<<d, u>>].step = "count"),
         mined[sent[t]].by # t \/ mishaps' = mishaps + 1
  PROVE  CountsAreLate'
<1>1. ASSUME NEW u \in TxIds, sent[u] \in Nonces, mined[sent[u]].by = u
      PROVE  /\ IsFiniteSet(Counting(u)')
             /\ Cardinality(Counting(u)') + droppedBlockCount[u] <= mishaps' + 1
  <2>1. IsFiniteSet(Counting(u)) /\ Cardinality(Counting(u)) + droppedBlockCount[u] <= mishaps + 1
    BY <1>1 DEF TrackerInv, CountsAreLate
  <2>2. Cardinality(Counting(u)) \in Nat BY <2>1, FS_CardinalityType
  <2>3. DroppedBlockCount \in Nat BY DEF TrackerAssumption
  <2>4. droppedBlockCount \in [TxIds -> 0..DroppedBlockCount]
    BY DEF TrackerInv, ControlInv, TrackerTypeOK
  <2>5. droppedBlockCount[u] \in 0..DroppedBlockCount BY <2>4
  <2>6. droppedBlockCount[u] \in Nat BY <2>3, <2>5
  <2>7. CASE u # t
    <3>1. Counting(u)' \in SUBSET Counting(u) BY <2>7 DEF Counting
    <3>2. /\ IsFiniteSet(Counting(u)') /\ Cardinality(Counting(u)') <= Cardinality(Counting(u))
          /\ Cardinality(Counting(u)') \in Nat BY <2>1, <3>1, FS_Subset, FS_CardinalityType
    <3> HIDE DEF Counting
    <3>3. mishaps \in Nat /\ mishaps' \in Nat /\ mishaps' >= mishaps OBVIOUS
    <3> QED BY <2>1, <2>2, <2>6, <3>2, <3>3
  <2>8. CASE u = t
    <3>1. Counting(u)' \in SUBSET (Counting(u) \cup {c}) BY <2>8 DEF Counting
    <3>2. /\ IsFiniteSet(Counting(u) \cup {c})
          /\ Cardinality(Counting(u) \cup {c}) = IF c \in Counting(u) THEN Cardinality(Counting(u))
                                                 ELSE Cardinality(Counting(u)) + 1
      BY <2>1, FS_AddElement
    <3>3. /\ IsFiniteSet(Counting(u)')
          /\ Cardinality(Counting(u)') <= Cardinality(Counting(u) \cup {c})
          /\ Cardinality(Counting(u)') \in Nat BY <3>1, <3>2, FS_Subset, FS_CardinalityType
    <3>4. mishaps \in Nat /\ mishaps' = mishaps + 1 BY <1>1, <2>8
    <3>5. Cardinality(Counting(u)') <= Cardinality(Counting(u)) + 1 BY <2>2, <3>2, <3>3
    <3> QED BY <2>1, <2>2, <2>6, <3>3, <3>4, <3>5
  <2> QED BY <2>7, <2>8
<1>2. \A u \in TxIds : droppedBlockCount'[u] > 0 => sent'[u] \in Nonces /\ mined'[sent'[u]] # Unmined
  BY DEF TrackerInv, CountsAreLate
<1> QED BY <1>1, <1>2 DEF CountsAreLate

LEMMA CheckGoesOn ==
  ASSUME TrackerInv, TrackerAssumption, NoTxAssumption, NEW c \in Calls, NEW t \in TxIds,
         NEW step \in {"block", "count"}, checks[<<c, t>>].step = "receipt",
         checkGoesOn(c, t, step),
         UNCHANGED <<mined, sent, block, clock, droppedBlockCount>>,
         step = "block" => mined[checks[<<c, t>>].meta.nonce] = [by |-> t, success |-> TRUE],
         step = "count" => mined[sent[t]].by # t \/ mishaps' = mishaps + 1,
         mishaps' \in 0..MaxMishaps, mishaps' >= mishaps
  PROVE  TrackerInv'
<1> DEFINE C == {NoCheck} \cup [step : {"receipt", "block", "count"}, meta : PendingMeta]
<1>1. /\ checks' = [checks EXCEPT ![<<c, t>>].step = step]
      /\ UNCHANGED <<transactions, globalLock, calls, passes, replacing>> BY DEF checkGoesOn
<1>2. /\ checks[<<c, t>>] \in [step : {"receipt", "block", "count"}, meta : PendingMeta]
      /\ checks[<<c, t>>] # NoCheck
      /\ IsPendingCopy(t, checks[<<c, t>>].meta) /\ checks[<<c, t>>].meta.hash
  BY CheckHas DEF TrackerInv
<1>3. checks \in [Calls \X TxIds -> C] BY DEF TrackerInv, ControlInv, TrackerTypeOK
<1> DEFINE check == [checks[<<c, t>>] EXCEPT !.step = step]
<1>4. /\ check \in C /\ check.step = step /\ check.meta = checks[<<c, t>>].meta BY <1>2
<1>5. checks' = [checks EXCEPT ![<<c, t>>] = check] BY <1>1, <1>3
<1> HIDE DEF C, check
<1>6. checks' \in [Calls \X TxIds -> C] BY <1>3, <1>4, <1>5
<1>7. \A d \in Calls, u \in TxIds :
        checks'[<<d, u>>] = IF d = c /\ u = t THEN check ELSE checks[<<d, u>>] BY <1>3, <1>5
<1>8. \A d \in Calls, u \in TxIds :
           /\ IsSoundCheck(u, checks'[<<d, u>>])
           /\ checks[<<d, u>>] = NoCheck => checks'[<<d, u>>] = NoCheck
  <2>1. IsSoundCheck(t, check) BY <1>2, <1>4 DEF IsSoundCheck
  <2>2. \A d \in Calls, u \in TxIds : IsSoundCheck(u, checks[<<d, u>>])
    BY DEF TrackerInv, ControlInv, CopiesAreSound
  <2> QED BY <1>2, <1>7, <2>1, <2>2
<1>9. /\ mishaps \in Nat /\ mishaps' \in Nat /\ MaxMishaps \in Nat
      /\ droppedBlockCount' \in [TxIds -> 0..DroppedBlockCount]
      /\ Sound(transactions') BY <1>1 DEF TrackerAssumption, TrackerInv, ControlInv, TrackerTypeOK
<1>10. ControlInv' BY <1>1, <1>6, <1>8, <1>9, ChecksChange DEF TrackerInv, C
<1>11. CountsAreLate' BY <1>7, <1>9, CountsOnceMore, <1>4, CountsKept
<1> QED BY <1>10, <1>11 DEF TrackerInv

LEMMA ReceiptAnswered ==
  ASSUME TrackerInv, TrackerAssumption, NoTxAssumption, NEW c \in Calls, NEW t \in TxIds,
         receiptAnswered(c, t)
  PROVE  TrackerInv'
<1> DEFINE meta == checks[<<c, t>>].meta
           found == mined[meta.nonce].by = t
<1>1. /\ checks[<<c, t>>].step = "receipt"
      /\ UNCHANGED <<droppedBlockCount, mined, sent, block, clock>>
      /\ \/ /\ found /\ mined[meta.nonce].success
            /\ checkGoesOn(c, t, "block")
            /\ UNCHANGED mishaps
         \/ /\ found /\ ~mined[meta.nonce].success
            /\ checkEnds(c, t, settled(transactions, t, meta, "failed"), FALSE)
            /\ UNCHANGED mishaps
         \/ /\ ~found
            /\ checkGoesOn(c, t, "count")
            /\ UNCHANGED mishaps
         \/ /\ found /\ mishap
            /\ checkGoesOn(c, t, "count") BY DEF receiptAnswered, networkVars
<1>2. /\ checks[<<c, t>>] # NoCheck /\ meta \in PendingMeta /\ IsPendingCopy(t, meta)
      /\ sent[t] = meta.nonce /\ meta.nonce \in Nonces BY <1>1, CheckHas DEF TrackerInv
<1>3. /\ mishaps \in Nat /\ MaxMishaps \in Nat /\ mishaps \in 0..MaxMishaps
      /\ droppedBlockCount' \in [TxIds -> 0..DroppedBlockCount]
  BY <1>1 DEF TrackerAssumption, TrackerInv, ControlInv, TrackerTypeOK
<1>4. CASE /\ found /\ mined[meta.nonce].success
           /\ checkGoesOn(c, t, "block") /\ UNCHANGED mishaps
  <2>1. mined[meta.nonce] \in [by : TxIds \cup {NoTx, "elsewhere"}, success : BOOLEAN]
    BY <1>2 DEF TrackerInv, ControlInv, TrackerTypeOK
  <2>2. mined[meta.nonce] = [by |-> t, success |-> TRUE] BY <1>4, <2>1
  <2> QED BY <1>1, <1>3, <1>4, <2>2, CheckGoesOn
<1>5. CASE /\ found /\ ~mined[meta.nonce].success
           /\ checkEnds(c, t, settled(transactions, t, meta, "failed"), FALSE)
           /\ UNCHANGED mishaps
  <2> DEFINE copy == [meta EXCEPT !.status = "failed"]
             T == settled(transactions, t, meta, "failed")
  <2>1. copy \in PendingMeta /\ copy.status = "failed" /\ copy.nonce = meta.nonce
        /\ copy.hash = meta.hash BY <1>2 DEF PendingMeta, Statuses
  <2> HIDE DEF copy
  <2>2. IsCopyOf(t, copy) /\ IsTrue(t, copy) BY <1>2, <1>5, <2>1 DEF IsPendingCopy, IsCopyOf, IsTrue
  <2>3. T = updateTransaction(transactions, t, copy) BY DEF settled, copy
  <2>4. Sound(T) BY <2>1, <2>2, <2>3, EntryIsWritten DEF TrackerInv, ControlInv
  <2> HIDE DEF T
  <2>5. mishaps' \in 0..MaxMishaps /\ mishaps' >= mishaps /\ mishaps' \in Nat BY <1>3, <1>5
  <2>6. checkEnds(c, t, T, FALSE) BY <1>5 DEF T
  <2>7. ControlInv' /\ checks' = [checks EXCEPT ![<<c, t>>] = NoCheck]
    BY <1>1, <1>2, <1>3, <2>4, <2>5, <2>6, CheckEnds DEF TrackerInv
  <2>8. \A d \in Calls, u \in TxIds :
          checks'[<<d, u>>].step = "count" => checks[<<d, u>>].step = "count"
    BY <2>7 DEF TrackerInv, ControlInv, TrackerTypeOK, NoCheck
  <2>9. CountsAreLate' BY <1>1, <1>3, <2>5, <2>8, CountsKept
  <2> QED BY <2>7, <2>9 DEF TrackerInv
<1>6. CASE ~found /\ checkGoesOn(c, t, "count") /\ UNCHANGED mishaps
  <2>1. mined[sent[t]].by # t BY <1>2, <1>6
  <2>2. mishaps' \in 0..MaxMishaps /\ mishaps' >= mishaps BY <1>3, <1>6
  <2> QED BY <1>1, <1>6, <2>1, <2>2, CheckGoesOn
<1>7. CASE found /\ mishap /\ checkGoesOn(c, t, "count")
  <2>1. mishaps' = mishaps + 1 /\ mishaps < MaxMishaps BY <1>7 DEF mishap
  <2>2. mishaps' \in 0..MaxMishaps /\ mishaps' >= mishaps BY <1>3, <2>1
  <2> QED BY <1>1, <1>7, <2>1, <2>2, CheckGoesOn
<1> QED BY <1>1, <1>4, <1>5, <1>6, <1>7

\* A transaction that is in a block has not been denied often enough to be dropped.
LEMMA NotDropped ==
  ASSUME TrackerInv, TrackerAssumption, NEW c \in Calls, NEW t \in TxIds,
         checks[<<c, t>>].step = "count", sent[t] \in Nonces, mined[sent[t]].by = t
  PROVE  /\ ~isHit(droppedBlockCount[t])
         /\ IsFiniteSet(Counting(t) \ {c})
         /\ Cardinality(Counting(t) \ {c}) + droppedBlockCount[t] + 1 <= mishaps + 1
<1>1. IsFiniteSet(Counting(t)) /\ Cardinality(Counting(t)) + droppedBlockCount[t] <= mishaps + 1
  BY DEF TrackerInv, CountsAreLate
<1>2. c \in Counting(t) BY DEF Counting
<1>3. /\ IsFiniteSet(Counting(t) \ {c})
      /\ Cardinality(Counting(t) \ {c}) = Cardinality(Counting(t)) - 1
      /\ Cardinality(Counting(t) \ {c}) \in Nat /\ Cardinality(Counting(t)) \in Nat
  BY <1>1, <1>2, FS_RemoveElement, FS_CardinalityType
<1>4. DroppedBlockCount \in Nat /\ MaxMishaps \in Nat /\ MaxMishaps < DroppedBlockCount
  BY DEF TrackerAssumption
<1>5. droppedBlockCount[t] \in 0..DroppedBlockCount /\ mishaps \in 0..MaxMishaps
  BY DEF TrackerInv, ControlInv, TrackerTypeOK
<1>6. /\ droppedBlockCount[t] \in Nat /\ droppedBlockCount[t] <= DroppedBlockCount
      /\ mishaps \in Nat /\ mishaps <= MaxMishaps BY <1>4, <1>5
<1> DEFINE k == Cardinality(Counting(t) \ {c})
           m == Cardinality(Counting(t))
           d == droppedBlockCount[t]
<1>7. k = m - 1 /\ k \in Nat /\ m \in Nat /\ d \in Nat /\ m + d <= mishaps + 1 BY <1>1, <1>3, <1>6
<1> HIDE DEF k, m, d
<1>8. k + d + 1 <= mishaps + 1 /\ ~(d >= DroppedBlockCount) BY <1>4, <1>6, <1>7
<1> QED BY <1>3, <1>8 DEF k, d, isHit

LEMMA CountAnswered ==
  ASSUME TrackerInv, TrackerAssumption, NoTxAssumption, NEW c \in Calls, NEW t \in TxIds,
         countAnswered(c, t)
  PROVE  TrackerInv'
<1> DEFINE meta == checks[<<c, t>>].meta
           spent == meta.nonce < transactionCount
           hit == isHit(droppedBlockCount[t])
           T == IF spent /\ hit THEN settled(transactions, t, meta, "dropped") ELSE transactions
<1>1. /\ checks[<<c, t>>].step = "count"
      /\ checkEnds(c, t, T, FALSE)
      /\ droppedBlockCount' = [droppedBlockCount EXCEPT ![t] =
          IF ~spent THEN @ ELSE IF hit THEN 0 ELSE @ + 1]
      /\ UNCHANGED <<mined, sent, block, mishaps, clock>>
  BY DEF countAnswered, networkVars, trackerWorld
<1>2. /\ checks[<<c, t>>] # NoCheck /\ meta \in PendingMeta /\ IsPendingCopy(t, meta)
      /\ sent[t] = meta.nonce /\ meta.nonce \in Nonces BY <1>1, CheckHas DEF TrackerInv
<1>3. spent <=> mined[sent[t]] # Unmined BY <1>2, CountOfMined DEF TrackerInv, ControlInv
<1>4. mined[sent[t]].by = t => spent /\ ~hit
  <2>1. mined[sent[t]].by = t => mined[sent[t]] # Unmined BY DEF Unmined, NoTxAssumption
  <2> QED BY <1>1, <1>2, <1>3, <2>1, NotDropped
<1>5. Sound(T)
  <2>1. Sound(transactions) BY DEF TrackerInv, ControlInv
  <2>2. CASE ~(spent /\ hit) BY <2>1, <2>2
  <2>3. CASE spent /\ hit
    <3> DEFINE copy == [meta EXCEPT !.status = "dropped"]
    <3>1. copy \in PendingMeta /\ copy.status = "dropped" /\ copy.nonce = meta.nonce
          /\ copy.hash = meta.hash BY <1>2 DEF PendingMeta, Statuses
    <3>2. T = updateTransaction(transactions, t, copy) BY <2>3 DEF settled
    <3> HIDE DEF copy, T
    <3>3. IsCopyOf(t, copy) /\ IsTrue(t, copy)
      BY <1>2, <1>3, <1>4, <2>3, <3>1 DEF IsPendingCopy, IsCopyOf, IsTrue
    <3> QED BY <2>1, <3>1, <3>2, <3>3, EntryIsWritten
  <2> QED BY <2>2, <2>3
<1>6. droppedBlockCount' \in [TxIds -> 0..DroppedBlockCount]
  <2>1. DroppedBlockCount \in Nat BY DEF TrackerAssumption
  <2>2. droppedBlockCount \in [TxIds -> 0..DroppedBlockCount]
    BY DEF TrackerInv, ControlInv, TrackerTypeOK
  <2> HIDE DEF spent
  <2> QED BY <1>1, <2>1, <2>2 DEF isHit
<1>7. /\ mishaps \in 0..MaxMishaps /\ mishaps' \in 0..MaxMishaps /\ mishaps' >= mishaps
      /\ mishaps \in Nat /\ mishaps' \in Nat
  <2>1. MaxMishaps \in Nat BY DEF TrackerAssumption
  <2>2. mishaps \in 0..MaxMishaps BY DEF TrackerInv, ControlInv, TrackerTypeOK
  <2> HIDE DEF spent, hit, T
  <2> QED BY <1>1, <2>1, <2>2
<1> HIDE DEF T
<1>8. ControlInv' /\ checks' = [checks EXCEPT ![<<c, t>>] = NoCheck]
  BY <1>1, <1>2, <1>5, <1>6, <1>7, CheckEnds DEF TrackerInv
<1>9. /\ \A u \in TxIds \ {t} : Counting(u)' \in SUBSET Counting(u)
      /\ Counting(t)' = Counting(t) \ {c}
  <2> DEFINE C == {NoCheck} \cup [step : {"receipt", "block", "count"}, meta : PendingMeta]
  <2>1. checks \in [Calls \X TxIds -> C] BY DEF TrackerInv, ControlInv, TrackerTypeOK
  <2> HIDE DEF C
  <2>2. \A d \in Calls, u \in TxIds :
          checks'[<<d, u>>] = IF d = c /\ u = t THEN NoCheck ELSE checks[<<d, u>>] BY <1>8, <2>1
  <2>3. NoCheck.step # "count" BY DEF NoCheck
  <2> QED BY <2>2, <2>3 DEF Counting
<1>10. /\ \A u \in TxIds \ {t} : droppedBlockCount'[u] = droppedBlockCount[u]
       /\ droppedBlockCount'[t] = IF ~spent THEN droppedBlockCount[t]
                                  ELSE IF hit THEN 0 ELSE droppedBlockCount[t] + 1
  <2>1. droppedBlockCount \in [TxIds -> 0..DroppedBlockCount]
    BY DEF TrackerInv, ControlInv, TrackerTypeOK
  <2> HIDE DEF spent, hit
  <2> QED BY <1>1, <2>1
<1>11. CountsAreLate'
  <2>1. \A u \in TxIds : droppedBlockCount'[u] > 0 => sent[u] \in Nonces /\ mined[sent[u]] # Unmined
    <3> HIDE DEF spent, hit
    <3>1. ASSUME NEW u \in TxIds \ {t}, droppedBlockCount'[u] > 0
          PROVE  sent[u] \in Nonces /\ mined[sent[u]] # Unmined
      BY <1>10, <3>1 DEF TrackerInv, CountsAreLate
    <3>2. droppedBlockCount'[t] > 0 => sent[t] \in Nonces /\ mined[sent[t]] # Unmined
      BY <1>2, <1>3, <1>10 DEF TrackerInv, CountsAreLate
    <3> QED BY <3>1, <3>2
  <2>2. ASSUME NEW u \in TxIds, sent[u] \in Nonces, mined[sent[u]].by = u
        PROVE  /\ IsFiniteSet(Counting(u)')
               /\ Cardinality(Counting(u)') + droppedBlockCount'[u] <= mishaps + 1
    <3>1. CASE u # t
      <4>1. /\ IsFiniteSet(Counting(u))
            /\ Cardinality(Counting(u)) + droppedBlockCount[u] <= mishaps + 1
        BY <2>2 DEF TrackerInv, CountsAreLate
      <4>2. /\ IsFiniteSet(Counting(u)') /\ Cardinality(Counting(u)') <= Cardinality(Counting(u))
            /\ Cardinality(Counting(u)') \in Nat /\ Cardinality(Counting(u)) \in Nat
        BY <1>9, <3>1, <4>1, FS_Subset, FS_CardinalityType
      <4>3. droppedBlockCount'[u] = droppedBlockCount[u] /\ droppedBlockCount'[u] \in Nat
        BY <1>6, <1>10, <3>1 DEF TrackerAssumption
      <4> HIDE DEF Counting
      <4> QED BY <1>7, <4>1, <4>2, <4>3
    <3>2. CASE u = t
      <4>1. /\ IsFiniteSet(Counting(t) \ {c})
            /\ Cardinality(Counting(t) \ {c}) + droppedBlockCount[t] + 1 <= mishaps + 1
        BY <1>1, <2>2, <3>2, NotDropped
      <4>2. spent /\ ~hit BY <1>4, <2>2, <3>2
      <4> HIDE DEF spent, hit
      <4>3. droppedBlockCount'[t] = droppedBlockCount[t] + 1 BY <1>10, <4>2
      <4>4. droppedBlockCount[t] \in Nat
        BY DEF TrackerAssumption, TrackerInv, ControlInv, TrackerTypeOK
      <4>5. Cardinality(Counting(t)') = Cardinality(Counting(t) \ {c}) /\ IsFiniteSet(Counting(t)')
        BY <1>9, <4>1
      <4>6. Cardinality(Counting(t) \ {c}) \in Nat BY <4>1, FS_CardinalityType
      <4> HIDE DEF Counting
      <4> QED BY <1>7, <3>2, <4>1, <4>3, <4>4, <4>5, <4>6
    <3> QED BY <3>1, <3>2
  <2> QED BY <1>1, <2>1, <2>2 DEF CountsAreLate
<1> QED BY <1>8, <1>11 DEF TrackerInv

-----------------------------------------------------------------------------
(* Checks begin.                                                           *)

Over(meta, status) == [meta EXCEPT !.status = status]

\* What a check finds in the list before it asks the network is true.
LEMMA CheckFinds ==
  ASSUME ControlInv, NoTxAssumption, NEW t \in TxIds, NEW meta \in PendingMeta,
         IsPendingCopy(t, meta)
  PROVE  /\ ~meta.hash => /\ Over(meta, "failed") \in PendingMeta
                          /\ IsCopyOf(t, Over(meta, "failed"))
                          /\ IsTrue(t, Over(meta, "failed"))
         /\ isNonceTaken(transactions, t, meta) =>
              /\ Over(meta, "dropped") \in PendingMeta
              /\ IsCopyOf(t, Over(meta, "dropped"))
              /\ IsTrue(t, Over(meta, "dropped"))
BY DEF PendingMeta, Over, Statuses, isNonceTaken, present, ControlInv, Sound, IsTrue, Unmined, NoTxAssumption,
   IsPendingCopy, IsCopyOf

LEMMA ChecksStart ==
  ASSUME TrackerInv, TrackerAssumption, NoTxAssumption, NEW c \in Calls, checksStart(c)
  PROVE  TrackerInv'
<1> DEFINE pendings == getPendingTransactions(transactions)
           metas == IF c \in Polls THEN [t \in pendings |-> transactions[t]]
                    ELSE [t \in {replacing[c].tx} |-> replacing[c].meta]
           hashless == {t \in DOMAIN metas : ~metas[t].hash}
           taken == {t \in DOMAIN metas \ hashless : isNonceTaken(transactions, t, metas[t])}
           asked == DOMAIN metas \ (hashless \cup taken)
           T == [t \in TxIds |->
              IF transactions[t] = NoTx THEN NoTx
              ELSE IF t \in hashless THEN [metas[t] EXCEPT !.status = "failed"]
              ELSE IF t \in taken THEN [metas[t] EXCEPT !.status = "dropped"]
              ELSE transactions[t]]
           C == {NoCheck} \cup [step : {"receipt", "block", "count"}, meta : PendingMeta]
<1>1. /\ globalLock # <<>> /\ c = Head(globalLock) /\ calls[c].step = "waiting"
      /\ checks' = [ct \in Calls \X TxIds |->
           IF ct[1] = c /\ ct[2] \in asked THEN [step |-> "receipt", meta |-> metas[ct[2]]]
           ELSE checks[ct]]
      /\ IF asked = {} THEN lockReleased(c, T)
         ELSE /\ calls' = [calls EXCEPT ![c].step = "checking"]
              /\ transactions' = T
              /\ UNCHANGED <<globalLock, passes, replacing>>
      /\ UNCHANGED <<droppedBlockCount, mined, sent, block, mishaps, clock>>
  BY DEF checksStart, networkVars, trackerWorld
<1>2. /\ ControlInv
      /\ Unchecked(c) /\ (c \in Replacements => replacing[c].step = "forcing")
  BY <1>1 DEF TrackerInv, ControlInv, LeftByMishaps, ForcedOnce
<1>3. \A t \in DOMAIN metas :
        t \in TxIds /\ metas[t] \in PendingMeta /\ IsPendingCopy(t, metas[t])
  <2>1. CASE c \in Polls
    BY <1>2, <2>1 DEF ControlInv, Sound, Lists, getPendingTransactions, present, IsPendingCopy
  <2>2. CASE c \notin Polls
    <3>1. c \in Replacements /\ replacing[c].step = "forcing" BY <1>2, <2>2 DEF Calls
    <3>2. replacing[c] \in
       {NoReplacement, [step |-> "done"]}
         \cup [step : {"publishing", "forcing"}, kind : {"cancel", "retry"},
               tx : TxIds, meta : PendingMeta, fresh : BOOLEAN]
      BY <1>2, <3>1 DEF ControlInv, TrackerTypeOK
    <3>3. replacing[c] # NoReplacement /\ replacing[c] # [step |-> "done"] BY <3>1 DEF NoReplacement
    <3>4. replacing[c].tx \in TxIds /\ replacing[c].meta \in PendingMeta BY <3>2, <3>3
    <3>5. IsPendingCopy(replacing[c].tx, replacing[c].meta)
      BY <1>2, <3>1 DEF ControlInv, CopiesAreSound
    <3> QED BY <2>2, <3>4, <3>5
  <2> QED BY <2>1, <2>2
<1> HIDE DEF metas
<1>4. Sound(T)
  <2>1. \A t \in TxIds : \/ T[t] = transactions[t]
                         \/ t \in hashless /\ T[t] = Over(metas[t], "failed")
                         \/ t \in taken /\ T[t] = Over(metas[t], "dropped") BY DEF Over
  <2>2. T = [t \in TxIds |-> T[t]] OBVIOUS
  <2>3. /\ \A t \in hashless : t \in DOMAIN metas /\ ~metas[t].hash
        /\ \A t \in taken : t \in DOMAIN metas /\ isNonceTaken(transactions, t, metas[t]) OBVIOUS
  <2>4. Sound(transactions) BY <1>2 DEF ControlInv
  <2> HIDE DEF hashless, taken, T
  <2>5. \A t \in TxIds : T[t] # transactions[t] =>
          T[t] \in PendingMeta /\ IsCopyOf(t, T[t]) /\ IsTrue(t, T[t])
    BY <1>2, <1>3, <2>1, <2>3, CheckFinds
  <2> QED BY <2>2, <2>4, <2>5 DEF Sound, Lists
<1>5. \A t \in asked : t \in TxIds /\ metas[t] \in PendingMeta /\ IsPendingCopy(t, metas[t]) /\ metas[t].hash
  BY <1>3
<1> HIDE DEF asked, T
<1>6. checks \in [Calls \X TxIds -> C] BY <1>2 DEF ControlInv, TrackerTypeOK
<1>7. /\ checks' \in [Calls \X TxIds -> C]
      /\ \A d \in Calls, t \in TxIds : checks'[<<d, t>>] =
            IF d = c /\ t \in asked THEN [step |-> "receipt", meta |-> metas[t]]
            ELSE checks[<<d, t>>]
  <2>1. \A ct \in Calls \X TxIds : ct[1] \in Calls /\ ct[2] \in TxIds OBVIOUS
  <2>2. \A t \in asked : [step |-> "receipt", meta |-> metas[t]] \in C BY <1>5
  <2> HIDE DEF C
  <2>3. checks' \in [Calls \X TxIds -> C] BY <1>1, <1>6, <2>1, <2>2
  <2>4. \A d \in Calls, t \in TxIds : checks'[<<d, t>>] =
            IF d = c /\ t \in asked THEN [step |-> "receipt", meta |-> metas[t]]
            ELSE checks[<<d, t>>] BY <1>1
  <2> QED BY <2>3, <2>4
<1>8. /\ MaxMishaps \in Nat /\ mishaps \in 0..MaxMishaps
      /\ droppedBlockCount' \in [TxIds -> 0..DroppedBlockCount]
  BY <1>1, <1>2 DEF ControlInv, TrackerTypeOK, TrackerAssumption
<1>9. mishaps' \in 0..MaxMishaps /\ mishaps' >= mishaps /\ mishaps \in Nat /\ mishaps' \in Nat
  BY <1>1, <1>8
<1>10. \A d \in Calls, t \in TxIds :
         checks'[<<d, t>>].step = "count" => checks[<<d, t>>].step = "count"
  <2>1. \A t \in asked : [step |-> "receipt", meta |-> metas[t]].step # "count" OBVIOUS
  <2> QED BY <1>7, <2>1
<1>11. CountsAreLate' BY <1>1, <1>9, <1>10, CountsKept
<1>12. CASE asked = {}
  BY <1>7, <1>12, <1>2, <1>1, <1>4, <1>8, <1>9, LockGoesOn, <1>11 DEF Unchecked, C, TrackerInv
<1>13. CASE asked # {}
  <2>1. /\ calls' = [calls EXCEPT ![c].step = "checking"] /\ transactions' = T
        /\ UNCHANGED <<globalLock, passes, replacing>> BY <1>1, <1>13
  <2>2. /\ calls \in [Calls -> [step : {"idle", "waiting", "checking", "resubmitting"},
                                block : 0..MaxBlocks]] BY <1>2 DEF ControlInv, TrackerTypeOK
  <2>3. calls' \in [Calls -> [step : {"idle", "waiting", "checking", "resubmitting"},
                              block : 0..MaxBlocks]] BY <2>1, <2>2
  <2>4. \A d \in Calls : calls'[d].step = IF d = c THEN "checking" ELSE calls[d].step BY <2>1, <2>2
  <2>5. TrackerTypeOK'
    BY <1>2, <1>1, <2>1, <1>4, <1>7, <1>8, <1>9, <2>3, TrackerTypes DEF ControlInv, TrackerTypeOK, PassesGoOn,
       C
  <2>6. CopiesAreSound'
    <3>1. \A d \in Calls, t \in TxIds : IsSoundCheck(t, checks'[<<d, t>>])
      <4>1. \A t \in asked : IsSoundCheck(t, [step |-> "receipt", meta |-> metas[t]])
        BY <1>5 DEF IsSoundCheck
      <4>2. \A d \in Calls, t \in TxIds : IsSoundCheck(t, checks[<<d, t>>])
        BY <1>2 DEF ControlInv, CopiesAreSound
      <4> QED BY <1>7, <4>1, <4>2
    <3>2. \A r \in Replacements : replacing'[r].step \in {"publishing", "forcing"} =>
            IsPendingCopy(replacing'[r].tx, replacing'[r].meta)
      BY <1>2, <2>1 DEF ControlInv, CopiesAreSound
    <3> QED BY <1>1, <1>2, <2>1, <3>1, <3>2, CopiesKept DEF PassesGoOn
  <2>7. MinedWasSent' /\ MinedInOrder'
    BY <1>1, <1>2, <2>1 DEF ControlInv, MinedWasSent, MinedInOrder
  <2>8. LockIsHeld' /\ PassIsCalled'
    BY <1>1, <1>2, <2>1, <2>4 DEF ControlInv, PassIsCalled, LockIsHeld, Calls
  <2>9. \A d \in Calls \ {c} : Unchecked(d) => Unchecked(d)' BY <1>7 DEF Unchecked
  <2>10. ForcedOnce' BY <1>2, <2>1, <2>4, <2>9 DEF ControlInv, ForcedOnce, Calls
  <2>11. LeftByMishaps'
    BY <2>4, <2>9, <1>2, FS_Subset, FS_CardinalityType, <1>9 DEF LeftBehind, ControlInv, LeftByMishaps
  <2>12. Sound(transactions)' BY <1>1, <1>4, <2>1, ListKept
  <2> QED BY <1>11, <2>5, <2>6, <2>7, <2>8, <2>10, <2>11, <2>12 DEF TrackerInv, ControlInv
<1> QED BY <1>12, <1>13

-----------------------------------------------------------------------------
(* Blocks, resubmissions and replacements.                                 *)

\* A step that leaves the checks, the counts and the network alone.
LEMMA ChecksKept ==
  ASSUME TrackerInv, TrackerAssumption,
         UNCHANGED <<mined, sent, droppedBlockCount, checks>>,
         mishaps' \in 0..MaxMishaps, mishaps' >= mishaps,
         block' \in 0..MaxBlocks, clock' \in Nat, Sound(transactions'), PassesGoOn,
         globalLock' \in Seq(Calls),
         calls' \in [Calls -> [step : {"idle", "waiting", "checking", "resubmitting"}, block : 0..MaxBlocks]],
         replacing' \in [Replacements ->
           {NoReplacement, [step |-> "done"]}
             \cup [step : {"publishing", "forcing"}, kind : {"cancel", "retry"},
                   tx : TxIds, meta : PendingMeta, fresh : BOOLEAN]],
         \A r \in Replacements :
           /\ replacing'[r].step = "publishing" => sent[r] = NoNonce
           /\ replacing'[r] = NoReplacement => replacing[r] = NoReplacement
           /\ replacing'[r].step \in {"publishing", "forcing"} =>
                IsPendingCopy(replacing'[r].tx, replacing'[r].meta),
         LockIsHeld', PassIsCalled', ForcedOnce',
         \A c \in Calls :
           /\ calls'[c].step = "waiting" => Unchecked(c)
           /\ calls'[c].step # "checking" => calls[c].step # "checking" \/ Unchecked(c)
  PROVE  TrackerInv'
<1>1. mishaps \in Nat /\ mishaps' \in Nat
  <2>1. MaxMishaps \in Nat
    BY DEF TrackerAssumption
  <2>2. mishaps \in 0..MaxMishaps
    BY DEF TrackerInv, ControlInv, TrackerTypeOK
  <2> QED BY <2>1, <2>2
<1>2. CountsAreLate'
  <2>1. \A c \in Calls, t \in TxIds :
          checks'[<<c, t>>].step = "count" => checks[<<c, t>>].step = "count"
    OBVIOUS
  <2> QED BY <1>1, <2>1, CountsKept
<1>3. TrackerTypeOK'
  <2>1. TrackerTypeOK
    BY DEF TrackerInv, ControlInv
  <2>2. droppedBlockCount' \in [TxIds -> 0..DroppedBlockCount]
        /\ checks' \in [Calls \X TxIds ->
                          {NoCheck} \cup [step : {"receipt", "block", "count"}, meta : PendingMeta]]
    BY <2>1 DEF TrackerTypeOK
  <2> QED BY <2>2, TrackerTypes DEF TrackerInv
<1>4. CopiesAreSound'
  <2>1. \A c \in Calls, t \in TxIds : IsSoundCheck(t, checks'[<<c, t>>])
    BY DEF TrackerInv, ControlInv, CopiesAreSound
  <2> QED BY <2>1, CopiesKept DEF TrackerInv
<1>5. MinedWasSent' /\ MinedInOrder'
  BY NetworkKept DEF TrackerInv
<1>6. LeftByMishaps'
  <2>1. \A c \in Calls : Unchecked(c)' <=> Unchecked(c)
    BY DEF Unchecked
  <2>2. LeftBehind' \in SUBSET LeftBehind
    BY <2>1 DEF LeftBehind
  <2>3. IsFiniteSet(LeftBehind) /\ Cardinality(LeftBehind) <= mishaps
    BY DEF TrackerInv, ControlInv, LeftByMishaps
  <2>4. /\ IsFiniteSet(LeftBehind') /\ Cardinality(LeftBehind') <= Cardinality(LeftBehind)
        /\ Cardinality(LeftBehind) \in Nat /\ Cardinality(LeftBehind') \in Nat
    BY <2>2, <2>3, FS_Subset, FS_CardinalityType
  <2>5. mishaps' >= mishaps
    OBVIOUS
  <2>6. Cardinality(LeftBehind') <= mishaps'
    BY <1>1, <2>3, <2>4, <2>5
  <2> QED BY <2>1, <2>4, <2>6 DEF LeftByMishaps
<1>7. Sound(transactions)'
  BY ListKept
<1> QED BY <1>2, <1>3, <1>4, <1>5, <1>6, <1>7 DEF TrackerInv, ControlInv

LEMMA NewBlock ==
  ASSUME TrackerInv, TrackerAssumption, NoTxAssumption, newBlock
  PROVE  TrackerInv'
<1> DEFINE R == {NoReplacement, [step |-> "done"]}
             \cup [step : {"publishing", "forcing"}, kind : {"cancel", "retry"},
                   tx : TxIds, meta : PendingMeta, fresh : BOOLEAN]
<1>1. /\ UNCHANGED <<transactions, droppedBlockCount, checks, passes, replacing, mined, sent,
                     mishaps, clock>>
      /\ block' = IF block < MaxBlocks THEN block + 1 ELSE block
      /\ \/ UNCHANGED <<globalLock, calls>>
         \/ \E p \in Polls :
              /\ calls[p].step = "idle" /\ Unchecked(p)
              /\ calls' = [calls EXCEPT ![p] = [step |-> "waiting", block |-> block']]
              /\ globalLock' = Append(globalLock, p) BY DEF newBlock, trackerWorld, Unchecked
<1>2. ControlInv /\ TrackerTypeOK BY DEF TrackerInv, ControlInv
<1>3. /\ mishaps \in 0..MaxMishaps /\ block \in 0..MaxBlocks /\ clock \in Nat
      /\ Sound(transactions) /\ globalLock \in Seq(Calls)
      /\ calls \in [Calls -> [step : {"idle", "waiting", "checking", "resubmitting"}, block : 0..MaxBlocks]]
      /\ MaxBlocks \in Nat /\ MaxMishaps \in Nat
  BY <1>2 DEF ControlInv, TrackerTypeOK, TrackerAssumption
<1>4. /\ block' \in 0..MaxBlocks /\ clock' \in Nat /\ PassesGoOn
      /\ mishaps' \in 0..MaxMishaps /\ mishaps' >= mishaps
      /\ Sound(transactions') BY <1>1, <1>3 DEF PassesGoOn
<1>5. replacing' \in [Replacements -> R] BY <1>1, <1>2 DEF TrackerTypeOK
<1>6. \A r \in Replacements :
           /\ replacing'[r].step = "publishing" => sent[r] = NoNonce
           /\ replacing'[r] = NoReplacement => replacing[r] = NoReplacement
           /\ replacing'[r].step \in {"publishing", "forcing"} =>
                IsPendingCopy(replacing'[r].tx, replacing'[r].meta)
  BY <1>1, <1>2 DEF ControlInv, MinedWasSent, CopiesAreSound
<1>7. CASE UNCHANGED <<globalLock, calls>>
  BY <1>1, <1>2, <1>7, <1>3, <1>4, <1>5, <1>6, ChecksKept DEF ControlInv, LockIsHeld, PassIsCalled,
     ForcedOnce, Unchecked, LeftByMishaps, R
<1>8. ASSUME NEW p \in Polls,
             calls[p].step = "idle" /\ Unchecked(p),
             calls' = [calls EXCEPT ![p] = [step |-> "waiting", block |-> block']],
             globalLock' = Append(globalLock, p)
      PROVE  TrackerInv'
  <2>1. p \in Calls /\ p \notin Replacements BY DEF Calls, TrackerAssumption
  <2>2. \A c \in Calls : calls'[c].step = IF c = p THEN "waiting" ELSE calls[c].step
    BY <1>3, <1>8, <2>1
  <2>3. calls' \in [Calls -> [step : {"idle", "waiting", "checking", "resubmitting"}, block : 0..MaxBlocks]]
    BY <1>3, <1>4, <1>8, <2>1
  <2>4. globalLock' \in Seq(Calls)
        /\ (globalLock # <<>> => globalLock' # <<>> /\ Head(globalLock') = Head(globalLock))
    BY <1>3, <1>8, <2>1
  <2>5. LockIsHeld' BY <1>2, <2>2, <2>4 DEF ControlInv, LockIsHeld
  <2>6. PassIsCalled' BY <1>1, <1>2, <1>8, <2>2 DEF ControlInv, PassIsCalled, Calls
  <2>7. ForcedOnce' BY <1>1, <1>2, <2>1, <2>2 DEF Unchecked, ControlInv, ForcedOnce, Calls
  <2>8. \A c \in Calls :
           /\ calls'[c].step = "waiting" => Unchecked(c)
           /\ calls'[c].step # "checking" => calls[c].step # "checking" \/ Unchecked(c)
    BY <1>2, <1>8, <2>2 DEF ControlInv, LeftByMishaps
  <2> QED BY <1>1, <1>4, <1>5, <1>6, <2>3, <2>4, <2>5, <2>6, <2>7, <2>8, ChecksKept DEF R
<1> QED BY <1>1, <1>7, <1>8

\* A pass of p ends, or goes on.
LEMMA PassKept ==
  ASSUME TrackerInv, TrackerAssumption, NoTxAssumption, NEW p \in Polls,
         calls[p].step = "resubmitting", NEW pass, NEW step, IsPassOf(p, pass, step),
         UNCHANGED <<mined, sent, droppedBlockCount, checks, globalLock, replacing, block, clock>>,
         Sound(transactions'), mishaps' \in 0..MaxMishaps, mishaps' >= mishaps
  PROVE  TrackerInv'
<1>1. /\ calls' = [calls EXCEPT ![p].step = step] /\ step \in {"idle", "resubmitting"}
      /\ passes' = [passes EXCEPT ![p] = pass] /\ IsSoundPass(pass)
      /\ pass.publishing # NoTx => step = "resubmitting" BY DEF IsPassOf
<1>2. ControlInv /\ TrackerTypeOK /\ p \in Calls /\ p \notin Replacements
  BY DEF TrackerInv, ControlInv, Calls, TrackerAssumption
<1>3. /\ block \in 0..MaxBlocks /\ clock \in Nat /\ globalLock \in Seq(Calls)
      /\ calls \in [Calls -> [step : {"idle", "waiting", "checking", "resubmitting"}, block : 0..MaxBlocks]]
      /\ passes \in [Polls -> [snapshots : Lists, publishing : TxIds \cup {NoTx}, fresh : BOOLEAN]]
  BY <1>2 DEF TrackerTypeOK, Lists
<1>4. calls' \in [Calls -> [step : {"idle", "waiting", "checking", "resubmitting"}, block : 0..MaxBlocks]]
  <2>1. calls \in [Calls -> [step : {"idle", "waiting", "checking", "resubmitting"}, block : 0..MaxBlocks]]
    BY <1>3
  <2>2. calls' = [calls EXCEPT ![p].step = step] /\ step \in {"idle", "resubmitting"} BY <1>1
  <2> QED BY <1>2, <2>1, <2>2
<1>5. \A c \in Calls : calls'[c].step = IF c = p THEN step ELSE calls[c].step BY <1>1, <1>2, <1>3
<1>6. \A r \in Replacements :
           /\ replacing'[r].step = "publishing" => sent[r] = NoNonce
           /\ replacing'[r] = NoReplacement => replacing[r] = NoReplacement
           /\ replacing'[r].step \in {"publishing", "forcing"} =>
                IsPendingCopy(replacing'[r].tx, replacing'[r].meta)
  BY <1>2 DEF ControlInv, MinedWasSent, CopiesAreSound
<1>7. LockIsHeld' BY <1>1, <1>2, <1>5 DEF ControlInv, LockIsHeld
<1>8. PassIsCalled' BY <1>1, <1>2, <1>3, <1>5 DEF ControlInv, PassIsCalled, Calls
<1>9. ForcedOnce' BY <1>2, <1>5 DEF Unchecked, ControlInv, ForcedOnce, Calls
<1>10. \A c \in Calls :
           /\ calls'[c].step = "waiting" => Unchecked(c)
           /\ calls'[c].step # "checking" => calls[c].step # "checking" \/ Unchecked(c)
  BY <1>1, <1>2, <1>5 DEF ControlInv, LeftByMishaps
<1>11. PassesGoOn /\ block' \in 0..MaxBlocks /\ clock' \in Nat /\ globalLock' \in Seq(Calls)
  BY <1>1, <1>3 DEF PassesGoOn
<1>12. replacing' \in [Replacements ->
         {NoReplacement, [step |-> "done"]}
           \cup [step : {"publishing", "forcing"}, kind : {"cancel", "retry"},
                 tx : TxIds, meta : PendingMeta, fresh : BOOLEAN]] BY <1>2 DEF TrackerTypeOK
<1> QED BY <1>4, <1>6, <1>7, <1>8, <1>9, <1>10, <1>11, <1>12, ChecksKept

LEMMA Resubmitted ==
  ASSUME TrackerInv, TrackerAssumption, NoTxAssumption, NEW p \in Polls, resubmitted(p)
  PROVE  TrackerInv'
<1> DEFINE t == passes[p].publishing
           meta == passes[p].snapshots[t]
           left == [passes[p].snapshots EXCEPT ![t] = NoTx]
           retried == [meta EXCEPT !.retryCount = IF @ < MaxRetries THEN @ + 1 ELSE @]
<1>1. /\ t # NoTx
      /\ \/ /\ passGoesOn(p, updateTransaction(transactions, t, retried), left)
            /\ UNCHANGED mishaps
         \/ /\ passes' = [passes EXCEPT ![p] = NoPass]
            /\ calls' = [calls EXCEPT ![p].step = "idle"]
            /\ UNCHANGED <<transactions, mishaps>>
         \/ /\ mishap
            /\ passGoesOn(p, updateTransaction(transactions, t, meta), left)
      /\ UNCHANGED <<droppedBlockCount, globalLock, checks, replacing, mined, sent, block, clock>>
  BY DEF resubmitted, networkVars
<1>2. ControlInv /\ Sound(transactions) /\ IsSoundPass(passes[p]) /\ calls[p].step = "resubmitting"
  BY <1>1 DEF TrackerInv, ControlInv, CopiesAreSound, PassIsCalled
<1>3. t \in TxIds /\ passes[p].snapshots \in Lists /\ AreCopies(passes[p].snapshots) /\ meta # NoTx
  BY <1>1, <1>2 DEF IsSoundPass
<1>4. meta \in PendingMeta /\ IsPendingCopy(t, meta) /\ AreCopies(left) BY <1>3 DEF AreCopies, Lists
<1>5. retried \in PendingMeta /\ IsPendingCopy(t, retried)
  BY <1>4 DEF TrackerAssumption, PendingMeta, IsPendingCopy, IsCopyOf
<1>6. \A m \in PendingMeta : IsPendingCopy(t, m) => Sound(updateTransaction(transactions, t, m))
  BY <1>2, <1>3, EntryIsWritten DEF IsPendingCopy, IsTrue
<1> HIDE DEF left, retried, meta, t
<1>7. /\ MaxMishaps \in Nat /\ mishaps \in 0..MaxMishaps
  BY <1>2 DEF ControlInv, TrackerTypeOK, TrackerAssumption
<1>8. CASE passGoesOn(p, updateTransaction(transactions, t, retried), left) /\ UNCHANGED mishaps
  BY <1>7, <1>8, <1>2, <1>4, <1>5, <1>6, PassGoesOn, <1>1, PassKept
<1>9. CASE /\ passes' = [passes EXCEPT ![p] = NoPass]
           /\ calls' = [calls EXCEPT ![p].step = "idle"]
           /\ UNCHANGED <<transactions, mishaps>>
  <2>1. mishaps' \in 0..MaxMishaps /\ mishaps' >= mishaps /\ Sound(transactions')
    BY <1>2, <1>7, <1>9
  <2>2. IsSoundPass(NoPass) BY DEF IsSoundPass, NoPass, AreCopies, Lists
  <2>3. IsPassOf(p, NoPass, "idle") BY <1>9, <2>2 DEF IsPassOf, NoPass
  <2> QED BY <1>1, <1>2, <2>1, <2>3, PassKept
<1>10. CASE mishap /\ passGoesOn(p, updateTransaction(transactions, t, meta), left)
  BY <1>7, <1>10, <1>2, <1>4, <1>6, PassGoesOn, <1>1, PassKept DEF mishap
<1> QED BY <1>1, <1>8, <1>9, <1>10

\* A replacement asks to be published, is published, is refused or was mined elsewhere.
LEMMA Replace ==
  ASSUME TrackerInv, TrackerAssumption, NoTxAssumption,
         NEW r \in Replacements, NEW t \in TxIds, NEW kind \in {"retry", "cancel"},
         replace(r, t, kind)
  PROVE  TrackerInv'
<1> DEFINE R == {NoReplacement, [step |-> "done"]}
             \cup [step : {"publishing", "forcing"}, kind : {"cancel", "retry"},
                   tx : TxIds, meta : PendingMeta, fresh : BOOLEAN]
           new == [step |-> "publishing", kind |-> kind, tx |-> t, meta |-> transactions[t],
                   fresh |-> ~nonceSpent(transactions[t])]
<1>1. /\ replacing[r] = NoReplacement /\ sent[r] = NoNonce
      /\ t \in getPendingTransactions(transactions)
      /\ replacing' = [replacing EXCEPT ![r] = new]
      /\ UNCHANGED <<transactions, droppedBlockCount, globalLock, calls, checks, passes,
                     mined, sent, block, mishaps, clock>> BY DEF replace, networkVars, trackerWorld
<1>2. ControlInv /\ TrackerTypeOK /\ Sound(transactions) BY DEF TrackerInv, ControlInv
<1>3. transactions[t] \in PendingMeta /\ IsPendingCopy(t, transactions[t])
  BY <1>1, <1>2 DEF getPendingTransactions, present, Sound, Lists, IsPendingCopy
<1>4. new \in R /\ new.step = "publishing" /\ new.tx = t /\ new.meta = transactions[t]
  BY <1>3 DEF nonceSpent
<1>5. replacing \in [Replacements -> R] BY <1>2 DEF TrackerTypeOK
<1> HIDE DEF R, new
<1>6. replacing' \in [Replacements -> R] /\ replacing'[r] = new
      /\ \A s \in Replacements \ {r} : replacing'[s] = replacing[s] BY <1>1, <1>4, <1>5
<1>7. \A s \in Replacements :
           /\ replacing'[s].step = "publishing" => sent[s] = NoNonce
           /\ replacing'[s] = NoReplacement => replacing[s] = NoReplacement
           /\ replacing'[s].step \in {"publishing", "forcing"} =>
                IsPendingCopy(replacing'[s].tx, replacing'[s].meta)
  BY <1>1, <1>2, <1>3, <1>4, <1>6 DEF ControlInv, MinedWasSent, CopiesAreSound
<1>8. LockIsHeld' /\ PassIsCalled' BY <1>1, <1>2 DEF ControlInv, LockIsHeld, PassIsCalled
<1>9. ForcedOnce' BY <1>1, <1>2, <1>6 DEF Unchecked, ControlInv, ForcedOnce, NoReplacement, Calls
<1>10. \A c \in Calls :
           /\ calls'[c].step = "waiting" => Unchecked(c)
           /\ calls'[c].step # "checking" => calls[c].step # "checking" \/ Unchecked(c)
  BY <1>1, <1>2 DEF ControlInv, LeftByMishaps
<1>11. /\ PassesGoOn /\ block' \in 0..MaxBlocks /\ clock' \in Nat /\ globalLock' \in Seq(Calls)
       /\ calls' \in [Calls -> [step : {"idle", "waiting", "checking", "resubmitting"}, block : 0..MaxBlocks]]
       /\ Sound(transactions') BY <1>1, <1>2 DEF PassesGoOn, TrackerTypeOK
<1>12. mishaps' \in 0..MaxMishaps /\ mishaps' >= mishaps
  BY <1>1, <1>2 DEF TrackerTypeOK, TrackerAssumption
<1> QED BY <1>1, <1>6, <1>7, <1>8, <1>9, <1>10, <1>11, <1>12, ChecksKept DEF R

\* What a replacement that publishes or forces has.
LEMMA ReplacingHas ==
  ASSUME ControlInv, NEW r \in Replacements, replacing[r].step \in {"publishing", "forcing"}
  PROVE  /\ replacing[r] \in [step : {"publishing", "forcing"}, kind : {"cancel", "retry"},
                              tx : TxIds, meta : PendingMeta, fresh : BOOLEAN]
         /\ replacing[r].meta \in PendingMeta /\ replacing[r].tx \in TxIds
         /\ replacing[r].meta.nonce \in Nonces
         /\ IsPendingCopy(replacing[r].tx, replacing[r].meta)
BY DEF ControlInv, TrackerTypeOK, NoReplacement, PendingMeta, CopiesAreSound

LEMMA ReplacementRefused ==
  ASSUME TrackerInv, TrackerAssumption, NoTxAssumption, NEW r \in Replacements,
         replacementRefused(r)
  PROVE  TrackerInv'
<1> DEFINE R == {NoReplacement, [step |-> "done"]}
             \cup [step : {"publishing", "forcing"}, kind : {"cancel", "retry"},
                   tx : TxIds, meta : PendingMeta, fresh : BOOLEAN]
<1>1. /\ replacing[r].step = "publishing"
      /\ \/ /\ replacing' = [replacing EXCEPT ![r].step = "forcing"]
            /\ globalLock' = Append(globalLock, r)
            /\ calls' = [calls EXCEPT ![r].step = "waiting"]
            /\ UNCHANGED mishaps
         \/ /\ mishap
            /\ replacing' = [replacing EXCEPT ![r] = [step |-> "done"]]
            /\ UNCHANGED <<globalLock, calls>>
      /\ UNCHANGED <<transactions, droppedBlockCount, checks, passes, mined, sent, block, clock>>
  BY DEF replacementRefused, networkVars
<1>2. ControlInv /\ TrackerTypeOK /\ r \in Calls /\ r \notin Polls
  BY DEF TrackerInv, ControlInv, Calls, TrackerAssumption
<1>3. /\ replacing[r] \in [step : {"publishing", "forcing"}, kind : {"cancel", "retry"},
                           tx : TxIds, meta : PendingMeta, fresh : BOOLEAN]
      /\ IsPendingCopy(replacing[r].tx, replacing[r].meta)
  BY <1>1, <1>2, ReplacingHas
<1>4. replacing \in [Replacements -> R]
  BY <1>2 DEF TrackerTypeOK
<1>5. PICK new \in R :
        /\ replacing' = [replacing EXCEPT ![r] = new] /\ new.step # "publishing" /\ new # NoReplacement
        /\ new.step = "forcing" => new.tx = replacing[r].tx /\ new.meta = replacing[r].meta
        /\ new.step = "forcing" \/ new = [step |-> "done"]
        /\ new = [step |-> "done"] => UNCHANGED <<globalLock, calls>>
  <2>1. CASE replacing' = [replacing EXCEPT ![r].step = "forcing"]
    <3> DEFINE new == [replacing[r] EXCEPT !.step = "forcing"]
    <3>1. new \in R /\ new.step = "forcing" /\ new.tx = replacing[r].tx /\ new.meta = replacing[r].meta
      BY <1>3
    <3>2. replacing' = [replacing EXCEPT ![r] = new]
      BY <1>4, <2>1
    <3>3. new # NoReplacement /\ new # [step |-> "done"]
      BY <3>1 DEF NoReplacement
    <3> HIDE DEF R, new
    <3> QED BY <3>1, <3>2, <3>3
  <2>2. CASE /\ replacing' = [replacing EXCEPT ![r] = [step |-> "done"]]
             /\ UNCHANGED <<globalLock, calls>>
    <3>1. [step |-> "done"] \in R /\ [step |-> "done"] # NoReplacement
      BY DEF NoReplacement
    <3>2. [step |-> "done"].step \notin {"publishing", "forcing"}
      OBVIOUS
    <3> HIDE DEF R
    <3> QED BY <2>2, <3>1, <3>2
  <2> QED BY <1>1, <2>1, <2>2
<1> HIDE DEF R
<1>6. replacing' \in [Replacements -> R] /\ replacing'[r] = new
      /\ \A s \in Replacements \ {r} : replacing'[s] = replacing[s]
  BY <1>4, <1>5
<1>7. \A s \in Replacements :
           /\ replacing'[s].step = "publishing" => sent[s] = NoNonce
           /\ replacing'[s] = NoReplacement => replacing[s] = NoReplacement
           /\ replacing'[s].step \in {"publishing", "forcing"} =>
                IsPendingCopy(replacing'[s].tx, replacing'[s].meta)
  BY <1>2, <1>3, <1>5, <1>6 DEF ControlInv, MinedWasSent, CopiesAreSound
<1>8. /\ Unchecked(r) /\ calls[r].step \notin {"waiting", "checking"}
  BY <1>1, <1>2 DEF ControlInv, ForcedOnce
<1>9. /\ globalLock \in Seq(Calls)
      /\ calls \in [Calls -> [step : {"idle", "waiting", "checking", "resubmitting"}, block : 0..MaxBlocks]]
  BY <1>2 DEF TrackerTypeOK
<1>10. /\ globalLock' \in Seq(Calls)
       /\ globalLock # <<>> => globalLock' # <<>> /\ Head(globalLock') = Head(globalLock)
  <2>1. globalLock' = globalLock \/ globalLock' = Append(globalLock, r)
    BY <1>1
  <2>2. globalLock \in Seq(Calls) /\ r \in Calls
    BY <1>2, <1>9
  <2> QED BY <2>1, <2>2
<1>11. /\ calls' \in [Calls -> [step : {"idle", "waiting", "checking", "resubmitting"}, block : 0..MaxBlocks]]
       /\ \A c \in Calls \ {r} : calls'[c] = calls[c]
       /\ calls'[r].step \in {calls[r].step, "waiting"}
       /\ calls'[r].step = "waiting" => new.step = "forcing"
  <2>1. CASE UNCHANGED calls
    BY <1>2, <1>8, <1>9, <2>1
  <2>2. CASE calls' = [calls EXCEPT ![r].step = "waiting"] /\ new # [step |-> "done"]
    BY <1>2, <1>5, <1>9, <2>2
  <2>3. CASE calls' = [calls EXCEPT ![r].step = "waiting"] /\ new = [step |-> "done"]
    BY <1>5, <2>1, <2>3
  <2> QED BY <1>1, <2>1, <2>2, <2>3
<1>12. LockIsHeld'
  BY <1>2, <1>8, <1>10, <1>11 DEF ControlInv, LockIsHeld
<1>13. PassIsCalled'
  BY <1>1, <1>2, <1>11 DEF ControlInv, PassIsCalled, Calls
<1>14. ForcedOnce'
  <2>1. \A c \in Calls : Unchecked(c)' <=> Unchecked(c)
    BY <1>1 DEF Unchecked
  <2>2. \A s \in Replacements \ {r} :
    /\ calls'[s].step \in {"waiting", "checking"} => replacing'[s].step = "forcing"
    /\ replacing'[s].step \in {"idle", "publishing"} => Unchecked(s)
    BY <1>2, <1>6, <1>11 DEF ControlInv, ForcedOnce, Calls
  <2>3. /\ calls'[r].step \in {"waiting", "checking"} => replacing'[r].step = "forcing"
        /\ Unchecked(r)
    BY <1>6, <1>8, <1>11
  <2> QED BY <2>1, <2>2, <2>3 DEF ForcedOnce, Calls
<1>15. \A c \in Calls :
           /\ calls'[c].step = "waiting" => Unchecked(c)
           /\ calls'[c].step # "checking" => calls[c].step # "checking" \/ Unchecked(c)
  BY <1>2, <1>8, <1>11 DEF ControlInv, LeftByMishaps
<1>16. PassesGoOn /\ block' \in 0..MaxBlocks /\ clock' \in Nat /\ Sound(transactions')
  BY <1>1, <1>2 DEF PassesGoOn, TrackerTypeOK, ControlInv
<1>17. mishaps' \in 0..MaxMishaps /\ mishaps' >= mishaps
  <2>1. MaxMishaps \in Nat /\ mishaps \in 0..MaxMishaps
    BY <1>2 DEF TrackerTypeOK, TrackerAssumption
  <2>2. mishaps' = mishaps \/ (mishaps < MaxMishaps /\ mishaps' = mishaps + 1)
    BY <1>1 DEF mishap
  <2> QED BY <2>1, <2>2
<1> QED BY <1>1, <1>6, <1>7, <1>10, <1>11, <1>12, <1>13, <1>14, <1>15, <1>16, <1>17, ChecksKept DEF R

-----------------------------------------------------------------------------
(* The network.                                                            *)

\* What the network is given, and what it has, only grows.
NetworkGrows ==
  /\ \A t \in TxIds : sent[t] # NoNonce => sent'[t] = sent[t]
  /\ \A n \in Nonces : mined[n] # Unmined => mined'[n] = mined[n]

\* What was true of a transaction stays true.
LEMMA TruthStays ==
  ASSUME StoreAssumption, TrackerAssumption, NoTxAssumption, NetworkGrows
  PROVE  \A t \in TxIds, meta \in PendingMeta :
           /\ IsCopyOf(t, meta) => IsCopyOf(t, meta)'
           /\ IsTrue(t, meta) => IsTrue(t, meta)'
<1> SUFFICES ASSUME NEW t \in TxIds, NEW meta \in PendingMeta
             PROVE  /\ IsCopyOf(t, meta) => IsCopyOf(t, meta)'
                    /\ IsTrue(t, meta) => IsTrue(t, meta)' OBVIOUS
<1>1. meta.nonce \in Nonces BY DEF PendingMeta
<1>2. meta.nonce \in Nat BY <1>1 DEF Nonces, TrackerAssumption
<1>3. mined[meta.nonce].by = t => mined[meta.nonce] # Unmined BY DEF Unmined, NoTxAssumption
<1>4. IsCopyOf(t, meta) => IsCopyOf(t, meta)' BY <1>2 DEF IsCopyOf, NetworkGrows, StoreAssumption
<1>5. IsTrue(t, meta) => IsTrue(t, meta)' BY <1>1, <1>3 DEF IsTrue, NetworkGrows, Unmined
<1> QED BY <1>4, <1>5

LEMMA CopiesStay ==
  ASSUME StoreAssumption, TrackerAssumption, NoTxAssumption, NetworkGrows, ControlInv,
         UNCHANGED <<passes, checks>>,
         \A r \in Replacements : replacing'[r].step \in {"publishing", "forcing"} =>
           replacing'[r] = replacing[r]
  PROVE  CopiesAreSound'
<1>1. \A t \in TxIds, meta \in PendingMeta : IsPendingCopy(t, meta) => IsPendingCopy(t, meta)'
  BY TruthStays DEF IsPendingCopy
<1>2. ASSUME NEW p \in Polls
      PROVE  IsSoundPass(passes[p])'
  BY <1>1 DEF ControlInv, CopiesAreSound, IsSoundPass, AreCopies, Lists, IsPendingCopy, IsCopyOf
<1>3. ASSUME NEW c \in Calls, NEW t \in TxIds
      PROVE  IsSoundCheck(t, checks[<<c, t>>])'
  <2> DEFINE check == checks[<<c, t>>]
  <2>1. CASE check = NoCheck BY <2>1 DEF IsSoundCheck
  <2>2. CASE check # NoCheck
    BY <2>2, <1>1 DEF ControlInv, TrackerTypeOK, PendingMeta, CopiesAreSound, IsSoundCheck, IsPendingCopy,
       IsCopyOf, Unmined, NoTxAssumption, NetworkGrows
  <2> QED BY <2>1, <2>2
<1>4. ASSUME NEW r \in Replacements, replacing'[r].step \in {"publishing", "forcing"}
      PROVE  IsPendingCopy(replacing[r].tx, replacing[r].meta)'
  BY <1>4, ReplacingHas, <1>1 DEF IsPendingCopy, IsCopyOf
<1> QED BY <1>2, <1>3, <1>4 DEF CopiesAreSound

LEMMA Mines ==
  ASSUME StoreAssumption, TrackerAssumption, NoTxAssumption, TrackerInv,
         NEW n \in Nonces, mines(n)
  PROVE  TrackerInv'
<1>1. UNCHANGED <<transactions, droppedBlockCount, globalLock, calls, checks, passes, replacing,
                  block, mishaps, clock>>
  BY DEF mines, trackerCallVars, trackerWorld
<1>2. ControlInv /\ TrackerTypeOK /\ Sound(transactions) /\ MinedWasSent /\ MinedInOrder
  BY DEF TrackerInv, ControlInv
<1>3. mined[n] = Unmined /\ n = transactionCount /\ n \in Nat
  BY <1>2, CountOfMined DEF mines
<1>4. /\ mined \in [Nonces -> [by : TxIds \cup {NoTx, "elsewhere"}, success : BOOLEAN]]
      /\ sent \in [TxIds -> Nonces \cup {NoNonce}]
      /\ Replacements \subseteq TxIds /\ NoNonce \notin Nonces
  BY <1>2 DEF TrackerTypeOK, TrackerAssumption, Nonces, StoreAssumption
<1>5. PICK new \in [by : TxIds \cup {NoTx, "elsewhere"}, success : BOOLEAN] :
        /\ mined' = [mined EXCEPT ![n] = new] /\ new # Unmined
        /\ \/ new.by \in TxIds /\ sent[new.by] = n /\ sent' = sent
           \/ new.by = "elsewhere" /\ sent' = sent
           \/ /\ new.by \in Replacements /\ sent[new.by] = NoNonce /\ new.success
              /\ replacing[new.by] = NoReplacement /\ sent' = [sent EXCEPT ![new.by] = n]
  <2>1. \A by \in TxIds \cup {"elsewhere"}, success \in BOOLEAN :
          /\ [by |-> by, success |-> success] \in
               [by : TxIds \cup {NoTx, "elsewhere"}, success : BOOLEAN]
          /\ [by |-> by, success |-> success] # Unmined
    BY DEF Unmined, NoTxAssumption
  <2>2. CASE /\ \E t \in {t \in TxIds : sent[t] = n}, success \in BOOLEAN :
                  mined' = [mined EXCEPT ![n] = [by |-> t, success |-> success]]
             /\ UNCHANGED sent
    <3>1. PICK t \in TxIds, success \in BOOLEAN :
            sent[t] = n /\ mined' = [mined EXCEPT ![n] = [by |-> t, success |-> success]]
      BY <2>2
    <3> DEFINE new == [by |-> t, success |-> success]
    <3>2. /\ new \in [by : TxIds \cup {NoTx, "elsewhere"}, success : BOOLEAN]
          /\ new # Unmined /\ new.by = t
      BY <2>1
    <3>3. mined' = [mined EXCEPT ![n] = new]
      BY <3>1
    <3> HIDE DEF new
    <3> QED BY <2>2, <3>1, <3>2, <3>3
  <2>3. CASE /\ mined' = [mined EXCEPT ![n] = [by |-> "elsewhere", success |-> TRUE]]
             /\ UNCHANGED sent
    BY <2>1, <2>3
  <2>4. CASE \E x \in Replacements :
          /\ sent[x] = NoNonce /\ replacing[x] = NoReplacement
          /\ sent' = [sent EXCEPT ![x] = n]
          /\ mined' = [mined EXCEPT ![n] = [by |-> x, success |-> TRUE]]
    <3>1. PICK x \in Replacements :
            /\ sent[x] = NoNonce /\ replacing[x] = NoReplacement
            /\ sent' = [sent EXCEPT ![x] = n]
            /\ mined' = [mined EXCEPT ![n] = [by |-> x, success |-> TRUE]]
      BY <2>4
    <3> DEFINE new == [by |-> x, success |-> TRUE]
    <3>2. /\ new \in [by : TxIds \cup {NoTx, "elsewhere"}, success : BOOLEAN]
          /\ new # Unmined /\ new.by = x /\ new.success
      BY <1>4, <2>1
    <3>3. mined' = [mined EXCEPT ![n] = new]
      BY <3>1
    <3> HIDE DEF new
    <3> QED BY <3>1, <3>2, <3>3
  <2> QED BY <2>2, <2>3, <2>4 DEF mines
<1>6. /\ mined' \in [Nonces -> [by : TxIds \cup {NoTx, "elsewhere"}, success : BOOLEAN]]
      /\ \A m \in Nonces : mined'[m] = IF m = n THEN new ELSE mined[m]
  BY <1>4, <1>5
<1>7. /\ sent' \in [TxIds -> Nonces \cup {NoNonce}]
      /\ \A t \in TxIds :
           \/ sent'[t] = sent[t]
           \/ t = new.by /\ t \in Replacements /\ sent[t] = NoNonce /\ sent'[t] = n
                /\ replacing[t] = NoReplacement
      /\ new.by \in TxIds => sent'[new.by] = n
  BY <1>4, <1>5, NoTxAssumption
<1>8. NetworkGrows
  BY <1>3, <1>6, <1>7 DEF NetworkGrows
<1>9. TrackerTypeOK'
  BY <1>1, <1>2, <1>6, <1>7 DEF TrackerTypeOK
<1>10. Sound(transactions)'
  <2>1. \A t \in TxIds : transactions[t] # NoTx =>
          transactions[t] \in PendingMeta /\ IsCopyOf(t, transactions[t]) /\ IsTrue(t, transactions[t])
    BY <1>2 DEF Sound, Lists
  <2>2. \A t \in TxIds : transactions[t] # NoTx =>
          IsCopyOf(t, transactions[t])' /\ IsTrue(t, transactions[t])'
    BY <1>1, <1>8, <2>1, TruthStays DEF IsCopyOf, IsTrue
  <2> QED BY <1>1, <1>2, <2>2 DEF Sound
<1>11. CopiesAreSound'
  BY <1>1, <1>2, <1>8, CopiesStay
<1>12. MinedWasSent'
  <2>1. \A m \in Nonces, t \in TxIds : mined'[m].by = t => sent'[t] = m
    <3>1. ASSUME NEW m \in Nonces, NEW t \in TxIds, mined'[m].by = t
          PROVE  sent'[t] = m
      <4>1. CASE m = n
        BY <1>6, <1>7, <3>1, <4>1
      <4>2. CASE m # n
        <5>1. sent[t] = m
          BY <1>2, <1>6, <3>1, <4>2 DEF MinedWasSent
        <5> QED BY <1>4, <1>7, <5>1
      <4> QED BY <4>1, <4>2
    <3> QED BY <3>1
  <2>2. ASSUME NEW r \in Replacements, replacing[r] = NoReplacement, sent'[r] # NoNonce
        PROVE  mined'[sent'[r]] = [by |-> r, success |-> TRUE]
    <3>1. CASE sent'[r] = sent[r]
      <4>1. sent[r] \in Nonces /\ mined[sent[r]] = [by |-> r, success |-> TRUE]
        BY <1>2, <1>4, <2>2, <3>1 DEF MinedWasSent
      <4>2. mined[sent[r]] # Unmined
        BY <1>4, <4>1 DEF Unmined, NoTxAssumption
      <4> QED BY <1>3, <1>6, <3>1, <4>1, <4>2
    <3>2. CASE sent'[r] # sent[r]
      <4>1. r = new.by /\ sent[r] = NoNonce /\ sent'[r] = n
        BY <1>4, <1>7, <3>2
      <4>2. new.success
        BY <1>4, <1>5, <3>2, <4>1, NoTxAssumption
      <4>3. new = [by |-> r, success |-> TRUE]
        BY <4>1, <4>2
      <4> QED BY <1>6, <4>1, <4>3
    <3> QED BY <3>1, <3>2
  <2>3. \A r \in Replacements : replacing[r].step = "publishing" => sent'[r] = NoNonce
    BY <1>2, <1>4, <1>7 DEF MinedWasSent, NoReplacement
  <2> QED BY <1>1, <2>1, <2>2, <2>3 DEF MinedWasSent
<1>13. MinedInOrder'
  <2>1. \A m \in Nonces : mined[m] # Unmined <=> m < n
    BY <1>2, <1>3, CountOfMined
  <2>2. MaxNonce \in Nat /\ n \in 0..MaxNonce
    BY DEF TrackerAssumption, Nonces
  <2>3. \A m \in Nonces : mined'[m] # Unmined <=> m < n + 1
    BY <1>5, <1>6, <2>1, <2>2 DEF Nonces
  <2>4. n + 1 \in 0..(MaxNonce + 1)
    BY <2>2
  <2>5. \A m \in Nonces : (mined[m] # Unmined)' <=> m < n + 1
    BY <2>3 DEF Unmined
  <2> QED BY <2>4, <2>5 DEF MinedInOrder
<1>14. LockIsHeld' /\ PassIsCalled' /\ ForcedOnce' /\ LeftByMishaps'
  <2>1. LockIsHeld' /\ PassIsCalled'
    BY <1>1, <1>2 DEF ControlInv, LockIsHeld, PassIsCalled
  <2>2. \A c \in Calls : Unchecked(c)' <=> Unchecked(c)
    BY <1>1 DEF Unchecked
  <2>3. ForcedOnce'
    BY <1>1, <1>2, <2>2 DEF ControlInv, ForcedOnce, Calls
  <2>4. LeftBehind' = LeftBehind
    BY <1>1, <2>2 DEF LeftBehind
  <2>5. LeftByMishaps'
    BY <1>1, <1>2, <2>2, <2>4 DEF ControlInv, LeftByMishaps
  <2> QED BY <2>1, <2>3, <2>5
<1>15. CountsAreLate'
  <2>1. \A t \in TxIds : Counting(t)' = Counting(t)
    BY <1>1 DEF Counting
  <2>2. ASSUME NEW t \in TxIds, droppedBlockCount[t] > 0
        PROVE  sent'[t] = sent[t] /\ sent[t] \in Nonces /\ mined[sent[t]] # Unmined
               /\ mined'[sent[t]] # Unmined
    <3>1. sent[t] \in Nonces /\ mined[sent[t]] # Unmined
      BY <2>2 DEF TrackerInv, CountsAreLate
    <3> QED BY <1>4, <1>8, <3>1 DEF NetworkGrows
  <2>3. ASSUME NEW t \in TxIds, sent'[t] \in Nonces, mined'[sent'[t]].by = t
        PROVE  IsFiniteSet(Counting(t)) /\ Cardinality(Counting(t)) + droppedBlockCount[t] <= mishaps + 1
    <3>1. CASE sent'[t] # n
      <4>1. sent'[t] = sent[t] /\ mined[sent[t]].by = t
        BY <1>6, <1>7, <2>3, <3>1
      <4> QED BY <2>3, <4>1 DEF TrackerInv, CountsAreLate
    <3>2. CASE sent'[t] = n
      <4>1. ~(droppedBlockCount[t] > 0)
        BY <1>3, <2>2, <3>2
      <4>2. droppedBlockCount[t] = 0
        <5>1. DroppedBlockCount \in Nat /\ droppedBlockCount[t] \in 0..DroppedBlockCount
          BY <1>2 DEF TrackerTypeOK, TrackerAssumption
        <5> QED BY <4>1, <5>1
      <4>3. IsFiniteSet(Counting(t)) /\ Cardinality(Counting(t)) <= mishaps + 1
        BY <1>2, CountingIsSmall
      <4>4. Cardinality(Counting(t)) \in Nat
        BY <4>3, FS_CardinalityType
      <4> HIDE DEF Counting
      <4> QED BY <4>2, <4>3, <4>4
    <3> QED BY <3>1, <3>2
  <2>4. \A t \in TxIds : droppedBlockCount'[t] > 0 => sent'[t] \in Nonces /\ mined'[sent'[t]] # Unmined'
    BY <1>1, <2>2 DEF Unmined
  <2>5. \A t \in TxIds : sent'[t] \in Nonces /\ mined'[sent'[t]].by = t =>
          IsFiniteSet(Counting(t)') /\ Cardinality(Counting(t)') + droppedBlockCount'[t] <= mishaps' + 1
    BY <1>1, <2>1, <2>3
  <2> QED BY <2>4, <2>5 DEF CountsAreLate
<1> QED BY <1>9, <1>10, <1>11, <1>12, <1>13, <1>14, <1>15 DEF TrackerInv, ControlInv

\* What is trimmed is only left out.
LEMMA TrimmedIsSound ==
  ASSUME NEW T, Sound(T), NEW ts
  PROVE  Sound(without(T, ts))
BY DEF Sound, Lists, without

LEMMA ReplacementPublished ==
  ASSUME StoreAssumption, TrackerAssumption, NoTxAssumption, TrackerInv,
         NEW r \in Replacements, replacementPublished(r)
  PROVE  TrackerInv'
<1> DEFINE T == [transactions EXCEPT ![r] = replacement(r)]
           R == {NoReplacement, [step |-> "done"]}
             \cup [step : {"publishing", "forcing"}, kind : {"cancel", "retry"},
                   tx : TxIds, meta : PendingMeta, fresh : BOOLEAN]
<1>1. /\ replacing[r].step = "publishing"
      /\ \E kept \in SUBSET TxIds : transactions' = without(T, TxIds \ kept)
      /\ replacing' = [replacing EXCEPT ![r] = [step |-> "done"]]
      /\ sent' = [sent EXCEPT ![r] = replacing[r].meta.nonce]
      /\ clock' = clock + 1
      /\ UNCHANGED <<droppedBlockCount, globalLock, calls, checks, passes, mined, block, mishaps>>
  BY DEF replacementPublished
<1>2. ControlInv /\ TrackerTypeOK /\ Sound(transactions) /\ MinedWasSent /\ MinedInOrder
      /\ sent[r] = NoNonce /\ r \in TxIds /\ r \in Calls
  BY <1>1 DEF TrackerInv, ControlInv, MinedWasSent, Calls, TrackerAssumption
<1>3. /\ replacing[r].meta \in PendingMeta /\ replacing[r].meta.nonce \in Nonces
      /\ replacing[r].meta.status = "submitted" BY <1>1, <1>2, ReplacingHas DEF IsPendingCopy
<1>4. /\ sent \in [TxIds -> Nonces \cup {NoNonce}] /\ NoNonce \notin Nonces
      /\ replacing \in [Replacements -> R] /\ clock \in Nat
  BY <1>2 DEF TrackerTypeOK, TrackerAssumption, Nonces, StoreAssumption
<1>5. /\ sent' \in [TxIds -> Nonces \cup {NoNonce}] /\ sent'[r] = replacing[r].meta.nonce
      /\ \A t \in TxIds \ {r} : sent'[t] = sent[t] BY <1>1, <1>2, <1>3, <1>4
<1>6. NetworkGrows BY <1>1, <1>2, <1>5 DEF NetworkGrows
<1>7. /\ replacing' \in [Replacements -> R] /\ replacing'[r] = [step |-> "done"]
      /\ \A s \in Replacements \ {r} : replacing'[s] = replacing[s]
  <2>1. [step |-> "done"] \in R OBVIOUS
  <2> HIDE DEF R
  <2> QED BY <1>1, <1>4, <2>1
<1>8. /\ replacement(r) \in PendingMeta /\ replacement(r).status = "submitted"
      /\ replacement(r).nonce = replacing[r].meta.nonce
  BY <1>3, <1>4 DEF replacement, PendingMeta, Statuses
<1>10. transactions' \in Lists
       /\ \A t \in TxIds : \/ transactions'[t] = NoTx \/ transactions'[t] = transactions[t]
                           \/ t = r /\ transactions'[t] = replacement(r)
  <2> HIDE DEF R
  <2>1. T \in Lists BY <1>2, <1>8 DEF Sound, Lists
  <2>2. PICK kept \in SUBSET TxIds : transactions' = without(T, TxIds \ kept) BY <1>1
  <2>3. \A t \in TxIds : T[t] = IF t = r THEN replacement(r) ELSE transactions[t]
    BY <1>2 DEF Sound, Lists
  <2> HIDE DEF T
  <2> QED BY <2>1, <2>2, <2>3 DEF without, Lists
<1> HIDE DEF T, R
<1>11. Sound(transactions)'
  BY <1>2, <1>6, TruthStays, <1>5, <1>8, <1>10 DEF Sound, Lists, IsCopyOf, IsTrue
<1>12. CopiesAreSound' BY <1>7, <1>1, <1>2, <1>6, CopiesStay
<1>13. TrackerTypeOK'
  <2>1. clock' \in Nat BY <1>1, <1>4
  <2> QED BY <1>1, <1>2, <1>5, <1>7, <1>10, <2>1 DEF TrackerTypeOK, Lists, R
<1>14. MinedWasSent'
  BY <1>2, <1>4, <1>5, <1>7, <1>1 DEF MinedWasSent, NoReplacement, TrackerAssumption
<1>15. MinedInOrder' BY <1>1, <1>2 DEF MinedInOrder, Unmined
<1>16. LockIsHeld' /\ PassIsCalled' /\ ForcedOnce' /\ LeftByMishaps'
  BY <1>1, <1>2, <1>7 DEF ControlInv, LockIsHeld, PassIsCalled, Unchecked, ForcedOnce, Calls, LeftBehind,
     LeftByMishaps
<1>17. CountsAreLate'
  <2>1. \A t \in TxIds : Counting(t)' = Counting(t) BY <1>1 DEF Counting
  <2>2. \A t \in TxIds : droppedBlockCount[t] > 0 =>
          sent'[t] = sent[t] /\ sent[t] \in Nonces /\ mined[sent[t]] # Unmined
    BY <1>4, <1>6 DEF TrackerInv, CountsAreLate, NetworkGrows
  <2>3. \A t \in TxIds : sent'[t] \in Nonces /\ mined[sent'[t]].by = t => sent[t] = sent'[t]
    BY <1>2 DEF MinedWasSent
  <2>4. \A t \in TxIds : sent'[t] \in Nonces /\ mined[sent'[t]].by = t =>
          IsFiniteSet(Counting(t)) /\ Cardinality(Counting(t)) + droppedBlockCount[t] <= mishaps + 1
    BY <2>3 DEF TrackerInv, CountsAreLate
  <2>5. \A t \in TxIds : droppedBlockCount'[t] > 0 => sent'[t] \in Nonces /\ mined'[sent'[t]] # Unmined'
    BY <1>1, <2>2 DEF Unmined
  <2>6. \A t \in TxIds : sent'[t] \in Nonces /\ mined'[sent'[t]].by = t =>
          IsFiniteSet(Counting(t)') /\ Cardinality(Counting(t)') + droppedBlockCount'[t] <= mishaps' + 1
    BY <1>1, <2>1, <2>4
  <2> QED BY <2>5, <2>6 DEF CountsAreLate
<1> QED BY <1>11, <1>12, <1>13, <1>14, <1>15, <1>16, <1>17 DEF TrackerInv, ControlInv

LEMMA ConfirmExternalTransaction ==
  ASSUME StoreAssumption, TrackerAssumption, NoTxAssumption, TrackerInv,
         NEW x \in Replacements, confirmExternalTransaction(x)
  PROVE  TrackerInv'
<1> DEFINE n == sent[x]
           meta == [status |-> "confirmed", nonce |-> n, time |-> clock, hash |-> TRUE,
                    firstRetryBlockNumber |-> 0, retryCount |-> 0]
           U == [transactions EXCEPT ![x] = meta]
           R == {NoReplacement, [step |-> "done"]}
             \cup [step : {"publishing", "forcing"}, kind : {"cancel", "retry"},
                   tx : TxIds, meta : PendingMeta, fresh : BOOLEAN]
<1>1. /\ replacing[x] = NoReplacement /\ isValidExternal(n)
      /\ \E kept \in SUBSET TxIds :
           transactions' = markNonceDuplicatesDropped(without(U, TxIds \ kept), x)
      /\ clock' = clock + 1
      /\ replacing' = [replacing EXCEPT ![x] = [step |-> "done"]]
      /\ UNCHANGED <<droppedBlockCount, globalLock, calls, checks, passes, mined, sent, block, mishaps>>
  BY DEF confirmExternalTransaction, addExternalTransaction, networkVars
<1>2. ControlInv /\ TrackerTypeOK /\ Sound(transactions) /\ x \in TxIds /\ x \in Calls
  BY DEF TrackerInv, ControlInv, Calls, TrackerAssumption
<1>3. n # NoNonce /\ n \in Nonces /\ mined[n] = [by |-> x, success |-> TRUE]
  BY <1>1, <1>2 DEF isValidExternal, TrackerTypeOK, ControlInv, MinedWasSent
<1>4. meta \in PendingMeta /\ IsCopyOf(x, meta) /\ IsTrue(x, meta)
  BY <1>2, <1>3 DEF TrackerTypeOK, PendingMeta, Statuses, IsCopyOf, IsTrue
<1>5. meta.status = "confirmed" OBVIOUS
<1> HIDE DEF meta
<1>6. Sound(U) /\ U[x] = meta BY <1>2, <1>4 DEF Sound, Lists
<1>7. Sound(transactions')
  <2>1. PICK kept \in SUBSET TxIds :
           transactions' = markNonceDuplicatesDropped(without(U, TxIds \ kept), x) BY <1>1
  <2> DEFINE T == without(U, TxIds \ kept)
  <2> HIDE DEF U
  <2>2. Sound(T) BY <1>6, TrimmedIsSound
  <2>3. T[x] # NoTx => T[x].status = "confirmed" BY <1>2, <1>5, <1>6 DEF without
  <2> HIDE DEF T
  <2> QED BY <1>2, <2>1, <2>2, <2>3, DuplicatesAreDropped DEF T
<1>8. replacing \in [Replacements -> R] BY <1>2 DEF TrackerTypeOK
<1>9. /\ replacing' \in [Replacements -> R] /\ replacing'[x] = [step |-> "done"]
      /\ \A s \in Replacements \ {x} : replacing'[s] = replacing[s]
  <2>1. [step |-> "done"] \in R OBVIOUS
  <2> HIDE DEF R
  <2> QED BY <1>1, <1>8, <2>1
<1>10. \A s \in Replacements :
           /\ replacing'[s].step = "publishing" => sent[s] = NoNonce
           /\ replacing'[s] = NoReplacement => replacing[s] = NoReplacement
           /\ replacing'[s].step \in {"publishing", "forcing"} =>
                IsPendingCopy(replacing'[s].tx, replacing'[s].meta)
  <2> HIDE DEF R, U
  <2> QED BY <1>2, <1>9 DEF ControlInv, MinedWasSent, CopiesAreSound, NoReplacement
<1>11. LockIsHeld' /\ PassIsCalled' BY <1>1, <1>2 DEF ControlInv, LockIsHeld, PassIsCalled
<1>12. ForcedOnce'
  <2>1. \A c \in Calls : Unchecked(c)' <=> Unchecked(c) BY <1>1 DEF Unchecked
  <2>2. calls[x].step \notin {"waiting", "checking"}
    BY <1>1, <1>2 DEF ControlInv, ForcedOnce, NoReplacement
  <2> HIDE DEF R, U
  <2> QED BY <1>1, <1>2, <1>9, <2>1, <2>2 DEF ControlInv, ForcedOnce, Calls
<1>13. \A c \in Calls :
           /\ calls'[c].step = "waiting" => Unchecked(c)
           /\ calls'[c].step # "checking" => calls[c].step # "checking" \/ Unchecked(c)
  BY <1>1, <1>2 DEF ControlInv, LeftByMishaps
<1>14. /\ PassesGoOn /\ block' \in 0..MaxBlocks /\ globalLock' \in Seq(Calls)
       /\ calls' \in [Calls -> [step : {"idle", "waiting", "checking", "resubmitting"}, block : 0..MaxBlocks]]
  BY <1>1, <1>2 DEF PassesGoOn, TrackerTypeOK
<1>15. mishaps' \in 0..MaxMishaps /\ mishaps' >= mishaps /\ clock' \in Nat
  BY <1>1, <1>2 DEF TrackerTypeOK, TrackerAssumption
<1> HIDE DEF R, U
<1> QED BY <1>1, <1>7, <1>9, <1>10, <1>11, <1>12, <1>13, <1>14, <1>15, ChecksKept DEF R

LEMMA TrackerRestarts ==
  ASSUME StoreAssumption, TrackerAssumption, NoTxAssumption, TrackerInv, trackerRestarts
  PROVE  TrackerInv'
<1>1. /\ mishaps < MaxMishaps /\ mishaps' = mishaps + 1
      /\ droppedBlockCount' = [t \in TxIds |-> 0]
      /\ globalLock' = <<>>
      /\ calls' = [c \in Calls |-> [step |-> "idle", block |-> 0]]
      /\ checks' = [ct \in Calls \X TxIds |-> NoCheck]
      /\ passes' = [p \in Polls |-> NoPass]
      /\ replacing' = [r \in Replacements |->
                         IF replacing[r] = NoReplacement THEN NoReplacement ELSE [step |-> "done"]]
      /\ UNCHANGED <<transactions, mined, sent, block, clock>>
  BY DEF trackerRestarts, mishap, networkVars
<1>2. ControlInv /\ TrackerTypeOK /\ Sound(transactions) BY DEF TrackerInv, ControlInv
<1>3. /\ MaxMishaps \in Nat /\ MaxBlocks \in Nat /\ DroppedBlockCount \in Nat
      /\ mishaps \in 0..MaxMishaps BY <1>2 DEF TrackerTypeOK, TrackerAssumption
<1>4. mishaps' \in 0..MaxMishaps /\ mishaps' \in Nat BY <1>1, <1>3
<1>5. IsSoundPass(NoPass) /\ NoPass.publishing = NoTx BY DEF IsSoundPass, NoPass, AreCopies, Lists
<1>6. TrackerTypeOK' BY <1>1, <1>3, <1>5, <1>2, <1>4 DEF IsSoundPass, TrackerTypeOK, Lists
<1>7. \A r \in Replacements : \/ replacing'[r] = NoReplacement /\ replacing[r] = NoReplacement
                              \/ replacing'[r] = [step |-> "done"] BY <1>1
<1>8. CopiesAreSound'
  BY <1>1, <1>5, <1>7 DEF IsSoundPass, NoPass, AreCopies, IsSoundCheck, NoCheck, NoReplacement, CopiesAreSound
<1>9. MinedWasSent' /\ MinedInOrder' BY <1>7, <1>1, <1>2, NetworkKept DEF NoReplacement
<1>10. \A c \in Calls : Unchecked(c)' /\ calls'[c].step = "idle" BY <1>1 DEF Unchecked, NoCheck
<1>11. LockIsHeld' /\ PassIsCalled' /\ ForcedOnce'
  BY <1>1, <1>5, <1>10 DEF LockIsHeld, PassIsCalled, ForcedOnce, Calls
<1>12. LeftByMishaps' BY <1>10, <1>4, FS_EmptySet DEF LeftBehind, LeftByMishaps
<1>13. Sound(transactions)' BY <1>1, <1>2, ListKept
<1>14. CountsAreLate'
  <2>1. \A t \in TxIds : Counting(t)' = {} BY <1>1 DEF Counting, NoCheck
  <2>2. \A t \in TxIds : droppedBlockCount'[t] = 0 BY <1>1
  <2>3. \A t \in TxIds : IsFiniteSet(Counting(t)')
          /\ Cardinality(Counting(t)') + droppedBlockCount'[t] <= mishaps' + 1
    BY <1>4, <2>1, <2>2, FS_EmptySet
  <2> QED BY <2>2, <2>3 DEF CountsAreLate
<1> QED BY <1>6, <1>8, <1>9, <1>11, <1>12, <1>13, <1>14 DEF TrackerInv, ControlInv

-----------------------------------------------------------------------------
(* Outcomes.                                                               *)

LEMMA TrackerInitial ==
  ASSUME StoreAssumption, TrackerAssumption, NoTxAssumption, TrackerInit
  PROVE  TrackerInv
<1>1. /\ {MaxNonce, MaxBlocks, MaxMishaps, DroppedBlockCount} \subseteq Nat
      /\ Replacements \subseteq TxIds /\ NoNonce \notin Nonces /\ Nonces \subseteq Nat /\ 0 \in Nonces
  BY DEF TrackerAssumption, Nonces, StoreAssumption
<1> DEFINE submitted(n, h) == [status |-> "submitted", nonce |-> n, time |-> n, hash |-> h,
                               firstRetryBlockNumber |-> 0, retryCount |-> 0]
           none == [t \in TxIds |-> NoTx]
<1>2. \A n \in Nonces, h \in BOOLEAN : submitted(n, h) \in PendingMeta
        /\ submitted(n, h).status = "submitted" BY <1>1 DEF PendingMeta, Statuses
<1>3. /\ transactions \in Lists
      /\ \A t \in TxIds : transactions[t] # NoTx => transactions[t].status = "submitted"
  <2>1. PICK first \in TxIds \ Replacements, hash \in BOOLEAN :
          \/ transactions = [none EXCEPT ![first] = submitted(0, hash)]
          \/ /\ 1 \in Nonces
             /\ \E second \in TxIds \ (Replacements \cup {first}) :
                  transactions = [none EXCEPT ![first] = submitted(0, hash),
                                              ![second] = submitted(1, TRUE)] BY DEF TrackerInit
  <2>2. submitted(0, hash) \in PendingMeta /\ submitted(0, hash).status = "submitted"
        /\ (1 \in Nonces => submitted(1, TRUE) \in PendingMeta /\ submitted(1, TRUE).status = "submitted")
    BY <1>1, <1>2
  <2> HIDE DEF submitted
  <2>3. CASE transactions = [none EXCEPT ![first] = submitted(0, hash)] BY <2>2, <2>3 DEF Lists
  <2>4. CASE /\ 1 \in Nonces
             /\ \E second \in TxIds \ (Replacements \cup {first}) :
                  transactions = [none EXCEPT ![first] = submitted(0, hash),
                                              ![second] = submitted(1, TRUE)]
    BY <2>2, <2>4 DEF Lists
  <2> QED BY <2>1, <2>3, <2>4
<1>4. /\ sent = [t \in TxIds |-> IF transactions[t] = NoTx \/ ~transactions[t].hash
                                 THEN NoNonce ELSE transactions[t].nonce]
      /\ droppedBlockCount = [t \in TxIds |-> 0]
      /\ globalLock = <<>>
      /\ calls = [c \in Calls |-> [step |-> "idle", block |-> 0]]
      /\ checks = [ct \in Calls \X TxIds |-> NoCheck]
      /\ passes = [p \in Polls |-> NoPass]
      /\ replacing = [r \in Replacements |-> NoReplacement]
      /\ mined = [n \in Nonces |-> Unmined]
      /\ block = 0 /\ mishaps = 0 /\ clock = 2 BY DEF TrackerInit
<1>5. \A t \in TxIds : transactions[t] # NoTx => transactions[t] \in PendingMeta BY <1>3 DEF Lists
<1>6. Sound(transactions) BY <1>3, <1>4 DEF IsCopyOf, IsTrue, Sound
<1>7. IsSoundPass(NoPass) /\ NoPass.publishing = NoTx BY DEF IsSoundPass, NoPass, AreCopies, Lists
<1>8. TrackerTypeOK
  BY <1>4, <1>5, <1>1, <1>7, <1>3 DEF PendingMeta, IsSoundPass, Unmined, TrackerTypeOK, Lists
<1>9. CopiesAreSound BY <1>4, <1>7 DEF CopiesAreSound, IsSoundCheck, NoReplacement
<1>10. MinedWasSent /\ MinedInOrder
  <2>1. \A n \in Nonces, t \in TxIds : mined[n].by # t BY <1>4 DEF Unmined, NoTxAssumption
  <2>2. \A r \in Replacements : transactions[r] = NoTx /\ sent[r] = NoNonce
    BY <1>1, <1>4 DEF TrackerInit
  <2>3. \A n \in Nonces : mined[n] # Unmined <=> n < 0 BY <1>1, <1>4
  <2>4. 0 \in 0..(MaxNonce + 1) BY <1>1
  <2> QED BY <2>1, <2>2, <2>3, <2>4 DEF MinedWasSent, MinedInOrder
<1>11. \A c \in Calls : Unchecked(c) /\ calls[c].step = "idle" BY <1>4 DEF Unchecked
<1>12. LockIsHeld /\ PassIsCalled /\ ForcedOnce
  BY <1>4, <1>7, <1>11 DEF LockIsHeld, PassIsCalled, ForcedOnce, Calls
<1>13. LeftByMishaps
  <2>1. LeftBehind = {} BY <1>11 DEF LeftBehind
  <2> QED BY <1>4, <1>11, <2>1, FS_EmptySet DEF LeftByMishaps
<1>14. CountsAreLate
  <2>1. \A t \in TxIds : Counting(t) = {} BY <1>4 DEF Counting, NoCheck
  <2>2. \A t \in TxIds : droppedBlockCount[t] = 0 BY <1>4
  <2>3. mishaps = 0 /\ IsFiniteSet({}) /\ Cardinality({}) = 0 BY <1>4, FS_EmptySet
  <2>4. \A t \in TxIds : IsFiniteSet(Counting(t))
          /\ Cardinality(Counting(t)) + droppedBlockCount[t] <= mishaps + 1 BY <2>1, <2>2, <2>3
  <2> QED BY <2>2, <2>4 DEF CountsAreLate
<1> QED BY <1>6, <1>8, <1>9, <1>10, <1>12, <1>13, <1>14 DEF TrackerInv, ControlInv

LEMMA TrackerIdles ==
  ASSUME TrackerInv, UNCHANGED trackerVars
  PROVE  TrackerInv'
<1>1. UNCHANGED <<transactions, droppedBlockCount, globalLock, calls, checks, passes, replacing,
                  mined, sent, block, mishaps, clock>>
  BY DEF trackerVars, trackerCallVars, networkVars, trackerWorld
<1>2. TrackerTypeOK' /\ Sound(transactions)' /\ CopiesAreSound'
  BY <1>1 DEF TrackerInv, ControlInv, TrackerTypeOK, Sound, IsCopyOf, IsTrue, CopiesAreSound, IsSoundPass,
     AreCopies, IsPendingCopy, IsSoundCheck
<1>3. MinedWasSent' /\ MinedInOrder' /\ LockIsHeld' /\ PassIsCalled' /\ ForcedOnce'
  BY <1>1 DEF TrackerInv, ControlInv, MinedWasSent, MinedInOrder, LockIsHeld, PassIsCalled, ForcedOnce,
     Unchecked
<1>4. \A c \in Calls : Unchecked(c)' <=> Unchecked(c) BY <1>1 DEF Unchecked
<1>5. LeftBehind' = LeftBehind /\ \A t \in TxIds : Counting(t)' = Counting(t)
  BY <1>1, <1>4 DEF LeftBehind, Counting
<1>6. LeftByMishaps' BY <1>1, <1>4, <1>5 DEF TrackerInv, ControlInv, LeftByMishaps
<1>7. CountsAreLate' BY <1>1, <1>5 DEF TrackerInv, CountsAreLate
<1> QED BY <1>2, <1>3, <1>6, <1>7 DEF TrackerInv, ControlInv

LEMMA TrackerSteps ==
  ASSUME StoreAssumption, TrackerAssumption, NoTxAssumption, TrackerInv, TrackerNext
  PROVE  TrackerInv'
<1>1. CASE newBlock BY <1>1, NewBlock
<1>2. CASE checkAnswered BY <1>2, ReceiptAnswered, BlockAnswered, CountAnswered DEF checkAnswered
<1>3. CASE trackerRestarts BY <1>3, TrackerRestarts
<1>4. CASE \E n \in Nonces : mines(n) BY <1>4, Mines
<1>5. CASE \E c \in Calls : checksStart(c) BY <1>5, ChecksStart
<1>6. CASE \E c \in Calls, t \in TxIds : checkFails(c, t) BY <1>6, CheckFails
<1>7. CASE \E p \in Polls : resubmitted(p) BY <1>7, Resubmitted
<1>8. CASE \E r \in Replacements :
             \/ \E t \in TxIds, kind \in {"retry", "cancel"} : replace(r, t, kind)
             \/ replacementPublished(r) \/ replacementRefused(r)
             \/ confirmExternalTransaction(r)
  BY <1>8, Replace, ReplacementPublished, ReplacementRefused, ConfirmExternalTransaction
<1> QED BY <1>1, <1>2, <1>3, <1>4, <1>5, <1>6, <1>7, <1>8 DEF TrackerNext

LEMMA TrackerInvariant == Spec => []TrackerInv
<1>1. Init => TrackerInv
  BY TrackerInitial, StoreAssumption, TrackerAssumption, NoTxAssumption DEF Init
<1>2. ASSUME TrackerInv, [Next]_allVars
      PROVE  TrackerInv'
  BY <1>2, TrackerSteps, StoreAssumption, TrackerAssumption, NoTxAssumption, TrackerIdles DEF Next, pending,
     allVars
<1> QED BY <1>1, <1>2, PTL DEF Spec

(***************************************************************************)
(* The outcomes of the wallet are those of the network: a transaction that *)
(* is confirmed is in a block, one that failed was reverted or never sent, *)
(* and a dropped one has lost its nonce, however late or wrong the answers *)
(* to its checks, passes and replacements are, as long as mishaps are      *)
(* fewer than the blocks a transaction must be missing for                 *)
(* (PendingTransactionTracker, DROPPED_BLOCK_COUNT).                       *)
(***************************************************************************)
THEOREM OutcomesAlwaysTrue == Spec => []OutcomesAreTrue
<1>1. TrackerInv => OutcomesAreTrue BY SoundOutcomes DEF TrackerInv, ControlInv
<1> QED BY <1>1, TrackerInvariant, PTL

-----------------------------------------------------------------------------
(* Incoming transactions.                                                  *)

\* A set of blocks up to a height has a newest one.
LEMMA NewestIsLast ==
  ASSUME NEW k \in Nat, NEW blocks \in SUBSET (0..k), blocks # {}
  PROVE  newest(blocks) \in blocks /\ \A b \in blocks : b <= newest(blocks)
<1> DEFINE less == OpToRel(<, Nat)
           S == {k - b : b \in blocks}
<1>1. S \subseteq Nat /\ S # {} OBVIOUS
<1>2. \A x, y \in Nat : <<y, x>> \in less <=> y < x BY DEF OpToRel
<1>3. IsWellFoundedOn(less, Nat) BY NatLessThanWellFounded
<1> HIDE DEF less
<1>4. PICK x \in S : \A y \in S : ~(<<y, x>> \in less) BY <1>1, <1>3, WFMin
<1>5. PICK b \in blocks : x = k - b BY <1>4
<1>6. \A c \in blocks : c <= b
  <2>1. SUFFICES ASSUME NEW c \in blocks PROVE c <= b OBVIOUS
  <2>2. k - c \in S /\ k - c \in Nat /\ x \in Nat BY <1>1, <1>4
  <2>3. ~(k - c < x) BY <1>2, <1>4, <2>2
  <2> QED BY <1>5, <2>2, <2>3
<1>7. \E d \in blocks : \A c \in blocks : c <= d BY <1>6
<1> QED BY <1>7 DEF newest

\* The blocks there are, and how many.
LEMMA HeightOfBlocks ==
  ASSUME IncomingAssumption, BlocksInOrder
  PROVE  /\ height \in Nat /\ height <= MaxHeight
         /\ UNION {remote[av] : av \in Accounts \X Variations} = 1..height
         /\ \A av \in Accounts \X Variations : lastFetched[av] <= height
<1>1. PICK k \in Height : /\ UNION {remote[av] : av \in Accounts \X Variations} = 1..k
                          /\ \A av \in Accounts \X Variations : lastFetched[av] <= k
  BY DEF BlocksInOrder
<1>2. k \in Nat /\ k <= MaxHeight BY <1>1 DEF Height, IncomingAssumption
<1>3. Cardinality(1..k) = k BY <1>2, FS_Interval
<1>4. height = k BY <1>1, <1>3, Zenon DEF height
<1> QED BY <1>1, <1>2, <1>4

\* What a helper that updates has.
LEMMA HelperHas ==
  ASSUME IncomingTypeOK, NEW h \in Helpers, helper[h] # IdleHelper
  PROVE  /\ helper[h] \in [step : {"waiting", "fetching"}, account : Accounts,
                           from : 1..(MaxHeight + 1), key : Variations, asked : Variations]
         /\ helper[h].account \in Accounts /\ helper[h].key \in Variations
         /\ helper[h].asked \in Variations /\ helper[h].from \in 1..(MaxHeight + 1)
BY DEF IncomingTypeOK

LEMMA IncomingMined ==
  ASSUME IncomingAssumption, IncomingInv,
         NEW a \in Accounts, NEW v \in Variations, incomingMined(a, v)
  PROVE  IncomingInv'
<1>1. /\ height < MaxHeight
      /\ remote' = [remote EXCEPT ![<<a, v>>] = @ \cup {height + 1}]
      /\ UNCHANGED <<incoming, lastFetched, selected, helper, updatesWaiting, polling,
                     tokenRequest, sourceLock, selections, crossed>>
  BY DEF incomingMined, explorerVars
<1>2. IncomingTypeOK /\ FetchesInTurn /\ BlocksInOrder /\ FetchesFit /\ NothingIsSkipped
  BY DEF IncomingInv
<1>3. /\ height \in Nat /\ MaxHeight \in Nat
      /\ UNION {remote[av] : av \in Accounts \X Variations} = 1..height
      /\ \A av \in Accounts \X Variations : lastFetched[av] <= height
  BY <1>2, HeightOfBlocks DEF IncomingAssumption
<1>4. /\ remote \in [Accounts \X Variations -> SUBSET Height]
      /\ lastFetched \in [Accounts \X Variations -> Height]
      /\ <<a, v>> \in Accounts \X Variations BY <1>2 DEF IncomingTypeOK
<1>5. height + 1 \in Height BY <1>1, <1>3 DEF Height
<1>6. /\ remote' \in [Accounts \X Variations -> SUBSET Height]
      /\ \A av \in Accounts \X Variations :
           remote'[av] = IF av = <<a, v>> THEN remote[av] \cup {height + 1} ELSE remote[av]
  BY <1>1, <1>4, <1>5
<1>7. IncomingTypeOK' BY <1>1, <1>2, <1>6 DEF IncomingTypeOK
<1>8. FetchesInTurn' /\ FetchesFit' BY <1>1, <1>2 DEF FetchesInTurn, FetchesFit
<1>9. BlocksInOrder'
  <2> DEFINE U == UNION {remote[av] : av \in Accounts \X Variations}
             V == UNION {remote'[av] : av \in Accounts \X Variations}
  <2>1. V = U \cup {height + 1}
    <3>1. \A b : b \in V <=> \E av \in Accounts \X Variations : b \in remote'[av] OBVIOUS
    <3>2. \A b : b \in U <=> \E av \in Accounts \X Variations : b \in remote[av] OBVIOUS
    <3> HIDE DEF U, V
    <3>3. \A b : b \in V <=> b \in U \/ b = height + 1 BY <1>4, <1>6, <3>1, <3>2
    <3> QED BY <3>3
  <2>2. U = 1..height BY <1>3
  <2> HIDE DEF U
  <2>3. V = 1..(height + 1) BY <1>3, <2>1, <2>2
  <2>4. \A av \in Accounts \X Variations : lastFetched'[av] <= height + 1
    BY <1>3, <1>4, <1>1 DEF Height
  <2> QED BY <1>5, <2>3, <2>4 DEF BlocksInOrder, Height
<1>10. NothingIsSkipped'
  <2>1. ASSUME ~crossed, NEW x \in Accounts, NEW w \in Variations, NEW b \in remote'[<<x, w>>],
               b <= lastFetched[<<x, w>>]
        PROVE  <<x, w, b>> \in incoming BY <1>3, <1>4, <2>1, <1>6, <1>2 DEF Height, NothingIsSkipped
  <2> QED BY <1>1, <2>1 DEF NothingIsSkipped
<1> QED BY <1>7, <1>8, <1>9, <1>10 DEF IncomingInv

LEMMA AccountSelected ==
  ASSUME IncomingAssumption, IncomingInv, NEW a \in Accounts, accountSelected(a)
  PROVE  IncomingInv'
<1>1. /\ selections < MaxSelections /\ selected' = a /\ selections' = selections + 1
      /\ crossed' = (crossed \/ \E h \in Helpers : helper[h] # IdleHelper)
      /\ UNCHANGED <<remote, incoming, lastFetched, helper, updatesWaiting, polling,
                     tokenRequest, sourceLock>> BY DEF accountSelected, explorerVars
<1>2. IncomingTypeOK /\ FetchesInTurn /\ BlocksInOrder /\ FetchesFit /\ NothingIsSkipped
  BY DEF IncomingInv
<1>3. selections' \in 0..MaxSelections /\ crossed' \in BOOLEAN
  BY <1>1, <1>2 DEF IncomingTypeOK, IncomingAssumption
<1>4. IncomingTypeOK' BY <1>1, <1>2, <1>3 DEF IncomingTypeOK
<1>5. FetchesInTurn' /\ BlocksInOrder' BY <1>1, <1>2 DEF FetchesInTurn, BlocksInOrder
<1>6. crossed' = FALSE => ~crossed /\ \A h \in Helpers : helper[h] = IdleHelper BY <1>1
<1>7. FetchesFit' BY <1>1, <1>2, <1>6 DEF FetchesFit
<1>8. NothingIsSkipped' BY <1>1, <1>2, <1>6 DEF NothingIsSkipped
<1> QED BY <1>4, <1>5, <1>7, <1>8 DEF IncomingInv

\* An update gets the mutex of its helper.
LEMMA FetchFor ==
  ASSUME IncomingAssumption, IncomingInv, NEW h \in Helpers, helper[h] = IdleHelper, fetchFor(h),
         updatesWaiting' \in [Helpers -> 0..1],
         UNCHANGED <<remote, incoming, lastFetched, selected, polling, tokenRequest, selections, crossed>>
  PROVE  IncomingInv'
<1> DEFINE H == {IdleHelper} \cup
       [step : {"waiting", "fetching"}, account : Accounts, from : 1..(MaxHeight + 1),
        key : Variations, asked : Variations]
           new == [step |-> "waiting", account |-> selected, key |-> variation, asked |-> variation,
                   from |-> lastFetched[<<selected, variation>>] + 1]
<1>1. helper' = [helper EXCEPT ![h] = new] /\ sourceLock' = Append(sourceLock, h) BY DEF fetchFor
<1>2. IncomingTypeOK /\ FetchesInTurn /\ BlocksInOrder /\ FetchesFit /\ NothingIsSkipped
  BY DEF IncomingInv
<1>3. /\ selected \in Accounts /\ variation \in Variations /\ sourceLock \in Seq(Helpers)
      /\ lastFetched \in [Accounts \X Variations -> Height]
  BY <1>2 DEF IncomingTypeOK, variation, Variations
<1>4. /\ lastFetched[<<selected, variation>>] \in Height /\ MaxHeight \in Nat
      /\ lastFetched[<<selected, variation>>] + 1 \in 1..(MaxHeight + 1)
  BY <1>3 DEF Height, IncomingAssumption
<1>5. /\ new \in H /\ new # IdleHelper /\ new.step = "waiting" /\ new.account = selected
      /\ new.key = variation /\ new.from = lastFetched[<<new.account, new.key>>] + 1
  BY <1>3, <1>4 DEF IdleHelper
<1>6. helper \in [Helpers -> H] BY <1>2 DEF IncomingTypeOK
<1> HIDE DEF H, new
<1>7. helper' \in [Helpers -> H] /\ \A g \in Helpers : helper'[g] = IF g = h THEN new ELSE helper[g]
  BY <1>1, <1>5, <1>6
<1>8. /\ sourceLock' \in Seq(Helpers)
      /\ sourceLock # <<>> => sourceLock' # <<>> /\ Head(sourceLock') = Head(sourceLock)
  BY <1>1, <1>3
<1>9. IncomingTypeOK' BY <1>2, <1>7, <1>8 DEF IncomingTypeOK, H
<1>10. FetchesInTurn' BY <1>2, <1>5, <1>7, <1>8 DEF FetchesInTurn
<1>11. BlocksInOrder' /\ NothingIsSkipped' BY <1>2 DEF BlocksInOrder, NothingIsSkipped
<1>12. FetchesFit'
  <2>1. lastFetched[<<new.account, new.key>>] \in Nat BY <1>3, <1>4, <1>5 DEF Height
  <2>2. new.from <= lastFetched[<<new.account, new.key>>] + 1 BY <1>5, <2>1
  <2> QED BY <1>2, <1>5, <1>7, <2>2 DEF FetchesFit
<1> QED BY <1>9, <1>10, <1>11, <1>12 DEF IncomingInv

LEMMA UpdateRuns ==
  ASSUME IncomingAssumption, IncomingInv, NEW h \in Helpers, update(h) \/ mutexGranted(h)
  PROVE  IncomingInv'
<1>1. updatesWaiting \in [Helpers -> 0..1] BY DEF IncomingInv, IncomingTypeOK
<1>2. CASE helper[h] = IdleHelper /\ fetchFor(h) /\ UNCHANGED updatesWaiting /\ update(h)
  BY <1>1, <1>2, FetchFor DEF update
<1>3. CASE update(h) /\ updatesWaiting' = [updatesWaiting EXCEPT ![h] = 1]
           /\ UNCHANGED <<helper, sourceLock>>
  BY <1>3, <1>1 DEF update, IncomingInv, IncomingTypeOK, FetchesInTurn, BlocksInOrder, FetchesFit,
     NothingIsSkipped
<1>4. CASE mutexGranted(h) BY <1>1, <1>4, FetchFor DEF mutexGranted
<1> QED BY <1>2, <1>3, <1>4 DEF update

LEMMA FetchStarts ==
  ASSUME IncomingAssumption, IncomingInv, NEW h \in Helpers, fetchStarts(h)
  PROVE  IncomingInv'
<1> DEFINE H == {IdleHelper} \cup
       [step : {"waiting", "fetching"}, account : Accounts, from : 1..(MaxHeight + 1),
        key : Variations, asked : Variations]
           new == [helper[h] EXCEPT !.step = "fetching", !.asked = variation]
<1>1. /\ sourceLock # <<>> /\ h = Head(sourceLock) /\ helper[h].step = "waiting"
      /\ helper' = [helper EXCEPT ![h].step = "fetching", ![h].asked = variation]
      /\ crossed' = (crossed \/ helper[h].key # variation)
      /\ UNCHANGED <<remote, incoming, lastFetched, selected, updatesWaiting, polling,
                     tokenRequest, sourceLock, selections>> BY DEF fetchStarts, explorerVars
<1>2. IncomingTypeOK /\ FetchesInTurn /\ BlocksInOrder /\ FetchesFit /\ NothingIsSkipped
  BY DEF IncomingInv
<1>3. helper[h] # IdleHelper /\ variation \in Variations
  BY <1>1 DEF IdleHelper, variation, Variations
<1>4. helper[h] \in [step : {"waiting", "fetching"}, account : Accounts, from : 1..(MaxHeight + 1),
                     key : Variations, asked : Variations] BY <1>2, <1>3, HelperHas
<1>5. /\ new \in H /\ new.step = "fetching" /\ new.asked = variation
      /\ new.account = helper[h].account /\ new.key = helper[h].key /\ new.from = helper[h].from
  BY <1>3, <1>4
<1>6. helper \in [Helpers -> H] BY <1>2 DEF IncomingTypeOK
<1>7. helper' = [helper EXCEPT ![h] = new] BY <1>1, <1>6
<1> HIDE DEF H, new
<1>8. helper' \in [Helpers -> H] /\ \A g \in Helpers : helper'[g] = IF g = h THEN new ELSE helper[g]
  BY <1>5, <1>6, <1>7
<1>9. crossed' \in BOOLEAN /\ (~crossed' => ~crossed /\ helper[h].key = variation)
  BY <1>1, <1>2 DEF IncomingTypeOK
<1>10. IncomingTypeOK' BY <1>1, <1>2, <1>8, <1>9 DEF IncomingTypeOK, H
<1>11. FetchesInTurn' BY <1>1, <1>2, <1>8 DEF FetchesInTurn
<1>12. BlocksInOrder' /\ NothingIsSkipped' BY <1>1, <1>2, <1>9 DEF BlocksInOrder, NothingIsSkipped
<1>13. FetchesFit' BY <1>1, <1>2, <1>3, <1>5, <1>8, <1>9 DEF FetchesFit
<1> QED BY <1>10, <1>11, <1>12, <1>13 DEF IncomingInv

\* A fetch ends: its helper idles, and the next one has the explorer.
LEMMA FetchEnds ==
  ASSUME IncomingInv, NEW h \in Helpers, helper[h].step = "fetching",
         sourceLock' = Tail(sourceLock), helper' = [helper EXCEPT ![h] = IdleHelper]
  PROVE  /\ sourceLock' \in Seq(Helpers)
         /\ helper' \in [Helpers -> {IdleHelper} \cup
              [step : {"waiting", "fetching"}, account : Accounts, from : 1..(MaxHeight + 1),
               key : Variations, asked : Variations]]
         /\ \A g \in Helpers : helper'[g] = IF g = h THEN IdleHelper ELSE helper[g]
         /\ FetchesInTurn'
<1> DEFINE H == {IdleHelper} \cup
       [step : {"waiting", "fetching"}, account : Accounts, from : 1..(MaxHeight + 1),
        key : Variations, asked : Variations]
<1>1. helper \in [Helpers -> H] /\ IdleHelper \in H /\ sourceLock \in Seq(Helpers)
  BY DEF IncomingInv, IncomingTypeOK
<1> HIDE DEF H
<1>2. helper' \in [Helpers -> H] /\ \A g \in Helpers : helper'[g] = IF g = h THEN IdleHelper ELSE helper[g]
  BY <1>1
<1>3. sourceLock # <<>> /\ h = Head(sourceLock) BY DEF IncomingInv, FetchesInTurn
<1>4. sourceLock' \in Seq(Helpers) BY <1>1, <1>3
<1>5. \A g \in Helpers : helper'[g].step # "fetching"
  BY <1>2, <1>3 DEF IncomingInv, FetchesInTurn, IdleHelper
<1>6. FetchesInTurn' BY <1>5 DEF FetchesInTurn
<1> QED BY <1>2, <1>4, <1>6 DEF H

LEMMA FetchFails ==
  ASSUME IncomingInv, NEW h \in Helpers, fetchFails(h)
  PROVE  IncomingInv'
<1>1. /\ helper[h].step = "fetching"
      /\ sourceLock' = Tail(sourceLock) /\ helper' = [helper EXCEPT ![h] = IdleHelper]
      /\ UNCHANGED <<remote, incoming, lastFetched, selected, updatesWaiting, polling, tokenRequest,
                     selections, crossed>> BY DEF fetchFails
<1>2. IncomingTypeOK /\ BlocksInOrder /\ FetchesFit /\ NothingIsSkipped BY DEF IncomingInv
<1>3. /\ sourceLock' \in Seq(Helpers)
      /\ helper' \in [Helpers -> {IdleHelper} \cup
           [step : {"waiting", "fetching"}, account : Accounts, from : 1..(MaxHeight + 1),
            key : Variations, asked : Variations]]
      /\ \A g \in Helpers : helper'[g] = IF g = h THEN IdleHelper ELSE helper[g]
      /\ FetchesInTurn' BY <1>1, FetchEnds
<1>4. IncomingTypeOK' BY <1>1, <1>2, <1>3 DEF IncomingTypeOK
<1>5. BlocksInOrder' /\ NothingIsSkipped' BY <1>1, <1>2 DEF BlocksInOrder, NothingIsSkipped
<1>6. FetchesFit' BY <1>1, <1>2, <1>3 DEF FetchesFit
<1> QED BY <1>3, <1>4, <1>5, <1>6 DEF IncomingInv

\* The cursor moves to a block that is there, and only forwards; unless an answer is filed
\* elsewhere, everything up to it has been handed over.
LEMMA CursorMoves ==
  ASSUME IncomingAssumption, IncomingInv, NEW h \in Helpers, helper[h].step = "fetching",
         NEW blocks, blocks = {} \/ blocks = answerFor(h),
         lastFetched' = cursorMoved(h, blocks),
         incoming' = incoming \cup newTransactions(h, blocks),
         UNCHANGED <<remote, crossed>>
  PROVE  /\ lastFetched' \in [Accounts \X Variations -> Height]
         /\ incoming' \in SUBSET (Accounts \X Variations \X Height)
         /\ \A av \in Accounts \X Variations :
              /\ lastFetched[av] <= lastFetched'[av] /\ lastFetched'[av] <= height
         /\ NothingIsSkipped'
<1> DEFINE a == helper[h].account
           key == <<selected, helper[h].key>>
<1>1. IncomingTypeOK /\ BlocksInOrder /\ FetchesFit /\ NothingIsSkipped /\ helper[h] # IdleHelper
  BY DEF IncomingInv, IdleHelper
<1>2. /\ a \in Accounts /\ helper[h].key \in Variations /\ helper[h].asked \in Variations
      /\ helper[h].from \in 1..(MaxHeight + 1) BY <1>1, HelperHas
<1>3. /\ height \in Nat /\ height <= MaxHeight /\ MaxHeight \in Nat
      /\ UNION {remote[av] : av \in Accounts \X Variations} = 1..height
      /\ \A av \in Accounts \X Variations : lastFetched[av] <= height
  BY <1>1, HeightOfBlocks DEF IncomingAssumption
<1>4. /\ lastFetched \in [Accounts \X Variations -> Height]
      /\ remote \in [Accounts \X Variations -> SUBSET Height]
      /\ incoming \in SUBSET (Accounts \X Variations \X Height)
      /\ key \in Accounts \X Variations BY <1>1, <1>2 DEF IncomingTypeOK
<1>5. \A av \in Accounts \X Variations : lastFetched[av] \in Nat BY <1>3, <1>4 DEF Height
<1>6. blocks \subseteq remote[<<a, helper[h].asked>>] /\ blocks \in SUBSET (0..height)
  BY <1>3, <1>2 DEF answerFor
<1>7. incoming' \in SUBSET (Accounts \X Variations \X Height)
  BY <1>3, <1>6, <1>2, <1>4 DEF Height, newTransactions
<1> HIDE DEF key
<1>8. CASE blocks = {} \/ lastFetched[key] >= newest(blocks)
  BY <1>8, <1>1, <1>3, <1>4, <1>5, <1>7 DEF cursorMoved, key, NothingIsSkipped
<1>9. CASE ~(blocks = {} \/ lastFetched[key] >= newest(blocks))
  <2> DEFINE last == newest(blocks)
  <2>1. lastFetched' = [lastFetched EXCEPT ![key] = last] BY <1>9 DEF cursorMoved, key
  <2>2. last \in blocks /\ \A b \in blocks : b <= last BY <1>3, <1>6, <1>9, NewestIsLast
  <2>3. last \in Nat /\ last <= height /\ last \in Height /\ last > lastFetched[key]
    <3>1. last \in 0..height BY <1>6, <2>2
    <3>2. ~(lastFetched[key] >= last) /\ lastFetched[key] \in Nat BY <1>4, <1>5, <1>9 DEF key
    <3> HIDE DEF last
    <3> QED BY <1>3, <3>1, <3>2 DEF Height
  <2> HIDE DEF last
  <2>4. /\ lastFetched' \in [Accounts \X Variations -> Height]
        /\ \A av \in Accounts \X Variations :
             lastFetched'[av] = IF av = key THEN last ELSE lastFetched[av] BY <1>4, <2>1, <2>3
  <2>5. \A av \in Accounts \X Variations :
              /\ lastFetched[av] <= lastFetched'[av] /\ lastFetched'[av] <= height
    BY <1>3, <1>4, <1>5, <2>3, <2>4
  <2>6. ASSUME ~crossed, NEW x \in Accounts, NEW v \in Variations, NEW b \in remote[<<x, v>>],
               b <= lastFetched'[<<x, v>>]
        PROVE  <<x, v, b>> \in incoming'
    <3>1. CASE <<x, v>> # key BY <1>1, <2>4, <2>6, <3>1 DEF NothingIsSkipped
    <3>2. CASE <<x, v>> = key
      <4>1. x = selected /\ v = helper[h].key BY <3>2 DEF key
      <4>2. x = a /\ v = helper[h].asked BY <1>1, <2>6, <4>1 DEF FetchesFit
      <4>3. helper[h].from <= lastFetched[<<x, v>>] + 1 BY <1>1, <4>1, <4>2 DEF FetchesFit
      <4>4. b \in Nat /\ helper[h].from \in Nat BY <1>2, <1>3, <1>4, <2>6 DEF Height
      <4>5. CASE b >= helper[h].from BY <2>6, <4>2, <4>5, <1>9 DEF answerFor, newTransactions
      <4>6. CASE ~(b >= helper[h].from) BY <1>5, <4>3, <4>4, <4>6, <1>1, <2>6 DEF NothingIsSkipped
      <4> QED BY <4>5, <4>6
    <3> QED BY <3>1, <3>2
  <2>7. NothingIsSkipped' BY <2>6 DEF NothingIsSkipped
  <2> QED BY <1>7, <2>4, <2>5, <2>7
<1> QED BY <1>8, <1>9

LEMMA Fetched ==
  ASSUME IncomingAssumption, IncomingInv, NEW h \in Helpers, NEW heard \in BOOLEAN, fetched(h, heard)
  PROVE  IncomingInv'
<1>1. /\ helper[h].step = "fetching"
      /\ \/ UNCHANGED <<incoming, lastFetched>>
         \/ \E blocks \in {{}, answerFor(h)} :
              /\ incoming' = incoming \cup newTransactions(h, blocks)
              /\ lastFetched' = cursorMoved(h, blocks)
      /\ tokenRequest' = ~tokenRequest
      /\ sourceLock' = Tail(sourceLock) /\ helper' = [helper EXCEPT ![h] = IdleHelper]
      /\ UNCHANGED <<remote, selected, updatesWaiting, polling, selections, crossed>>
  BY DEF fetched, onIncomingTransactions
<1>2. IncomingTypeOK /\ BlocksInOrder /\ FetchesFit /\ NothingIsSkipped BY DEF IncomingInv
<1>3. /\ sourceLock' \in Seq(Helpers)
      /\ helper' \in [Helpers -> {IdleHelper} \cup
           [step : {"waiting", "fetching"}, account : Accounts, from : 1..(MaxHeight + 1),
            key : Variations, asked : Variations]]
      /\ \A g \in Helpers : helper'[g] = IF g = h THEN IdleHelper ELSE helper[g]
      /\ FetchesInTurn' BY <1>1, FetchEnds
<1>4. /\ height \in Nat /\ height <= MaxHeight /\ MaxHeight \in Nat
      /\ UNION {remote[av] : av \in Accounts \X Variations} = 1..height
      /\ \A av \in Accounts \X Variations : lastFetched[av] <= height
      /\ \A av \in Accounts \X Variations : lastFetched[av] \in Nat
  BY <1>2, HeightOfBlocks DEF IncomingAssumption, IncomingTypeOK, Height
<1>5. /\ lastFetched' \in [Accounts \X Variations -> Height]
      /\ incoming' \in SUBSET (Accounts \X Variations \X Height)
      /\ \A av \in Accounts \X Variations :
           /\ lastFetched[av] <= lastFetched'[av] /\ lastFetched'[av] <= height
      /\ NothingIsSkipped'
  <2>1. CASE UNCHANGED <<incoming, lastFetched>>
    BY <1>1, <1>2, <1>4, <2>1 DEF IncomingTypeOK, NothingIsSkipped
  <2>2. CASE \E blocks \in {{}, answerFor(h)} :
              /\ incoming' = incoming \cup newTransactions(h, blocks)
              /\ lastFetched' = cursorMoved(h, blocks) BY <2>2, <1>1, CursorMoves
  <2> QED BY <1>1, <2>1, <2>2
<1>6. IncomingTypeOK' BY <1>1, <1>2, <1>3, <1>5 DEF IncomingTypeOK
<1>7. BlocksInOrder' BY <1>4, <1>1, <1>5 DEF Height, BlocksInOrder
<1>8. FetchesFit'
  <2>1. ASSUME NEW g \in Helpers, helper'[g] # IdleHelper
        PROVE  /\ helper'[g] = helper[g] /\ helper[g] # IdleHelper
               /\ helper[g].from <= lastFetched'[<<helper[g].account, helper[g].key>>] + 1
    <3>1. helper'[g] = helper[g] /\ helper[g] # IdleHelper BY <1>3, <2>1
    <3>2. <<helper[g].account, helper[g].key>> \in Accounts \X Variations
          /\ helper[g].from \in 1..(MaxHeight + 1) BY <1>2, <3>1, HelperHas
    <3> DEFINE av == <<helper[g].account, helper[g].key>>
    <3>3. /\ helper[g].from <= lastFetched[av] + 1 /\ lastFetched[av] <= lastFetched'[av]
          /\ lastFetched[av] \in Nat /\ lastFetched'[av] \in Height
      BY <1>2, <1>4, <1>5, <3>1, <3>2 DEF FetchesFit
    <3>4. lastFetched'[av] \in Nat /\ helper[g].from \in Nat BY <1>4, <3>2, <3>3 DEF Height
    <3> HIDE DEF av
    <3>5. helper[g].from <= lastFetched'[av] + 1 BY <3>3, <3>4
    <3> QED BY <3>1, <3>5 DEF av
  <2> QED BY <1>1, <1>2, <2>1 DEF FetchesFit
<1> QED BY <1>3, <1>5, <1>6, <1>7, <1>8 DEF IncomingInv

-----------------------------------------------------------------------------
(* The map of trackers and the nonce lock.                                 *)

LEMMA IncomingIdles ==
  ASSUME IncomingInv, polling' \in SUBSET Helpers,
         UNCHANGED <<remote, incoming, lastFetched, selected, helper, updatesWaiting,
                     tokenRequest, sourceLock, selections, crossed>>
  PROVE  IncomingInv'
BY DEF IncomingInv, IncomingTypeOK, FetchesInTurn, BlocksInOrder, FetchesFit, NothingIsSkipped

LEMMA NoncesIdle ==
  ASSUME NonceCallsInTurn, UNCHANGED nonceVars,
         \A c \in ClientIds : c \in registry => c \in registry' \/ retired' # {},
         retired \subseteq retired',
         nonceCall \in [NonceCalls -> [step : {"idle", "waiting", "asking", "holding", "done", "threw"},
                                       client : ClientIds]]
  PROVE  NonceCallsInTurn'
BY DEF nonceVars, NonceCallsInTurn

LEMMA ClientsChange ==
  ASSUME TrackingAssumption, HelpersInv, clientsChange
  PROVE  HelpersInv'
<1>1. /\ TrackingTypeOK /\ IncomingTypeOK /\ IncomingInv /\ TrackersFollowClients /\ NonceCallsInTurn
      /\ registry \in SUBSET ClientIds /\ retired \in SUBSET Helpers /\ configured \in 0..MaxConfigured
      /\ trackingMap \in [ClientIds -> Helpers \cup {NoHelper}] /\ polling \in SUBSET Helpers
      /\ MaxConfigured \in Nat
  BY DEF HelpersInv, TrackingTypeOK, IncomingInv, IncomingTypeOK, TrackingAssumption
<1>2. ASSUME NEW c \in ClientIds, clientAdded(c)
      PROVE  HelpersInv'
  BY <1>2, <1>1, IncomingIdles, NoncesIdle DEF clientAdded, incomingVars, explorerVars, TrackingAssumption,
     nonceVars, TrackingTypeOK, IncomingInv, TrackersFollowClients, tracked, HelpersInv
<1>3. ASSUME NEW c \in ClientIds, clientRemoved(c)
      PROVE  HelpersInv'
  BY <1>3, <1>1, IncomingIdles, NoncesIdle DEF clientRemoved, explorerVars, withoutStopped,
     TrackersFollowClients, nonceVars, TrackingTypeOK, IncomingInv, tracked, HelpersInv
<1> QED BY <1>2, <1>3 DEF clientsChange

LEMMA PollingChanges ==
  ASSUME TrackingAssumption, HelpersInv, NEW h \in tracked, pollingChanges(h),
         UNCHANGED <<mapVars, nonceVars>>
  PROVE  HelpersInv'
BY IncomingIdles DEF HelpersInv, TrackingTypeOK, IncomingTypeOK, pollingChanges, explorerVars, mapVars,
   nonceVars, tracked, IncomingInv, TrackersFollowClients, NonceCallsInTurn

\* The positions of the calls when the first one leaves.
LEMMA TurnsPass ==
  ASSUME NEW n \in NonceCalls, nonceMutex \in Seq(NonceCalls), nonceMutex # <<>>,
         n = Head(nonceMutex), NonceCallsInTurn
  PROVE  /\ 1 \in DOMAIN nonceMutex /\ nonceMutex[1] = n
         /\ \A i \in DOMAIN nonceMutex : nonceMutex[i] \in NonceCalls
         /\ \A i \in DOMAIN nonceMutex : nonceMutex[i] = n => i = 1
         /\ Tail(nonceMutex) \in Seq(NonceCalls)
         /\ \A i \in DOMAIN Tail(nonceMutex) :
              i + 1 \in DOMAIN nonceMutex /\ i + 1 # 1 /\ Tail(nonceMutex)[i] = nonceMutex[i + 1]
BY DEF NonceCallsInTurn

LEMMA NonceSteps ==
  ASSUME TrackingAssumption, HelpersInv, NEW n \in NonceCalls,
         \/ \E c \in ClientIds : getNonceLock(n, c)
         \/ nonceMutexGranted(n) \/ nonceTrackerFails(n) \/ nonceTrackerAnswers(n) \/ releaseLock(n)
  PROVE  HelpersInv'
<1> DEFINE Steps == {"idle", "waiting", "asking", "holding", "done", "threw"}
           Record == [step : Steps, client : ClientIds]
<1>1. /\ TrackingTypeOK /\ IncomingInv /\ TrackersFollowClients /\ NonceCallsInTurn
      /\ nonceCall \in [NonceCalls -> Record] /\ nonceMutex \in Seq(NonceCalls)
      /\ polling \in SUBSET Helpers BY DEF HelpersInv, TrackingTypeOK, IncomingTypeOK
<1>2. /\ UNCHANGED <<remote, incoming, lastFetched, selected, helper, updatesWaiting, polling,
                     tokenRequest, sourceLock, selections, crossed>>
      /\ UNCHANGED <<registry, trackingMap, retired, configured>>
  BY DEF getNonceLock, nonceMutexGranted, nonceTrackerFails, nonceTrackerAnswers, releaseLock, nonceCallEnds,
     incomingVars, explorerVars, mapVars
<1>3. IncomingInv' /\ TrackersFollowClients'
  BY <1>1, <1>2, IncomingIdles DEF TrackersFollowClients, tracked
<1>4. ASSUME nonceCall' \in [NonceCalls -> Record], nonceMutex' \in Seq(NonceCalls), NonceCallsInTurn'
      PROVE  HelpersInv' BY <1>1, <1>2, <1>3, <1>4 DEF HelpersInv, TrackingTypeOK, IncomingInv
<1>5. ASSUME NEW c \in ClientIds, getNonceLock(n, c)
      PROVE  HelpersInv'
  <2>1. /\ nonceCall[n].step = "idle" /\ c \in registry
        /\ nonceCall' = [nonceCall EXCEPT ![n] = [step |-> "waiting", client |-> c]]
        /\ nonceMutex' = Append(nonceMutex, n) BY <1>5 DEF getNonceLock
  <2>2. /\ nonceCall' \in [NonceCalls -> Record] /\ nonceMutex' \in Seq(NonceCalls)
        /\ nonceCall'[n].step = "waiting" /\ nonceCall'[n].client \in registry
        /\ \A m \in NonceCalls : m # n => nonceCall'[m] = nonceCall[m] BY <1>1, <2>1
  <2>3. \A i \in DOMAIN nonceMutex : nonceMutex[i] # n /\ nonceMutex[i] \in NonceCalls
    BY <1>1, <2>1 DEF NonceCallsInTurn
  <2>4. /\ \A i \in DOMAIN nonceMutex' :
             \/ i \in DOMAIN nonceMutex /\ nonceMutex'[i] = nonceMutex[i]
             \/ i = Len(nonceMutex) + 1 /\ nonceMutex'[i] = n
        /\ nonceMutex # <<>> => nonceMutex' # <<>> /\ Head(nonceMutex') = Head(nonceMutex)
    BY <1>1, <2>1
  <2>5. \A i, j \in DOMAIN nonceMutex' : nonceMutex'[i] = nonceMutex'[j] => i = j
    BY <1>1, <2>3, <2>4 DEF NonceCallsInTurn
  <2>6. \A i \in DOMAIN nonceMutex' :
          nonceCall'[nonceMutex'[i]].step \in
            IF i = 1 THEN {"waiting", "asking", "holding", "threw"} ELSE {"waiting"}
    BY <1>1, <2>2, <2>3, <2>4 DEF NonceCallsInTurn
  <2>7. \A m \in NonceCalls :
          /\ nonceCall'[m].step \in {"asking", "holding"} => nonceMutex' # <<>> /\ m = Head(nonceMutex')
          /\ nonceCall'[m].step = "threw" => retired' # {}
          /\ nonceCall'[m].step = "waiting" => nonceCall'[m].client \in registry' \/ retired' # {}
    BY <1>1, <1>2, <2>2, <2>4 DEF NonceCallsInTurn
  <2>8. NonceCallsInTurn' BY <2>5, <2>6, <2>7 DEF NonceCallsInTurn
  <2> QED BY <1>4, <2>2, <2>8
<1>6. ASSUME nonceMutexGranted(n) \/ nonceTrackerAnswers(n)
      PROVE  HelpersInv'
  BY <1>1, <1>6, TurnsPass, <1>2, <1>4 DEF nonceMutexGranted, nonceTrackerAnswers, NonceCallsInTurn,
     TrackersFollowClients
<1>7. ASSUME nonceTrackerFails(n) \/ releaseLock(n)
      PROVE  HelpersInv'
  <2>1. /\ nonceMutex # <<>> /\ n = Head(nonceMutex)
        /\ nonceCall' = [nonceCall EXCEPT ![n].step = "done"]
        /\ nonceMutex' = Tail(nonceMutex)
    BY <1>1, <1>7 DEF nonceTrackerFails, releaseLock, nonceCallEnds, NonceCallsInTurn
  <2>2. /\ nonceCall' \in [NonceCalls -> Record] /\ nonceCall'[n].step = "done"
        /\ \A m \in NonceCalls : m # n => nonceCall'[m] = nonceCall[m] BY <1>1, <2>1
  <2>3. /\ nonceMutex' \in Seq(NonceCalls)
        /\ \A i \in DOMAIN nonceMutex : nonceMutex[i] \in NonceCalls
        /\ \A i \in DOMAIN nonceMutex : nonceMutex[i] = n => i = 1
        /\ \A i \in DOMAIN nonceMutex' :
              i + 1 \in DOMAIN nonceMutex /\ i + 1 # 1 /\ nonceMutex'[i] = nonceMutex[i + 1]
    BY <1>1, <2>1, TurnsPass
  <2>4. \A i \in DOMAIN nonceMutex' : i \in Nat BY <2>3
  <2>5. \A i, j \in DOMAIN nonceMutex' : nonceMutex'[i] = nonceMutex'[j] => i = j
    BY <1>1, <2>3, <2>4 DEF NonceCallsInTurn
  <2>6. \A i \in DOMAIN nonceMutex' : nonceCall'[nonceMutex'[i]].step = "waiting"
    BY <1>1, <2>3, <2>2 DEF NonceCallsInTurn
  <2>7. \A m \in NonceCalls :
          /\ nonceCall'[m].step \notin {"asking", "holding"}
          /\ nonceCall'[m].step = "threw" => retired' # {}
          /\ nonceCall'[m].step = "waiting" => nonceCall'[m].client \in registry' \/ retired' # {}
    BY <1>1, <1>2, <2>1, <2>2 DEF NonceCallsInTurn
  <2>8. NonceCallsInTurn' BY <2>5, <2>6, <2>7 DEF NonceCallsInTurn
  <2> QED BY <1>4, <2>2, <2>3, <2>8
<1> QED BY <1>5, <1>6, <1>7

-----------------------------------------------------------------------------

LEMMA IncomingSteps ==
  ASSUME IncomingAssumption, TrackingAssumption, HelpersInv,
         \/ \E a \in Accounts : accountSelected(a) \/ (\E v \in Variations : incomingMined(a, v))
         \/ \E h \in tracked : update(h)
         \/ \E h \in Helpers : mutexGranted(h) \/ fetchStarts(h) \/ fetchFails(h)
                               \/ fetched(h, h \in tracked),
         UNCHANGED <<mapVars, nonceVars>>
  PROVE  HelpersInv'
<1>1. /\ TrackingTypeOK /\ IncomingInv /\ TrackersFollowClients /\ NonceCallsInTurn
      /\ trackingMap \in [ClientIds -> Helpers \cup {NoHelper}] BY DEF HelpersInv, TrackingTypeOK
<1>2. UNCHANGED <<registry, trackingMap, retired, configured, nonceCall, nonceMutex>>
  BY DEF mapVars, nonceVars
<1>3. polling' = polling
  BY DEF accountSelected, incomingMined, update, mutexGranted, fetchStarts, fetchFails, fetched
<1>4. \A h \in tracked : h \in Helpers BY <1>1 DEF tracked
<1>5. IncomingInv'
  <2>1. CASE \E a \in Accounts : accountSelected(a) \/ (\E v \in Variations : incomingMined(a, v))
    BY <1>1, <2>1, AccountSelected, IncomingMined
  <2>2. CASE \E h \in tracked : update(h) BY <1>1, <1>4, <2>2, UpdateRuns
  <2>3. CASE \E h \in Helpers : mutexGranted(h) \/ fetchStarts(h) \/ fetchFails(h)
    BY <1>1, <2>3, UpdateRuns, FetchStarts, FetchFails
  <2>4. CASE \E h \in Helpers : fetched(h, h \in tracked)
    <3>1. PICK h \in Helpers : fetched(h, h \in tracked) BY <2>4
    <3>2. (h \in tracked) \in BOOLEAN OBVIOUS
    <3> QED BY <1>1, <3>1, <3>2, Fetched
  <2> QED BY <2>1, <2>2, <2>3, <2>4
<1>6. TrackingTypeOK' BY <1>1, <1>2, <1>5 DEF TrackingTypeOK, IncomingInv
<1>7. TrackersFollowClients' BY <1>1, <1>2, <1>3 DEF TrackersFollowClients, tracked
<1>8. NonceCallsInTurn' BY <1>1, <1>2 DEF NonceCallsInTurn
<1> QED BY <1>5, <1>6, <1>7, <1>8 DEF HelpersInv

LEMMA HelpersIdle ==
  ASSUME HelpersInv, UNCHANGED trackingVars
  PROVE  HelpersInv'
BY IncomingIdles DEF trackingVars, incomingVars, explorerVars, mapVars, nonceVars, HelpersInv, IncomingInv,
   IncomingTypeOK, TrackingTypeOK, TrackersFollowClients, tracked, NonceCallsInTurn

LEMMA HelpersInitial ==
  ASSUME IncomingAssumption, TrackingAssumption, TrackingInit
  PROVE  HelpersInv
<1>1. /\ Helpers # {} /\ Accounts # {} /\ MaxHeight \in Nat /\ MaxSelections \in Nat
      /\ ClientIds # {} /\ NoHelper \notin Helpers /\ MaxConfigured \in Nat
  BY DEF IncomingAssumption, TrackingAssumption
<1>2. /\ remote = [av \in Accounts \X Variations |-> {}]
      /\ incoming = {} /\ lastFetched = [av \in Accounts \X Variations |-> 0]
      /\ helper = [h \in Helpers |-> IdleHelper] /\ updatesWaiting = [h \in Helpers |-> 0]
      /\ polling = {} /\ tokenRequest = FALSE /\ sourceLock = <<>>
      /\ selections = 0 /\ crossed = FALSE
      /\ selected \in Accounts BY <1>1 DEF TrackingInit, IncomingInit
<1>3. IncomingInv
  <2>1. IncomingTypeOK
    <3>1. 0 \in Height /\ \A av \in Accounts \X Variations : {} \in SUBSET Height BY <1>1 DEF Height
    <3>2. /\ remote \in [Accounts \X Variations -> SUBSET Height]
          /\ lastFetched \in [Accounts \X Variations -> Height] BY <1>2, <3>1
    <3>3. helper \in [Helpers -> {IdleHelper} \cup
            [step : {"waiting", "fetching"}, account : Accounts, from : 1..(MaxHeight + 1),
             key : Variations, asked : Variations]] BY <1>2
    <3>4. updatesWaiting \in [Helpers -> 0..1] /\ sourceLock \in Seq(Helpers) BY <1>2
    <3>5. selections \in 0..MaxSelections BY <1>1, <1>2
    <3>6. /\ incoming \in SUBSET (Accounts \X Variations \X Height) /\ polling \in SUBSET Helpers
          /\ selected \in Accounts /\ tokenRequest \in BOOLEAN /\ crossed \in BOOLEAN BY <1>2
    <3> QED BY <3>2, <3>3, <3>4, <3>5, <3>6 DEF IncomingTypeOK
  <2>2. FetchesInTurn /\ FetchesFit BY <1>2 DEF FetchesInTurn, FetchesFit, IdleHelper
  <2>3. BlocksInOrder BY <1>2, <1>1 DEF Height, BlocksInOrder
  <2>4. NothingIsSkipped BY <1>2 DEF NothingIsSkipped
  <2> QED BY <2>1, <2>2, <2>3, <2>4 DEF IncomingInv
<1>4. PICK first \in ClientIds, h \in Helpers :
        /\ registry = {first}
        /\ trackingMap = [c \in ClientIds |-> IF c = first THEN h ELSE NoHelper]
  BY <1>1 DEF TrackingInit
<1>5. /\ retired = {} /\ nonceMutex = <<>> /\ configured = 0
      /\ nonceCall \in [NonceCalls -> [step : {"idle"}, client : ClientIds]]
  BY <1>1 DEF TrackingInit
<1>6. TrackingTypeOK BY <1>5, <1>1, <1>3, <1>4 DEF TrackingTypeOK, IncomingInv
<1>7. TrackersFollowClients BY <1>1, <1>2, <1>4 DEF TrackersFollowClients
<1>8. NonceCallsInTurn BY <1>5 DEF NonceCallsInTurn
<1> QED BY <1>3, <1>6, <1>7, <1>8 DEF HelpersInv

LEMMA HelpersInvariant == Spec => []HelpersInv
<1>1. Init => HelpersInv BY HelpersInitial, IncomingAssumption, TrackingAssumption DEF Init
<1>2. ASSUME HelpersInv, [Next]_allVars
      PROVE  HelpersInv'
  BY <1>2, ClientsChange, IncomingSteps, IncomingAssumption, TrackingAssumption, PollingChanges, NonceSteps,
     HelpersIdle DEF IncomingNext, NoncesNext, Next, pending, allVars
<1> QED BY <1>1, <1>2, PTL DEF Spec

(***************************************************************************)
(* The helpers keep up with accounts, blocks and network clients: the      *)
(* variables keep their types, the cursor of an account skips no incoming  *)
(* transaction of it, there are trackers for the network clients that      *)
(* there are, and the nonce lock is held by a call that will release it    *)
(* or that lost its client (IncomingTransactionHelper,                     *)
(* MultichainTrackingHelper).                                              *)
(***************************************************************************)
THEOREM HelpersAlwaysKeepUp == Spec => []HelpersKeepUp
<1>1. ASSUME TrackerInv, HelpersInv
      PROVE  HelpersKeepUp
  <2>1. TypeOK /\ NothingIsSkipped /\ TrackersFollowClients
    BY <1>1 DEF TrackerInv, ControlInv, HelpersInv, IncomingInv, TypeOK
  <2>2. NonceLockIsHeldByCall
    <3>1. SUFFICES ASSUME nonceMutex # <<>> PROVE NonceLockIsHeldByCall BY DEF NonceLockIsHeldByCall
    <3>2. nonceMutex \in Seq(NonceCalls) BY <1>1 DEF HelpersInv, TrackingTypeOK
    <3>3. 1 \in DOMAIN nonceMutex /\ nonceMutex[1] = Head(nonceMutex) /\ nonceMutex[1] \in NonceCalls
      BY <3>1, <3>2
    <3>4. nonceCall[Head(nonceMutex)].step \in {"waiting", "asking", "holding", "threw"}
      BY <1>1, <3>3 DEF HelpersInv, NonceCallsInTurn
    <3>5. nonceCall[Head(nonceMutex)].step = "threw" => retired # {}
      BY <1>1, <3>3 DEF HelpersInv, NonceCallsInTurn
    <3> QED BY <3>4, <3>5 DEF NonceLockIsHeldByCall
  <2> QED BY <2>1, <2>2 DEF HelpersKeepUp
<1> QED BY <1>1, TrackerInvariant, HelpersInvariant, PTL
=============================================================================
