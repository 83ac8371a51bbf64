-------------------- MODULE QueuedRequestControllerProofs --------------------
(***************************************************************************)
(* Results about the request queue, for every choice of requests, origins  *)
(* and networks.  Whatever its surroundings do, its variables keep their   *)
(* types (TypeCorrect), the count of the requests in progress is exact     *)
(* (InProgressCounted), and who waits is held exactly once                 *)
(* (WaitersAlwaysHeldOnce).  Left undisturbed, it never lets requests of   *)
(* two dapps be in progress together (UndisturbedIsolation), implements    *)
(* RequestBatches (UndisturbedRefinement), and hands requests on while     *)
(* their network is selected (UndisturbedNetwork).                         *)
(***************************************************************************)
EXTENDS QueuedRequestController, FiniteSetTheorems, SequenceTheorems, TLAPS

(***************************************************************************)
(* Facts about Pick: it is a sequence of elements of s, and it takes every *)
(* position of T exactly once.                                             *)
(***************************************************************************)

LEMMA PositionsFinite ==
  ASSUME NEW n \in Nat, NEW T \in SUBSET (1..n)
  PROVE  IsFiniteSet(T) /\ Cardinality(T) \in Nat
<1>1. IsFiniteSet(1..n) BY FS_Interval
<1>2. IsFiniteSet(T) BY <1>1, FS_Subset
<1> QED BY <1>2, FS_CardinalityType

\* Ranks are positions of the picked sequence, and different ones differ.
LEMMA RankInjective ==
  ASSUME NEW n \in Nat, NEW T \in SUBSET (1..n)
  PROVE  [p \in T |-> Rank(T, p)] \in Injection(T, 1..Cardinality(T))
<1> DEFINE Below(p) == {q \in T : q <= p}
<1>1. ASSUME NEW p \in T
      PROVE  /\ IsFiniteSet(Below(p))
             /\ Cardinality(Below(p)) \in 1..Cardinality(T)
  <2>1. IsFiniteSet(T) /\ Cardinality(T) \in Nat BY PositionsFinite
  <2>2. Below(p) \in SUBSET T OBVIOUS
  <2>3. /\ IsFiniteSet(Below(p))
        /\ Cardinality(Below(p)) <= Cardinality(T)
        /\ Cardinality(Below(p)) \in Nat BY <2>1, <2>2, FS_Subset, FS_CardinalityType
  <2>4. p \in Below(p) OBVIOUS
  <2>5. Cardinality(Below(p)) # 0 BY <2>3, <2>4, FS_EmptySet
  <2> QED BY <2>1, <2>3, <2>5
<1>2. ASSUME NEW p \in T, NEW q \in T, p < q
      PROVE  Cardinality(Below(p)) # Cardinality(Below(q))
  <2>1. Below(p) \in SUBSET Below(q)
    <3>1. ASSUME NEW x \in T, x <= p PROVE x <= q BY <1>2, <3>1
    <3> QED BY <3>1
  <2>2. q \in Below(q) /\ q \notin Below(p) BY <1>2
  <2> QED BY <1>1, <2>1, <2>2, FS_Subset
<1>3. ASSUME NEW p \in T, NEW q \in T, Cardinality(Below(p)) = Cardinality(Below(q))
      PROVE  p = q BY <1>2, <1>3
<1> QED BY <1>1, <1>3 DEF Injection, IsInjective, Rank

\* Every position of the picked sequence has its place in T.
LEMMA PlaceExists ==
  ASSUME NEW n \in Nat, NEW T \in SUBSET (1..n), NEW k \in 1..Cardinality(T)
  PROVE  Place(T, k) \in T /\ Rank(T, Place(T, k)) = k
<1> DEFINE f == [p \in T |-> Rank(T, p)]
<1>1. IsFiniteSet(1..Cardinality(T)) /\ Cardinality(1..Cardinality(T)) = Cardinality(T)
  <2>1. Cardinality(T) \in Nat BY PositionsFinite
  <2>2. /\ IsFiniteSet(1..Cardinality(T))
        /\ Cardinality(1..Cardinality(T)) =
              IF 1 > Cardinality(T) THEN 0 ELSE Cardinality(T) - 1 + 1 BY <2>1, FS_Interval
  <2> QED BY <2>1, <2>2
<1>2. f \in Surjection(T, 1..Cardinality(T)) BY <1>1, RankInjective, FS_Injection
<1>3. \E p \in T : f[p] = k BY <1>2 DEF Surjection
<1> QED BY <1>3 DEF Place

\* Pick(s, T) is a sequence of elements of s, taken at positions of T.
LEMMA PickIsSeq ==
  ASSUME NEW S, NEW s \in Seq(S), NEW T \in SUBSET (1..Len(s))
  PROVE  /\ Pick(s, T) \in Seq(S)
         /\ Len(Pick(s, T)) = Cardinality(T)
         /\ \A k \in 1..Len(Pick(s, T)) :
               Place(T, k) \in T /\ Pick(s, T)[k] = s[Place(T, k)]
<1> DEFINE n == Len(s)
<1>0. n \in Nat /\ T \in SUBSET (1..n) OBVIOUS
<1> HIDE DEF n
<1>1. Cardinality(T) \in Nat BY <1>0, PositionsFinite
<1>2. ASSUME NEW k \in 1..Cardinality(T) PROVE Place(T, k) \in T BY <1>0, PlaceExists
<1>3. \A p \in T : s[p] \in S OBVIOUS
<1>4. Pick(s, T) \in Seq(S)
  <2>1. [k \in 1..Cardinality(T) |-> s[Place(T, k)]] \in [1..Cardinality(T) -> S] BY <1>2, <1>3
  <2> QED BY <1>1, <2>1 DEF Pick
<1>5. Len(Pick(s, T)) = Cardinality(T) BY <1>1 DEF Pick
<1> QED BY <1>2, <1>4, <1>5 DEF Pick

\* No position is taken twice.
LEMMA PlaceInjective ==
  ASSUME NEW n \in Nat, NEW T \in SUBSET (1..n),
         NEW j \in 1..Cardinality(T), NEW k \in 1..Cardinality(T),
         Place(T, j) = Place(T, k)
  PROVE  j = k
  BY PlaceExists

\* Every position of T is taken.
LEMMA PlaceCovers ==
  ASSUME NEW n \in Nat, NEW T \in SUBSET (1..n), NEW p \in T
  PROVE  Rank(T, p) \in 1..Cardinality(T) /\ Place(T, Rank(T, p)) = p
<1> DEFINE f == [q \in T |-> Rank(T, q)]
<1>1. f \in Injection(T, 1..Cardinality(T)) BY RankInjective
<1>2. Rank(T, p) \in 1..Cardinality(T) BY <1>1 DEF Injection
<1>3. Place(T, Rank(T, p)) \in T /\ Rank(T, Place(T, Rank(T, p))) = Rank(T, p) BY <1>2, PlaceExists
<1> QED BY <1>1, <1>2, <1>3 DEF Injection, IsInjective

-----------------------------------------------------------------------------

LEMMA ContinueType ==
  ASSUME NEW r \in Requests, NEW e \in BOOLEAN
  PROVE  Continue(r, e) \in Continuation
  BY DEF Continue, Continuation

\* What a call of switchNetworkIfNecessary leaves behind is well typed.
LEMMA SwitchType ==
  ASSUME TypeOK, NEW r \in Requests, NEW o \in Origins,
         NEW tasks \in Seq(Continuation),
         switchNetworkIfNecessary(r, o, tasks)
  PROVE  /\ microtasks' \in Seq(Continuation)
         /\ switching' \in [Requests -> {"none", "ok", "error"}]
         /\ selectedNetworkClientId' \in Networks
<1>1. getNetworkClientIdForDomain(o) \in Networks BY DEF TypeOK, getNetworkClientIdForDomain
<1>2. Append(tasks, Continue(r, FALSE)) \in Seq(Continuation) BY ContinueType, AppendProperties
<1> QED BY <1>1, <1>2 DEF TypeOK, switchNetworkIfNecessary

\* The same for processNextBatch.
LEMMA NextBatchType ==
  ASSUME ConstantsAssumption, TypeOK, NEW position \in [Requests -> Positions],
         NEW tasks \in Seq(Continuation), processNextBatch(position, tasks)
  PROVE  /\ originOfCurrentBatch' \in Origins
         /\ requestQueue' \in Seq(Requests)
         /\ batch' \in [Requests -> Seq(Requests)]
         /\ pc' \in [Requests -> Positions]
         /\ microtasks' \in Seq(Continuation)
         /\ switching' \in [Requests -> {"none", "ok", "error"}]
         /\ selectedNetworkClientId' \in Networks
<1>1. PICK n \in 1..Len(requestQueue) :
        /\ originOfCurrentBatch' = OriginOf[requestQueue[1]]
        /\ requestQueue' = SubSeq(requestQueue, n + 1, Len(requestQueue))
        /\ batch' = [batch EXCEPT ![requestQueue[1]] = SubSeq(requestQueue, 1, n)]
        /\ pc' = [r \in Requests |->
                    IF \E i \in 1..n : requestQueue[i] = r
                    THEN "inBatch" ELSE position[r]]
        /\ switchNetworkIfNecessary(requestQueue[1], OriginOf[requestQueue[1]], tasks)
  BY DEF processNextBatch
<1>2. requestQueue \in Seq(Requests) /\ requestQueue[1] \in Requests
  BY DEF TypeOK
<1>3. OriginOf[requestQueue[1]] \in Origins
  BY <1>2 DEF ConstantsAssumption
<1>4. /\ SubSeq(requestQueue, n + 1, Len(requestQueue)) \in Seq(Requests)
      /\ SubSeq(requestQueue, 1, n) \in Seq(Requests)
  BY <1>2
<1>5. batch' \in [Requests -> Seq(Requests)]
  BY <1>1, <1>2, <1>4 DEF TypeOK
<1>6. pc' \in [Requests -> Positions]
  BY <1>1 DEF Positions
<1> QED BY <1>1, <1>2, <1>3, <1>4, <1>5, <1>6, SwitchType

\* The same for the outer finally block of enqueueRequest.
LEMMA LeaveType ==
  ASSUME ConstantsAssumption, TypeOK, NEW count \in Int,
         NEW position \in [Requests -> Positions],
         NEW tasks \in Seq(Continuation), leave(count, position, tasks)
  PROVE  TypeOK'
BY NextBatchType DEF leave, endBatch, TypeOK

LEMMA HeadType ==
  ASSUME TypeOK, microtasks # <<>>
  PROVE  /\ Head(microtasks).req \in Requests
         /\ Head(microtasks).error \in BOOLEAN
         /\ Tail(microtasks) \in Seq(Continuation)
<1>1. Head(microtasks) \in Continuation /\ Tail(microtasks) \in Seq(Continuation) BY DEF TypeOK
<1> QED BY <1>1 DEF Continuation

LEMMA InitType == ConstantsAssumption /\ Init => TypeOK
  BY DEF ConstantsAssumption, Init, TypeOK, Positions

LEMMA StepType == ConstantsAssumption /\ TypeOK /\ [Next]_vars => TypeOK'
<1> SUFFICES ASSUME ConstantsAssumption, TypeOK, [Next]_vars PROVE TypeOK' OBVIOUS
<1>1. ASSUME NEW r \in Requests, enqueueRequest(r) PROVE TypeOK'
  <2>1. OriginOf[r] \in Origins BY DEF ConstantsAssumption
  <2>2. /\ originOfCurrentBatch' \in Origins \cup {NoOrigin}
        /\ arrivals' \in Seq(Requests)
    BY AppendProperties, <1>1, <2>1 DEF TypeOK, enqueueRequest, currentOrigin
  <2>3. /\ requestQueue' \in Seq(Requests)
        /\ queuedRequestCount' \in Nat
        /\ processingRequestCount' \in Int
    <3>1. Append(requestQueue, r) \in Seq(Requests) BY AppendProperties DEF TypeOK
    <3>2. requestQueue' \in Seq(Requests) BY <1>1, <3>1 DEF enqueueRequest, TypeOK
    <3>3. queuedRequestCount' \in Nat BY <1>1, <3>2 DEF enqueueRequest, TypeOK
    <3>4. processingRequestCount' \in Int BY <1>1 DEF enqueueRequest, TypeOK
    <3> QED BY <3>2, <3>3, <3>4
  <2>4. pc' \in [Requests -> Positions] BY <1>1 DEF enqueueRequest, TypeOK, Positions
  <2>5. /\ microtasks' \in Seq(Continuation)
        /\ switching' \in [Requests -> {"none", "ok", "error"}]
        /\ selectedNetworkClientId' \in Networks
    BY <2>1, SwitchType, <1>1 DEF TypeOK, enqueueRequest
  <2>6. UNCHANGED <<batch, domains>> BY <1>1 DEF enqueueRequest
  <2> QED BY <2>2, <2>3, <2>4, <2>5, <2>6 DEF TypeOK
<1>2. ASSUME NEW r \in Requests, switchSettles(r) PROVE TypeOK'
  BY ContinueType, AppendProperties, <1>2 DEF TypeOK, switchSettles, queueVars, networkVars
<1>3. ASSUME NEW r \in Requests, requestNextSettles(r) PROVE TypeOK'
  BY ContinueType, AppendProperties, <1>3 DEF TypeOK, requestNextSettles, queueVars, networkVars, Positions
<1>4. ASSUME NEW p \in Positions, resumeCall(p) PROVE TypeOK'
  <2> DEFINE r == Head(microtasks).req
             tasks == Tail(microtasks)
  <2>1. r \in Requests /\ tasks \in Seq(Continuation) BY <1>4, HeadType DEF resumeCall, AtHead
  <2>2. CASE enter(r, tasks) BY <2>1, <2>2 DEF enter, TypeOK, networkVars, Positions
  <2>3. CASE leave(processingRequestCount, [pc EXCEPT ![r] = "failed"], tasks)
    BY <2>1, <2>3, LeaveType DEF TypeOK, Positions
  <2> QED BY <1>4, <2>2, <2>3 DEF resumeCall
<1>5. CASE resumeSettled
  <2> DEFINE r == Head(microtasks).req
             tasks == Tail(microtasks)
  <2>1. r \in Requests /\ tasks \in Seq(Continuation) BY <1>5, HeadType DEF resumeSettled, AtHead
  <2>2. [pc EXCEPT ![r] = "done"] \in [Requests -> Positions] BY DEF TypeOK, Positions
  <2>3. processingRequestCount - 1 \in Int BY DEF TypeOK
  <2> QED BY <1>5, <2>1, <2>2, <2>3, LeaveType DEF resumeSettled
<1>6. CASE resumeBatch
  <2> DEFINE first == Head(microtasks).req
             error == Head(microtasks).error
             members == batch[first]
             resumed == resumptions(members, error)
  <2>1. first \in Requests /\ error \in BOOLEAN /\ Tail(microtasks) \in Seq(Continuation)
    BY <1>6, HeadType DEF resumeBatch, AtHead
  <2>2. members \in Seq(Requests) BY <2>1 DEF TypeOK
  <2>3. resumed \in Seq(Continuation) BY <2>1, <2>2, ContinueType DEF resumptions
  <2>4. microtasks' \in Seq(Continuation) BY <1>6, <2>1, <2>3 DEF resumeBatch
  <2>5. /\ pc' \in [Requests -> Positions]
        /\ batch' \in [Requests -> Seq(Requests)]
        /\ queuedRequestCount' \in Nat
    BY <1>6, <2>1 DEF resumeBatch, countAfterBatch, TypeOK, Positions
  <2> QED BY <1>6, <2>4, <2>5 DEF resumeBatch, TypeOK, networkVars
<1>7. ASSUME NEW o \in Origins, NEW network \in Networks \cup {NoNetwork},
             domainChanges(o, network)
      PROVE  TypeOK'
  <2> DEFINE rejected == Pick(requestQueue, flushedPositions(o))
             rejections == [i \in DOMAIN rejected |-> Continue(rejected[i], TRUE)]
  <2>1. /\ requestQueue \in Seq(Requests)
        /\ flushedPositions(o) \in SUBSET (1..Len(requestQueue))
        /\ kept(o) \in SUBSET (1..Len(requestQueue)) BY DEF TypeOK, flushedPositions, kept
  <2>2. rejected \in Seq(Requests) /\ Pick(requestQueue, kept(o)) \in Seq(Requests)
    BY <2>1, PickIsSeq
  <2>3. rejections \in Seq(Continuation)
    <3> HIDE DEF rejected
    <3>1. DOMAIN rejected = 1..Len(rejected) /\ Len(rejected) \in Nat BY <2>2
    <3>2. ASSUME NEW i \in DOMAIN rejected
          PROVE  Continue(rejected[i], TRUE) \in Continuation
      <4>1. rejected[i] \in Requests BY <2>2
      <4> QED BY <4>1, ContinueType
    <3>3. rejections \in [1..Len(rejected) -> Continuation] BY <3>1, <3>2
    <3> HIDE DEF rejections
    <3> QED BY <3>1, <3>3
  <2>4. microtasks' \in Seq(Continuation) /\ requestQueue' \in Seq(Requests)
    <3>1. microtasks' = microtasks \o rejections BY <1>7 DEF domainChanges, flushQueueForOrigin
    <3>2. requestQueue' = Pick(requestQueue, kept(o)) BY <1>7 DEF domainChanges, flushQueueForOrigin
    <3> HIDE DEF rejections
    <3> QED BY <2>2, <2>3, <3>1, <3>2 DEF TypeOK
  <2>5. pc' \in [Requests -> Positions]
    BY <1>7 DEF domainChanges, flushQueueForOrigin, TypeOK, Positions
  <2> QED BY <1>7, <2>4, <2>5 DEF domainChanges, TypeOK
<1>8. ASSUME NEW network \in Networks, userSwitchesNetwork(network) PROVE TypeOK'
  BY <1>8 DEF userSwitchesNetwork, TypeOK, queueVars
<1>9. CASE UNCHANGED vars BY <1>9 DEF vars, queueVars, networkVars, TypeOK
<1>10. "switching" \in Positions /\ "resumed" \in Positions BY DEF Positions
<1> QED
  BY <1>1, <1>2, <1>3, <1>4, <1>5, <1>6, <1>7, <1>8, <1>9, <1>10 DEF Next, runMicrotask, resumeSwitched,
     resumeDequeued

(***************************************************************************)
(* The variables keep their types for every choice of requests, origins    *)
(* and networks, and whatever the environment does.                        *)
(***************************************************************************)
THEOREM TypeCorrect == Spec => []TypeOK
  BY ConstantsAssumption, InitType, StepType, PTL DEF Spec

-----------------------------------------------------------------------------

\* A request that waits is in one place, and its position says in which.
WaitersApart ==
  /\ \A i \in DOMAIN requestQueue : pc[requestQueue[i]] = "queued"
  /\ \A i, j \in DOMAIN requestQueue : requestQueue[i] = requestQueue[j] => i = j
  /\ \A first \in Requests : \A i \in DOMAIN batch[first] : pc[batch[first][i]] = "inBatch"
  /\ \A k, l \in Requests : \A i \in DOMAIN batch[k], j \in DOMAIN batch[l] :
        batch[k][i] = batch[l][j] => k = l /\ i = j

CountInv == TypeOK /\ WaitersApart /\ IsFiniteSet(Active) /\ CountIsExact

\* The requests in progress when every request is where `position' says.
ActiveAt(position) == {r \in Requests : position[r] \in {"processing", "settled"}}

\* `position' is what pc becomes, and moves no request that waits.
KeepsWaiters(position) ==
  /\ position \in [Requests -> Positions]
  /\ \A r \in Requests :
       pc[r] \in {"queued", "inBatch"} \/ position[r] \in {"queued", "inBatch"} =>
          position[r] = pc[r]

-----------------------------------------------------------------------------

LEMMA NextBatchWaiters ==
  ASSUME TypeOK, WaitersApart, NEW position, KeepsWaiters(position),
         NEW tasks, processNextBatch(position, tasks)
  PROVE  WaitersApart' /\ Active' = ActiveAt(position)
<1>1. PICK n \in 1..Len(requestQueue) :
        /\ requestQueue' = SubSeq(requestQueue, n + 1, Len(requestQueue))
        /\ batch' = [batch EXCEPT ![requestQueue[1]] = SubSeq(requestQueue, 1, n)]
        /\ pc' = [r \in Requests |->
                    IF \E i \in 1..n : requestQueue[i] = r
                    THEN "inBatch" ELSE position[r]] BY DEF processNextBatch
<1> DEFINE first == requestQueue[1]
           taken == SubSeq(requestQueue, 1, n)
           left == SubSeq(requestQueue, n + 1, Len(requestQueue))
<1>2. /\ Len(requestQueue) \in Nat /\ n \in Nat /\ 1 <= n /\ n <= Len(requestQueue)
      /\ \A i \in 1..Len(requestQueue) : requestQueue[i] \in Requests
      /\ DOMAIN requestQueue = 1..Len(requestQueue)
      /\ first \in Requests BY DEF TypeOK
<1>3. /\ DOMAIN taken = 1..n
      /\ \A i \in 1..n : taken[i] = requestQueue[i] BY <1>2 DEF TypeOK
<1>4. /\ DOMAIN left = 1..(Len(requestQueue) - n)
      /\ \A i \in DOMAIN left : left[i] = requestQueue[n + i] /\ n + i \in (n+1)..Len(requestQueue)
  <2>1. /\ requestQueue \in Seq(Requests)
        /\ n + 1 \in 1..(Len(requestQueue) + 1)
        /\ Len(requestQueue) \in n..Len(requestQueue) BY <1>2 DEF TypeOK
  <2>2. /\ left \in Seq(Requests)
        /\ Len(left) = Len(requestQueue) - n
        /\ \A i \in 1..Len(left) : left[i] = requestQueue[n + i]
    <3>1. /\ left \in Seq(Requests)
          /\ Len(left) = IF n + 1 <= Len(requestQueue) THEN Len(requestQueue) - (n + 1) + 1 ELSE 0
          /\ \A i \in 1..(Len(requestQueue) - (n + 1) + 1) :
                left[i] = requestQueue[(n + 1) + i - 1] BY <1>2, <2>1, SubSeqProperties
    <3> HIDE DEF left
    <3>2. Len(left) = Len(requestQueue) - n
      <4>1. Len(requestQueue) \in Nat /\ n \in Nat /\ n <= Len(requestQueue) BY <1>2
      <4>2. Len(left) = IF n + 1 <= Len(requestQueue) THEN Len(requestQueue) - (n + 1) + 1 ELSE 0
        BY <3>1
      <4> QED BY <4>1, <4>2
    <3>3. ASSUME NEW i \in 1..Len(left) PROVE left[i] = requestQueue[n + i]
      <4>1. i \in Nat /\ i \in 1..(Len(requestQueue) - (n + 1) + 1) /\ (n + 1) + i - 1 = n + i
        BY <1>2, <3>2
      <4> QED BY <3>1, <4>1
    <3> QED BY <3>1, <3>2, <3>3
  <2> HIDE DEF left
  <2>3. DOMAIN left = 1..(Len(requestQueue) - n) BY <2>2
  <2> QED BY <1>2, <2>2, <2>3
<1>5. /\ batch'[first] = taken
      /\ \A r \in Requests : r # first => batch'[r] = batch[r] BY <1>1, <1>2 DEF TypeOK
<1>6. \A i \in 1..Len(requestQueue) : pc[requestQueue[i]] = "queued" BY <1>2 DEF WaitersApart
<1>7. \A i, j \in 1..Len(requestQueue) : requestQueue[i] = requestQueue[j] => i = j
  BY <1>2 DEF WaitersApart
<1>8. \A r \in Requests : \A i \in DOMAIN batch[r] :
        pc[batch[r][i]] = "inBatch" /\ batch[r][i] \in Requests BY DEF WaitersApart, TypeOK
<1> HIDE DEF taken, left, first
<1>9. \A i \in DOMAIN requestQueue' : pc'[requestQueue'[i]] = "queued"
  <2> SUFFICES ASSUME NEW i \in DOMAIN left PROVE pc'[left[i]] = "queued" BY <1>1 DEF left
  <2>1. left[i] = requestQueue[n + i] /\ n + i \in (n+1)..Len(requestQueue) BY <1>4
  <2>2. n + i \in 1..Len(requestQueue) /\ n + i \notin 1..n BY <2>1, <1>2
  <2>3. ~ \E k \in 1..n : requestQueue[k] = left[i] BY <1>2, <1>7, <2>1, <2>2
  <2>4. left[i] \in Requests /\ pc[left[i]] = "queued" BY <2>1, <2>2, <1>2, <1>6
  <2>5. position[left[i]] = "queued" BY <2>4 DEF KeepsWaiters
  <2> QED BY <1>1, <2>3, <2>4, <2>5
<1>10. \A i, j \in DOMAIN requestQueue' : requestQueue'[i] = requestQueue'[j] => i = j
  <2> SUFFICES ASSUME NEW i \in DOMAIN left, NEW j \in DOMAIN left, left[i] = left[j]
               PROVE  i = j BY <1>1 DEF left
  <2>1. n + i = n + j BY <1>2, <1>4, <1>7
  <2> QED BY <1>2, <1>4, <2>1
<1>11. \A r \in Requests : \A i \in DOMAIN batch'[r] : pc'[batch'[r][i]] = "inBatch"
  <2> SUFFICES ASSUME NEW r \in Requests, NEW i \in DOMAIN batch'[r]
               PROVE  pc'[batch'[r][i]] = "inBatch" OBVIOUS
  <2>1. CASE r = first BY <2>1, <1>1, <1>2, <1>3, <1>5
  <2>2. CASE r # first
    <3>1. batch'[r][i] = batch[r][i] /\ pc[batch[r][i]] = "inBatch" /\ batch[r][i] \in Requests
      BY <2>2, <1>5, <1>8
    <3>2. position[batch[r][i]] = "inBatch" BY <3>1 DEF KeepsWaiters
    <3> QED BY <1>1, <3>1, <3>2
  <2> QED BY <2>1, <2>2
<1>12. \A k, l \in Requests : \A i \in DOMAIN batch'[k], j \in DOMAIN batch'[l] :
         batch'[k][i] = batch'[l][j] => k = l /\ i = j
  <2> SUFFICES ASSUME NEW k \in Requests, NEW l \in Requests,
                      NEW i \in DOMAIN batch'[k], NEW j \in DOMAIN batch'[l],
                      batch'[k][i] = batch'[l][j]
               PROVE  k = l /\ i = j OBVIOUS
  <2>1. CASE k = first /\ l = first BY <2>1, <1>2, <1>3, <1>5, <1>7
  <2>2. CASE k # first /\ l # first BY <2>2, <1>5 DEF WaitersApart
  <2>3. CASE k = first /\ l # first BY <2>3, <1>2, <1>3, <1>5, <1>6, <1>8
  <2>4. CASE k # first /\ l = first BY <2>4, <1>2, <1>3, <1>5, <1>6, <1>8
  <2> QED BY <2>1, <2>2, <2>3, <2>4
<1>13. Active' = ActiveAt(position)
  <2>1. \A r \in Requests : pc'[r] \in {"processing", "settled"}
                              <=> position[r] \in {"processing", "settled"}
    <3> SUFFICES ASSUME NEW r \in Requests
                 PROVE  pc'[r] \in {"processing", "settled"}
                          <=> position[r] \in {"processing", "settled"} OBVIOUS
    <3>1. CASE \E i \in 1..n : requestQueue[i] = r BY <3>1, <1>2, <1>6, <1>1 DEF KeepsWaiters
    <3>2. CASE ~ \E i \in 1..n : requestQueue[i] = r BY <3>2, <1>1
    <3> QED BY <3>1, <3>2
  <2> QED BY <2>1 DEF Active, ActiveAt
<1> QED BY <1>9, <1>10, <1>11, <1>12, <1>13 DEF WaitersApart

\* Requests that do not wait may move without a change of queue or batches.
LEMMA OthersMove ==
  ASSUME TypeOK, WaitersApart, NEW position, KeepsWaiters(position),
         pc' = position, UNCHANGED <<requestQueue, batch>>
  PROVE  WaitersApart' /\ Active' = ActiveAt(position)
BY DEF KeepsWaiters, TypeOK, WaitersApart, Active, ActiveAt

LEMMA LeaveWaiters ==
  ASSUME TypeOK, WaitersApart, NEW count, NEW position, KeepsWaiters(position),
         NEW tasks, leave(count, position, tasks)
  PROVE  WaitersApart' /\ Active' = ActiveAt(position) /\ processingRequestCount' = count
BY NextBatchWaiters, OthersMove DEF leave, endBatch

-----------------------------------------------------------------------------
\* The count follows when a request starts, ends, or does neither.

LEMMA OneStarts ==
  ASSUME TypeOK, IsFiniteSet(Active), CountIsExact, NEW r \in Requests, r \notin Active,
         Active' = Active \cup {r}, processingRequestCount' = processingRequestCount + 1
  PROVE  IsFiniteSet(Active') /\ CountIsExact'
BY FS_AddElement DEF CountIsExact

LEMMA OneEnds ==
  ASSUME TypeOK, IsFiniteSet(Active), CountIsExact, NEW r \in Active,
         Active' = Active \ {r}, processingRequestCount' = processingRequestCount - 1
  PROVE  IsFiniteSet(Active') /\ CountIsExact'
BY FS_RemoveElement DEF CountIsExact

LEMMA NoneStartsOrEnds ==
  ASSUME IsFiniteSet(Active), CountIsExact,
         Active' = Active, processingRequestCount' = processingRequestCount
  PROVE  IsFiniteSet(Active') /\ CountIsExact'
  BY DEF CountIsExact

\* A request that does not wait moves to a position where it does not either.
LEMMA OneMoves ==
  ASSUME TypeOK, NEW r \in Requests, pc[r] \notin {"queued", "inBatch"},
         NEW p \in Positions \ {"queued", "inBatch"}
  PROVE  /\ KeepsWaiters([pc EXCEPT ![r] = p])
         /\ p \in {"processing", "settled"} =>
               ActiveAt([pc EXCEPT ![r] = p]) = Active \cup {r}
         /\ p \notin {"processing", "settled"} =>
               ActiveAt([pc EXCEPT ![r] = p]) = Active \ {r}
  BY DEF TypeOK, KeepsWaiters, ActiveAt, Active

LEMMA InitCount == ConstantsAssumption /\ Init => CountInv
<1> SUFFICES ASSUME ConstantsAssumption, Init PROVE CountInv OBVIOUS
<1>1. Active = {} BY DEF Init, Active
<1>2. IsFiniteSet(Active) /\ Cardinality(Active) = 0 BY <1>1, FS_EmptySet
<1>3. WaitersApart BY DEF Init, WaitersApart
<1> QED BY <1>2, <1>3, InitType DEF Init, CountInv, CountIsExact

LEMMA CountEnqueue ==
  ASSUME ConstantsAssumption, CountInv, NEW r \in Requests, enqueueRequest(r)
  PROVE  WaitersApart' /\ IsFiniteSet(Active') /\ CountIsExact'
<1>1. TypeOK /\ WaitersApart /\ pc[r] = "idle" /\ batch' = batch BY DEF CountInv, enqueueRequest
<1>2. CASE /\ requestQueue' = Append(requestQueue, r)
           /\ pc' = [pc EXCEPT ![r] = "queued"]
           /\ processingRequestCount' = processingRequestCount
  <2>1. /\ Len(requestQueue') = Len(requestQueue) + 1
        /\ DOMAIN requestQueue' = 1..(Len(requestQueue) + 1)
        /\ requestQueue'[Len(requestQueue) + 1] = r
        /\ \A i \in 1..Len(requestQueue) : requestQueue'[i] = requestQueue[i]
    BY <1>1, <1>2 DEF TypeOK
  <2>2. /\ DOMAIN requestQueue = 1..Len(requestQueue)
        /\ Len(requestQueue) \in Nat
        /\ \A i \in 1..Len(requestQueue) : requestQueue[i] \in Requests
        /\ \A first \in Requests : \A i \in DOMAIN batch[first] : batch[first][i] \in Requests
    BY <1>1 DEF TypeOK
  <2>3. /\ \A i \in 1..Len(requestQueue) : pc[requestQueue[i]] = "queued"
        /\ \A i, j \in 1..Len(requestQueue) : requestQueue[i] = requestQueue[j] => i = j
    BY <1>1, <2>2 DEF WaitersApart
  <2>4. \A s \in Requests : pc'[s] = IF s = r THEN "queued" ELSE pc[s] BY <1>1, <1>2 DEF TypeOK
  <2>5. \A i \in DOMAIN requestQueue' : pc'[requestQueue'[i]] = "queued" BY <2>1, <2>2, <2>3, <2>4
  <2>6. \A i, j \in DOMAIN requestQueue' : requestQueue'[i] = requestQueue'[j] => i = j
    BY <1>1, <2>3, <2>1, <2>2
  <2>7. \A first \in Requests : \A i \in DOMAIN batch'[first] : pc'[batch'[first][i]] = "inBatch"
    BY <1>1, <2>2, <2>4 DEF WaitersApart
  <2>8. WaitersApart' BY <1>1, <2>5, <2>6, <2>7 DEF WaitersApart
  <2>9. Active' = Active BY <1>1, <2>4 DEF Active
  <2> QED BY <1>2, <2>8, <2>9, NoneStartsOrEnds DEF CountInv
<1>3. CASE /\ pc' = [pc EXCEPT ![r] = "switching"]
           /\ UNCHANGED <<requestQueue, processingRequestCount>>
  BY <1>1, OneMoves, <1>3, OthersMove, NoneStartsOrEnds DEF Positions, Active, CountInv
<1>4. CASE /\ pc' = [pc EXCEPT ![r] = "processing"]
           /\ processingRequestCount' = processingRequestCount + 1
           /\ UNCHANGED requestQueue
  BY <1>1, OneMoves, <1>4, OthersMove, OneStarts DEF Positions, Active, CountInv
<1> QED BY <1>2, <1>3, <1>4 DEF enqueueRequest

LEMMA CountResumeCall ==
  ASSUME ConstantsAssumption, CountInv, NEW p \in {"switching", "resumed"}, resumeCall(p)
  PROVE  WaitersApart' /\ IsFiniteSet(Active') /\ CountIsExact'
<1> DEFINE r == Head(microtasks).req
           tasks == Tail(microtasks)
<1>1. TypeOK /\ WaitersApart /\ r \in Requests /\ pc[r] = p
  BY HeadType DEF CountInv, resumeCall, AtHead
<1>2. r \notin Active BY <1>1 DEF Active
<1>3. CASE enter(r, tasks)
  BY <1>1, OneMoves, <1>3, OthersMove, <1>2, OneStarts DEF Positions, enter, CountInv
<1>4. CASE leave(processingRequestCount, [pc EXCEPT ![r] = "failed"], tasks)
  <2>1. /\ KeepsWaiters([pc EXCEPT ![r] = "failed"])
        /\ ActiveAt([pc EXCEPT ![r] = "failed"]) = Active \ {r} BY <1>1, OneMoves DEF Positions
  <2>2. /\ WaitersApart' /\ Active' = Active \ {r}
        /\ processingRequestCount' = processingRequestCount BY <1>1, <1>4, <2>1, LeaveWaiters
  <2>3. Active' = Active BY <1>2, <2>2
  <2> QED BY <2>2, <2>3, NoneStartsOrEnds DEF CountInv
<1> QED BY <1>3, <1>4 DEF resumeCall

LEMMA CountResumeSettled ==
  ASSUME ConstantsAssumption, CountInv, resumeSettled
  PROVE  WaitersApart' /\ IsFiniteSet(Active') /\ CountIsExact'
<1> DEFINE r == Head(microtasks).req
<1>1. TypeOK /\ WaitersApart /\ r \in Requests /\ pc[r] = "settled"
  BY HeadType DEF CountInv, resumeSettled, AtHead
<1>2. /\ KeepsWaiters([pc EXCEPT ![r] = "done"])
      /\ ActiveAt([pc EXCEPT ![r] = "done"]) = Active \ {r} BY <1>1, OneMoves DEF Positions
<1>3. leave(processingRequestCount - 1, [pc EXCEPT ![r] = "done"], Tail(microtasks))
  BY DEF resumeSettled
<1>4. /\ WaitersApart' /\ Active' = Active \ {r}
      /\ processingRequestCount' = processingRequestCount - 1 BY <1>1, <1>2, <1>3, LeaveWaiters
<1>5. r \in Active BY <1>1 DEF Active
<1> QED BY <1>1, <1>4, <1>5, OneEnds DEF CountInv

LEMMA CountResumeBatch ==
  ASSUME ConstantsAssumption, CountInv, resumeBatch
  PROVE  WaitersApart' /\ IsFiniteSet(Active') /\ CountIsExact'
<1> DEFINE first == Head(microtasks).req
           members == batch[first]
<1>1. TypeOK /\ WaitersApart /\ first \in Requests BY HeadType DEF CountInv, resumeBatch, AtHead
<1>2. /\ pc' = [r \in Requests |->
                  IF \E i \in DOMAIN members : members[i] = r THEN "resumed" ELSE pc[r]]
      /\ batch' = [batch EXCEPT ![first] = <<>>]
      /\ UNCHANGED <<requestQueue, processingRequestCount>> BY DEF resumeBatch
<1>3. /\ \A i \in DOMAIN requestQueue : requestQueue[i] \in Requests
      /\ \A k \in Requests : \A i \in DOMAIN batch[k] : batch[k][i] \in Requests
      /\ \A k \in Requests : batch'[k] = IF k = first THEN <<>> ELSE batch[k]
  BY <1>1, <1>2 DEF TypeOK
<1>4. /\ \A i \in DOMAIN requestQueue : pc[requestQueue[i]] = "queued"
      /\ \A k \in Requests : \A i \in DOMAIN batch[k] : pc[batch[k][i]] = "inBatch"
  BY <1>1 DEF WaitersApart
<1>5. \A i \in DOMAIN requestQueue' : pc'[requestQueue'[i]] = "queued"
  <2> SUFFICES ASSUME NEW i \in DOMAIN requestQueue PROVE pc'[requestQueue[i]] = "queued" BY <1>2
  <2>1. ~ \E k \in DOMAIN members : members[k] = requestQueue[i] BY <1>1, <1>4
  <2>2. requestQueue[i] \in Requests /\ pc[requestQueue[i]] = "queued" BY <1>3, <1>4
  <2> QED BY <1>2, <2>1, <2>2
<1>6. \A k \in Requests : \A i \in DOMAIN batch'[k] : pc'[batch'[k][i]] = "inBatch"
  <2> SUFFICES ASSUME NEW k \in Requests, NEW i \in DOMAIN batch'[k]
               PROVE  pc'[batch'[k][i]] = "inBatch" OBVIOUS
  <2>1. k # first /\ batch'[k] = batch[k] BY <1>3
  <2>2. ~ \E j \in DOMAIN members : members[j] = batch[k][i] BY <1>1, <2>1 DEF WaitersApart
  <2>3. i \in DOMAIN batch[k] /\ batch'[k][i] = batch[k][i] BY <2>1
  <2>4. batch[k][i] \in Requests /\ pc[batch[k][i]] = "inBatch" BY <1>3, <1>4, <2>3
  <2>5. pc'[batch[k][i]] = pc[batch[k][i]] BY <1>2, <2>2, <2>4
  <2> QED BY <2>3, <2>4, <2>5
<1>7. \A k, l \in Requests : \A i \in DOMAIN batch'[k], j \in DOMAIN batch'[l] :
        batch'[k][i] = batch'[l][j] => k = l /\ i = j BY <1>1, <1>3 DEF WaitersApart
<1>8. WaitersApart'
  <2>1. \A i, j \in DOMAIN requestQueue' : requestQueue'[i] = requestQueue'[j] => i = j
    BY <1>1, <1>2 DEF WaitersApart
  <2> QED BY <1>5, <1>6, <1>7, <2>1 DEF WaitersApart
<1>9. \A r \in Requests : pc'[r] \in {"processing", "settled"}
                             <=> pc[r] \in {"processing", "settled"} BY <1>1, <1>2, <1>4
<1>10. Active' = Active BY <1>9 DEF Active
<1> QED BY <1>2, <1>8, <1>10, NoneStartsOrEnds DEF CountInv

LEMMA CountDomainChanges ==
  ASSUME ConstantsAssumption, CountInv, NEW o \in Origins,
         NEW network \in Networks \cup {NoNetwork}, domainChanges(o, network)
  PROVE  WaitersApart' /\ IsFiniteSet(Active') /\ CountIsExact'
<1> DEFINE n == Len(requestQueue)
           q == Pick(requestQueue, kept(o))
<1>1. TypeOK /\ WaitersApart /\ requestQueue \in Seq(Requests) /\ n \in Nat BY DEF CountInv, TypeOK
<1>2. /\ requestQueue' = q
      /\ pc' = [r \in Requests |->
                  IF \E i \in flushedPositions(o) : requestQueue[i] = r
                  THEN "resumed" ELSE pc[r]]
      /\ UNCHANGED <<batch, processingRequestCount>> BY DEF domainChanges, flushQueueForOrigin
<1>3. /\ kept(o) \in SUBSET (1..n)
      /\ \A i \in flushedPositions(o), j \in kept(o) : i \in 1..n /\ i # j
  BY <1>1 DEF kept, flushedPositions
<1>4. /\ Len(q) = Cardinality(kept(o))
      /\ q \in Seq(Requests)
      /\ \A k \in 1..Len(q) : Place(kept(o), k) \in kept(o) /\ q[k] = requestQueue[Place(kept(o), k)]
  BY <1>1, <1>3, PickIsSeq
<1>5. /\ \A i \in 1..n : pc[requestQueue[i]] = "queued" /\ requestQueue[i] \in Requests
      /\ \A i, j \in 1..n : requestQueue[i] = requestQueue[j] => i = j
      /\ \A k \in Requests : \A i \in DOMAIN batch[k] :
            pc[batch[k][i]] = "inBatch" /\ batch[k][i] \in Requests BY <1>1 DEF WaitersApart, TypeOK
<1> HIDE DEF q
<1>6. DOMAIN q = 1..Len(q) BY <1>4
<1>7. ASSUME NEW k \in 1..Len(q) PROVE pc'[q[k]] = "queued" BY <1>4, <1>3, <1>5, <1>2
<1>8. ASSUME NEW j \in 1..Len(q), NEW k \in 1..Len(q), q[j] = q[k] PROVE j = k
  <2>1. Place(kept(o), j) = Place(kept(o), k) BY <1>3, <1>4, <1>5, <1>8
  <2> QED BY <1>1, <1>3, <1>4, <2>1, PlaceInjective
<1>9. ASSUME NEW k \in Requests, NEW i \in DOMAIN batch[k] PROVE pc'[batch[k][i]] = "inBatch"
  <2>1. pc[batch[k][i]] = "inBatch" /\ batch[k][i] \in Requests BY <1>5
  <2>2. \A j \in flushedPositions(o) : pc[requestQueue[j]] = "queued"
    BY <1>1, <1>5 DEF flushedPositions, TypeOK
  <2>3. ~ \E j \in flushedPositions(o) : requestQueue[j] = batch[k][i] BY <2>1, <2>2
  <2> QED BY <1>2, <2>1, <2>3
<1>10. WaitersApart' BY <1>1, <1>2, <1>6, <1>7, <1>8, <1>9 DEF WaitersApart
<1>11. \A r \in Requests : pc'[r] \in {"processing", "settled"}
                              <=> pc[r] \in {"processing", "settled"}
  <2>1. \A j \in flushedPositions(o) : pc[requestQueue[j]] = "queued"
    BY <1>1, <1>5 DEF flushedPositions, TypeOK
  <2> QED BY <1>2, <2>1
<1>12. Active' = Active BY <1>11 DEF Active
<1> QED BY <1>2, <1>10, <1>12, NoneStartsOrEnds DEF CountInv

LEMMA StepCount == ConstantsAssumption /\ CountInv /\ [Next]_vars => CountInv'
<1> SUFFICES ASSUME ConstantsAssumption, CountInv, [Next]_vars PROVE CountInv' OBVIOUS
<1>1. TypeOK' BY StepType DEF CountInv
<1>2. ASSUME NEW r \in Requests, requestNextSettles(r)
      PROVE  WaitersApart' /\ IsFiniteSet(Active') /\ CountIsExact'
  BY <1>2, OneMoves, OthersMove, NoneStartsOrEnds DEF requestNextSettles, queueVars, Positions, CountInv,
     Active
<1>3. ASSUME UNCHANGED <<requestQueue, batch, pc, processingRequestCount>>
      PROVE  WaitersApart' /\ IsFiniteSet(Active') /\ CountIsExact'
  BY <1>3, NoneStartsOrEnds DEF CountInv, WaitersApart, Active
<1>4. ASSUME NEW r \in Requests, switchSettles(r)
      PROVE  UNCHANGED <<requestQueue, batch, pc, processingRequestCount>>
  BY <1>4 DEF switchSettles, queueVars
<1>5. ASSUME NEW network \in Networks, userSwitchesNetwork(network)
      PROVE  UNCHANGED <<requestQueue, batch, pc, processingRequestCount>>
  BY <1>5 DEF userSwitchesNetwork, queueVars
<1>6. CASE UNCHANGED vars BY <1>3, <1>1, <1>6 DEF vars, queueVars, CountInv
<1>7. WaitersApart' /\ IsFiniteSet(Active') /\ CountIsExact'
  BY <1>2, <1>3, <1>4, <1>5, <1>6, CountEnqueue, CountResumeCall, CountResumeSettled, CountResumeBatch,
     CountDomainChanges DEF Next, runMicrotask, resumeSwitched, resumeDequeued, CountInv
<1> QED BY <1>1, <1>7 DEF CountInv

(***************************************************************************)
(* #processingRequestCount is the number of requests inside requestNext at *)
(* every moment, whatever fails, is flushed or switched meanwhile.         *)
(***************************************************************************)
THEOREM InProgressCounted == Spec => []CountIsExact
<1>1. CountInv => CountIsExact BY DEF CountInv
<1> QED BY ConstantsAssumption, InitCount, StepCount, <1>1, PTL DEF Spec

-----------------------------------------------------------------------------
(***************************************************************************)
(* Isolation.  Nothing disturbs the queue when no request switches the     *)
(* network for itself, no switch fails and no domain changes.  The user    *)
(* may still select other networks.                                        *)
(***************************************************************************)
Undisturbed == SwitchRequests = {} /\ SwitchMayFail = FALSE /\ DomainsMayChange = FALSE

NothingFails ==
  /\ \A r \in Requests : pc[r] \notin {"switching", "failed"}
  /\ \A r \in Requests : switching[r] # "error"

\* Requests that were dequeued run before those whose requestNext has settled.
MicrotasksInOrder ==
  /\ \A i \in DOMAIN microtasks :
        /\ microtasks[i].error = FALSE
        /\ pc[microtasks[i].req] \in {"inBatch", "resumed", "settled"}
  /\ \A i, j \in DOMAIN microtasks : microtasks[i].req = microtasks[j].req => i = j
  /\ \A i, j \in DOMAIN microtasks :
        i < j /\ pc[microtasks[j].req] = "resumed" => pc[microtasks[i].req] = "resumed"
  /\ \A r \in Requests :
        pc[r] = "resumed" => \E i \in DOMAIN microtasks : microtasks[i].req = r

\* Every request that was let in and has not left is of the current origin.
OneOrigin ==
  \A r \in Requests :
    pc[r] \in {"inBatch", "resumed", "processing", "settled"} =>
      OriginOf[r] = originOfCurrentBatch

\* A batch waits for its switch while nothing else is in progress.
BatchWaitsAlone ==
  /\ \A r \in Requests :
       pc[r] = "inBatch" => \E first \in Requests : \E i \in DOMAIN batch[first] : batch[first][i] = r
  /\ \A first \in Requests : switching[first] # "none" => batch[first] # <<>>
  /\ \A first \in Requests : batch[first] # <<>> =>
       /\ pc[first] = "inBatch"
       /\ queuedRequestCount > 0
       /\ \A r \in Requests : pc[r] \notin {"resumed", "processing", "settled"}
       /\ \A other \in Requests : batch[other] # <<>> => other = first
       /\ \/ switching[first] = "ok" /\ microtasks = <<>>
          \/ switching[first] = "none" /\ microtasks = <<Continue(first, FALSE)>>

QueueIsCounted == requestQueue # <<>> => queuedRequestCount > 0

IsolationInv ==
  /\ CountInv
  /\ NothingFails
  /\ MicrotasksInOrder
  /\ OneOrigin
  /\ BatchWaitsAlone
  /\ QueueIsCounted

\* The parts of IsolationInv that CountInv leaves.
Rest == NothingFails /\ MicrotasksInOrder /\ OneOrigin /\ BatchWaitsAlone /\ QueueIsCounted

LEMMA IsolationParts == IsolationInv <=> CountInv /\ Rest
  BY DEF IsolationInv, Rest

LEMMA IsolationSuffices == IsolationInv => BatchIsolation
  BY DEF IsolationInv, OneOrigin, BatchIsolation, Active

LEMMA InitIsolation == ConstantsAssumption /\ Init => IsolationInv
<1> SUFFICES ASSUME ConstantsAssumption, Init PROVE IsolationInv OBVIOUS
<1>1. CountInv BY InitCount
<1>2. Rest
  BY DEF Init, Rest, NothingFails, MicrotasksInOrder, OneOrigin, BatchWaitsAlone, QueueIsCounted
<1> QED BY <1>1, <1>2, IsolationParts

\* A request in progress or about to be rules out a batch that waits.
LEMMA NoBatchWaits ==
  ASSUME IsolationInv, NEW r \in Requests, pc[r] \in {"resumed", "processing", "settled"}
  PROVE  /\ \A first \in Requests : batch[first] = <<>> /\ switching[first] = "none"
         /\ \A s \in Requests : pc[s] # "inBatch"
<1>1. \A first \in Requests : batch[first] = <<>> BY DEF IsolationInv, BatchWaitsAlone
<1> QED BY <1>1 DEF IsolationInv, BatchWaitsAlone

LEMMA TailFacts ==
  ASSUME TypeOK, microtasks # <<>>
  PROVE  /\ Len(microtasks) \in Nat /\ Len(microtasks) >= 1
         /\ DOMAIN microtasks = 1..Len(microtasks)
         /\ Head(microtasks) = microtasks[1]
         /\ Len(Tail(microtasks)) = Len(microtasks) - 1
         /\ DOMAIN Tail(microtasks) = 1..(Len(microtasks) - 1)
         /\ \A i \in 1..(Len(microtasks) - 1) : Tail(microtasks)[i] = microtasks[i + 1]
         /\ \A i \in 1..Len(microtasks) : microtasks[i].req \in Requests
<1>1. microtasks \in Seq(Continuation) BY DEF TypeOK
<1>2. /\ Len(microtasks) \in Nat /\ Len(microtasks) >= 1
      /\ DOMAIN microtasks = 1..Len(microtasks)
      /\ Head(microtasks) = microtasks[1]
      /\ \A i \in 1..Len(microtasks) : microtasks[i] \in Continuation BY <1>1
<1>3. /\ Tail(microtasks) \in Seq(Continuation)
      /\ Len(Tail(microtasks)) = Len(microtasks) - 1
      /\ \A i \in 1..Len(Tail(microtasks)) : Tail(microtasks)[i] = microtasks[i + 1]
  BY <1>1, <1>2, HeadTailProperties
<1>4. DOMAIN Tail(microtasks) = 1..(Len(microtasks) - 1) BY <1>3
<1> QED BY <1>2, <1>3, <1>4 DEF Continuation

\* The microtasks that are left when the first one has run.
LEMMA TailInOrder ==
  ASSUME TypeOK, MicrotasksInOrder, microtasks # <<>>,
         microtasks' = Tail(microtasks),
         pc'[Head(microtasks).req] # "resumed",
         \A s \in Requests : s # Head(microtasks).req => pc'[s] = pc[s]
  PROVE  MicrotasksInOrder'
<1> DEFINE n == Len(microtasks)
           r == Head(microtasks).req
           mt == microtasks'
<1>1. /\ n \in Nat /\ n >= 1
      /\ DOMAIN microtasks = 1..n
      /\ r = microtasks[1].req
      /\ DOMAIN mt = 1..(n - 1)
      /\ \A i \in 1..(n - 1) : mt[i] = microtasks[i + 1] /\ i + 1 \in 1..n /\ i + 1 # 1
      /\ \A i \in 1..n : microtasks[i].req \in Requests
  <2>1. n \in Nat /\ n >= 1
    BY TailFacts
  <2>2. \A i \in 1..(n - 1) : i + 1 \in 1..n /\ i + 1 # 1
    BY <2>1
  <2> QED BY <2>1, <2>2, TailFacts
<1>2. \A i \in 1..(n - 1) : mt[i].req # r /\ pc'[mt[i].req] = pc[microtasks[i + 1].req]
  BY <1>1 DEF MicrotasksInOrder
<1> HIDE DEF n, r, mt
<1>3. ASSUME NEW i \in 1..(n - 1)
      PROVE  mt[i].error = FALSE /\ pc'[mt[i].req] \in {"inBatch", "resumed", "settled"}
  <2>1. i + 1 \in DOMAIN microtasks /\ mt[i] = microtasks[i + 1]
    BY <1>1
  <2>2. /\ microtasks[i + 1].error = FALSE
        /\ pc[microtasks[i + 1].req] \in {"inBatch", "resumed", "settled"}
    BY <2>1 DEF MicrotasksInOrder
  <2> QED BY <1>2, <2>1, <2>2
<1>4. ASSUME NEW i \in 1..(n - 1), NEW j \in 1..(n - 1), mt[i].req = mt[j].req
      PROVE  i = j
  <2>1. /\ i + 1 \in DOMAIN microtasks /\ j + 1 \in DOMAIN microtasks
        /\ mt[i] = microtasks[i + 1] /\ mt[j] = microtasks[j + 1]
    BY <1>1
  <2>2. microtasks[i + 1].req = microtasks[j + 1].req
    BY <1>4, <2>1
  <2>3. \A k, l \in DOMAIN microtasks : microtasks[k].req = microtasks[l].req => k = l
    BY DEF MicrotasksInOrder
  <2>4. i + 1 = j + 1
    BY <2>1, <2>2, <2>3
  <2>5. i \in Nat /\ j \in Nat
    BY <1>1
  <2> QED BY <2>4, <2>5
<1>5. ASSUME NEW i \in 1..(n - 1), NEW j \in 1..(n - 1), i < j,
             pc'[mt[j].req] = "resumed"
      PROVE  pc'[mt[i].req] = "resumed"
  <2>1. i + 1 < j + 1 /\ i + 1 \in DOMAIN microtasks /\ j + 1 \in DOMAIN microtasks
    BY <1>1, <1>5
  <2>2. pc[microtasks[j + 1].req] = "resumed"
    BY <1>2, <1>5
  <2>3. pc[microtasks[i + 1].req] = "resumed"
    BY <2>1, <2>2 DEF MicrotasksInOrder
  <2> QED BY <1>2, <2>3
<1>6. ASSUME NEW s \in Requests, pc'[s] = "resumed"
      PROVE  \E i \in 1..(n - 1) : mt[i].req = s
  <2>1. s # r /\ pc[s] = "resumed"
    BY <1>6 DEF r
  <2>2. PICK i \in 1..n : microtasks[i].req = s
    BY <1>1, <2>1 DEF MicrotasksInOrder
  <2>3. i # 1
    BY <1>1, <2>1, <2>2
  <2>4. i - 1 \in 1..(n - 1) /\ (i - 1) + 1 = i
    BY <1>1, <2>3
  <2>5. mt[i - 1].req = s
    BY <1>1, <2>2, <2>4
  <2> QED BY <2>4, <2>5
<1>7. /\ \A i \in DOMAIN mt :
           mt[i].error = FALSE /\ pc'[mt[i].req] \in {"inBatch", "resumed", "settled"}
      /\ \A i, j \in DOMAIN mt : mt[i].req = mt[j].req => i = j
      /\ \A i, j \in DOMAIN mt : i < j /\ pc'[mt[j].req] = "resumed" => pc'[mt[i].req] = "resumed"
      /\ \A s \in Requests : pc'[s] = "resumed" => \E i \in DOMAIN mt : mt[i].req = s
  BY <1>1, <1>3, <1>4, <1>5, <1>6
<1> QED BY <1>7 DEF MicrotasksInOrder, mt

\* Nothing waits alone where nothing waits.
LEMMA NoneAlone ==
  ASSUME \A first \in Requests : batch'[first] = <<>> /\ switching'[first] = "none",
         \A s \in Requests : pc'[s] # "inBatch"
  PROVE  BatchWaitsAlone'
  BY DEF BatchWaitsAlone

\* A batch keeps waiting alone when a new request is only queued.
LEMMA StaysAlone ==
  ASSUME TypeOK, BatchWaitsAlone, UNCHANGED <<batch, switching, microtasks>>,
         queuedRequestCount' > 0,
         \A s \in Requests :
           pc'[s] = pc[s] \/ (pc[s] = "idle" /\ pc'[s] = "queued")
  PROVE  BatchWaitsAlone'
BY DEF BatchWaitsAlone, Continue

LEMMA MicrotaskRequests ==
  ASSUME TypeOK
  PROVE  \A i \in DOMAIN microtasks : microtasks[i].req \in Requests
<1>1. microtasks \in Seq(Continuation) BY DEF TypeOK
<1>2. \A i \in DOMAIN microtasks : microtasks[i] \in Continuation BY <1>1
<1> QED BY <1>2 DEF Continuation

\* The facts about a request that comes while nothing disturbs the queue.
LEMMA IsolationEnqueue ==
  ASSUME ConstantsAssumption, Undisturbed, IsolationInv,
         NEW r \in Requests, enqueueRequest(r)
  PROVE  Rest'
<1>1. /\ TypeOK /\ pc[r] = "idle" /\ batch' = batch
      /\ originOfCurrentBatch' = currentOrigin(r)
      /\ NothingFails /\ MicrotasksInOrder /\ OneOrigin /\ BatchWaitsAlone /\ QueueIsCounted
  BY DEF IsolationInv, CountInv, enqueueRequest
<1>2. \A s \in Requests :
        pc[s] \in {"inBatch", "resumed", "processing", "settled"} =>
          OriginOf[s] = currentOrigin(r)
  <2> SUFFICES ASSUME NEW s \in Requests,
                      pc[s] \in {"inBatch", "resumed", "processing", "settled"}
               PROVE  OriginOf[s] = currentOrigin(r) OBVIOUS
  <2>1. OriginOf[s] = originOfCurrentBatch /\ OriginOf[s] \in Origins
    BY <1>1 DEF OneOrigin, ConstantsAssumption
  <2> QED BY <2>1 DEF currentOrigin, ConstantsAssumption
<1>3. \A i \in DOMAIN microtasks : microtasks[i].req \in Requests BY <1>1, MicrotaskRequests
<1>4. CASE /\ pc' = [pc EXCEPT ![r] = "queued"]
           /\ requestQueue' = Append(requestQueue, r)
           /\ queuedRequestCount' = Len(requestQueue')
           /\ UNCHANGED <<switching, microtasks>>
  BY <1>1, <1>4, <1>2, <1>3, StaysAlone DEF TypeOK, NothingFails, OneOrigin, QueueIsCounted,
     MicrotasksInOrder, Rest
<1>5. CASE /\ ~mustQueue(r)
           /\ pc' = [pc EXCEPT ![r] = "processing"]
           /\ UNCHANGED <<requestQueue, queuedRequestCount, switching, microtasks>>
  <2>1. \A s \in Requests : pc'[s] = IF s = r THEN "processing" ELSE pc[s] BY <1>1, <1>5 DEF TypeOK
  <2>2. queuedRequestCount = 0 /\ currentOrigin(r) = OriginOf[r] BY <1>1, <1>5 DEF mustQueue, TypeOK
  <2>3. \A first \in Requests : batch[first] = <<>> BY <1>1, <2>2 DEF BatchWaitsAlone
  <2>4. NothingFails' /\ OneOrigin' /\ QueueIsCounted'
    BY <1>1, <1>2, <1>5, <2>1, <2>2 DEF NothingFails, OneOrigin, QueueIsCounted
  <2>5. MicrotasksInOrder' BY <1>1, <1>3, <1>5, <2>1 DEF MicrotasksInOrder
  <2>6. BatchWaitsAlone'
    <3>1. \A first \in Requests : batch'[first] = <<>> /\ switching'[first] = "none"
      BY <1>1, <1>5, <2>3 DEF BatchWaitsAlone
    <3>2. \A s \in Requests : pc[s] # "inBatch" BY <1>1, <2>3 DEF BatchWaitsAlone
    <3>3. \A s \in Requests : pc'[s] # "inBatch" BY <2>1, <3>2
    <3> QED BY <3>1, <3>3, NoneAlone
  <2> QED BY <2>4, <2>5, <2>6 DEF Rest
<1>6. r \notin SwitchRequests BY DEF Undisturbed
<1> QED BY <1>4, <1>5, <1>6 DEF enqueueRequest

LEMMA IsolationSwitchSettles ==
  ASSUME IsolationInv, NEW r \in Requests, switchSettles(r)
  PROVE  Rest'
<1>1. /\ TypeOK /\ switching[r] # "none"
      /\ switching' = [switching EXCEPT ![r] = "none"]
      /\ UNCHANGED <<originOfCurrentBatch, requestQueue, queuedRequestCount, batch, pc>>
      /\ NothingFails /\ MicrotasksInOrder /\ OneOrigin /\ BatchWaitsAlone /\ QueueIsCounted
  BY DEF IsolationInv, CountInv, switchSettles, queueVars
<1>2. batch[r] # <<>> /\ switching[r] = "ok" /\ microtasks = <<>> /\ pc[r] = "inBatch"
  BY <1>1 DEF BatchWaitsAlone
<1>3. microtasks' = <<Continue(r, FALSE)>>
  <2>1. microtasks' = Append(microtasks, Continue(r, FALSE)) BY <1>2 DEF switchSettles
  <2> QED BY <1>2, <2>1
<1>4. /\ DOMAIN microtasks' = {1}
      /\ microtasks'[1].req = r /\ microtasks'[1].error = FALSE BY <1>3 DEF Continue
<1>5. \A s \in Requests : switching'[s] = IF s = r THEN "none" ELSE switching[s] BY <1>1 DEF TypeOK
<1>6. \A s \in Requests : s # r => switching[s] = "none" BY <1>1, <1>2 DEF BatchWaitsAlone
<1>7. NothingFails' /\ OneOrigin' /\ QueueIsCounted'
  BY <1>1, <1>5 DEF NothingFails, OneOrigin, QueueIsCounted
<1>8. \A s \in Requests : pc[s] # "resumed" BY <1>1, <1>2 DEF BatchWaitsAlone
<1>9. MicrotasksInOrder' BY <1>1, <1>2, <1>4, <1>8 DEF MicrotasksInOrder
<1>10. BatchWaitsAlone'
  <2>1. \A s \in Requests : switching'[s] = "none" BY <1>5, <1>6
  <2>2. \A s \in Requests :
          pc'[s] = "inBatch" =>
            \E first \in Requests : \E i \in DOMAIN batch'[first] : batch'[first][i] = s
    BY <1>1 DEF BatchWaitsAlone
  <2>3. ASSUME NEW first \in Requests, batch'[first] # <<>>
        PROVE  /\ pc'[first] = "inBatch"
               /\ queuedRequestCount' > 0
               /\ \A s \in Requests : pc'[s] \notin {"resumed", "processing", "settled"}
               /\ \A other \in Requests : batch'[other] # <<>> => other = first
    BY <1>1, <2>3 DEF BatchWaitsAlone
  <2>4. \A first \in Requests : batch'[first] # <<>> => first = r BY <1>1, <1>2 DEF BatchWaitsAlone
  <2> QED BY <1>3, <2>1, <2>2, <2>3, <2>4 DEF BatchWaitsAlone, Continue
<1> QED BY <1>7, <1>9, <1>10 DEF Rest

LEMMA IsolationNextSettles ==
  ASSUME IsolationInv, NEW r \in Requests, requestNextSettles(r)
  PROVE  Rest'
<1>1. /\ TypeOK /\ pc[r] = "processing" /\ pc' = [pc EXCEPT ![r] = "settled"]
      /\ microtasks' = Append(microtasks, Continue(r, FALSE))
      /\ UNCHANGED <<originOfCurrentBatch, requestQueue, queuedRequestCount, batch, switching>>
      /\ NothingFails /\ MicrotasksInOrder /\ OneOrigin /\ BatchWaitsAlone /\ QueueIsCounted
  BY DEF IsolationInv, CountInv, requestNextSettles, queueVars
<1>2. /\ \A first \in Requests : batch[first] = <<>> /\ switching[first] = "none"
      /\ \A s \in Requests : pc[s] # "inBatch" BY <1>1, NoBatchWaits
<1>3. \A s \in Requests : pc'[s] = IF s = r THEN "settled" ELSE pc[s] BY <1>1 DEF TypeOK
<1> DEFINE n == Len(microtasks)
<1>4. /\ n \in Nat
      /\ DOMAIN microtasks = 1..n
      /\ DOMAIN microtasks' = 1..(n + 1)
      /\ \A i \in 1..n : microtasks'[i] = microtasks[i] /\ microtasks[i].req \in Requests
      /\ microtasks'[n + 1].req = r /\ microtasks'[n + 1].error = FALSE
  <2>1. microtasks \in Seq(Continuation) /\ Continue(r, FALSE) \in Continuation
    BY <1>1, ContinueType DEF TypeOK
  <2>2. /\ Len(Append(microtasks, Continue(r, FALSE))) = n + 1
        /\ \A i \in 1..n : Append(microtasks, Continue(r, FALSE))[i] = microtasks[i]
        /\ Append(microtasks, Continue(r, FALSE))[n + 1] = Continue(r, FALSE)
        /\ Append(microtasks, Continue(r, FALSE)) \in Seq(Continuation)
    <3> HIDE DEF n
    <3> DEFINE last == Continue(r, FALSE)
    <3> HIDE DEF last
    <3>1. microtasks \in Seq(Continuation) /\ last \in Continuation BY <2>1 DEF last
    <3>2. /\ Append(microtasks, last) \in Seq(Continuation)
          /\ Len(Append(microtasks, last)) = Len(microtasks) + 1
          /\ \A i \in 1..Len(microtasks) : Append(microtasks, last)[i] = microtasks[i]
          /\ Append(microtasks, last)[Len(microtasks) + 1] = last BY <3>1, AppendProperties
    <3> QED BY <3>2 DEF n, last
  <2>3. /\ n \in Nat /\ DOMAIN microtasks = 1..n
        /\ \A i \in 1..n : microtasks[i].req \in Requests BY <1>1, <2>1, MicrotaskRequests
  <2>4. DOMAIN microtasks' = 1..(n + 1) BY <1>1, <2>2
  <2>5. Continue(r, FALSE).req = r /\ Continue(r, FALSE).error = FALSE BY DEF Continue
  <2> QED BY <1>1, <2>2, <2>3, <2>4, <2>5
<1> HIDE DEF n
<1>5. \A i \in 1..n : /\ microtasks[i].req # r
                      /\ microtasks[i].error = FALSE
                      /\ pc[microtasks[i].req] \in {"resumed", "settled"}
  <2>1. \A i \in DOMAIN microtasks :
          /\ microtasks[i].error = FALSE
          /\ pc[microtasks[i].req] \in {"inBatch", "resumed", "settled"}
    BY <1>1 DEF MicrotasksInOrder
  <2> QED BY <1>1, <1>2, <1>4, <2>1
<1>6. \A i \in 1..(n + 1) : /\ i \in 1..n \/ i = n + 1
                            /\ microtasks'[i].error = FALSE
                            /\ pc'[microtasks'[i].req] \in {"inBatch", "resumed", "settled"}
  BY <1>3, <1>4, <1>5
<1>7. ASSUME NEW i \in 1..(n + 1), NEW j \in 1..(n + 1), microtasks'[i].req = microtasks'[j].req
      PROVE  i = j
  <2>1. CASE i \in 1..n /\ j \in 1..n
    <3>1. microtasks[i].req = microtasks[j].req /\ i \in DOMAIN microtasks /\ j \in DOMAIN microtasks
      BY <1>4, <1>7, <2>1
    <3> QED BY <1>1, <3>1 DEF MicrotasksInOrder
  <2>2. CASE i = n + 1 /\ j \in 1..n BY <1>4, <1>5, <1>7, <2>2
  <2>3. CASE i \in 1..n /\ j = n + 1 BY <1>4, <1>5, <1>7, <2>3
  <2> QED BY <1>6, <2>1, <2>2, <2>3
<1>8. ASSUME NEW i \in 1..(n + 1), NEW j \in 1..(n + 1), i < j,
             pc'[microtasks'[j].req] = "resumed"
      PROVE  pc'[microtasks'[i].req] = "resumed"
  <2>1. i \in 1..n /\ j \in 1..n BY <1>3, <1>4, <1>6, <1>8
  <2>2. /\ i \in DOMAIN microtasks /\ j \in DOMAIN microtasks
        /\ microtasks'[i] = microtasks[i] /\ microtasks'[j] = microtasks[j] BY <1>4, <2>1
  <2>3. pc[microtasks[j].req] = "resumed" BY <1>3, <1>4, <1>5, <1>8, <2>1, <2>2
  <2>4. pc[microtasks[i].req] = "resumed" BY <1>1, <1>8, <2>2, <2>3 DEF MicrotasksInOrder
  <2> QED BY <1>3, <1>4, <1>5, <2>1, <2>2, <2>4
<1>9. ASSUME NEW s \in Requests, pc'[s] = "resumed"
      PROVE  \E i \in 1..(n + 1) : microtasks'[i].req = s
  <2>1. PICK i \in 1..n : microtasks[i].req = s BY <1>1, <1>3, <1>4, <1>9 DEF MicrotasksInOrder
  <2> QED BY <1>4, <2>1
<1>10. MicrotasksInOrder' BY <1>4, <1>6, <1>7, <1>8, <1>9 DEF MicrotasksInOrder
<1>11. NothingFails' /\ OneOrigin' /\ QueueIsCounted'
  BY <1>1, <1>2, <1>3 DEF NothingFails, OneOrigin, QueueIsCounted
<1>12. BatchWaitsAlone' BY <1>1, <1>2, <1>3, NoneAlone
<1> QED BY <1>10, <1>11, <1>12 DEF Rest

LEMMA IsolationResumeDequeued ==
  ASSUME IsolationInv, resumeCall("resumed")
  PROVE  Rest'
<1> DEFINE r == Head(microtasks).req
<1>1. /\ TypeOK /\ microtasks # <<>> /\ pc[r] = "resumed" /\ r \in Requests
      /\ NothingFails /\ MicrotasksInOrder /\ OneOrigin /\ BatchWaitsAlone /\ QueueIsCounted
  BY HeadType DEF IsolationInv, CountInv, resumeCall, AtHead
<1>2. Head(microtasks).error = FALSE BY <1>1, TailFacts DEF MicrotasksInOrder
<1>3. /\ pc' = [pc EXCEPT ![r] = "processing"] /\ microtasks' = Tail(microtasks)
      /\ UNCHANGED <<originOfCurrentBatch, requestQueue, queuedRequestCount, batch, switching>>
  BY <1>2 DEF resumeCall, enter
<1>4. \A s \in Requests : pc'[s] = IF s = r THEN "processing" ELSE pc[s] BY <1>1, <1>3 DEF TypeOK
<1>5. /\ \A first \in Requests : batch[first] = <<>> /\ switching[first] = "none"
      /\ \A s \in Requests : pc[s] # "inBatch" BY <1>1, NoBatchWaits
<1>6. MicrotasksInOrder' BY <1>1, <1>3, <1>4, TailInOrder
<1>7. NothingFails' /\ OneOrigin' /\ QueueIsCounted'
  BY <1>1, <1>3, <1>4, <1>5 DEF NothingFails, OneOrigin, QueueIsCounted
<1>8. BatchWaitsAlone' BY <1>1, <1>3, <1>4, <1>5, NoneAlone
<1> QED BY <1>6, <1>7, <1>8 DEF Rest

\* When a batch has ended, the next one is let in and waits alone.
LEMMA IsolationNextBatch ==
  ASSUME ConstantsAssumption, Undisturbed, TypeOK, QueueIsCounted, NEW position,
         WaitersApart', processNextBatch(position, <<>>),
         UNCHANGED queuedRequestCount,
         \A s \in Requests : batch[s] = <<>> /\ switching[s] = "none",
         \A s \in Requests : position[s] \notin
            {"switching", "failed", "inBatch", "resumed", "processing", "settled"}
  PROVE  Rest'
<1>1. PICK n \in 1..Len(requestQueue) :
        /\ \A i \in 1..n : OriginOf[requestQueue[i]] = OriginOf[requestQueue[1]]
        /\ originOfCurrentBatch' = OriginOf[requestQueue[1]]
        /\ batch' = [batch EXCEPT ![requestQueue[1]] = SubSeq(requestQueue, 1, n)]
        /\ pc' = [r \in Requests |->
                    IF \E i \in 1..n : requestQueue[i] = r
                    THEN "inBatch" ELSE position[r]]
        /\ switchNetworkIfNecessary(requestQueue[1], OriginOf[requestQueue[1]], <<>>)
  BY DEF processNextBatch, IsNextBatch
<1> DEFINE first == requestQueue[1]
           taken == SubSeq(requestQueue, 1, n)
<1>2. /\ Len(requestQueue) \in Nat /\ n \in Nat /\ 1 <= n /\ n <= Len(requestQueue)
      /\ \A i \in 1..n : requestQueue[i] \in Requests
      /\ first \in Requests /\ 1 \in 1..n /\ requestQueue # <<>> BY DEF TypeOK
<1>3. /\ DOMAIN taken = 1..n
      /\ \A i \in 1..n : taken[i] = requestQueue[i]
      /\ taken # <<>>
  <2>1. /\ DOMAIN taken = 1..n
        /\ \A i \in 1..n : taken[i] = requestQueue[i] BY <1>2 DEF TypeOK
  <2>2. taken # <<>>
    <3> HIDE DEF taken
    <3> QED BY <1>2, <2>1
  <2> QED BY <2>1, <2>2
<1>4. /\ batch'[first] = taken
      /\ \A r \in Requests : r # first => batch'[r] = <<>> BY <1>1, <1>2 DEF TypeOK
<1> HIDE DEF taken
<1>5. \/ microtasks' = <<Continue(first, FALSE)>> /\ switching' = switching
      \/ microtasks' = <<>> /\ switching' = [switching EXCEPT ![first] = "ok"]
  <2>1. Append(<<>>, Continue(first, FALSE)) = <<Continue(first, FALSE)>> OBVIOUS
  <2>2. \/ microtasks' = Append(<<>>, Continue(first, FALSE)) /\ switching' = switching
        \/ microtasks' = <<>> /\ switching' = [switching EXCEPT ![first] = "ok"]
    BY <1>1, Zenon DEF switchNetworkIfNecessary, Undisturbed
  <2> QED BY <2>1, <2>2
<1>6. \A s \in Requests :
        pc'[s] = IF \E i \in 1..n : requestQueue[i] = s THEN "inBatch" ELSE position[s] BY <1>1
<1> HIDE DEF first
<1>7. pc'[first] = "inBatch" BY <1>2, <1>6 DEF first
<1>8. \A s \in Requests :
        /\ pc'[s] \notin {"switching", "failed", "resumed", "processing", "settled"}
        /\ pc'[s] = "inBatch" => \E i \in 1..n : requestQueue[i] = s BY <1>6
<1>9. NothingFails' BY <1>2, <1>5, <1>8 DEF TypeOK, NothingFails
<1>10. MicrotasksInOrder' BY <1>7, <1>8, <1>5 DEF Continue, MicrotasksInOrder
<1>11. OneOrigin'
  <2> SUFFICES ASSUME NEW s \in Requests,
                      pc'[s] \in {"inBatch", "resumed", "processing", "settled"}
               PROVE  OriginOf[s] = originOfCurrentBatch' BY DEF OneOrigin
  <2>1. PICK i \in 1..n : requestQueue[i] = s BY <1>8
  <2> QED BY <1>1, <2>1
<1>12. queuedRequestCount' > 0 BY <1>2 DEF QueueIsCounted
<1>13. BatchWaitsAlone'
  <2>1. \A s \in Requests :
          pc'[s] = "inBatch" => \E f \in Requests : \E i \in DOMAIN batch'[f] : batch'[f][i] = s
    <3> SUFFICES ASSUME NEW s \in Requests, pc'[s] = "inBatch"
                 PROVE  \E i \in DOMAIN batch'[first] : batch'[first][i] = s BY <1>2
    <3>1. PICK i \in 1..n : requestQueue[i] = s BY <1>8
    <3>2. i \in DOMAIN taken /\ taken[i] = s BY <1>3, <3>1
    <3> QED BY <1>4, <3>2
  <2>2. \A s \in Requests : s # first => switching'[s] = "none" BY <1>5 DEF TypeOK
  <2>3. \A s \in Requests : batch'[s] # <<>> => s = first BY <1>4
  <2>4. \/ switching'[first] = "ok" /\ microtasks' = <<>>
        \/ switching'[first] = "none" /\ microtasks' = <<Continue(first, FALSE)>>
    BY <1>2, <1>5 DEF TypeOK
  <2>5. \A s \in Requests : switching'[s] # "none" => batch'[s] # <<>> BY <1>3, <1>4, <2>2
  <2>6. \A s \in Requests : batch'[s] # <<>> =>
          /\ pc'[s] = "inBatch"
          /\ queuedRequestCount' > 0
          /\ \A r \in Requests : pc'[r] \notin {"resumed", "processing", "settled"}
          /\ \A other \in Requests : batch'[other] # <<>> => other = s
          /\ \/ switching'[s] = "ok" /\ microtasks' = <<>>
             \/ switching'[s] = "none" /\ microtasks' = <<Continue(s, FALSE)>>
    BY <1>7, <1>8, <1>12, <2>3, <2>4
  <2> QED BY <2>1, <2>5, <2>6 DEF BatchWaitsAlone, Continue
<1>14. QueueIsCounted' BY <1>12 DEF QueueIsCounted
<1> QED BY <1>9, <1>10, <1>11, <1>13, <1>14 DEF Rest

\* Who ends a batch leaves nobody behind who was let in.
LEMMA LastOneLeaves ==
  ASSUME IsolationInv, resumeSettled, processingRequestCount - 1 = 0
  PROVE  /\ \A s \in Active : s = Head(microtasks).req
         /\ \A s \in Requests :
              [pc EXCEPT ![Head(microtasks).req] = "done"][s] \notin
                 {"switching", "failed", "inBatch", "resumed", "processing", "settled"}
         /\ \A s \in Requests : pc[s] # "resumed"
<1> DEFINE r == Head(microtasks).req
           position == [pc EXCEPT ![r] = "done"]
<1>1. /\ TypeOK /\ microtasks # <<>> /\ pc[r] = "settled" /\ r \in Requests
      /\ NothingFails /\ MicrotasksInOrder
      /\ IsFiniteSet(Active) /\ processingRequestCount = Cardinality(Active)
  BY HeadType DEF IsolationInv, CountInv, CountIsExact, resumeSettled, AtHead
<1>2. \A s \in Requests : position[s] = IF s = r THEN "done" ELSE pc[s] BY <1>1 DEF TypeOK
<1>3. \A s \in Requests : pc[s] # "inBatch" BY <1>1, NoBatchWaits
<1> HIDE DEF position
<1>4. \A s \in Active : s = r BY <1>1, FS_RemoveElement, FS_EmptySet DEF Active
<1>5. \A s \in Requests : pc[s] # "resumed"
  <2> SUFFICES ASSUME NEW s \in Requests, pc[s] = "resumed" PROVE FALSE OBVIOUS
  <2>1. PICK i \in DOMAIN microtasks : microtasks[i].req = s BY <1>1 DEF MicrotasksInOrder
  <2>2. DOMAIN microtasks = 1..Len(microtasks) /\ Len(microtasks) \in Nat
        /\ Head(microtasks) = microtasks[1] /\ Len(microtasks) >= 1 BY <1>1, TailFacts
  <2>3. i # 1 /\ 1 \in DOMAIN microtasks /\ 1 < i BY <1>1, <2>1, <2>2
  <2>4. pc[microtasks[1].req] = "resumed" BY <1>1, <2>1, <2>3 DEF MicrotasksInOrder
  <2> QED BY <1>1, <2>2, <2>4
<1>6. \A s \in Requests :
        position[s] \notin {"switching", "failed", "inBatch", "resumed", "processing", "settled"}
  BY <1>1, <1>2, <1>3, <1>4, <1>5 DEF NothingFails, Active
<1> QED BY <1>4, <1>5, <1>6 DEF position

LEMMA IsolationResumeSettled ==
  ASSUME ConstantsAssumption, Undisturbed, IsolationInv, resumeSettled, WaitersApart'
  PROVE  Rest'
<1> DEFINE r == Head(microtasks).req
           position == [pc EXCEPT ![r] = "done"]
<1>1. /\ TypeOK /\ microtasks # <<>> /\ pc[r] = "settled" /\ r \in Requests
      /\ NothingFails /\ MicrotasksInOrder /\ OneOrigin /\ BatchWaitsAlone /\ QueueIsCounted
      /\ IsFiniteSet(Active) /\ processingRequestCount = Cardinality(Active)
  BY HeadType DEF IsolationInv, CountInv, CountIsExact, resumeSettled, AtHead
<1>2. /\ leave(processingRequestCount - 1, position, Tail(microtasks))
      /\ UNCHANGED queuedRequestCount BY DEF resumeSettled, leave
<1>3. \A s \in Requests : position[s] = IF s = r THEN "done" ELSE pc[s] BY <1>1 DEF TypeOK
<1>4. /\ \A first \in Requests : batch[first] = <<>> /\ switching[first] = "none"
      /\ \A s \in Requests : pc[s] # "inBatch" BY <1>1, NoBatchWaits
<1> HIDE DEF position
<1>5. CASE processingRequestCount - 1 # 0
  BY <1>2, <1>5, <1>1, <1>3, TailInOrder, <1>4, NoneAlone DEF leave, batchIsOver, NothingFails, OneOrigin,
     QueueIsCounted, Rest
<1>6. CASE processingRequestCount - 1 = 0
  <2>1. /\ \A s \in Active : s = r
        /\ \A s \in Requests : pc[s] # "resumed" BY <1>6, LastOneLeaves
  <2>3. \A s \in Requests :
          position[s] \notin {"switching", "failed", "inBatch", "resumed", "processing", "settled"}
    BY <1>6, LastOneLeaves DEF position
  <2>4. Tail(microtasks) = <<>>
    <3>1. /\ DOMAIN microtasks = 1..Len(microtasks) /\ Len(microtasks) \in Nat
          /\ Head(microtasks) = microtasks[1] /\ Len(microtasks) >= 1
          /\ \A i \in 1..Len(microtasks) : microtasks[i].req \in Requests
          /\ Len(Tail(microtasks)) = Len(microtasks) - 1 BY <1>1, TailFacts
    <3>2. \A i \in DOMAIN microtasks : pc[microtasks[i].req] \in {"inBatch", "resumed", "settled"}
      BY <1>1 DEF MicrotasksInOrder
    <3>3. \A i \in DOMAIN microtasks : microtasks[i].req = r BY <1>4, <2>1, <3>1, <3>2 DEF Active
    <3>4. \A i \in DOMAIN microtasks : i = 1 BY <1>1, <3>1, <3>3 DEF MicrotasksInOrder
    <3>5. Len(microtasks) = 1 BY <3>1, <3>4
    <3>6. Tail(microtasks) \in Seq(Continuation) /\ Len(Tail(microtasks)) = 0
      BY <1>1, HeadType, <3>1, <3>5
    <3> HIDE DEF r
    <3> QED BY <3>6, EmptySeq
  <2>5. endBatch(position, <<>>) BY <1>2, <1>6, <2>4 DEF leave, batchIsOver
  <2>6. CASE processNextBatch(position, <<>>) BY <1>1, <1>2, <1>4, <2>3, <2>6, IsolationNextBatch
  <2>7. CASE /\ requestQueue = <<>>
             /\ pc' = position
             /\ microtasks' = <<>>
             /\ UNCHANGED <<requestQueue, batch, switching>>
    BY <1>1, <2>3, <2>7, <1>4, NoneAlone DEF NothingFails, OneOrigin, QueueIsCounted, MicrotasksInOrder, Rest
  <2> QED BY <2>5, <2>6, <2>7 DEF endBatch
<1> QED BY <1>5, <1>6

LEMMA IsolationResumeBatch ==
  ASSUME ConstantsAssumption, IsolationInv, resumeBatch
  PROVE  Rest'
<1> DEFINE first == Head(microtasks).req
           members == batch[first]
<1>1. /\ TypeOK /\ WaitersApart /\ microtasks # <<>> /\ pc[first] = "inBatch" /\ first \in Requests
      /\ NothingFails /\ MicrotasksInOrder /\ OneOrigin /\ BatchWaitsAlone /\ QueueIsCounted
  BY HeadType DEF IsolationInv, CountInv, resumeBatch, AtHead
<1>2. PICK lead \in Requests : batch[lead] # <<>> BY <1>1 DEF BatchWaitsAlone
<1>3. microtasks = <<Continue(lead, FALSE)>> /\ switching[lead] = "none"
  BY <1>1, <1>2 DEF BatchWaitsAlone
<1>4. lead = first /\ Head(microtasks).error = FALSE /\ Tail(microtasks) = <<>> BY <1>3 DEF Continue
<1>5. /\ \A s \in Requests : batch[s] # <<>> => s = first
      /\ \A s \in Requests : switching[s] = "none"
      /\ \A s \in Requests : pc[s] \notin {"resumed", "processing", "settled"}
  BY <1>1, <1>2, <1>3, <1>4 DEF BatchWaitsAlone
<1>6. members \in Seq(Requests) BY <1>1 DEF TypeOK
<1> DEFINE n == Len(members)
<1>7. /\ n \in Nat /\ DOMAIN members = 1..n
      /\ \A i \in 1..n : members[i] \in Requests /\ pc[members[i]] = "inBatch"
      /\ \A i, j \in 1..n : members[i] = members[j] => i = j BY <1>6, <1>1 DEF WaitersApart
<1>8. \A s \in Requests : pc[s] = "inBatch" => \E i \in 1..n : members[i] = s
  <2> SUFFICES ASSUME NEW s \in Requests, pc[s] = "inBatch"
               PROVE  \E i \in 1..n : members[i] = s OBVIOUS
  <2>1. PICK f \in Requests : \E i \in DOMAIN batch[f] : batch[f][i] = s BY <1>1 DEF BatchWaitsAlone
  <2>2. batch[f] # <<>> BY <2>1
  <2>3. f = first BY <1>5, <2>2
  <2> QED BY <1>7, <2>1, <2>3
<1>9. microtasks' = resumptions(members, FALSE)
  <2>1. microtasks' = Tail(microtasks) \o resumptions(members, Head(microtasks).error)
    BY DEF resumeBatch
  <2>2. resumptions(members, FALSE) \in Seq(Continuation)
    <3>1. \A i \in 1..n : Continue(members[i], FALSE) \in Continuation BY <1>7, ContinueType
    <3>2. resumptions(members, FALSE) \in [1..n -> Continuation] BY <1>7, <3>1 DEF resumptions
    <3>3. n \in Nat BY <1>7
    <3> DEFINE resumed == resumptions(members, FALSE)
    <3>4. resumed \in [1..n -> Continuation] BY <3>2
    <3> HIDE DEF resumed, n
    <3>5. resumed \in Seq(Continuation) BY <3>3, <3>4
    <3> QED BY <3>5 DEF resumed
  <2>3. <<>> \o resumptions(members, FALSE) = resumptions(members, FALSE) BY <2>2, ConcatEmptySeq
  <2> QED BY <1>4, <2>1, <2>3
<1>10. /\ DOMAIN microtasks' = 1..n
       /\ \A i \in 1..n : microtasks'[i].req = members[i] /\ microtasks'[i].error = FALSE
  <2>1. /\ DOMAIN resumptions(members, FALSE) = 1..n
        /\ \A i \in 1..n : resumptions(members, FALSE)[i] = Continue(members[i], FALSE)
    BY <1>7 DEF resumptions
  <2>2. \A i \in 1..n : microtasks'[i] = Continue(members[i], FALSE) BY <1>9, <2>1
  <2>3. DOMAIN microtasks' = 1..n BY <1>9, <2>1
  <2>4. ASSUME NEW i \in 1..n
        PROVE  microtasks'[i].req = members[i] /\ microtasks'[i].error = FALSE
    <3>1. microtasks'[i] = [req |-> members[i], error |-> FALSE] BY <2>2 DEF Continue
    <3> HIDE DEF members, n
    <3> QED BY <3>1
  <2> HIDE DEF members, n
  <2> QED BY <2>3, <2>4
<1>11. /\ pc' = [s \in Requests |->
                   IF \E i \in DOMAIN members : members[i] = s THEN "resumed" ELSE pc[s]]
       /\ batch' = [batch EXCEPT ![first] = <<>>]
       /\ queuedRequestCount' = Len(requestQueue)
       /\ UNCHANGED <<originOfCurrentBatch, requestQueue, switching>>
  BY DEF resumeBatch, countAfterBatch
<1> HIDE DEF first, members, n
<1>12. \A s \in Requests :
         pc'[s] = IF \E i \in 1..n : members[i] = s THEN "resumed" ELSE pc[s] BY <1>7, <1>11
<1>13. \A s \in Requests :
         /\ pc'[s] = "resumed" <=> pc[s] = "inBatch"
         /\ pc'[s] # "resumed" => pc'[s] = pc[s] BY <1>5, <1>7, <1>8, <1>12
<1>14. NothingFails' BY <1>1, <1>11, <1>13 DEF NothingFails
<1>15. MicrotasksInOrder' BY <1>7, <1>13, <1>8, <1>10 DEF MicrotasksInOrder
<1>16. OneOrigin' BY <1>1, <1>11, <1>13 DEF OneOrigin
<1>17. BatchWaitsAlone' BY <1>1, <1>5, <1>11, <1>13, NoneAlone DEF TypeOK
<1>18. QueueIsCounted' BY <1>1, EmptySeq, <1>11 DEF TypeOK, QueueIsCounted
<1> QED BY <1>14, <1>15, <1>16, <1>17, <1>18 DEF Rest

\* What the rest of the wallet does, if anything, does not matter to the queue.
LEMMA RestUnchanged ==
  ASSUME Rest, UNCHANGED <<originOfCurrentBatch, requestQueue, queuedRequestCount,
                           batch, pc, switching, microtasks>>
  PROVE  Rest'
  BY DEF Rest, NothingFails, MicrotasksInOrder, OneOrigin, BatchWaitsAlone, QueueIsCounted, Continue

LEMMA StepIsolation ==
  ConstantsAssumption /\ Undisturbed /\ IsolationInv /\ [Next]_vars => IsolationInv'
<1> SUFFICES ASSUME ConstantsAssumption, Undisturbed, IsolationInv, [Next]_vars
             PROVE  IsolationInv' OBVIOUS
<1>1. CountInv' /\ WaitersApart' BY StepCount DEF IsolationInv, CountInv
<1>2. ~resumeSwitched
  BY HeadType DEF resumeSwitched, resumeCall, AtHead, IsolationInv, CountInv, NothingFails
<1>3. ASSUME NEW o \in Origins, NEW network \in Networks \cup {NoNetwork} PROVE ~domainChanges(o, network)
  BY DEF Undisturbed, domainChanges
<1>4. ASSUME NEW network \in Networks, userSwitchesNetwork(network) PROVE Rest'
  BY <1>4, RestUnchanged, IsolationParts DEF userSwitchesNetwork, queueVars
<1>5. ASSUME UNCHANGED vars PROVE Rest' BY <1>5, RestUnchanged, IsolationParts DEF vars, queueVars
<1>6. Rest'
  BY <1>1, <1>2, <1>3, <1>4, <1>5, IsolationEnqueue, IsolationSwitchSettles, IsolationNextSettles,
     IsolationResumeDequeued, IsolationResumeSettled, IsolationResumeBatch DEF Next, runMicrotask,
     resumeDequeued
<1> QED BY <1>1, <1>6 DEF IsolationInv, Rest

(***************************************************************************)
(* When no request switches the network for itself, no switch fails and no *)
(* domain changes, requests of two dapps are never inside requestNext      *)
(* together: "Processing requests in batches allows us to completely       *)
(* separate sets of requests that originate from different origins".       *)
(***************************************************************************)
THEOREM UndisturbedIsolation == ASSUME Undisturbed PROVE Spec => []BatchIsolation
<1>1. Init => IsolationInv BY ConstantsAssumption, InitIsolation
<1>2. IsolationInv /\ [Next]_vars => IsolationInv' BY ConstantsAssumption, StepIsolation
<1>3. IsolationInv => BatchIsolation BY IsolationSuffices
<1> QED BY <1>1, <1>2, <1>3, PTL DEF Spec

-----------------------------------------------------------------------------
(***************************************************************************)
(* Who waits is held once.  This is not inductive either: it says nothing  *)
(* of the continuations of requests that switch for themselves, that lead  *)
(* a batch or that have settled, each of which might run for another       *)
(* position than the one it was queued for.                                *)
(***************************************************************************)

\* The requests with a continuation among `tasks', and that none has two.
Scheduled(tasks) == {tasks[i].req : i \in DOMAIN tasks}
ScheduledOnce(tasks) == \A i, j \in DOMAIN tasks : tasks[i].req = tasks[j].req => i = j

\* Who waits is where `pc' says.
WaitersHeld ==
  /\ \A r \in Requests :
       pc[r] = "queued" => \E i \in DOMAIN requestQueue : requestQueue[i] = r
  /\ \A r \in Requests :
       pc[r] = "inBatch" => \E first \in Requests : \E i \in DOMAIN batch[first] : batch[first][i] = r
  /\ \A r \in Requests : pc[r] = "resumed" => r \in Scheduled(microtasks)

\* A batch is kept by its first member.
LeadersLead == \A r \in Requests : batch[r] # <<>> => batch[r][1] = r

\* A switch is awaited by its own request, or by the leader of a batch.
SwitchesAwaited ==
  \A r \in Requests : switching[r] # "none" =>
    (pc[r] = "switching" \/ batch[r] # <<>>) /\ r \notin Scheduled(microtasks)

\* A continuation is that of the await its request is at.
TasksAwaited ==
  /\ \A r \in Scheduled(microtasks) :
       pc[r] \in {"switching", "settled", "resumed"} \/ (pc[r] = "inBatch" /\ batch[r] # <<>>)
  /\ ScheduledOnce(microtasks)

Held == WaitersHeld /\ LeadersLead /\ SwitchesAwaited /\ TasksAwaited
HeldInv == CountInv /\ Held

LEMMA ScheduledAppend ==
  ASSUME NEW tasks \in Seq(Continuation), NEW r \in Requests, NEW e \in BOOLEAN,
         ScheduledOnce(tasks), r \notin Scheduled(tasks)
  PROVE  /\ Scheduled(Append(tasks, Continue(r, e))) = Scheduled(tasks) \cup {r}
         /\ ScheduledOnce(Append(tasks, Continue(r, e)))
<1> DEFINE n == Len(tasks)
           more == Append(tasks, Continue(r, e))
<1>1. /\ n \in Nat /\ DOMAIN tasks = 1..n /\ DOMAIN more = 1..(n + 1)
      /\ \A i \in 1..n : more[i] = tasks[i]
      /\ more[n + 1] = Continue(r, e) BY ContinueType
<1>2. more[n + 1].req = r BY <1>1 DEF Continue
<1> HIDE DEF n, more
<1>3. Scheduled(more) = Scheduled(tasks) \cup {r} BY <1>1, <1>2 DEF Scheduled
<1>4. \A i \in 1..n : tasks[i].req # r BY <1>1 DEF Scheduled
<1>5. ScheduledOnce(more)
  <2> SUFFICES ASSUME NEW i \in 1..(n + 1), NEW j \in 1..(n + 1), more[i].req = more[j].req
               PROVE  i = j BY <1>1 DEF ScheduledOnce
  <2>1. (i \in 1..n \/ i = n + 1) /\ (j \in 1..n \/ j = n + 1) BY <1>1
  <2> QED BY <1>1, <1>2, <1>4, <2>1 DEF ScheduledOnce
<1> QED BY <1>3, <1>5 DEF more

LEMMA ScheduledTail ==
  ASSUME TypeOK, ScheduledOnce(microtasks), microtasks # <<>>
  PROVE  /\ Head(microtasks).req \in Scheduled(microtasks)
         /\ Scheduled(Tail(microtasks)) = Scheduled(microtasks) \ {Head(microtasks).req}
         /\ ScheduledOnce(Tail(microtasks))
<1> DEFINE n == Len(microtasks)
           rest == Tail(microtasks)
<1>1. /\ n \in Nat /\ n >= 1 /\ DOMAIN microtasks = 1..n /\ DOMAIN rest = 1..(n - 1)
      /\ Head(microtasks) = microtasks[1]
      /\ \A i \in 1..(n - 1) : rest[i] = microtasks[i + 1] BY TailFacts
<1> HIDE DEF n, rest
<1>2. \A i \in 1..(n - 1) : i + 1 \in 1..n /\ i + 1 # 1 BY <1>1
<1>3. \A i, j \in 1..n : microtasks[i].req = microtasks[j].req => i = j BY <1>1 DEF ScheduledOnce
<1>4. 1 \in 1..n BY <1>1
<1>5. Head(microtasks).req \in Scheduled(microtasks) BY <1>1, <1>4 DEF Scheduled
<1>6. Scheduled(rest) \subseteq Scheduled(microtasks) \ {Head(microtasks).req}
  <2> SUFFICES ASSUME NEW i \in 1..(n - 1)
               PROVE  rest[i].req \in Scheduled(microtasks) /\ rest[i].req # microtasks[1].req
    BY <1>1 DEF Scheduled
  <2>1. rest[i].req = microtasks[i + 1].req BY <1>1
  <2> QED BY <1>1, <1>2, <1>3, <1>4, <2>1 DEF Scheduled
<1>7. Scheduled(microtasks) \ {Head(microtasks).req} \subseteq Scheduled(rest)
  <2> SUFFICES ASSUME NEW i \in 1..n, microtasks[i].req # microtasks[1].req
               PROVE  microtasks[i].req \in Scheduled(rest) BY <1>1 DEF Scheduled
  <2>1. i # 1 OBVIOUS
  <2>2. i - 1 \in 1..(n - 1) /\ (i - 1) + 1 = i BY <1>1, <2>1
  <2>3. rest[i - 1] = microtasks[i] BY <1>1, <2>2
  <2> QED BY <1>1, <2>2, <2>3 DEF Scheduled
<1>8. ScheduledOnce(rest)
  <2> SUFFICES ASSUME NEW i \in 1..(n - 1), NEW j \in 1..(n - 1), rest[i].req = rest[j].req
               PROVE  i = j BY <1>1 DEF ScheduledOnce
  <2>1. microtasks[i + 1].req = microtasks[j + 1].req BY <1>1
  <2>2. i + 1 = j + 1 BY <1>2, <1>3, <2>1
  <2> QED BY <1>1, <2>2
<1> QED BY <1>5, <1>6, <1>7, <1>8 DEF rest

LEMMA ScheduledConcat ==
  ASSUME NEW s \in Seq(Continuation), NEW t \in Seq(Continuation),
         ScheduledOnce(s), ScheduledOnce(t), Scheduled(s) \cap Scheduled(t) = {}
  PROVE  Scheduled(s \o t) = Scheduled(s) \cup Scheduled(t) /\ ScheduledOnce(s \o t)
<1> DEFINE m == Len(s)
           n == Len(t)
           all == s \o t
<1>1. /\ m \in Nat /\ n \in Nat /\ DOMAIN s = 1..m /\ DOMAIN t = 1..n /\ DOMAIN all = 1..(m + n)
      /\ \A i \in 1..(m + n) : all[i] = IF i <= m THEN s[i] ELSE t[i - m] OBVIOUS
<1> HIDE DEF m, n, all
<1>2. \A i \in 1..(m + n) : IF i <= m THEN i \in 1..m ELSE i - m \in 1..n BY <1>1
<1>3. \A i \in 1..m : i \in 1..(m + n) /\ i <= m BY <1>1
<1>4. \A i \in 1..n : m + i \in 1..(m + n) /\ ~(m + i <= m) /\ (m + i) - m = i BY <1>1
<1>5. Scheduled(all) \subseteq Scheduled(s) \cup Scheduled(t) BY <1>1, <1>2 DEF Scheduled
<1>6. Scheduled(s) \subseteq Scheduled(all) BY <1>1, <1>3 DEF Scheduled
<1>7. Scheduled(t) \subseteq Scheduled(all)
  <2> SUFFICES ASSUME NEW i \in 1..n PROVE t[i].req \in Scheduled(all) BY <1>1 DEF Scheduled
  <2>1. all[m + i] = t[i] BY <1>1, <1>4
  <2> QED BY <1>1, <1>4, <2>1 DEF Scheduled
<1>8. ScheduledOnce(all)
  <2> SUFFICES ASSUME NEW i \in 1..(m + n), NEW j \in 1..(m + n), all[i].req = all[j].req
               PROVE  i = j BY <1>1 DEF ScheduledOnce
  <2>1. CASE i <= m /\ j <= m BY <1>1, <1>2, <2>1 DEF ScheduledOnce
  <2>2. CASE ~(i <= m) /\ ~(j <= m)
    <3>1. i - m \in 1..n /\ j - m \in 1..n /\ t[i - m].req = t[j - m].req BY <1>1, <1>2, <2>2
    <3>2. i - m = j - m BY <1>1, <3>1 DEF ScheduledOnce
    <3> QED BY <1>1, <3>2
  <2>3. CASE i <= m /\ ~(j <= m) BY <1>1, <1>2, <2>3 DEF Scheduled
  <2>4. CASE ~(i <= m) /\ j <= m BY <1>1, <1>2, <2>4 DEF Scheduled
  <2> QED BY <2>1, <2>2, <2>3, <2>4
<1> QED BY <1>5, <1>6, <1>7, <1>8 DEF all

\* A continuation for each member of a sequence without repetitions.
LEMMA ScheduledAll ==
  ASSUME NEW members \in Seq(Requests), NEW e \in BOOLEAN,
         \A i, j \in DOMAIN members : members[i] = members[j] => i = j
  PROVE  /\ [i \in DOMAIN members |-> Continue(members[i], e)] \in Seq(Continuation)
         /\ Scheduled([i \in DOMAIN members |-> Continue(members[i], e)])
               = {members[i] : i \in DOMAIN members}
         /\ ScheduledOnce([i \in DOMAIN members |-> Continue(members[i], e)])
<1> DEFINE n == Len(members)
           tasks == [i \in DOMAIN members |-> Continue(members[i], e)]
<1>1. n \in Nat /\ DOMAIN members = 1..n /\ \A i \in 1..n : members[i] \in Requests OBVIOUS
<1> HIDE DEF n
<1>2. \A i \in 1..n : Continue(members[i], e) \in Continuation /\ Continue(members[i], e).req = members[i]
  BY <1>1, ContinueType DEF Continue
<1>3. tasks \in [1..n -> Continuation] BY <1>1, <1>2
<1>4. DOMAIN tasks = 1..n /\ \A i \in 1..n : tasks[i].req = members[i] BY <1>1, <1>2
<1> HIDE DEF tasks
<1>5. tasks \in Seq(Continuation) BY <1>1, <1>3
<1>6. Scheduled(tasks) = {members[i] : i \in DOMAIN members} /\ ScheduledOnce(tasks)
  BY <1>1, <1>4 DEF Scheduled, ScheduledOnce
<1> QED BY <1>5, <1>6 DEF tasks

\* The first n of a sequence, and what is left of it.
LEMMA FirstAndRest ==
  ASSUME NEW S, NEW s \in Seq(S), NEW n \in 1..Len(s)
  PROVE  /\ DOMAIN SubSeq(s, 1, n) = 1..n
         /\ \A i \in 1..n : SubSeq(s, 1, n)[i] = s[i]
         /\ DOMAIN SubSeq(s, n + 1, Len(s)) = 1..(Len(s) - n)
         /\ \A i \in 1..(Len(s) - n) : SubSeq(s, n + 1, Len(s))[i] = s[n + i]
<1> DEFINE m == Len(s)
           rest == SubSeq(s, n + 1, m)
<1>1. m \in Nat /\ n \in Nat /\ 1 <= n /\ n <= m /\ \A i \in 1..m : s[i] \in S OBVIOUS
<1>2. DOMAIN SubSeq(s, 1, n) = 1..n /\ \A i \in 1..n : SubSeq(s, 1, n)[i] = s[i] BY <1>1
<1>3. /\ rest \in Seq(S)
      /\ Len(rest) = IF n + 1 <= m THEN m - (n + 1) + 1 ELSE 0
      /\ \A i \in 1..(m - (n + 1) + 1) : rest[i] = s[(n + 1) + i - 1] BY <1>1, SubSeqProperties
<1> HIDE DEF rest, m
<1>4. Len(rest) = m - n BY <1>1, <1>3
<1>5. DOMAIN rest = 1..(m - n) BY <1>3, <1>4
<1>6. ASSUME NEW i \in 1..(m - n) PROVE rest[i] = s[n + i] BY <1>1, <1>3
<1> QED BY <1>2, <1>5, <1>6 DEF rest, m

\* Only the leader of a batch, and nobody who is queued, has a continuation.
LEMMA WaitersUnscheduled ==
  ASSUME HeldInv, NEW r \in Requests
  PROVE  /\ batch[r] # <<>> => pc[r] = "inBatch"
         /\ pc[r] \in {"idle", "queued", "processing", "done", "failed"} =>
              r \notin Scheduled(microtasks) /\ switching[r] = "none" /\ batch[r] = <<>>
         /\ pc[r] \in {"settled", "resumed"} => switching[r] = "none" /\ batch[r] = <<>>
<1>1. TypeOK /\ WaitersApart /\ LeadersLead /\ SwitchesAwaited /\ TasksAwaited
  BY DEF HeldInv, CountInv, Held
<1>2. batch[r] # <<>> => pc[r] = "inBatch"
  <2> SUFFICES ASSUME batch[r] # <<>> PROVE pc[r] = "inBatch" OBVIOUS
  <2>1. batch[r] \in Seq(Requests) BY <1>1 DEF TypeOK
  <2>2. 1 \in DOMAIN batch[r] BY <2>1, EmptySeq
  <2> QED BY <1>1, <2>2 DEF WaitersApart, LeadersLead
<1> QED BY <1>1, <1>2 DEF SwitchesAwaited, TasksAwaited

\* What a call of switchNetworkIfNecessary queues or leaves open.
LEMMA SwitchSchedules ==
  ASSUME TypeOK, NEW r \in Requests, NEW o, NEW tasks \in Seq(Continuation),
         ScheduledOnce(tasks), r \notin Scheduled(tasks), switching[r] = "none",
         switchNetworkIfNecessary(r, o, tasks)
  PROVE  /\ ScheduledOnce(microtasks')
         /\ Scheduled(microtasks') \subseteq Scheduled(tasks) \cup {r}
         /\ Scheduled(tasks) \subseteq Scheduled(microtasks')
         /\ \A s \in Requests : s # r => switching'[s] = switching[s]
         /\ switching'[r] # "none" => r \notin Scheduled(microtasks')
<1>1. CASE microtasks' = Append(tasks, Continue(r, FALSE)) /\ UNCHANGED switching
  BY <1>1, ScheduledAppend
<1>2. CASE /\ microtasks' = tasks
           /\ \E how \in {"ok", "error"} : switching' = [switching EXCEPT ![r] = how]
  BY <1>2 DEF TypeOK
<1> QED BY <1>1, <1>2 DEF switchNetworkIfNecessary

\* A request moves that has no switch, leads nobody and does not wait before or after.
LEMMA OneMovesHeld ==
  ASSUME HeldInv, NEW r \in Requests, pc[r] \notin {"queued", "inBatch"},
         pc[r] = "switching" => r \in Scheduled(microtasks),
         NEW p \in {"processing", "settled", "done", "failed"},
         pc' = [pc EXCEPT ![r] = p],
         UNCHANGED <<requestQueue, batch, switching>>,
         Scheduled(microtasks') = IF p = "settled" THEN Scheduled(microtasks) \cup {r}
                                                    ELSE Scheduled(microtasks) \ {r},
         ScheduledOnce(microtasks')
  PROVE  Held'
<1>1. TypeOK /\ WaitersHeld /\ LeadersLead /\ SwitchesAwaited /\ TasksAwaited
  BY DEF HeldInv, CountInv, Held
<1>2. \A s \in Requests : pc'[s] = IF s = r THEN p ELSE pc[s] BY <1>1 DEF TypeOK
<1>3. switching[r] = "none" /\ batch[r] = <<>>
  BY <1>1, WaitersUnscheduled DEF TypeOK, SwitchesAwaited, Positions
<1>4. Scheduled(microtasks) \subseteq Requests BY <1>1, MicrotaskRequests DEF Scheduled
<1>5. WaitersHeld' BY <1>1, <1>2 DEF WaitersHeld
<1>6. LeadersLead' BY <1>1 DEF LeadersLead
<1>7. SwitchesAwaited' BY <1>1, <1>2, <1>3 DEF SwitchesAwaited
<1>8. TasksAwaited' BY <1>1, <1>2, <1>4 DEF TasksAwaited
<1> QED BY <1>5, <1>6, <1>7, <1>8 DEF Held

LEMMA HeldNextBatch ==
  ASSUME HeldInv, NEW r \in Requests, pc[r] \notin {"queued", "inBatch"},
         r \in Scheduled(microtasks), NEW p \in {"done", "failed"},
         NEW tasks \in Seq(Continuation), ScheduledOnce(tasks),
         Scheduled(tasks) = Scheduled(microtasks) \ {r},
         processNextBatch([pc EXCEPT ![r] = p], tasks)
  PROVE  Held'
<1> DEFINE first == requestQueue[1]
           m == Len(requestQueue)
<1>1. /\ TypeOK /\ WaitersApart /\ WaitersHeld /\ LeadersLead /\ SwitchesAwaited /\ TasksAwaited
      /\ requestQueue \in Seq(Requests) /\ m \in Nat
      /\ \A i \in 1..m : requestQueue[i] \in Requests /\ pc[requestQueue[i]] = "queued"
      /\ \A s \in Requests : \A i \in DOMAIN batch[s] : batch[s][i] \in Requests
  BY DEF HeldInv, CountInv, Held, TypeOK, WaitersApart
<1>2. PICK n \in 1..m :
        /\ requestQueue' = SubSeq(requestQueue, n + 1, m)
        /\ batch' = [batch EXCEPT ![first] = SubSeq(requestQueue, 1, n)]
        /\ pc' = [s \in Requests |->
                    IF \E i \in 1..n : requestQueue[i] = s
                    THEN "inBatch" ELSE [pc EXCEPT ![r] = p][s]]
        /\ switchNetworkIfNecessary(first, OriginOf[first], tasks) BY DEF processNextBatch
<1>3. n \in Nat /\ 1 <= n /\ n <= m /\ first \in Requests /\ pc[first] = "queued" BY <1>1
<1>4. /\ DOMAIN batch'[first] = 1..n
      /\ \A i \in 1..n : batch'[first][i] = requestQueue[i]
      /\ \A s \in Requests : s # first => batch'[s] = batch[s]
      /\ DOMAIN requestQueue' = 1..(m - n)
      /\ \A i \in 1..(m - n) : requestQueue'[i] = requestQueue[n + i]
  BY <1>1, FirstAndRest, <1>2, <1>3 DEF TypeOK
<1>5. \A s \in Requests :
        pc'[s] = IF \E i \in 1..n : requestQueue[i] = s THEN "inBatch"
                 ELSE IF s = r THEN p ELSE pc[s] BY <1>1, <1>2 DEF TypeOK
<1>6. first \notin Scheduled(microtasks) /\ switching[first] = "none" /\ batch[first] = <<>>
  BY <1>3, WaitersUnscheduled
<1>7. /\ ScheduledOnce(microtasks')
      /\ Scheduled(microtasks') \subseteq Scheduled(tasks) \cup {first}
      /\ Scheduled(tasks) \subseteq Scheduled(microtasks')
      /\ \A s \in Requests : s # first => switching'[s] = switching[s]
      /\ switching'[first] # "none" => first \notin Scheduled(microtasks')
  BY <1>1, <1>2, <1>3, <1>6, SwitchSchedules
<1>8. Scheduled(microtasks) \subseteq Requests BY <1>1, MicrotaskRequests DEF Scheduled
<1>9. \A s \in Requests : (\E i \in 1..n : requestQueue[i] = s) => pc[s] = "queued" BY <1>1, <1>3
<1>10. batch'[first] # <<>> BY <1>3, <1>4
<1> HIDE DEF first, m
<1>11. ASSUME NEW s \in Requests, pc'[s] = "queued"
       PROVE  \E i \in DOMAIN requestQueue' : requestQueue'[i] = s
  <2>1. pc[s] = "queued" /\ ~ \E i \in 1..n : requestQueue[i] = s BY <1>5, <1>11
  <2>2. DOMAIN requestQueue = 1..m BY <1>1 DEF m
  <2>3. PICK i \in 1..m : requestQueue[i] = s BY <1>1, <2>1, <2>2 DEF WaitersHeld
  <2>4. i - n \in 1..(m - n) /\ n + (i - n) = i BY <1>1, <1>3, <2>1, <2>3
  <2>5. requestQueue'[i - n] = s BY <1>4, <2>3, <2>4
  <2> QED BY <1>4, <2>4, <2>5
<1>12. ASSUME NEW s \in Requests, pc'[s] = "inBatch"
       PROVE  \E lead \in Requests : \E i \in DOMAIN batch'[lead] : batch'[lead][i] = s
  <2>1. CASE \E i \in 1..n : requestQueue[i] = s BY <1>3, <1>4, <2>1
  <2>2. CASE pc[s] = "inBatch"
    <3>1. PICK lead \in Requests : \E i \in DOMAIN batch[lead] : batch[lead][i] = s
      BY <1>1, <2>2 DEF WaitersHeld
    <3>2. CASE lead = first BY <1>6, <3>2, <3>1
    <3>3. CASE lead # first BY <1>4, <3>1, <3>3
    <3> QED BY <3>2, <3>3
  <2> QED BY <1>5, <1>12, <2>1, <2>2
<1>13. ASSUME NEW s \in Requests, pc'[s] = "resumed" PROVE s \in Scheduled(microtasks')
  BY <1>5, <1>13, <1>1, <1>7 DEF WaitersHeld
<1>14. WaitersHeld' BY <1>11, <1>12, <1>13 DEF WaitersHeld
<1>15. LeadersLead'
  <2>1. batch'[first][1] = first BY <1>3, <1>4 DEF first
  <2> QED BY <1>1, <1>4, <2>1 DEF LeadersLead
<1>16. SwitchesAwaited'
  <2> SUFFICES ASSUME NEW s \in Requests, switching'[s] # "none"
               PROVE  /\ pc'[s] = "switching" \/ batch'[s] # <<>>
                      /\ s \notin Scheduled(microtasks') BY DEF SwitchesAwaited
  <2>1. CASE s = first BY <1>7, <1>10, <2>1
  <2>2. CASE s # first BY <1>1, <1>7, <2>2, <1>5, <1>9, <1>4 DEF SwitchesAwaited
  <2> QED BY <2>1, <2>2
<1>17. TasksAwaited'
  <2> SUFFICES ASSUME NEW s \in Scheduled(microtasks')
               PROVE  \/ pc'[s] \in {"switching", "settled", "resumed"}
                      \/ pc'[s] = "inBatch" /\ batch'[s] # <<>> BY <1>7 DEF TasksAwaited
  <2>1. CASE s = first BY <1>3, <1>5, <1>10, <2>1 DEF first
  <2>2. CASE s # first BY <1>7, <1>8, <2>2, <1>1, <1>5, <1>9, <1>4 DEF TasksAwaited
  <2> QED BY <2>1, <2>2
<1> QED BY <1>14, <1>15, <1>16, <1>17 DEF Held

LEMMA HeldLeave ==
  ASSUME HeldInv, microtasks # <<>>, NEW r \in Requests, r = Head(microtasks).req,
         pc[r] \notin {"queued", "inBatch"}, NEW p \in {"done", "failed"},
         NEW count, leave(count, [pc EXCEPT ![r] = p], Tail(microtasks))
  PROVE  Held'
BY ScheduledTail, HeadType, HeldNextBatch, OneMovesHeld DEF HeldInv, CountInv, Held, TasksAwaited, leave,
   endBatch

LEMMA HeldResumeCall ==
  ASSUME HeldInv, NEW p \in {"switching", "resumed"}, resumeCall(p)
  PROVE  Held'
<1> DEFINE r == Head(microtasks).req
<1>1. TypeOK /\ ScheduledOnce(microtasks) /\ microtasks # <<>> /\ r \in Requests /\ pc[r] = p
  BY HeadType DEF HeldInv, CountInv, Held, TasksAwaited, resumeCall, AtHead
<1>2. /\ r \in Scheduled(microtasks)
      /\ Scheduled(Tail(microtasks)) = Scheduled(microtasks) \ {r}
      /\ ScheduledOnce(Tail(microtasks)) BY <1>1, ScheduledTail
<1>3. CASE enter(r, Tail(microtasks)) BY <1>3, <1>1, <1>2, OneMovesHeld DEF enter
<1>4. CASE leave(processingRequestCount, [pc EXCEPT ![r] = "failed"], Tail(microtasks))
  BY <1>1, <1>4, HeldLeave
<1> QED BY <1>3, <1>4 DEF resumeCall

LEMMA HeldResumeSettled ==
  ASSUME HeldInv, resumeSettled
  PROVE  Held'
<1> DEFINE r == Head(microtasks).req
<1>1. TypeOK /\ microtasks # <<>> /\ r \in Requests /\ pc[r] = "settled"
  BY HeadType DEF HeldInv, CountInv, resumeSettled, AtHead
<1> QED BY <1>1, HeldLeave DEF resumeSettled

LEMMA HeldEnqueue ==
  ASSUME HeldInv, NEW r \in Requests, enqueueRequest(r)
  PROVE  Held'
<1>1. /\ TypeOK /\ WaitersHeld /\ LeadersLead /\ SwitchesAwaited /\ TasksAwaited
      /\ pc[r] = "idle" /\ batch' = batch BY DEF HeldInv, CountInv, Held, enqueueRequest
<1>2. r \notin Scheduled(microtasks) /\ switching[r] = "none" /\ batch[r] = <<>>
  BY <1>1, WaitersUnscheduled
<1>3. LeadersLead' BY <1>1 DEF LeadersLead
<1>4. Scheduled(microtasks) \subseteq Requests BY <1>1, MicrotaskRequests DEF Scheduled
<1>5. CASE /\ requestQueue' = Append(requestQueue, r)
           /\ pc' = [pc EXCEPT ![r] = "queued"]
           /\ UNCHANGED <<switching, microtasks>>
  <2>1. \A s \in Requests : pc'[s] = IF s = r THEN "queued" ELSE pc[s] BY <1>1, <1>5 DEF TypeOK
  <2>2. /\ DOMAIN requestQueue = 1..Len(requestQueue) /\ Len(requestQueue) \in Nat
        /\ DOMAIN requestQueue' = 1..(Len(requestQueue) + 1)
        /\ requestQueue'[Len(requestQueue) + 1] = r
        /\ \A i \in 1..Len(requestQueue) : requestQueue'[i] = requestQueue[i]
    BY <1>1, <1>5 DEF TypeOK
  <2>3. WaitersHeld' BY <2>2, <1>1, <2>1, <1>5 DEF WaitersHeld
  <2>4. SwitchesAwaited' BY <1>1, <1>2, <1>5, <2>1 DEF SwitchesAwaited
  <2>5. TasksAwaited' BY <1>1, <1>2, <1>4, <1>5, <2>1 DEF TasksAwaited
  <2> QED BY <1>3, <2>3, <2>4, <2>5 DEF Held
<1>6. CASE /\ pc' = [pc EXCEPT ![r] = "switching"]
           /\ switchNetworkIfNecessary(r, OriginOf[r], microtasks)
           /\ UNCHANGED requestQueue
  BY <1>1, <1>6, <1>2, SwitchSchedules, <1>4, <1>3 DEF TypeOK, TasksAwaited, WaitersHeld, SwitchesAwaited,
     Held
<1>7. CASE /\ pc' = [pc EXCEPT ![r] = "processing"]
           /\ UNCHANGED <<requestQueue, switching, microtasks>>
  BY <1>1, <1>2, <1>7, OneMovesHeld DEF TasksAwaited
<1> QED BY <1>5, <1>6, <1>7 DEF enqueueRequest

LEMMA HeldSwitchSettles ==
  ASSUME HeldInv, NEW r \in Requests, switchSettles(r)
  PROVE  Held'
<1>1. /\ TypeOK /\ WaitersHeld /\ LeadersLead /\ SwitchesAwaited /\ TasksAwaited
      /\ switching[r] # "none"
      /\ UNCHANGED <<pc, batch, requestQueue>>
      /\ microtasks' = Append(microtasks, Continue(r, switching[r] = "error"))
      /\ switching' = [switching EXCEPT ![r] = "none"]
  BY DEF HeldInv, CountInv, Held, switchSettles, queueVars
<1>2. /\ pc[r] = "switching" \/ batch[r] # <<>>
      /\ r \notin Scheduled(microtasks)
      /\ batch[r] # <<>> => pc[r] = "inBatch" BY <1>1, WaitersUnscheduled DEF SwitchesAwaited
<1>3. Scheduled(microtasks') = Scheduled(microtasks) \cup {r} /\ ScheduledOnce(microtasks')
  BY <1>1, <1>2, ScheduledAppend DEF TypeOK, TasksAwaited
<1>4. \A s \in Requests : switching'[s] = IF s = r THEN "none" ELSE switching[s] BY <1>1 DEF TypeOK
<1>5. WaitersHeld' /\ LeadersLead' BY <1>1, <1>3 DEF WaitersHeld, LeadersLead
<1>6. SwitchesAwaited' BY <1>1, <1>3, <1>4 DEF SwitchesAwaited
<1>7. TasksAwaited' BY <1>1, <1>2, <1>3 DEF TasksAwaited
<1> QED BY <1>5, <1>6, <1>7 DEF Held

LEMMA HeldNextSettles ==
  ASSUME HeldInv, NEW r \in Requests, requestNextSettles(r)
  PROVE  Held'
BY WaitersUnscheduled, ScheduledAppend, OneMovesHeld DEF HeldInv, CountInv, Held, requestNextSettles,
   queueVars, TypeOK, TasksAwaited

LEMMA HeldResumeBatch ==
  ASSUME HeldInv, resumeBatch
  PROVE  Held'
<1> DEFINE first == Head(microtasks).req
           members == batch[first]
           joined == {members[i] : i \in DOMAIN members}
<1>1. /\ TypeOK /\ WaitersApart /\ WaitersHeld /\ LeadersLead /\ SwitchesAwaited /\ TasksAwaited
      /\ microtasks # <<>> /\ first \in Requests /\ pc[first] = "inBatch"
      /\ Head(microtasks).error \in BOOLEAN /\ Tail(microtasks) \in Seq(Continuation)
  BY HeadType DEF HeldInv, CountInv, Held, resumeBatch, AtHead
<1>2. /\ microtasks' = Tail(microtasks) \o resumptions(members, Head(microtasks).error)
      /\ pc' = [r \in Requests |->
                  IF \E i \in DOMAIN members : members[i] = r THEN "resumed" ELSE pc[r]]
      /\ batch' = [batch EXCEPT ![first] = <<>>]
      /\ UNCHANGED <<requestQueue, switching>> BY DEF resumeBatch
<1>3. /\ first \in Scheduled(microtasks)
      /\ Scheduled(Tail(microtasks)) = Scheduled(microtasks) \ {first}
      /\ ScheduledOnce(Tail(microtasks))
      /\ Scheduled(microtasks) \subseteq Requests
  BY <1>1, ScheduledTail, MicrotaskRequests DEF TasksAwaited, Scheduled
<1>4. /\ members \in Seq(Requests)
      /\ \A i, j \in DOMAIN members : members[i] = members[j] => i = j
      /\ \A i \in DOMAIN members : pc[members[i]] = "inBatch" BY <1>1 DEF TypeOK, WaitersApart
<1>5. /\ resumptions(members, Head(microtasks).error) \in Seq(Continuation)
      /\ Scheduled(resumptions(members, Head(microtasks).error)) = joined
      /\ ScheduledOnce(resumptions(members, Head(microtasks).error))
  BY <1>1, <1>4, ScheduledAll DEF resumptions
<1>6. members # <<>> /\ joined \subseteq Requests BY <1>1, <1>3, <1>4 DEF TasksAwaited
<1>7. first \in joined BY <1>1, <1>6, <1>4, EmptySeq DEF LeadersLead
<1>8. \A s \in Requests : s \in joined /\ batch[s] # <<>> => s = first
  <2> SUFFICES ASSUME NEW s \in Requests, NEW i \in DOMAIN members, members[i] = s,
                      batch[s] # <<>>
               PROVE  s = first OBVIOUS
  <2>1. batch[s] \in Seq(Requests) BY <1>1 DEF TypeOK
  <2>2. 1 \in DOMAIN batch[s] /\ batch[s][1] = s BY <1>1, <2>1, EmptySeq DEF LeadersLead
  <2>3. batch[s][1] = batch[first][i] BY <2>2
  <2> QED BY <1>1, <2>2, <2>3 DEF WaitersApart
<1>9. /\ \A s \in Requests : pc'[s] = IF s \in joined THEN "resumed" ELSE pc[s]
      /\ \A s \in Requests : s \in joined => pc[s] = "inBatch"
      /\ \A s \in Requests : batch'[s] = IF s = first THEN <<>> ELSE batch[s]
  BY <1>1, <1>2, <1>4 DEF TypeOK
<1>10. \A s \in Requests : pc[s] = "inBatch" /\ s \notin joined =>
         \E lead \in Requests \ {first} : \E i \in DOMAIN batch[lead] : batch[lead][i] = s
  BY <1>1 DEF WaitersHeld
<1> HIDE DEF joined, members, first
<1>11. Scheduled(Tail(microtasks)) \cap joined = {}
  <2> SUFFICES ASSUME NEW s \in Scheduled(microtasks), s # first, s \in joined PROVE FALSE BY <1>3
  <2>1. s \in Requests /\ pc[s] = "inBatch" /\ batch[s] # <<>> BY <1>1, <1>3, <1>9 DEF TasksAwaited
  <2> QED BY <1>8, <2>1
<1>12. /\ Scheduled(microtasks') = (Scheduled(microtasks) \ {first}) \cup joined
       /\ ScheduledOnce(microtasks') BY <1>1, <1>2, <1>3, <1>5, <1>11, ScheduledConcat
<1>13. WaitersHeld'
  <2>1. \A s \in Requests :
          pc'[s] = "queued" => \E i \in DOMAIN requestQueue' : requestQueue'[i] = s
    BY <1>1, <1>2, <1>9 DEF WaitersHeld
  <2>2. ASSUME NEW s \in Requests, pc'[s] = "inBatch"
        PROVE  \E lead \in Requests : \E i \in DOMAIN batch'[lead] : batch'[lead][i] = s
    BY <1>9, <1>10, <2>2
  <2>3. ASSUME NEW s \in Requests, pc'[s] = "resumed" PROVE s \in Scheduled(microtasks')
    BY <1>1, <1>9, <1>12, <2>3 DEF WaitersHeld
  <2> QED BY <2>1, <2>2, <2>3 DEF WaitersHeld
<1>14. LeadersLead' BY <1>1, <1>9 DEF LeadersLead
<1>15. SwitchesAwaited'
  <2> SUFFICES ASSUME NEW s \in Requests, switching[s] # "none"
               PROVE  (pc'[s] = "switching" \/ batch'[s] # <<>>) /\ s \notin Scheduled(microtasks')
    BY <1>2 DEF SwitchesAwaited
  <2>1. (pc[s] = "switching" \/ batch[s] # <<>>) /\ s \notin Scheduled(microtasks)
    BY <1>1 DEF SwitchesAwaited
  <2>2. s # first /\ s \notin joined BY <1>3, <1>8, <1>9, <2>1
  <2> QED BY <1>9, <1>12, <2>1, <2>2
<1>16. TasksAwaited'
  <2> SUFFICES ASSUME NEW s \in Scheduled(microtasks')
               PROVE  \/ pc'[s] \in {"switching", "settled", "resumed"}
                      \/ pc'[s] = "inBatch" /\ batch'[s] # <<>> BY <1>12 DEF TasksAwaited
  <2>1. CASE s \in joined BY <1>6, <1>9, <2>1
  <2>2. CASE s \notin joined BY <1>3, <1>12, <2>2, <1>1, <1>9 DEF TasksAwaited
  <2> QED BY <2>1, <2>2
<1> QED BY <1>13, <1>14, <1>15, <1>16 DEF Held

LEMMA HeldDomainChanges ==
  ASSUME HeldInv, NEW o \in Origins, NEW network \in Networks \cup {NoNetwork},
         domainChanges(o, network)
  PROVE  Held'
<1> DEFINE n == Len(requestQueue)
           q == Pick(requestQueue, kept(o))
           rejected == Pick(requestQueue, flushedPositions(o))
           gone == {requestQueue[i] : i \in flushedPositions(o)}
<1>1. /\ TypeOK /\ WaitersApart /\ WaitersHeld /\ LeadersLead /\ SwitchesAwaited /\ TasksAwaited
      /\ requestQueue \in Seq(Requests) /\ n \in Nat /\ DOMAIN requestQueue = 1..n
      /\ microtasks \in Seq(Continuation) BY DEF HeldInv, CountInv, Held, TypeOK
<1>2. /\ requestQueue' = q
      /\ microtasks' = microtasks \o [i \in DOMAIN rejected |-> Continue(rejected[i], TRUE)]
      /\ pc' = [r \in Requests |->
                  IF \E i \in flushedPositions(o) : requestQueue[i] = r
                  THEN "resumed" ELSE pc[r]]
      /\ UNCHANGED <<batch, switching>> BY DEF domainChanges, flushQueueForOrigin
<1>3. /\ kept(o) \in SUBSET (1..n) /\ flushedPositions(o) \in SUBSET (1..n)
      /\ \A i \in 1..n : i \in kept(o) \/ i \in flushedPositions(o)
  BY <1>1 DEF kept, flushedPositions
<1>4. /\ \A i \in 1..n : requestQueue[i] \in Requests /\ pc[requestQueue[i]] = "queued"
      /\ \A i, j \in 1..n : requestQueue[i] = requestQueue[j] => i = j BY <1>1 DEF WaitersApart
<1>5. /\ q \in Seq(Requests) /\ Len(q) = Cardinality(kept(o))
      /\ \A k \in 1..Len(q) : Place(kept(o), k) \in kept(o) /\ q[k] = requestQueue[Place(kept(o), k)]
  BY <1>1, <1>3, PickIsSeq
<1>6. /\ rejected \in Seq(Requests) /\ Len(rejected) = Cardinality(flushedPositions(o))
      /\ \A k \in 1..Len(rejected) :
            /\ Place(flushedPositions(o), k) \in flushedPositions(o)
            /\ rejected[k] = requestQueue[Place(flushedPositions(o), k)] BY <1>1, <1>3, PickIsSeq
<1>7. gone \subseteq Requests /\ \A s \in gone : pc[s] = "queued" BY <1>3, <1>4
<1>8. \A s \in Requests : pc'[s] = IF s \in gone THEN "resumed" ELSE pc[s] BY <1>2
<1> HIDE DEF q, rejected
<1>9. DOMAIN q = 1..Len(q) /\ DOMAIN rejected = 1..Len(rejected) BY <1>5, <1>6
<1>10. \A i, j \in DOMAIN rejected : rejected[i] = rejected[j] => i = j
  <2> SUFFICES ASSUME NEW i \in 1..Len(rejected), NEW j \in 1..Len(rejected),
                      rejected[i] = rejected[j]
               PROVE  i = j BY <1>9
  <2>1. Place(flushedPositions(o), i) = Place(flushedPositions(o), j) BY <1>3, <1>4, <1>6
  <2> QED BY <1>1, <1>3, <1>6, <2>1, PlaceInjective
<1>11. {rejected[i] : i \in DOMAIN rejected} = gone
  <2>1. \A k \in 1..Len(rejected) : rejected[k] \in gone BY <1>6
  <2>2. ASSUME NEW i \in flushedPositions(o)
        PROVE  \E k \in 1..Len(rejected) : rejected[k] = requestQueue[i]
    <3>1. /\ Rank(flushedPositions(o), i) \in 1..Len(rejected)
          /\ Place(flushedPositions(o), Rank(flushedPositions(o), i)) = i
      BY <1>1, <1>3, <1>6, PlaceCovers
    <3> QED BY <1>6, <3>1
  <2> QED BY <1>9, <2>1, <2>2
<1> DEFINE rejections == [i \in DOMAIN rejected |-> Continue(rejected[i], TRUE)]
<1>12. /\ rejections \in Seq(Continuation)
       /\ Scheduled(rejections) = gone
       /\ ScheduledOnce(rejections) BY <1>6, <1>10, <1>11, ScheduledAll
<1>13. Scheduled(microtasks) \cap gone = {} /\ ScheduledOnce(microtasks)
  BY <1>1, <1>7 DEF TasksAwaited
<1>14. microtasks' = microtasks \o rejections BY <1>2
<1> HIDE DEF gone, rejections
<1>15. Scheduled(microtasks') = Scheduled(microtasks) \cup gone /\ ScheduledOnce(microtasks')
  BY <1>1, <1>12, <1>13, <1>14, ScheduledConcat
<1>16. Scheduled(microtasks) \subseteq Requests BY <1>1, MicrotaskRequests DEF Scheduled
<1>17. ASSUME NEW s \in Requests, pc'[s] = "queued"
       PROVE  \E k \in DOMAIN requestQueue' : requestQueue'[k] = s
  <2>1. s \notin gone /\ pc[s] = "queued" BY <1>8, <1>17
  <2>2. PICK i \in 1..n : requestQueue[i] = s BY <1>1, <2>1 DEF WaitersHeld
  <2>3. i \in kept(o) BY <1>3, <2>1, <2>2 DEF gone
  <2>4. Rank(kept(o), i) \in 1..Len(q) /\ Place(kept(o), Rank(kept(o), i)) = i
    BY <1>1, <1>3, <1>5, <2>3, PlaceCovers
  <2>5. q[Rank(kept(o), i)] = s BY <1>5, <2>2, <2>4
  <2> QED BY <1>2, <1>9, <2>4, <2>5
<1>18. WaitersHeld'
  <2>1. \A s \in Requests :
          pc'[s] = "inBatch" =>
            \E first \in Requests : \E i \in DOMAIN batch'[first] : batch'[first][i] = s
    BY <1>1, <1>2, <1>8 DEF WaitersHeld
  <2>2. \A s \in Requests : pc'[s] = "resumed" => s \in Scheduled(microtasks')
    BY <1>1, <1>8, <1>15 DEF WaitersHeld
  <2> QED BY <1>17, <2>1, <2>2 DEF WaitersHeld
<1>19. LeadersLead' BY <1>1, <1>2 DEF LeadersLead
<1>20. SwitchesAwaited'
  <2> SUFFICES ASSUME NEW s \in Requests, switching[s] # "none"
               PROVE  (pc'[s] = "switching" \/ batch[s] # <<>>) /\ s \notin Scheduled(microtasks')
    BY <1>2 DEF SwitchesAwaited
  <2>1. s \notin gone BY <1>7, WaitersUnscheduled
  <2> QED BY <1>1, <1>8, <1>15, <2>1 DEF SwitchesAwaited
<1>21. TasksAwaited' BY <1>1, <1>2, <1>7, <1>8, <1>15, <1>16 DEF TasksAwaited
<1> QED BY <1>18, <1>19, <1>20, <1>21 DEF Held

LEMMA InitHeld == ConstantsAssumption /\ Init => HeldInv
<1> SUFFICES ASSUME ConstantsAssumption, Init PROVE HeldInv OBVIOUS
<1>1. CountInv BY InitCount
<1>2. Scheduled(microtasks) = {} /\ ScheduledOnce(microtasks) BY DEF Init, Scheduled, ScheduledOnce
<1>3. Held BY <1>2 DEF Init, Held, WaitersHeld, LeadersLead, SwitchesAwaited, TasksAwaited
<1> QED BY <1>1, <1>3 DEF HeldInv

LEMMA StepHeld == ConstantsAssumption /\ HeldInv /\ [Next]_vars => HeldInv'
<1> SUFFICES ASSUME ConstantsAssumption, HeldInv, [Next]_vars PROVE HeldInv' OBVIOUS
<1>1. CountInv' BY StepCount DEF HeldInv
<1>2. ASSUME UNCHANGED <<requestQueue, batch, pc, switching, microtasks>> PROVE Held'
  BY <1>2 DEF HeldInv, Held, WaitersHeld, LeadersLead, SwitchesAwaited, TasksAwaited, Scheduled, ScheduledOnce
<1>3. ASSUME NEW network \in Networks, userSwitchesNetwork(network) PROVE Held'
  BY <1>2, <1>3 DEF userSwitchesNetwork, queueVars
<1>4. ASSUME UNCHANGED vars PROVE Held' BY <1>2, <1>4 DEF vars, queueVars
<1>5. Held'
  BY <1>3, <1>4, HeldEnqueue, HeldSwitchSettles, HeldNextSettles, HeldResumeCall, HeldResumeSettled,
     HeldResumeBatch, HeldDomainChanges DEF Next, runMicrotask, resumeSwitched, resumeDequeued
<1> QED BY <1>1, <1>5 DEF HeldInv

\* What holds a request is one thing, or nothing.
LEMMA HeldSuffices == HeldInv => WaitersHeldOnce
<1> SUFFICES ASSUME HeldInv, NEW r \in Requests
             PROVE  Cardinality(Holders(r)) =
                      IF pc[r] \in {"queued", "inBatch", "resumed"} THEN 1 ELSE 0
  BY DEF WaitersHeldOnce
<1> DEFINE inQueue == {<<"queue", i>> : i \in {k \in DOMAIN requestQueue : requestQueue[k] = r}}
           inBatches == UNION {{<<"batch", first, i>> :
                                  i \in {k \in DOMAIN batch[first] : batch[first][k] = r}}
                                 : first \in Requests}
           asTask == {<<"microtask", i>> : i \in {k \in DOMAIN microtasks :
                                              microtasks[k].req = r /\ pc[r] = "resumed"}}
<1>1. Holders(r) = inQueue \cup inBatches \cup asTask BY DEF Holders
<1>2. TypeOK /\ WaitersApart /\ WaitersHeld /\ TasksAwaited BY DEF HeldInv, CountInv, Held
<1>3. pc[r] # "queued" => inQueue = {} BY <1>2 DEF WaitersApart
<1>4. pc[r] # "inBatch" => inBatches = {} BY <1>2 DEF WaitersApart
<1>5. pc[r] # "resumed" => asTask = {} OBVIOUS
<1>6. pc[r] = "queued" => \E h : inQueue = {h}
  <2> SUFFICES ASSUME pc[r] = "queued" PROVE \E h : inQueue = {h} OBVIOUS
  <2>1. PICK i \in DOMAIN requestQueue : requestQueue[i] = r BY <1>2 DEF WaitersHeld
  <2>2. {k \in DOMAIN requestQueue : requestQueue[k] = r} = {i} BY <1>2, <2>1 DEF WaitersApart
  <2>3. inQueue = {<<"queue", i>>} BY <2>2
  <2> QED BY <2>3
<1>7. pc[r] = "inBatch" => \E h : inBatches = {h}
  <2> SUFFICES ASSUME pc[r] = "inBatch" PROVE \E h : inBatches = {h} OBVIOUS
  <2>1. PICK lead \in Requests : \E i \in DOMAIN batch[lead] : batch[lead][i] = r
    BY <1>2 DEF WaitersHeld
  <2>2. PICK i \in DOMAIN batch[lead] : batch[lead][i] = r BY <2>1
  <2>3. \A first \in Requests : \A k \in DOMAIN batch[first] :
          batch[first][k] = r => first = lead /\ k = i BY <1>2, <2>2 DEF WaitersApart
  <2>4. inBatches = {<<"batch", lead, i>>}
    <3>1. <<"batch", lead, i>> \in inBatches BY <2>2
    <3>2. ASSUME NEW h \in inBatches PROVE h = <<"batch", lead, i>> BY <3>2, <2>3
    <3> HIDE DEF inBatches
    <3> QED BY <3>1, <3>2
  <2> QED BY <2>4
<1>8. pc[r] = "resumed" => \E h : asTask = {h}
  <2> SUFFICES ASSUME pc[r] = "resumed" PROVE \E h : asTask = {h} OBVIOUS
  <2>1. PICK i \in DOMAIN microtasks : microtasks[i].req = r BY <1>2 DEF WaitersHeld, Scheduled
  <2>2. {k \in DOMAIN microtasks : microtasks[k].req = r /\ pc[r] = "resumed"} = {i}
    BY <1>2, <2>1 DEF TasksAwaited, ScheduledOnce
  <2>3. asTask = {<<"microtask", i>>} BY <2>2
  <2> QED BY <2>3
<1> HIDE DEF inQueue, inBatches, asTask
<1>9. CASE pc[r] \in {"queued", "inBatch", "resumed"}
  BY <1>1, <1>3, <1>4, <1>5, <1>6, <1>7, <1>8, <1>9, FS_Singleton
<1>10. CASE pc[r] \notin {"queued", "inBatch", "resumed"}
  BY <1>1, <1>3, <1>4, <1>5, <1>10, FS_EmptySet
<1> QED BY <1>9, <1>10

(***************************************************************************)
(* A request that waits to be dequeued is held exactly once, in the queue, *)
(* in a batch or by its continuation, and one that does not wait is held   *)
(* nowhere, for any requests and dapps, whatever fails, is flushed, or     *)
(* switches for itself (enqueueRequest, #processNextBatch,                 *)
(* #flushQueueForOrigin).                                                  *)
(***************************************************************************)
THEOREM WaitersAlwaysHeldOnce == Spec => []WaitersHeldOnce
  BY ConstantsAssumption, InitHeld, StepHeld, HeldSuffices, PTL DEF Spec

-----------------------------------------------------------------------------
(***************************************************************************)
(* Refinement.  The queue is the end of what has arrived: whoever has been *)
(* let in, or is over, came before everyone who still waits in it.         *)
(***************************************************************************)
Over == {r \in Requests : pc[r] \in {"done", "failed"}}

ArrivalsInOrder ==
  /\ \A i, j \in DOMAIN arrivals : arrivals[i] = arrivals[j] => i = j
  /\ \A r \in Requests : pc[r] # "idle" <=> \E i \in DOMAIN arrivals : arrivals[i] = r
  /\ Len(requestQueue) <= Len(arrivals)
  /\ \A i \in DOMAIN requestQueue :
       arrivals[Len(arrivals) - Len(requestQueue) + i] = requestQueue[i]

RefinementInv == IsolationInv /\ HeldInv /\ ArrivalsInOrder

LEMMA SequenceFacts ==
  ASSUME TypeOK
  PROVE  /\ Len(arrivals) \in Nat /\ DOMAIN arrivals = 1..Len(arrivals)
         /\ \A i \in DOMAIN arrivals : arrivals[i] \in Requests
         /\ Len(requestQueue) \in Nat /\ DOMAIN requestQueue = 1..Len(requestQueue)
         /\ \A i \in DOMAIN requestQueue : requestQueue[i] \in Requests
  BY DEF TypeOK

\* Who leaves the queue leaves it at its front.
LEMMA QueueShrinks ==
  ASSUME TypeOK, ArrivalsInOrder, UNCHANGED arrivals,
         \A s \in Requests : pc'[s] = "idle" <=> pc[s] = "idle",
         NEW n \in 1..Len(requestQueue),
         requestQueue' = SubSeq(requestQueue, n + 1, Len(requestQueue))
  PROVE  ArrivalsInOrder'
<1> DEFINE m == Len(requestQueue)
           k == Len(arrivals)
<1>1. /\ k \in Nat /\ m \in Nat /\ m <= k /\ n \in Nat /\ n <= m
      /\ DOMAIN requestQueue = 1..m
      /\ requestQueue \in Seq(Requests)
      /\ \A i \in 1..m : arrivals[k - m + i] = requestQueue[i]
  <2>1. /\ k \in Nat /\ m \in Nat /\ DOMAIN requestQueue = 1..m
        /\ requestQueue \in Seq(Requests) BY SequenceFacts DEF TypeOK
  <2>2. n \in Nat /\ n <= m BY <2>1
  <2> QED BY <2>1, <2>2 DEF ArrivalsInOrder
<1>2. /\ DOMAIN requestQueue' = 1..(m - n)
      /\ \A i \in 1..(m - n) : requestQueue'[i] = requestQueue[n + i] BY <1>1, FirstAndRest
<1>3. Len(requestQueue') = m - n
  <2>1. requestQueue' \in Seq(Requests) BY <1>1
  <2>2. Len(requestQueue') \in Nat /\ DOMAIN requestQueue' = 1..Len(requestQueue') BY <2>1
  <2> HIDE DEF m
  <2> QED BY <1>1, <1>2, <2>2
<1> HIDE DEF m, k
<1>4. ASSUME NEW i \in 1..(m - n) PROVE arrivals'[k - (m - n) + i] = requestQueue'[i]
  <2>1. n + i \in 1..m /\ k - (m - n) + i = k - m + (n + i) BY <1>1
  <2> QED BY <1>1, <1>2, <2>1
<1>5. m - n <= k BY <1>1
<1> QED BY <1>2, <1>3, <1>4, <1>5 DEF ArrivalsInOrder, k

\* Nobody comes, and nobody leaves the queue.
LEMMA QueueStays ==
  ASSUME ArrivalsInOrder, UNCHANGED <<arrivals, requestQueue>>,
         \A s \in Requests : pc'[s] = "idle" <=> pc[s] = "idle"
  PROVE  ArrivalsInOrder'
  BY DEF ArrivalsInOrder

\* A request comes, and is queued or finds the queue empty.
LEMMA OneArrives ==
  ASSUME TypeOK, ArrivalsInOrder, NEW r \in Requests, pc[r] = "idle",
         arrivals' = Append(arrivals, r),
         \A s \in Requests : pc'[s] = "idle" <=> pc[s] = "idle" /\ s # r,
         \/ requestQueue' = Append(requestQueue, r)
         \/ requestQueue = <<>> /\ requestQueue' = <<>>
  PROVE  ArrivalsInOrder'
<1> DEFINE m == Len(requestQueue)
           k == Len(arrivals)
<1>1. /\ k \in Nat /\ m \in Nat /\ m <= k
      /\ DOMAIN arrivals = 1..k /\ DOMAIN requestQueue = 1..m
      /\ \A i \in 1..k : arrivals[i] \in Requests
      /\ \A i \in 1..m : arrivals[k - m + i] = requestQueue[i]
      /\ \A i, j \in 1..k : arrivals[i] = arrivals[j] => i = j
      /\ \A s \in Requests : pc[s] # "idle" <=> \E i \in 1..k : arrivals[i] = s
  BY SequenceFacts DEF ArrivalsInOrder
<1>2. /\ DOMAIN arrivals' = 1..(k + 1) /\ Len(arrivals') = k + 1
      /\ arrivals'[k + 1] = r
      /\ \A i \in 1..k : arrivals'[i] = arrivals[i]
  BY DEF TypeOK
<1>3. /\ Len(requestQueue') <= Len(arrivals')
      /\ \A i \in DOMAIN requestQueue' :
           arrivals'[Len(arrivals') - Len(requestQueue') + i] = requestQueue'[i]
  <2>1. CASE requestQueue' = Append(requestQueue, r)
    <3>1. /\ DOMAIN requestQueue' = 1..(m + 1) /\ Len(requestQueue') = m + 1
          /\ requestQueue'[m + 1] = r
          /\ \A i \in 1..m : requestQueue'[i] = requestQueue[i]
      BY <2>1 DEF TypeOK
    <3> HIDE DEF m, k
    <3>2. ASSUME NEW i \in 1..(m + 1) PROVE arrivals'[(k + 1) - (m + 1) + i] = requestQueue'[i]
      <4>1. CASE i \in 1..m
        <5>1. k - m + i \in 1..k /\ (k + 1) - (m + 1) + i = k - m + i
          BY <1>1, <4>1
        <5> QED BY <1>1, <1>2, <3>1, <4>1, <5>1
      <4>2. CASE i = m + 1
        <5>1. (k + 1) - (m + 1) + i = k + 1
          BY <1>1, <4>2
        <5> QED BY <1>2, <3>1, <4>2, <5>1
      <4>3. m \in Nat
        BY <1>1
      <4>4. i \in 1..m \/ i = m + 1
        BY <4>3
      <4> QED BY <4>1, <4>2, <4>4
    <3>3. m + 1 <= k + 1
      BY <1>1
    <3>4. Len(arrivals') = k + 1 /\ Len(requestQueue') = m + 1 /\ DOMAIN requestQueue' = 1..(m + 1)
      BY <1>2, <3>1
    <3> QED BY <3>2, <3>3, <3>4
  <2>2. CASE requestQueue' = <<>>
    <3>1. DOMAIN requestQueue' = {} /\ Len(requestQueue') = 0
      BY <2>2
    <3> HIDE DEF m, k
    <3> QED BY <1>1, <1>2, <3>1
  <2> QED BY <2>1, <2>2
<1> HIDE DEF m, k
<1>4. \A i \in 1..(k + 1) : i \in 1..k \/ i = k + 1
  BY <1>1
<1>5. 1..k \subseteq 1..(k + 1) /\ k + 1 \in 1..(k + 1)
  BY <1>1
<1>6. \A i \in 1..k : arrivals[i] # r
  BY <1>1
<1>7. \A i, j \in 1..(k + 1) : arrivals'[i] = arrivals'[j] => i = j
  BY <1>1, <1>2, <1>4, <1>6
<1>8. \A s \in Requests : pc'[s] # "idle" <=> \E i \in 1..(k + 1) : arrivals'[i] = s
  BY <1>1, <1>2, <1>4, <1>5
<1> QED BY <1>2, <1>3, <1>7, <1>8 DEF ArrivalsInOrder

\* Nothing waits in the queue when a request need not be queued.
LEMMA EmptyUnlessQueued ==
  ASSUME TypeOK, QueueIsCounted, NEW r, ~mustQueue(r)
  PROVE  requestQueue = <<>>
  BY DEF TypeOK, QueueIsCounted, mustQueue

\* Undisturbed, a call is resumed without an error, and goes on.
LEMMA ResumedEnters ==
  ASSUME IsolationInv, resumeDequeued
  PROVE  /\ Head(microtasks).req \in Requests /\ pc[Head(microtasks).req] = "resumed"
         /\ enter(Head(microtasks).req, Tail(microtasks))
BY HeadType, TailFacts DEF IsolationInv, CountInv, resumeDequeued, resumeCall, AtHead, MicrotasksInOrder

LEMMA LeaveArrivals ==
  ASSUME TypeOK, WaitersApart, ArrivalsInOrder, NEW r \in Requests, pc[r] # "idle",
         NEW count, NEW tasks, leave(count, [pc EXCEPT ![r] = "done"], tasks)
  PROVE  ArrivalsInOrder'
<1>1. UNCHANGED arrivals BY DEF leave
<1>2. \A s \in Requests : [pc EXCEPT ![r] = "done"][s] = IF s = r THEN "done" ELSE pc[s]
  BY DEF TypeOK
<1>3. CASE processNextBatch([pc EXCEPT ![r] = "done"], tasks)
  <2>1. PICK n \in 1..Len(requestQueue) :
          /\ requestQueue' = SubSeq(requestQueue, n + 1, Len(requestQueue))
          /\ pc' = [s \in Requests |->
                      IF \E i \in 1..n : requestQueue[i] = s
                      THEN "inBatch" ELSE [pc EXCEPT ![r] = "done"][s]] BY <1>3 DEF processNextBatch
  <2>2. \A i \in 1..n : pc[requestQueue[i]] = "queued" BY SequenceFacts DEF WaitersApart
  <2>3. \A s \in Requests : pc'[s] = "idle" <=> pc[s] = "idle" BY <1>2, <2>1, <2>2
  <2> QED BY <1>1, <2>1, <2>3, QueueShrinks
<1>4. CASE ~processNextBatch([pc EXCEPT ![r] = "done"], tasks)
  <2>1. pc' = [pc EXCEPT ![r] = "done"] /\ UNCHANGED requestQueue BY <1>4 DEF leave, endBatch
  <2>2. \A s \in Requests : pc'[s] = "idle" <=> pc[s] = "idle" BY <1>2, <2>1
  <2> QED BY <1>1, <2>1, <2>2, QueueStays
<1> QED BY <1>3, <1>4

LEMMA StepArrivals ==
  ASSUME ConstantsAssumption, Undisturbed, RefinementInv, [Next]_vars
  PROVE  ArrivalsInOrder'
<1>1. TypeOK /\ WaitersApart /\ QueueIsCounted /\ NothingFails /\ ArrivalsInOrder
  BY DEF RefinementInv, IsolationInv, CountInv
<1>2. ASSUME NEW r \in Requests, enqueueRequest(r) PROVE ArrivalsInOrder'
  BY <1>2, <1>1, EmptyUnlessQueued, OneArrives DEF enqueueRequest, Undisturbed, TypeOK
<1>3. ASSUME NEW r \in Requests, switchSettles(r) PROVE ArrivalsInOrder'
  BY <1>1, <1>3, QueueStays DEF switchSettles, queueVars
<1>4. ASSUME NEW r \in Requests, requestNextSettles(r) PROVE ArrivalsInOrder'
  BY <1>4, <1>1, QueueStays DEF requestNextSettles, queueVars, TypeOK
<1>5. ASSUME resumeSwitched PROVE FALSE
  BY <1>1, <1>5, HeadType DEF resumeSwitched, resumeCall, AtHead, NothingFails
<1>6. ASSUME resumeDequeued PROVE ArrivalsInOrder'
  BY <1>6, ResumedEnters, <1>1, QueueStays DEF RefinementInv, enter, TypeOK
<1>7. ASSUME resumeSettled PROVE ArrivalsInOrder'
  BY <1>1, <1>7, HeadType, LeaveArrivals DEF resumeSettled, AtHead
<1>8. ASSUME resumeBatch PROVE ArrivalsInOrder'
  <2> DEFINE members == batch[Head(microtasks).req]
  <2>1. /\ pc' = [s \in Requests |->
                    IF \E i \in DOMAIN members : members[i] = s THEN "resumed" ELSE pc[s]]
        /\ UNCHANGED <<arrivals, requestQueue>> BY <1>8 DEF resumeBatch
  <2>2. Head(microtasks).req \in Requests BY <1>1, <1>8, HeadType DEF resumeBatch, AtHead
  <2>3. \A i \in DOMAIN members : pc[members[i]] = "inBatch" BY <1>1, <2>2 DEF WaitersApart
  <2>4. \A s \in Requests : pc'[s] = "idle" <=> pc[s] = "idle" BY <2>1, <2>3
  <2> QED BY <1>1, <2>1, <2>4, QueueStays
<1>9. ASSUME NEW o \in Origins, NEW network \in Networks \cup {NoNetwork}, domainChanges(o, network)
      PROVE  FALSE BY <1>9 DEF Undisturbed, domainChanges
<1>10. ASSUME NEW network \in Networks, userSwitchesNetwork(network) PROVE ArrivalsInOrder'
  BY <1>1, <1>10, QueueStays DEF userSwitchesNetwork, queueVars
<1>11. CASE UNCHANGED vars BY <1>1, <1>11, QueueStays DEF vars, queueVars
<1> QED BY <1>2, <1>3, <1>4, <1>5, <1>6, <1>7, <1>8, <1>9, <1>10, <1>11 DEF Next, runMicrotask

LEMMA InitRefinement == ConstantsAssumption /\ Undisturbed /\ Init => RefinementInv
<1> SUFFICES ASSUME ConstantsAssumption, Undisturbed, Init PROVE RefinementInv OBVIOUS
<1>1. IsolationInv /\ HeldInv BY InitIsolation, InitHeld
<1>2. ArrivalsInOrder BY DEF Init, ArrivalsInOrder
<1> QED BY <1>1, <1>2 DEF RefinementInv

LEMMA StepRefinement ==
  ConstantsAssumption /\ Undisturbed /\ RefinementInv /\ [Next]_vars => RefinementInv'
<1> SUFFICES ASSUME ConstantsAssumption, Undisturbed, RefinementInv, [Next]_vars
             PROVE  RefinementInv' OBVIOUS
<1>1. IsolationInv' /\ HeldInv' BY StepIsolation, StepHeld DEF RefinementInv
<1> QED BY <1>1, StepArrivals DEF RefinementInv

\* Whoever came before a request that has been let in is over, or of its origin.
LEMMA EarlierAreOver ==
  ASSUME RefinementInv, NEW r \in Requests,
         pc[r] \in {"inBatch", "resumed", "processing", "settled"}
  PROVE  Batches!EarlierStrangers(r) \subseteq Over
<1> DEFINE m == Len(requestQueue)
           k == Len(arrivals)
<1>1. /\ TypeOK /\ OneOrigin /\ NothingFails /\ WaitersHeld /\ WaitersApart
      /\ k \in Nat /\ m \in Nat /\ m <= k
      /\ DOMAIN arrivals = 1..k /\ DOMAIN requestQueue = 1..m
      /\ \A i \in 1..k : arrivals[i] \in Requests
      /\ \A i \in 1..m : arrivals[k - m + i] = requestQueue[i] /\ pc[requestQueue[i]] = "queued"
      /\ \A i, j \in 1..k : arrivals[i] = arrivals[j] => i = j
      /\ \A s \in Requests : pc[s] # "idle" <=> \E i \in 1..k : arrivals[i] = s
  BY SequenceFacts DEF RefinementInv, IsolationInv, HeldInv, Held, CountInv, ArrivalsInOrder, WaitersApart
<1> HIDE DEF m, k
<1> SUFFICES ASSUME NEW e \in 1..k, OriginOf[arrivals[e]] # OriginOf[r],
                    \A j \in 1..e : arrivals[j] # r
             PROVE  arrivals[e] \in Over BY <1>1 DEF Batches!EarlierStrangers
<1>2. arrivals[e] \in Requests /\ pc[arrivals[e]] # "idle" BY <1>1
<1>3. pc[arrivals[e]] \notin {"inBatch", "resumed", "processing", "settled"}
  BY <1>1, <1>2 DEF OneOrigin
<1>4. pc[arrivals[e]] # "queued"
  <2> SUFFICES ASSUME pc[arrivals[e]] = "queued" PROVE FALSE OBVIOUS
  <2>1. PICK i \in 1..m : requestQueue[i] = arrivals[e] BY <1>1, <1>2 DEF WaitersHeld
  <2>2. k - m + i \in 1..k /\ arrivals[k - m + i] = arrivals[e] BY <1>1, <2>1
  <2>3. e = k - m + i BY <1>1, <2>2
  <2>4. PICK l \in 1..k : arrivals[l] = r BY <1>1
  <2>5. l > e BY <1>1, <2>4
  <2>6. l - k + m \in 1..m /\ k - m + (l - k + m) = l BY <1>1, <2>3, <2>5
  <2>7. arrivals[k - m + (l - k + m)] = requestQueue[l - k + m]
        /\ pc[requestQueue[l - k + m]] = "queued" BY <1>1, <2>6
  <2>8. pc[r] = "queued" BY <2>4, <2>6, <2>7
  <2> QED BY <2>8
<1>5. pc[arrivals[e]] \in Positions BY <1>1, <1>2 DEF TypeOK
<1> QED BY <1>1, <1>2, <1>3, <1>4, <1>5 DEF Over, Positions, NothingFails

LEMMA RefineEnqueue ==
  ASSUME ConstantsAssumption, Undisturbed, RefinementInv, NEW r \in Requests, enqueueRequest(r)
  PROVE  Batches!Arrive(r) \/ Batches!ArriveAndStart(r)
<1>1. /\ TypeOK /\ OneOrigin /\ NothingFails /\ WaitersHeld /\ QueueIsCounted /\ ArrivalsInOrder
      /\ pc[r] = "idle" /\ arrivals' = Append(arrivals, r)
  BY DEF RefinementInv, IsolationInv, HeldInv, Held, CountInv, enqueueRequest
<1>2. /\ \A i \in DOMAIN arrivals : arrivals[i] \in Requests /\ pc[arrivals[i]] # "idle"
      /\ r \notin Batches!Arrived BY <1>1, SequenceFacts DEF ArrivalsInOrder, Batches!Arrived
<1>3. CASE pc' = [pc EXCEPT ![r] = "queued"]
  BY <1>1, <1>3, <1>2 DEF TypeOK, Active, Over, Batches!Arrive
<1>4. CASE ~mustQueue(r) /\ pc' = [pc EXCEPT ![r] = "processing"]
  <2>1. \A s \in Requests : pc'[s] = IF s = r THEN "processing" ELSE pc[s] BY <1>1, <1>4 DEF TypeOK
  <2>2. Active' = Active \cup {r} /\ Over' = Over BY <1>1, <2>1 DEF Active, Over
  <2>3. \A s \in Requests : pc[s] # "queued" BY <1>1, <1>4, EmptyUnlessQueued DEF WaitersHeld
  <2>4. ASSUME NEW s \in Requests, pc[s] \in {"inBatch", "resumed", "processing", "settled"}
        PROVE  OriginOf[s] = OriginOf[r]
    BY <1>1, <2>4, <1>4 DEF OneOrigin, ConstantsAssumption, mustQueue, currentOrigin
  <2>5. \A s \in Active : OriginOf[s] = OriginOf[r] BY <2>4 DEF Active
  <2>6. ASSUME NEW i \in DOMAIN arrivals, OriginOf[arrivals[i]] # OriginOf[r]
        PROVE  arrivals[i] \in Over
    BY <1>1, <1>2, <2>3, <2>4, <2>6 DEF TypeOK, Over, Positions, NothingFails
  <2> QED BY <1>1, <1>2, <2>2, <2>5, <2>6 DEF Batches!ArriveAndStart, Over
<1> QED BY <1>3, <1>4 DEF enqueueRequest, Undisturbed

LEMMA RefineResumeDequeued ==
  ASSUME ConstantsAssumption, RefinementInv, resumeDequeued
  PROVE  Batches!Start(Head(microtasks).req)
<1> DEFINE r == Head(microtasks).req
<1>1. TypeOK /\ OneOrigin /\ ArrivalsInOrder /\ r \in Requests /\ pc[r] = "resumed"
  BY ResumedEnters DEF RefinementInv, IsolationInv, CountInv
<1>2. pc' = [pc EXCEPT ![r] = "processing"] /\ UNCHANGED arrivals
  BY ResumedEnters DEF RefinementInv, enter
<1> HIDE DEF r
<1>3. \A s \in Requests : pc'[s] = IF s = r THEN "processing" ELSE pc[s] BY <1>1, <1>2 DEF TypeOK
<1>4. Active' = Active \cup {r} /\ Over' = Over BY <1>1, <1>3 DEF Active, Over
<1>5. r \in Batches!Arrived \ (Active \cup Over)
  BY <1>1 DEF ArrivalsInOrder, Batches!Arrived, Active, Over
<1>6. \A s \in Active : OriginOf[s] = OriginOf[r] BY <1>1 DEF OneOrigin, Active
<1>7. Batches!EarlierStrangers(r) \subseteq Over BY <1>1, EarlierAreOver
<1>8. Batches!Start(r) BY <1>2, <1>4, <1>5, <1>6, <1>7 DEF Batches!Start, Over
<1> QED BY <1>8 DEF r

LEMMA RefineResumeSettled ==
  ASSUME ConstantsAssumption, RefinementInv, resumeSettled
  PROVE  \E r \in Requests : Batches!Finish(r)
<1> DEFINE r == Head(microtasks).req
           position == [pc EXCEPT ![r] = "done"]
<1>1. TypeOK /\ WaitersApart /\ r \in Requests /\ pc[r] = "settled"
  BY HeadType DEF RefinementInv, IsolationInv, CountInv, resumeSettled, AtHead
<1>2. leave(processingRequestCount - 1, position, Tail(microtasks)) /\ UNCHANGED arrivals
  BY DEF resumeSettled, leave
<1>3. KeepsWaiters(position) /\ ActiveAt(position) = Active \ {r} BY <1>1, OneMoves DEF Positions
<1>4. Active' = Active \ {r} BY <1>1, <1>2, <1>3, LeaveWaiters
<1>5. \A s \in Requests : position[s] = IF s = r THEN "done" ELSE pc[s] BY <1>1 DEF TypeOK
<1>6. \A s \in Requests : pc'[s] = position[s] \/ (pc'[s] = "inBatch" /\ pc[s] = "queued")
  <2>1. CASE processNextBatch(position, Tail(microtasks))
    <3>1. PICK n \in 1..Len(requestQueue) :
            pc' = [s \in Requests |->
                     IF \E i \in 1..n : requestQueue[i] = s THEN "inBatch" ELSE position[s]]
      BY <2>1 DEF processNextBatch
    <3>2. \A i \in 1..n : pc[requestQueue[i]] = "queued" BY <1>1, SequenceFacts DEF WaitersApart
    <3> HIDE DEF position
    <3> QED BY <3>1, <3>2
  <2>2. CASE ~processNextBatch(position, Tail(microtasks)) BY <1>2, <2>2 DEF leave, endBatch
  <2> QED BY <2>1, <2>2
<1> HIDE DEF position, r
<1>7. Over' = Over \cup {r} BY <1>1, <1>5, <1>6 DEF Over
<1>8. r \in Active BY <1>1 DEF Active
<1>9. UNCHANGED arrivals /\ r \in Requests BY <1>1, <1>2
<1> QED BY <1>4, <1>7, <1>8, <1>9 DEF Batches!Finish, Over

LEMMA StepRefines ==
  ASSUME ConstantsAssumption, Undisturbed, RefinementInv, [Next]_vars
  PROVE  [Batches!Next]_(Batches!vars)
<1>1. TypeOK /\ WaitersApart /\ NothingFails BY DEF RefinementInv, IsolationInv, CountInv
<1>2. ASSUME UNCHANGED arrivals,
             \A s \in Requests : /\ pc'[s] \in {"processing", "settled"}
                                      <=> pc[s] \in {"processing", "settled"}
                                 /\ pc'[s] \in {"done", "failed"} <=> pc[s] \in {"done", "failed"}
      PROVE  UNCHANGED Batches!vars BY <1>2 DEF Active, Over, Batches!vars
<1>3. ASSUME NEW r \in Requests, enqueueRequest(r) PROVE Batches!Next
  BY <1>3, RefineEnqueue DEF Batches!Next
<1>4. ASSUME NEW r \in Requests, switchSettles(r) PROVE UNCHANGED Batches!vars
  BY <1>2, <1>4 DEF switchSettles, queueVars
<1>5. ASSUME NEW r \in Requests, requestNextSettles(r) PROVE UNCHANGED Batches!vars
  BY <1>1, <1>5, <1>2 DEF requestNextSettles, TypeOK
<1>6. ASSUME resumeSwitched PROVE FALSE
  BY <1>1, <1>6, HeadType DEF resumeSwitched, resumeCall, AtHead, NothingFails
<1>7. ASSUME resumeDequeued PROVE Batches!Next
  BY <1>7, ResumedEnters, RefineResumeDequeued DEF RefinementInv, Batches!Next
<1>8. ASSUME resumeSettled PROVE Batches!Next BY <1>8, RefineResumeSettled DEF Batches!Next
<1>9. ASSUME resumeBatch PROVE UNCHANGED Batches!vars
  <2> DEFINE members == batch[Head(microtasks).req]
  <2>1. /\ pc' = [s \in Requests |->
                    IF \E i \in DOMAIN members : members[i] = s THEN "resumed" ELSE pc[s]]
        /\ UNCHANGED arrivals BY <1>9 DEF resumeBatch
  <2>2. Head(microtasks).req \in Requests BY <1>1, <1>9, HeadType DEF resumeBatch, AtHead
  <2>3. \A i \in DOMAIN members : pc[members[i]] = "inBatch" BY <1>1, <2>2 DEF WaitersApart
  <2> HIDE DEF members
  <2> QED BY <1>2, <2>1, <2>3
<1>10. ASSUME NEW o \in Origins, NEW network \in Networks \cup {NoNetwork}, domainChanges(o, network)
       PROVE  FALSE BY <1>10 DEF Undisturbed, domainChanges
<1>11. ASSUME NEW network \in Networks, userSwitchesNetwork(network) PROVE UNCHANGED Batches!vars
  BY <1>2, <1>11 DEF userSwitchesNetwork
<1>12. CASE UNCHANGED vars BY <1>2, <1>12 DEF vars
<1> QED BY <1>3, <1>4, <1>5, <1>6, <1>7, <1>8, <1>9, <1>10, <1>11, <1>12 DEF Next, runMicrotask

(***************************************************************************)
(* Undisturbed, the queue implements RequestBatches: seen by their arrival,*)
(* their time inside requestNext and their end, requests of two dapps are  *)
(* never in progress together, and none starts before the requests of      *)
(* other dapps that came earlier are over, whatever the user selects.      *)
(***************************************************************************)
THEOREM UndisturbedRefinement == ASSUME Undisturbed PROVE Spec => ImplementsBatches
<1>1. Init => RefinementInv /\ Batches!Init
  BY ConstantsAssumption, InitRefinement DEF Init, Batches!Init, Active
<1>2. RefinementInv /\ [Next]_vars => RefinementInv' /\ [Batches!Next]_(Batches!vars)
  BY ConstantsAssumption, StepRefinement, StepRefines
<1> QED BY <1>1, <1>2, PTL DEF Spec, ImplementsBatches, Batches!Spec

-----------------------------------------------------------------------------
(***************************************************************************)
(* Networks.  If the user does not select another one either, who is in a  *)
(* batch or is resumed finds the network of its dapp selected.             *)
(***************************************************************************)
OwnNetwork ==
  \A r \in Requests :
    pc[r] \in {"inBatch", "resumed"} =>
      selectedNetworkClientId = getNetworkClientIdForDomain(OriginOf[r])

NetworkInv == IsolationInv /\ OwnNetwork

\* The next batch finds its network selected, or selects it.
LEMMA NextBatchSelects ==
  ASSUME ConstantsAssumption, Undisturbed, NetworkInv, resumeSettled,
         processingRequestCount - 1 = 0,
         processNextBatch([pc EXCEPT ![Head(microtasks).req] = "done"], Tail(microtasks))
  PROVE  OwnNetwork'
<1> DEFINE position == [pc EXCEPT ![Head(microtasks).req] = "done"]
<1>1. TypeOK /\ UNCHANGED domains BY DEF NetworkInv, IsolationInv, CountInv, resumeSettled, leave
<1>2. \A s \in Requests : position[s] \notin {"inBatch", "resumed"} BY LastOneLeaves DEF NetworkInv
<1>3. PICK n \in 1..Len(requestQueue) :
        /\ IsNextBatch(n)
        /\ pc' = [s \in Requests |->
                    IF \E i \in 1..n : requestQueue[i] = s THEN "inBatch" ELSE position[s]]
        /\ switchNetworkIfNecessary(requestQueue[1], OriginOf[requestQueue[1]], Tail(microtasks))
  BY DEF processNextBatch
<1> HIDE DEF position
<1>0. PICK o : o = OriginOf[requestQueue[1]] OBVIOUS
<1>4. \A s \in Requests : pc'[s] \in {"inBatch", "resumed"} => OriginOf[s] = o
  BY <1>0, <1>2, <1>3 DEF IsNextBatch
<1>5. selectedNetworkClientId' = getNetworkClientIdForDomain(o)'
  BY <1>0, <1>3, <1>1 DEF switchNetworkIfNecessary, Undisturbed, getNetworkClientIdForDomain
<1> QED BY <1>4, <1>5 DEF OwnNetwork

LEMMA StepNetwork ==
  ASSUME ConstantsAssumption, Undisturbed, UserMaySwitch = FALSE, NetworkInv, [Next]_vars
  PROVE  OwnNetwork'
<1>1. TypeOK /\ WaitersApart /\ NothingFails /\ OwnNetwork /\ IsolationInv
  BY DEF NetworkInv, IsolationInv, CountInv
\* Nothing is selected, and nobody enters a batch.
<1>2. ASSUME UNCHANGED <<domains, selectedNetworkClientId>>,
             \A s \in Requests : pc'[s] \in {"inBatch", "resumed"} => pc[s] \in {"inBatch", "resumed"}
      PROVE  OwnNetwork' BY <1>1, <1>2 DEF OwnNetwork, getNetworkClientIdForDomain
<1>3. ASSUME NEW r \in Requests, enqueueRequest(r) PROVE OwnNetwork'
  BY <1>3, <1>1, <1>2 DEF enqueueRequest, Undisturbed, TypeOK
<1>4. ASSUME NEW r \in Requests, switchSettles(r) PROVE OwnNetwork'
  BY <1>2, <1>4 DEF switchSettles, networkVars
<1>5. ASSUME NEW r \in Requests, requestNextSettles(r) PROVE OwnNetwork'
  BY <1>5, <1>1, <1>2 DEF requestNextSettles, networkVars, TypeOK
<1>6. ASSUME resumeSwitched PROVE FALSE
  BY <1>1, <1>6, HeadType DEF resumeSwitched, resumeCall, AtHead, NothingFails
<1>7. ASSUME resumeDequeued PROVE OwnNetwork'
  BY <1>1, <1>7, ResumedEnters, <1>2 DEF enter, networkVars, TypeOK
<1>8. ASSUME resumeSettled PROVE OwnNetwork'
  <2> DEFINE position == [pc EXCEPT ![Head(microtasks).req] = "done"]
  <2>1. leave(processingRequestCount - 1, position, Tail(microtasks)) BY <1>8 DEF resumeSettled
  <2>2. CASE processingRequestCount - 1 = 0 /\ processNextBatch(position, Tail(microtasks))
    BY <1>8, <2>2, NextBatchSelects
  <2>3. CASE pc' = position /\ UNCHANGED selectedNetworkClientId
    BY <2>1, <1>1, <1>2, <2>3 DEF leave, TypeOK
  <2> QED BY <2>1, <2>2, <2>3 DEF leave, batchIsOver, endBatch
<1>9. ASSUME resumeBatch PROVE OwnNetwork'
  <2> DEFINE members == batch[Head(microtasks).req]
  <2>1. /\ pc' = [s \in Requests |->
                    IF \E i \in DOMAIN members : members[i] = s THEN "resumed" ELSE pc[s]]
        /\ UNCHANGED <<domains, selectedNetworkClientId>> BY <1>9 DEF resumeBatch, networkVars
  <2>2. Head(microtasks).req \in Requests BY <1>1, <1>9, HeadType DEF resumeBatch, AtHead
  <2>3. \A i \in DOMAIN members : pc[members[i]] = "inBatch" BY <1>1, <2>2 DEF WaitersApart
  <2> HIDE DEF members
  <2> QED BY <1>2, <2>1, <2>3
<1>10. ASSUME NEW o \in Origins, NEW network \in Networks \cup {NoNetwork}, domainChanges(o, network)
       PROVE  FALSE BY <1>10 DEF Undisturbed, domainChanges
<1>11. ASSUME NEW network \in Networks, userSwitchesNetwork(network) PROVE FALSE
  BY <1>11 DEF userSwitchesNetwork
<1>12. CASE UNCHANGED vars BY <1>2, <1>12 DEF vars, networkVars
<1> QED BY <1>3, <1>4, <1>5, <1>6, <1>7, <1>8, <1>9, <1>10, <1>11, <1>12 DEF Next, runMicrotask

\* A request is handed on where its network was selected, and selects none.
LEMMA StepHandsOn ==
  ASSUME ConstantsAssumption, Undisturbed, UserMaySwitch = FALSE, NetworkInv, [Next]_vars,
         NEW r \in Requests, pc'[r] = "processing", pc[r] \in {"resumed", "switching"}
  PROVE  selectedNetworkClientId' = getNetworkClientIdForDomain(OriginOf[r])'
<1>1. TypeOK /\ WaitersApart /\ NothingFails /\ OwnNetwork /\ IsolationInv /\ pc[r] = "resumed"
  BY DEF NetworkInv, IsolationInv, CountInv, NothingFails
<1>2. ASSUME UNCHANGED <<domains, selectedNetworkClientId>>
      PROVE  selectedNetworkClientId' = getNetworkClientIdForDomain(OriginOf[r])'
  BY <1>1, <1>2 DEF OwnNetwork, getNetworkClientIdForDomain
<1>3. ASSUME resumeDequeued PROVE UNCHANGED <<domains, selectedNetworkClientId>>
  BY <1>1, <1>3, ResumedEnters DEF enter, networkVars
<1>4. ASSUME resumeSettled PROVE FALSE
  BY <1>4, <1>1 DEF resumeSettled, AtHead, TypeOK, leave, endBatch, processNextBatch
<1>5. ASSUME NEW s \in Requests, enqueueRequest(s) PROVE FALSE
  BY <1>1, <1>5 DEF enqueueRequest, TypeOK
<1>6. ASSUME NEW s \in Requests, requestNextSettles(s) PROVE FALSE
  BY <1>1, <1>6 DEF requestNextSettles, TypeOK
<1>7. ASSUME resumeSwitched PROVE FALSE
  BY <1>1, <1>7, HeadType DEF resumeSwitched, resumeCall, AtHead, NothingFails
<1>8. ASSUME resumeBatch PROVE FALSE BY <1>1, <1>8 DEF resumeBatch
<1>9. ASSUME NEW o \in Origins, NEW network \in Networks \cup {NoNetwork}, domainChanges(o, network)
      PROVE  FALSE BY <1>9 DEF Undisturbed, domainChanges
<1>10. ASSUME NEW s \in Requests, switchSettles(s) PROVE FALSE BY <1>1, <1>10 DEF switchSettles
<1>11. ASSUME NEW network \in Networks, userSwitchesNetwork(network) PROVE FALSE
  BY <1>11 DEF userSwitchesNetwork
<1>12. CASE UNCHANGED vars BY <1>1, <1>12 DEF vars
<1> QED
  BY <1>2, <1>3, <1>4, <1>5, <1>6, <1>7, <1>8, <1>9, <1>10, <1>11, <1>12 DEF Next, runMicrotask

(***************************************************************************)
(* Undisturbed, and while the user selects no other network, a dequeued    *)
(* request is handed on only while the network of its dapp is selected:    *)
(* "Queuing requests in batches also allows us to ensure the globally      *)
(* selected network matches the dapp-selected network".                    *)
(***************************************************************************)
THEOREM UndisturbedNetwork ==
  ASSUME Undisturbed, UserMaySwitch = FALSE PROVE Spec => HandedOnOnOwnNetwork
<1>1. Init => NetworkInv BY ConstantsAssumption, InitIsolation DEF Init, OwnNetwork, NetworkInv
<1>2. NetworkInv /\ [Next]_vars => NetworkInv'
  <2> SUFFICES ASSUME NetworkInv, [Next]_vars PROVE NetworkInv' OBVIOUS
  <2>1. IsolationInv' BY ConstantsAssumption, StepIsolation DEF NetworkInv
  <2>2. OwnNetwork' BY ConstantsAssumption, StepNetwork
  <2> QED BY <2>1, <2>2 DEF NetworkInv
<1>3. NetworkInv /\ [Next]_vars =>
        [\A r \in Requests :
           /\ pc'[r] = "processing"
           /\ pc[r] = "resumed" \/ pc[r] = "switching"
           => selectedNetworkClientId' = getNetworkClientIdForDomain(OriginOf[r])']_vars
  <2> SUFFICES ASSUME NetworkInv, [Next]_vars,
                      NEW r \in Requests, pc'[r] = "processing", pc[r] \in {"resumed", "switching"}
               PROVE  selectedNetworkClientId' = getNetworkClientIdForDomain(OriginOf[r])' OBVIOUS
  <2> QED BY ConstantsAssumption, StepHandsOn
<1> QED BY <1>1, <1>2, <1>3, PTL DEF Spec, HandedOnOnOwnNetwork
=============================================================================
