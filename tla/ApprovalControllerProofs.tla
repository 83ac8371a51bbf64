------------------------ MODULE ApprovalControllerProofs ------------------------
(***************************************************************************)
(* What the operations of ApprovalController do to its three copies of the *)
(* pending approvals, for any ids, origins and types: whoever uses them    *)
(* keeps the copies in agreement.  TransactionControllerProofs and         *)
(* ConsentsProofs rest on these lemmas.                                    *)
(***************************************************************************)
EXTENDS ApprovalController, FiniteSetTheorems, TLAPS

ApprovalsInv == ApprovalsTypeOK /\ ApprovalsAgree /\ IsFiniteSet(approvals)

\* The pending requests of an origin and a type.
pendingOf(o, t) == {id \in approvals : pendingApprovals[id] = [origin |-> o, type |-> t]}

LEMMA PendingIsFinite ==
  ASSUME ApprovalsInv, NEW o, NEW t
  PROVE  IsFiniteSet(pendingOf(o, t)) /\ Cardinality(pendingOf(o, t)) \in Nat
<1>1. pendingOf(o, t) \in SUBSET approvals /\ IsFiniteSet(approvals)
  BY DEF pendingOf, ApprovalsInv
<1> QED BY <1>1, FS_Subset, FS_CardinalityType

LEMMA CountsAre ==
  ASSUME ApprovalsInv, NEW o \in Origins, NEW t \in Types
  PROVE  countOf(o, t) = Cardinality(pendingOf(o, t))
BY DEF ApprovalsInv, ApprovalsAgree, pendingOf

LEMMA Adding ==
  ASSUME ApprovalsAssumption, ApprovalsInv,
         NEW id \in ApprovalIds \ approvals, NEW approval_ \in Approval, add(id, approval_)
  PROVE  ApprovalsInv'
<1> DEFINE o_ == approval_.origin
           t_ == approval_.type
<1>1. o_ \in Origins /\ t_ \in Types /\ approval_ = [origin |-> o_, type |-> t_]
  BY DEF Approval
<1>2. approval_ # NoApproval
  BY DEF ApprovalsAssumption, Approval
<1>3. \A o \in Origins, t \in Types : countOf(o, t) \in Nat
  BY CountsAre, PendingIsFinite
<1>4. /\ approvals' = approvals \cup {id}
      /\ pendingApprovals' = [pendingApprovals EXCEPT ![id] = approval_]
      /\ origins' = [origins EXCEPT ![o_] = [t \in Types |-> IF t = t_ THEN countOf(o_, t) + 1
                                                              ELSE countOf(o_, t)]]
  BY DEF add
<1>5. [t \in Types |-> IF t = t_ THEN countOf(o_, t) + 1 ELSE countOf(o_, t)] \in [Types -> Nat]
  BY <1>1, <1>3
<1>6. ApprovalsTypeOK'
  BY <1>1, <1>4, <1>5 DEF ApprovalsInv, ApprovalsTypeOK
<1>7. \A o \in Origins, t \in Types :
        countOf(o, t)' = IF o = o_ /\ t = t_ THEN countOf(o, t) + 1 ELSE countOf(o, t)
  <2> TAKE o \in Origins, t \in Types
  <2>1. CASE o = o_
    <3>1. origins'[o] = [u \in Types |-> IF u = t_ THEN countOf(o_, u) + 1 ELSE countOf(o_, u)]
      BY <1>1, <1>4, <2>1 DEF ApprovalsInv, ApprovalsTypeOK
    <3>2. origins'[o] # NoApproval
      BY <3>1, <1>5 DEF ApprovalsAssumption
    <3>3. countOf(o, t)' = origins'[o][t]
      BY <3>2 DEF countOf
    <3> QED BY <3>1, <3>3, <2>1
  <2>2. CASE o # o_
    BY <1>1, <1>4, <2>2 DEF ApprovalsInv, ApprovalsTypeOK, countOf
  <2> QED BY <2>1, <2>2
<1>8. \A o \in Origins, t \in Types :
        pendingOf(o, t)' = IF o = o_ /\ t = t_ THEN pendingOf(o, t) \cup {id} ELSE pendingOf(o, t)
  BY <1>1, <1>4 DEF ApprovalsInv, ApprovalsTypeOK, pendingOf
<1>9. \A o \in Origins, t \in Types : countOf(o, t)' = Cardinality(pendingOf(o, t)')
  <2> TAKE o \in Origins, t \in Types
  <2>1. id \notin pendingOf(o, t)
    BY DEF pendingOf
  <2>2. Cardinality(pendingOf(o, t) \cup {id}) = Cardinality(pendingOf(o, t)) + 1
    BY <2>1, PendingIsFinite, FS_AddElement
  <2> QED BY <1>7, <1>8, <2>2, CountsAre
<1>10. approvals' = {i \in ApprovalIds : pendingApprovals'[i] # NoApproval}
  BY <1>2, <1>4 DEF ApprovalsInv, ApprovalsTypeOK, ApprovalsAgree
<1>11. \A o \in Origins : origins'[o] # NoApproval => \E t \in Types : countOf(o, t)' > 0
  <2> SUFFICES ASSUME NEW o \in Origins, origins'[o] # NoApproval
               PROVE  \E t \in Types : countOf(o, t)' > 0
    OBVIOUS
  <2>1. CASE o = o_
    BY <1>1, <1>3, <1>7, <2>1
  <2>2. CASE o # o_
    BY <1>4, <1>7, <2>2 DEF ApprovalsInv, ApprovalsTypeOK, ApprovalsAgree
  <2> QED BY <2>1, <2>2
<1>12. ApprovalsAgree'
  BY <1>9, <1>10, <1>11 DEF ApprovalsAgree, pendingOf
<1>13. IsFiniteSet(approvals')
  BY <1>4, FS_AddElement DEF ApprovalsInv
<1> QED BY <1>6, <1>12, <1>13 DEF ApprovalsInv

LEMMA Deleting ==
  ASSUME ApprovalsAssumption, ApprovalsInv,
         NEW id, delete(id)
  PROVE  ApprovalsInv'
<1> DEFINE a == pendingApprovals[id]
           o_ == a.origin
           t_ == a.type
<1>1. id \in approvals /\ id \in ApprovalIds /\ a \in Approval
  BY DEF delete, ApprovalsInv, ApprovalsTypeOK, ApprovalsAgree
<1>2. o_ \in Origins /\ t_ \in Types /\ a = [origin |-> o_, type |-> t_]
  BY <1>1 DEF Approval
<1>3. \A o \in Origins, t \in Types : countOf(o, t) \in Nat
  BY CountsAre, PendingIsFinite
<1>4. /\ approvals' = approvals \ {id}
      /\ pendingApprovals' = [pendingApprovals EXCEPT ![id] = NoApproval]
      /\ origins' = removedFromOrigins(a)
  BY DEF delete
<1>5. \A o \in Origins, t \in Types :
        pendingOf(o, t)' = IF o = o_ /\ t = t_ THEN pendingOf(o, t) \ {id} ELSE pendingOf(o, t)
  BY <1>1, <1>2, <1>4 DEF ApprovalsInv, ApprovalsTypeOK, pendingOf
<1>6. id \in pendingOf(o_, t_)
  BY <1>1, <1>2 DEF pendingOf
<1>7. countOf(o_, t_) >= 1 /\ origins[o_] # NoApproval
  <2>1. Cardinality(pendingOf(o_, t_)) # 0
    BY <1>6, PendingIsFinite, FS_EmptySet
  <2>2. countOf(o_, t_) = Cardinality(pendingOf(o_, t_))
    BY <1>2, CountsAre
  <2> QED BY <1>2, <1>3, <2>1, <2>2 DEF countOf
<1>8. origins[o_] \in [Types -> Nat] /\ \A t \in Types : countOf(o_, t) = origins[o_][t]
  BY <1>2, <1>7 DEF ApprovalsInv, ApprovalsTypeOK, countOf
<1>9. /\ origins' \in [Origins -> [Types -> Nat] \cup {NoApproval}]
      /\ \A o \in Origins, t \in Types :
           countOf(o, t)' = IF o = o_ /\ t = t_ THEN countOf(o, t) - 1 ELSE countOf(o, t)
      /\ \A o \in Origins : origins'[o] # NoApproval => \E t \in Types : countOf(o, t)' > 0
  <2>1. CASE IsLastOf(o_)
    <3>1. origins' = [origins EXCEPT ![o_] = NoApproval]
      BY <1>4, <2>1 DEF removedFromOrigins
    <3>2. \A t \in Types : countOf(o_, t) = IF t = t_ THEN 1 ELSE 0
      BY <1>2, <1>7, <2>1 DEF IsLastOf
    <3>3. \A o \in Origins, t \in Types :
            countOf(o, t)' = IF o = o_ /\ t = t_ THEN countOf(o, t) - 1 ELSE countOf(o, t)
      BY <1>2, <3>1, <3>2 DEF ApprovalsInv, ApprovalsTypeOK, countOf
    <3> QED BY <1>2, <3>1, <3>3 DEF ApprovalsInv, ApprovalsTypeOK, ApprovalsAgree
  <2>2. CASE ~IsLastOf(o_)
    <3> DEFINE fewer == [origins[o_] EXCEPT ![t_] = @ - 1]
    <3>1. origins' = [origins EXCEPT ![o_] = fewer]
      BY <1>4, <2>2 DEF removedFromOrigins
    <3>2. fewer \in [Types -> Nat] /\ fewer # NoApproval
      BY <1>2, <1>7, <1>8 DEF ApprovalsAssumption
    <3>3. \A t \in Types : fewer[t] = IF t = t_ THEN countOf(o_, t) - 1 ELSE countOf(o_, t)
      BY <1>2, <1>8
    <3> HIDE DEF fewer
    <3>4. \A o \in Origins, t \in Types :
            countOf(o, t)' = IF o = o_ THEN fewer[t] ELSE countOf(o, t)
      BY <1>2, <3>1, <3>2 DEF ApprovalsInv, ApprovalsTypeOK, countOf
    <3>5. \E t \in Types : fewer[t] > 0
      <4>1. CASE countOf(o_, t_) = 1
        <5>1. PICK u \in Types \ {t_} : countOf(o_, u) # 0
          BY <1>2, <2>2, <4>1 DEF IsLastOf
        <5> QED BY <1>2, <1>3, <3>3, <5>1
      <4>2. CASE countOf(o_, t_) # 1
        BY <1>2, <1>3, <1>7, <3>3, <4>2
      <4> QED BY <4>1, <4>2
    <3>6. \A o \in Origins : origins'[o] # NoApproval => \E t \in Types : countOf(o, t)' > 0
      BY <1>2, <3>1, <3>4, <3>5 DEF ApprovalsInv, ApprovalsTypeOK, ApprovalsAgree
    <3> QED BY <1>2, <3>1, <3>2, <3>3, <3>4, <3>6 DEF ApprovalsInv, ApprovalsTypeOK
  <2> QED BY <2>1, <2>2
<1>10. \A o \in Origins, t \in Types : countOf(o, t)' = Cardinality(pendingOf(o, t)')
  <2> TAKE o \in Origins, t \in Types
  <2>1. Cardinality(pendingOf(o_, t_) \ {id}) = Cardinality(pendingOf(o_, t_)) - 1
    <3>1. IsFiniteSet(pendingOf(o_, t_))
      BY PendingIsFinite
    <3> DEFINE S == pendingOf(o_, t_)
    <3> HIDE DEF S
    <3>2. Cardinality(S \ {id}) = IF id \in S THEN Cardinality(S) - 1 ELSE Cardinality(S)
      BY <3>1, FS_RemoveElement DEF S
    <3> QED BY <1>6, <3>2 DEF S
  <2> QED BY <1>5, <1>9, <2>1, CountsAre
<1>11. approvals' = {i \in ApprovalIds : pendingApprovals'[i] # NoApproval}
  BY <1>1, <1>4 DEF ApprovalsInv, ApprovalsTypeOK, ApprovalsAgree
<1>12. ApprovalsTypeOK'
  BY <1>1, <1>4, <1>9 DEF ApprovalsInv, ApprovalsTypeOK
<1>13. IsFiniteSet(approvals')
  BY <1>4, FS_RemoveElement DEF ApprovalsInv
<1> QED BY <1>9, <1>10, <1>11, <1>12, <1>13 DEF ApprovalsInv, ApprovalsAgree, pendingOf

LEMMA Restored ==
  ASSUME ApprovalsAssumption, NEW ids \in SUBSET ApprovalIds, IsFiniteSet(ids),
         NEW approvalOf \in [ids -> Approval],
         restoredWith(ids, approvalOf)
  PROVE  ApprovalsInv'
<1> DEFINE of(o, t) == {id \in ids : approvalOf[id] = [origin |-> o, type |-> t]}
           count(o, t) == Cardinality(of(o, t))
<1>1. \A o, t : count(o, t) \in Nat
  <2> TAKE o, t
  <2>1. of(o, t) \in SUBSET ids
    OBVIOUS
  <2> HIDE DEF of
  <2> QED BY <2>1, FS_Subset, FS_CardinalityType
<1>2. /\ approvals' = ids
      /\ pendingApprovals' = [id \in ApprovalIds |-> IF id \in ids THEN approvalOf[id] ELSE NoApproval]
      /\ origins' = [o \in Origins |-> IF \A t \in Types : count(o, t) = 0 THEN NoApproval
                                       ELSE [t \in Types |-> count(o, t)]]
  BY DEF restoredWith
<1>3. \A o \in Origins, t \in Types : pendingOf(o, t)' = of(o, t)
  BY <1>2 DEF pendingOf
<1> HIDE DEF count
<1>4. \A o : [t \in Types |-> count(o, t)] \in [Types -> Nat]
  BY <1>1
<1>5. \A o \in Origins, t \in Types : countOf(o, t)' = count(o, t)
  BY <1>2, <1>4 DEF countOf, ApprovalsAssumption
<1>6. \A o \in Origins : origins'[o] # NoApproval => \E t \in Types : countOf(o, t)' > 0
  <2> SUFFICES ASSUME NEW o \in Origins, origins'[o] # NoApproval
               PROVE  \E t \in Types : countOf(o, t)' > 0
    OBVIOUS
  <2>1. PICK t \in Types : count(o, t) # 0
    BY <1>2
  <2>2. count(o, t) > 0
    BY <1>1, <2>1
  <2> QED BY <1>5, <2>2
<1>7. approvals' = {i \in ApprovalIds : pendingApprovals'[i] # NoApproval}
  BY <1>2 DEF ApprovalsAssumption, Approval
<1>8. ApprovalsTypeOK'
  BY <1>2, <1>4 DEF ApprovalsTypeOK
<1>9. \A o \in Origins, t \in Types : countOf(o, t)' = Cardinality(pendingOf(o, t)')
  BY <1>3, <1>5 DEF count
<1> QED BY <1>2, <1>6, <1>7, <1>8, <1>9 DEF ApprovalsInv, ApprovalsAgree, pendingOf

LEMMA Clearing ==
  ASSUME clear
  PROVE  ApprovalsInv'
<1>1. \A o \in Origins, t \in Types : countOf(o, t)' = 0
  BY DEF clear, countOf
<1>2. \A o, t : {id \in approvals' : pendingApprovals'[id] = [origin |-> o, type |-> t]} = {}
  BY DEF clear
<1>3. Cardinality({}) = 0 /\ IsFiniteSet({})
  BY FS_EmptySet
<1> QED BY <1>1, <1>2, <1>3 DEF clear, ApprovalsInv, ApprovalsTypeOK, ApprovalsAgree

LEMMA InitialApprovals == ApprovalsInit => ApprovalsInv
<1> SUFFICES ASSUME ApprovalsInit PROVE ApprovalsInv
  OBVIOUS
<1>1. \A o \in Origins, t \in Types : countOf(o, t) = 0
  BY DEF ApprovalsInit, countOf
<1>2. \A o, t : {id \in approvals : pendingApprovals[id] = [origin |-> o, type |-> t]} = {}
  BY DEF ApprovalsInit
<1>3. Cardinality({}) = 0 /\ IsFiniteSet({})
  BY FS_EmptySet
<1> QED BY <1>1, <1>2, <1>3 DEF ApprovalsInit, ApprovalsInv, ApprovalsTypeOK, ApprovalsAgree
=============================================================================
