-------------------------- MODULE ApprovalController --------------------------
(***************************************************************************)
(* The confirmations the wallet asks its user for (packages/approval-      *)
(* controller).  The controller keeps the same approvals three times: the  *)
(* callbacks of the promises in #approvals, what the user sees in          *)
(* state.pendingApprovals, and the counts of #origins.  The operations     *)
(* below are what `add', `accept', `reject' and `clear' do to them; what   *)
(* the requester does when its promise settles belongs to the requester.   *)
(***************************************************************************)
EXTENDS Integers, FiniteSets

CONSTANTS
  ApprovalIds,   \* the ids of approval requests
  Origins,       \* who asks
  Types,         \* what for
  Unlimited,     \* typesExcludedFromRateLimiting
  NoApproval     \* an id or an origin that is not in its map

ASSUME ApprovalsAssumption ==
  /\ Unlimited \subseteq Types
  /\ NoApproval \notin [origin : Origins, type : Types]
  /\ NoApproval \notin [Types -> Nat]

VARIABLES
  approvals,         \* the keys of #approvals
  pendingApprovals,  \* state.pendingApprovals
  origins            \* #origins

approvalVars == <<approvals, pendingApprovals, origins>>

Approval == [origin : Origins, type : Types]

ApprovalsTypeOK ==
  /\ approvals \in SUBSET ApprovalIds
  /\ pendingApprovals \in [ApprovalIds -> Approval \cup {NoApproval}]
  /\ origins \in [Origins -> [Types -> Nat] \cup {NoApproval}]

ApprovalsInit ==
  /\ approvals = {}
  /\ pendingApprovals = [id \in ApprovalIds |-> NoApproval]
  /\ origins = [o \in Origins |-> NoApproval]

-----------------------------------------------------------------------------

countOf(o, t) == IF origins[o] = NoApproval THEN 0 ELSE origins[o][t]

\* getApprovalCount({ origin }) == 1
IsLastOf(o) ==
  \E t \in Types : countOf(o, t) = 1 /\ \A u \in Types \ {t} : countOf(o, u) = 0

\* `add' goes through: the id is free, and one request per origin and type.
mayAdd(id, o, t) == id \notin approvals /\ (t \in Unlimited \/ countOf(o, t) = 0)

add(id, approval) ==
  /\ approvals' = approvals \cup {id}
  /\ origins' = [origins EXCEPT ![approval.origin] =
                   [t \in Types |-> IF t = approval.type THEN countOf(approval.origin, t) + 1
                                    ELSE countOf(approval.origin, t)]]
  /\ pendingApprovals' = [pendingApprovals EXCEPT ![id] = approval]

\* Fault: an origin is forgotten together with its last request of one type.
removedWithType(approval) ==
  [origins EXCEPT ![approval.origin] =
     IF countOf(approval.origin, approval.type) = 1 THEN NoApproval
     ELSE [origins[approval.origin] EXCEPT ![approval.type] = @ - 1]]

removedFromOrigins(approval) ==
  [origins EXCEPT ![approval.origin] =
     IF IsLastOf(approval.origin) THEN NoApproval
     ELSE [origins[approval.origin] EXCEPT ![approval.type] = @ - 1]]

\* deleteApprovalAndGetCallbacks: `accept' and `reject' throw without callbacks.
delete(id) ==
  /\ id \in approvals
  /\ approvals' = approvals \ {id}
  /\ origins' = removedFromOrigins(pendingApprovals[id])
  /\ pendingApprovals' = [pendingApprovals EXCEPT ![id] = NoApproval]

clear ==
  /\ approvals' = {}
  /\ origins' = [o \in Origins |-> NoApproval]
  /\ pendingApprovals' = [id \in ApprovalIds |-> NoApproval]

\* A new controller, which remembers nothing, and ids are added to it.
restoredWith(ids, approvalOf) ==
  LET count(o, t) == Cardinality({id \in ids : approvalOf[id] = [origin |-> o, type |-> t]})
  IN /\ approvals' = ids
     /\ origins' = [o \in Origins |-> IF \A t \in Types : count(o, t) = 0 THEN NoApproval
                                      ELSE [t \in Types |-> count(o, t)]]
     /\ pendingApprovals' = [id \in ApprovalIds |-> IF id \in ids THEN approvalOf[id]
                                                    ELSE NoApproval]

-----------------------------------------------------------------------------

(***************************************************************************)
(* The three copies agree: the user is shown exactly the requests whose    *)
(* promises can still be settled, and the counts that limit an origin to   *)
(* one request of a type are the numbers of its pending requests.          *)
(***************************************************************************)
ApprovalsAgree ==
  /\ approvals = {id \in ApprovalIds : pendingApprovals[id] # NoApproval}
  /\ \A o \in Origins, t \in Types :
       countOf(o, t) =
         Cardinality({id \in approvals : pendingApprovals[id] = [origin |-> o, type |-> t]})
  /\ \A o \in Origins : origins[o] # NoApproval => \E t \in Types : countOf(o, t) > 0
=============================================================================
