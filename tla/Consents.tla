------------------------------- MODULE Consents -------------------------------
(***************************************************************************)
(* Whom the user is asked for through ApprovalController: dapps that want  *)
(* permissions, signatures and user operations, and the flows and pages of *)
(* the wallet itself.  What they share is the pending approvals, one per   *)
(* id, and one per origin and type where the type is limited; the types    *)
(* differ, so a behaviour is one of one kind of request, and `part' says   *)
(* which.                                                                  *)
(***************************************************************************)
EXTENDS PermissionController, SignatureController, UserOperationController

VARIABLE part

allVars == <<part, approvalFlowVars, permissionVars, messageVars, userOperationVars>>

Init ==
  /\ part \in {"permissions", "flows", "signatures", "user operations"}
  /\ FlowsInit
  /\ PermissionsInit
  /\ MessagesInit
  /\ UserOperationsInit

inPart(p) == part = p /\ UNCHANGED part

permissions ==
  /\ inPart("permissions") /\ PermissionsNext
  /\ UNCHANGED <<flowVars, uiWaits, messageVars, userOperationVars>>

flows ==
  /\ inPart("flows") /\ FlowsNext
  /\ UNCHANGED <<permissionVars, messageVars, userOperationVars>>

signatures(A) ==
  /\ inPart("signatures") /\ A
  /\ UNCHANGED <<permissionVars, userOperationVars>>

userOperationSteps ==
  /\ inPart("user operations") /\ UserOperationsNext
  /\ UNCHANGED <<permissionVars, messageVars>>

Next == permissions \/ flows \/ signatures(MessagesNext) \/ userOperationSteps

\* Keyrings, custodians, accounts, bundlers and the network answer, one way or the
\* other; new blocks come.  Nothing is assumed of the user.
Fairness ==
  /\ \A m \in Messages :
       /\ WF_allVars(signatures(keyringSigned(m) \/ keyringFailed(m)))
       /\ WF_allVars(signatures(\E status \in {"signed", "rejected"} :
                                  custodianDecided(m, status)))
  /\ UserOperationFairness

Spec == Init /\ [][Next]_allVars /\ Fairness

-----------------------------------------------------------------------------

(***************************************************************************)
(* Every variable has its type; the approvals that are pending, those the  *)
(* user sees, and the counts agree; and the flows shown as going on are    *)
(* those that do.                                                          *)
(***************************************************************************)
ShownIsOpen ==
  /\ FlowsTypeOK /\ PermissionsTypeOK /\ MessagesTypeOK /\ UserOperationsTypeOK
  /\ ApprovalsAgree
  /\ FlowsShownAreOpen

(***************************************************************************)
(* Who waits is told.  The doc of `waitForResult' says of `accept' that it *)
(* waits "for the result callbacks to be called": a user interface that    *)
(* accepted a signature or a user operation hears how that ended, whoever  *)
(* fails or decides first (except for an operation that could not be built *)
(* again after an edit: the callbacks are known only afterwards); and the  *)
(* caller of transactionHash() hears of the transaction or of a failure,   *)
(* if the user decides and the call did not come too late.                 *)
(***************************************************************************)
WaitersAreTold ==
  /\ \A id \in ApprovalIds :
       uiWaits[id] = "waiting" ~>
         \/ uiWaits[id] # "waiting"
         \/ id \in UserOperations /\ opCall[id] = "failed again"
  /\ \A u \in UserOperations :
       caller[u] \in {"hash", "confirmation"} ~>
         caller[u] \in {"told", "threw", "gone"} \/ opCall[u] = "asking"
=============================================================================
