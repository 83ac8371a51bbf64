------------------------ MODULE UserOperationController ------------------------
(***************************************************************************)
(* A user operation (packages/user-operation-controller): it is prepared   *)
(* by a smart contract account, confirmed by the user, who may edit it,    *)
(* signed by the account, sent to a bundler, and followed until the        *)
(* bundler has a receipt, by polls of which each new block starts one more *)
(* (PendingUserOperationTracker).  What a user operation asks for and the  *)
(* fees it offers are "given" or "edited"; the data of a paymaster vouches *)
(* for the two it was made for.                                            *)
(***************************************************************************)
EXTENDS ApprovalFlows

CONSTANTS
  UserOperations, \* ids of user operations, and of their approvals
  MaxPolls        \* checks of one operation at a time

ASSUME UserOperationsAssumption ==
  /\ UserOperations \subseteq ApprovalIds /\ MaxPolls \in Nat
  /\ "transaction" \in Types

VARIABLES
  userOperations, \* the status of each operation in state.userOperations
  opCall,         \* where #prepareAndSubmitUserOperation stands
  userOperation,  \* what the operation has been built from
  opRequest,      \* the data and fees the user was asked for, or has edited
  sent,           \* the operations the bundler was given
  receipt,        \* the bundler's answer
  checks,         \* checks that await the bundler, and those that await a block
  caller          \* the call of transactionHash() of each operation

userOperationVars ==
  <<userOperations, opCall, userOperation, opRequest, sent, receipt, checks, caller>>
allOperationVars == <<approvalFlowVars, userOperationVars>>

Versions == {"given", "edited"}
Requests == [data : Versions, fees : Versions]
NoPaymaster == [data |-> "none", fees |-> "none"]
NotBuilt == [data |-> "none", fees |-> "none", paymaster |-> NoPaymaster]
Decided == {"confirmed", "failed"}

UserOperationsTypeOK ==
  /\ userOperations \in
       [UserOperations -> Decided \cup {"none", "unapproved", "approved", "signed", "submitted"}]
  /\ opCall \in [UserOperations ->
       {"idle", "preparing", "sponsoring", "asking", "preparing again", "sponsoring again",
        "signing", "sending", "done", "failed", "failed again", "gone"}]
  /\ opRequest \in [UserOperations -> Requests]
  /\ receipt \in [UserOperations -> Decided \cup {"none"}]
  /\ checks \in [UserOperations -> [receipt : 0..MaxPolls, block : 0..MaxPolls]]
  /\ caller \in [UserOperations ->
       {"no", "hash", "confirmation", "late", "told", "threw", "gone"}]

UserOperationsInit ==
  /\ userOperations = [u \in UserOperations |-> "none"]
  /\ opCall = [u \in UserOperations |-> "idle"]
  /\ userOperation = [u \in UserOperations |-> NotBuilt]
  /\ opRequest = [u \in UserOperations |-> [data |-> "given", fees |-> "given"]]
  /\ sent = {}
  /\ receipt = [u \in UserOperations |-> "none"]
  /\ checks = [u \in UserOperations |-> [receipt |-> 0, block |-> 0]]
  /\ caller = [u \in UserOperations |-> "no"]

-----------------------------------------------------------------------------

opFollowVars == <<sent, receipt, checks>>

at(u, step) == opCall' = [opCall EXCEPT ![u] = step]
withOpStatus(u, status) == userOperations' = [userOperations EXCEPT ![u] = status]

\* addUserOperation: #createMetadata.
addUserOperation(u) ==
  /\ opCall[u] = "idle"
  /\ at(u, "preparing")
  /\ withOpStatus(u, "unapproved")
  /\ UNCHANGED <<approvalFlowVars, userOperation, opRequest, opFollowVars, caller>>

\* #prepareUserOperation: fees, the data of the account, and gas.
prepareUserOperation(u) ==
  /\ opCall[u] \in {"preparing", "preparing again"}
  /\ userOperation' = [userOperation EXCEPT ![u] =
                         [data |-> opRequest[u].data, fees |-> opRequest[u].fees,
                          paymaster |-> NoPaymaster]]
  /\ at(u, IF opCall[u] = "preparing" THEN "sponsoring" ELSE "sponsoring again")
  /\ UNCHANGED <<approvalFlowVars, userOperations, opRequest, opFollowVars, caller>>

\* #addPaymasterData; then the user is asked, unless that is not required.
addPaymasterData(u, sponsored) ==
  LET op == userOperation[u] IN
  /\ opCall[u] \in {"sponsoring", "sponsoring again"}
  /\ userOperation' = [userOperation EXCEPT ![u].paymaster =
                         IF sponsored THEN [data |-> op.data, fees |-> op.fees] ELSE NoPaymaster]
  /\ UNCHANGED <<flowVars, uiWaits, opRequest, opFollowVars, caller>>

asked(u, sponsored, o, requireApproval) ==
  /\ opCall[u] = "sponsoring"
  /\ addPaymasterData(u, sponsored)
  /\ IF requireApproval
     THEN /\ mayAdd(u, o, "transaction")
          /\ add(u, [origin |-> o, type |-> "transaction"])
          /\ at(u, "asking")
     ELSE /\ at(u, "signing")
          /\ UNCHANGED approvalVars
  /\ UNCHANGED userOperations

regenerated(u, sponsored) ==
  /\ opCall[u] = "sponsoring again"
  /\ addPaymasterData(u, sponsored)
  /\ withOpStatus(u, "approved")
  /\ at(u, "signing")
  /\ UNCHANGED approvalVars

paymasterAnswers(u) ==
  \E sponsored \in BOOLEAN :
    \/ \E o \in Origins, requireApproval \in BOOLEAN : asked(u, sponsored, o, requireApproval)
    \/ regenerated(u, sponsored)

\* Fault: the data of the paymaster is kept when only the fees were edited.
regeneratesForData(op, edited) == edited.data # op.data

\* #updateUserOperationAfterApproval.
regenerates(op, edited) ==
  \/ edited.data # op.data
  \/ edited.fees # op.fees /\ op.paymaster # NoPaymaster

userApprovesOperation(u, edited, waits) ==
  LET op == userOperation[u] IN
  /\ opCall[u] = "asking"
  /\ accept(u, waits)
  /\ opRequest' = [opRequest EXCEPT ![u] = edited]
  /\ userOperation' = [userOperation EXCEPT ![u].fees = edited.fees]
  /\ IF regenerates(op, edited)
     THEN at(u, "preparing again") /\ UNCHANGED userOperations
     ELSE at(u, "signing") /\ withOpStatus(u, "approved")
  /\ UNCHANGED <<flowVars, opFollowVars, caller>>

\* What a call of transactionHash() comes to when the operation fails, or is sent.
hashThrows(u) == [caller EXCEPT ![u] = IF @ = "hash" THEN "threw" ELSE @]
hashReturns(u) == [caller EXCEPT ![u] = IF @ = "hash" THEN "confirmation" ELSE @]

\* #failUserOperation with the user's rejection: the metadata is deleted.
userRejectsOperation(u) ==
  /\ opCall[u] = "asking"
  /\ delete(u)
  /\ withOpStatus(u, "none")
  /\ at(u, "failed")
  /\ caller' = hashThrows(u)
  /\ UNCHANGED <<flowVars, uiWaits, userOperation, opRequest, opFollowVars>>

\* The account, the paymaster, the bundler or a refused request makes the call fail; it
\* has no resultCallbacks before the operation is generated again.
failUserOperation(u) ==
  /\ opCall[u] \notin {"idle", "asking", "done", "failed", "failed again", "gone"}
  /\ withOpStatus(u, "failed")
  /\ caller' = hashThrows(u)
  /\ IF opCall[u] \in {"preparing again", "sponsoring again"}
     THEN at(u, "failed again") /\ UNCHANGED uiWaits
     ELSE at(u, "failed") /\ uiWaits' = told(u)
  /\ UNCHANGED <<approvalVars, flowVars, userOperation, opRequest, opFollowVars>>

signUserOperation(u) ==
  /\ opCall[u] = "signing"
  /\ at(u, "sending")
  /\ withOpStatus(u, "signed")
  /\ UNCHANGED <<approvalFlowVars, userOperation, opRequest, opFollowVars, caller>>

\* The bundler takes the operation, and its answer may be lost.
bundlerTakes(u) ==
  /\ opCall[u] = "sending" /\ u \notin sent
  /\ sent' = sent \cup {u}
  /\ UNCHANGED <<approvalFlowVars, userOperations, opCall, userOperation, opRequest, receipt,
                 checks, caller>>

submitUserOperation(u) ==
  /\ opCall[u] = "sending" /\ u \in sent
  /\ at(u, "done")
  /\ withOpStatus(u, "submitted")
  /\ uiWaits' = told(u)
  /\ caller' = hashReturns(u)
  /\ UNCHANGED <<approvalVars, flowVars, userOperation, opRequest, opFollowVars>>

-----------------------------------------------------------------------------

\* The dapp asks for the transaction; after a failure hash() returns undefined, and
\* the events it then waits for may have been.
transactionHash(u) ==
  /\ caller[u] = "no" /\ opCall[u] \notin {"idle", "gone"}
  /\ caller' = [caller EXCEPT ![u] =
       CASE opCall[u] \notin {"done", "failed", "failed again"} -> "hash"
         [] opCall[u] = "done" /\ userOperations[u] = "submitted" -> "confirmation"
         [] OTHER -> "late"]
  /\ UNCHANGED <<approvalFlowVars, userOperations, opCall, userOperation, opRequest, opFollowVars>>

bundled(u, outcome) ==
  /\ u \in sent /\ receipt[u] = "none"
  /\ receipt' = [receipt EXCEPT ![u] = outcome]
  /\ UNCHANGED <<approvalFlowVars, userOperations, opCall, userOperation, opRequest, sent, checks,
                 caller>>

\* _executePoll on a new block, whatever other polls still do.
polled ==
  /\ \E u \in UserOperations : userOperations[u] = "submitted"
  /\ \A u \in UserOperations :
       userOperations[u] = "submitted" => checks[u].receipt + checks[u].block < MaxPolls
  /\ checks' = [u \in UserOperations |->
       IF userOperations[u] = "submitted"
       THEN [checks[u] EXCEPT !.receipt = @ + 1] ELSE checks[u]]
  /\ UNCHANGED <<approvalFlowVars, userOperations, opCall, userOperation, opRequest, sent, receipt,
                 caller>>

\* Fault: the controller hears of confirmations only.
hearsSuccess(u, outcome) ==
  [caller EXCEPT ![u] = IF @ = "confirmation" /\ outcome = "confirmed" THEN "told" ELSE @]

\* #addPendingUserOperationTrackerListeners.
hears(u, outcome) ==
  [caller EXCEPT ![u] = IF @ # "confirmation" THEN @
                        ELSE IF outcome = "confirmed" THEN "told" ELSE "threw"]

\* The copy of the metadata that the check has had from the start is written.
operationDecided(u, outcome) ==
  /\ withOpStatus(u, outcome)
  /\ caller' = hears(u, outcome)

\* #checkUserOperation; a request that fails, and no receipt, end the check.
receiptChecked(u, answered) ==
  /\ checks[u].receipt > 0
  /\ IF answered /\ receipt[u] = "confirmed"
     THEN checks' = [checks EXCEPT ![u].receipt = @ - 1, ![u].block = @ + 1]
     ELSE checks' = [checks EXCEPT ![u].receipt = @ - 1]
  /\ IF answered /\ receipt[u] = "failed" THEN operationDecided(u, "failed")
     ELSE UNCHANGED <<userOperations, caller>>
  /\ UNCHANGED <<approvalFlowVars, opCall, userOperation, opRequest, sent, receipt>>

\* #onUserOperationConfirmed, once the block is there.
blockRead(u, answered) ==
  /\ checks[u].block > 0
  /\ checks' = [checks EXCEPT ![u].block = @ - 1]
  /\ IF answered THEN operationDecided(u, "confirmed")
     ELSE UNCHANGED <<userOperations, caller>>
  /\ UNCHANGED <<approvalFlowVars, opCall, userOperation, opRequest, sent, receipt>>

\* The wallet is closed and opened: nothing takes up what was not submitted.
operationsRestored ==
  /\ \E u \in UserOperations : opCall[u] \notin {"idle", "gone"}
  /\ approvals' = {}
  /\ pendingApprovals' = [id \in ApprovalIds |-> NoApproval]
  /\ origins' = [o \in Origins |-> NoApproval]
  /\ opCall' = [u \in UserOperations |-> IF opCall[u] = "idle" THEN "idle" ELSE "gone"]
  /\ checks' = [u \in UserOperations |-> [receipt |-> 0, block |-> 0]]
  /\ caller' = [u \in UserOperations |-> IF opCall[u] = "idle" THEN "no" ELSE "gone"]
  /\ uiWaits' = [id \in ApprovalIds |-> "no"]
  /\ UNCHANGED <<flowVars, userOperations, userOperation, opRequest, sent, receipt>>

UserOperationsNext ==
  \/ \E u \in UserOperations :
       \/ addUserOperation(u) \/ prepareUserOperation(u)
       \/ paymasterAnswers(u)
       \/ \E edited \in Requests, waits \in BOOLEAN : userApprovesOperation(u, edited, waits)
       \/ userRejectsOperation(u) \/ failUserOperation(u) \/ signUserOperation(u)
       \/ bundlerTakes(u) \/ submitUserOperation(u) \/ transactionHash(u)
       \/ \E outcome \in Decided : bundled(u, outcome)
       \/ \E answered \in BOOLEAN : receiptChecked(u, answered) \/ blockRead(u, answered)
  \/ polled \/ operationsRestored

\* What the account, the bundler and the network do in the end, and the new blocks.
UserOperationFairness ==
  /\ \A u \in UserOperations :
       /\ WF_allOperationVars(prepareUserOperation(u) \/ failUserOperation(u))
       /\ WF_allOperationVars(paymasterAnswers(u) \/ failUserOperation(u))
       /\ WF_allOperationVars(signUserOperation(u) \/ failUserOperation(u))
       /\ WF_allOperationVars(bundlerTakes(u) \/ submitUserOperation(u) \/ failUserOperation(u))
       /\ WF_allOperationVars(\E outcome \in Decided : bundled(u, outcome))
       /\ WF_allOperationVars(\E answered \in BOOLEAN : receiptChecked(u, answered))
       /\ WF_allOperationVars(\E answered \in BOOLEAN : blockRead(u, answered))
       /\ SF_allOperationVars(receiptChecked(u, TRUE))
       /\ SF_allOperationVars(blockRead(u, TRUE))
  /\ WF_allOperationVars(polled)

-----------------------------------------------------------------------------

(***************************************************************************)
(* The bundler gets what the user has confirmed: the data and the fees of  *)
(* the request as it was edited, and a paymaster's data that vouches for   *)
(* these two, although accounts build operations asynchronously and before *)
(* the user is asked.  And what the state calls submitted or confirmed is  *)
(* so for the bundler.                                                     *)
(***************************************************************************)
OperationsAreAsApproved ==
  \A u \in UserOperations :
    /\ u \in sent =>
         LET op == userOperation[u] IN
         /\ op.data = opRequest[u].data /\ op.fees = opRequest[u].fees
         /\ op.paymaster \in {NoPaymaster, opRequest[u]}
    /\ userOperations[u] \in {"submitted", "confirmed"} => u \in sent
    /\ userOperations[u] = "confirmed" => receipt[u] = "confirmed"
=============================================================================
