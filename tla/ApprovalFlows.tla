---------------------------- MODULE ApprovalFlows ----------------------------
(***************************************************************************)
(* What ApprovalController offers besides single requests (packages/       *)
(* approval-controller): flows, a stack of what the user interface shows   *)
(* as going on; pages that tell the user of a success or an error and may  *)
(* end a flow when they are closed; and the answer of a requester to the   *)
(* user interface, which may wait for what came of an accepted request.    *)
(***************************************************************************)
EXTENDS ApprovalController, Sequences, SequencesExt

CONSTANTS
  Flows,  \* ids of flows
  Pages,  \* calls of success and error, and the ids of their requests
  Wallet  \* ORIGIN_METAMASK

ASSUME FlowsAssumption ==
  /\ Pages \subseteq ApprovalIds /\ Wallet \in Origins
  /\ {"success", "error"} \subseteq Types

VARIABLES
  approvalFlows, \* state.approvalFlows
  usesFlow,      \* what the requester of each flow has done
  page,          \* each call of success or error
  outOfOrder,    \* history: flows that were to end below another one
  uiWaits        \* the user interface's calls of `accept' with waitForResult

flowVars == <<approvalFlows, usesFlow, page, outOfOrder>>
approvalFlowVars == <<approvalVars, flowVars, uiWaits>>

FlowsTypeOK ==
  /\ ApprovalsTypeOK
  /\ approvalFlows \in Seq(Flows)
  /\ usesFlow \in [Flows -> {"not yet", "open", "ended"}]
  /\ \A p \in Pages : page[p].step \in {"idle", "shown", "closed"}
  /\ outOfOrder \in SUBSET Flows
  /\ uiWaits \in [ApprovalIds -> {"no", "waiting", "told"}]

FlowsInit ==
  /\ ApprovalsInit
  /\ approvalFlows = <<>>
  /\ usesFlow = [f \in Flows |-> "not yet"]
  /\ page = [p \in Pages |-> [step |-> "idle"]]
  /\ outOfOrder = {}
  /\ uiWaits = [id \in ApprovalIds |-> "no"]

-----------------------------------------------------------------------------

\* `accept' of a request that expects a result, with or without waiting for it.
accept(id, waits) ==
  /\ delete(id)
  /\ uiWaits' = [uiWaits EXCEPT ![id] = IF waits THEN "waiting" ELSE "no"]

\* resultCallbacks?.success or error.
told(id) == [uiWaits EXCEPT ![id] = IF @ = "waiting" THEN "told" ELSE @]

-----------------------------------------------------------------------------

startFlow(f) ==
  /\ usesFlow[f] = "not yet"
  /\ approvalFlows' = Append(approvalFlows, f)
  /\ usesFlow' = [usesFlow EXCEPT ![f] = "open"]
  /\ UNCHANGED <<approvalVars, page, outOfOrder, uiWaits>>

\* endFlow: throws for any flow but the last one.
ended(f) ==
  /\ usesFlow' = [usesFlow EXCEPT ![f] = "ended"]
  /\ IF approvalFlows # <<>> /\ Last(approvalFlows) = f
     THEN approvalFlows' = Front(approvalFlows) /\ UNCHANGED outOfOrder
     ELSE outOfOrder' = outOfOrder \cup {f} /\ UNCHANGED approvalFlows

endFlow(f) ==
  /\ usesFlow[f] = "open"
  /\ \A p \in Pages : page[p].step = "shown" => page[p].flow # f
  /\ ended(f)
  /\ UNCHANGED <<approvalVars, page, uiWaits>>

\* success (or error) with flowToEnd: a page is shown; the flow of one that cannot be
\* shown is ended at once.
result(p, type, f) ==
  /\ page[p].step = "idle" /\ usesFlow[f] = "open"
  /\ \A q \in Pages : page[q].step = "shown" => page[q].flow # f
  /\ IF mayAdd(p, Wallet, type)
     THEN /\ add(p, [origin |-> Wallet, type |-> type])
          /\ page' = [page EXCEPT ![p] = [step |-> "shown", flow |-> f]]
          /\ UNCHANGED <<approvalFlows, usesFlow, outOfOrder>>
     ELSE /\ page' = [page EXCEPT ![p] = [step |-> "closed"]]
          /\ ended(f)
          /\ UNCHANGED approvalVars
  /\ UNCHANGED uiWaits

\* Fault: a page that is rejected does not end its flow.
endsFlowIfAccepted(accepted) == accepted

endsFlow(accepted) == TRUE

\* The user closes a page, which accepts or rejects it.
pageClosed(p, accepted) ==
  /\ page[p].step = "shown"
  /\ delete(p)
  /\ page' = [page EXCEPT ![p] = [step |-> "closed"]]
  /\ IF endsFlow(accepted) THEN ended(page[p].flow)
     ELSE /\ usesFlow' = [usesFlow EXCEPT ![page[p].flow] = "ended"]
          /\ UNCHANGED <<approvalFlows, outOfOrder>>
  /\ UNCHANGED uiWaits

\* `clear' rejects the pages too, in the order of #approvals; flows stay.
approvalsCleared ==
  /\ clear
  /\ \E p \in Pages :
       /\ page[p].step = "shown"
       /\ \A q \in Pages \ {p} : page[q].step # "shown"
       /\ page' = [page EXCEPT ![p] = [step |-> "closed"]]
       /\ ended(page[p].flow)
  /\ UNCHANGED uiWaits

FlowsNext ==
  \/ \E f \in Flows : startFlow(f) \/ endFlow(f)
  \/ \E p \in Pages, f \in Flows, type \in {"success", "error"} : result(p, type, f)
  \/ \E p \in Pages, accepted \in BOOLEAN : pageClosed(p, accepted)
  \/ approvalsCleared

-----------------------------------------------------------------------------

(***************************************************************************)
(* The user interface shows as going on just what is: a flow its requester *)
(* has ended, directly or with a page, shown or not, is gone from the      *)
(* stack.  (Except for one that was to end below another: endFlow throws,  *)
(* a page only logs that, and the flow stays for ever.)                    *)
(***************************************************************************)
FlowsShownAreOpen ==
  \A f \in Flows \ outOfOrder :
    usesFlow[f] = "open" <=> \E i \in DOMAIN approvalFlows : approvalFlows[i] = f
=============================================================================
