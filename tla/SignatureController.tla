-------------------------- MODULE SignatureController --------------------------
(***************************************************************************)
(* A message from request to signature (packages/signature-controller and  *)
(* packages/message-manager): the dapp's call adds a message, asks the     *)
(* user, has the keyring sign, and waits for the first final status of the *)
(* message (waitForFinishStatus), which others may set meanwhile: a        *)
(* custodian who signs later, or the wallet that rejects what is           *)
(* unapproved.                                                             *)
(***************************************************************************)
EXTENDS ApprovalFlows

CONSTANTS
  Messages,       \* ids of messages, and of their approvals
  TypedMessages   \* those of the TypedMessageManager; it marks errors

ASSUME MessagesAssumption ==
  /\ TypedMessages \subseteq Messages /\ Messages \subseteq ApprovalIds
  /\ {"personal_sign", "eth_signTypedData"} \subseteq Types

VARIABLES
  messages,       \* the status of each message, "none" without one
  listed,         \* unapprovedMessages of both managers' states
  signCall,       \* where each call of #newUnsignedAbstractMessage stands
  finishStatus,   \* what the call's signaturePromise was settled with
  deferSetAsSigned,
  confirmed,      \* history: the user confirmed it
  withdrawn       \* history: rejectUnapproved rejected it

historyVars == <<confirmed, withdrawn>>
messageVars == <<messages, listed, signCall, finishStatus, deferSetAsSigned, historyVars>>

FinalStatuses == {"signed", "rejected", "errored"}

MessagesTypeOK ==
  /\ messages \in [Messages -> FinalStatuses \cup {"none", "unapproved", "approved", "inProgress"}]
  /\ listed \in SUBSET Messages
  /\ signCall \in [Messages -> {"idle", "checking", "asking", "signing", "waiting",
                                "returned", "threw"}]
  /\ finishStatus \in [Messages -> FinalStatuses \cup {"none"}]
  /\ deferSetAsSigned \in [Messages -> BOOLEAN]
  /\ confirmed \in SUBSET Messages /\ withdrawn \in SUBSET Messages

MessagesInit ==
  /\ messages = [m \in Messages |-> "none"]
  /\ listed = {}
  /\ signCall = [m \in Messages |-> "idle"]
  /\ finishStatus = [m \in Messages |-> "none"]
  /\ deferSetAsSigned = [m \in Messages |-> FALSE]
  /\ confirmed = {} /\ withdrawn = {}

-----------------------------------------------------------------------------

messageType(m) == IF m \in TypedMessages THEN "eth_signTypedData" ELSE "personal_sign"

unapprovedIn(M) == {m \in Messages : M[m] = "unapproved"}

\* setMessageStatus, and saveMessageList: the list is made anew.
setMessages(M) ==
  /\ messages' = M
  /\ listed' = unapprovedIn(M)

\* `:finished' is emitted; who waits hears the first one.
finished(M) ==
  [m \in Messages |->
     IF finishStatus[m] = "none" /\ signCall[m] \in {"asking", "signing", "waiting"}
        /\ M[m] # messages[m] /\ M[m] \in FinalStatuses
     THEN M[m] ELSE finishStatus[m]]

setMessageStatus(m, status) ==
  LET M == [messages EXCEPT ![m] = status] IN
  /\ setMessages(M)
  /\ finishStatus' = finished(M)

\* The call returns the signature or throws, and tells the user interface.
signCallEnds(m, outcome) ==
  /\ signCall' = [signCall EXCEPT ![m] = outcome]
  /\ uiWaits' = told(m)

newUnsignedMessage(m, deferred) ==
  /\ signCall[m] = "idle"
  /\ signCall' = [signCall EXCEPT ![m] = "checking"]
  /\ deferSetAsSigned' = [deferSetAsSigned EXCEPT ![m] = deferred]
  /\ UNCHANGED <<approvalFlowVars, messages, listed, finishStatus, historyVars>>

\* The security provider answers, or fails; the message is added, and the user is
\* asked; a request that is refused counts as rejected.
securityChecked(m, o) ==
  LET approval == [origin |-> o, type |-> messageType(m)]
      mayAsk == mayAdd(m, o, approval.type)
  IN /\ signCall[m] = "checking"
     /\ \/ /\ signCall' = [signCall EXCEPT ![m] = "threw"]
           /\ UNCHANGED <<approvalVars, messages, listed>>
        \/ /\ mayAsk
           /\ add(m, approval)
           /\ setMessages([messages EXCEPT ![m] = "unapproved"])
           /\ signCall' = [signCall EXCEPT ![m] = "asking"]
        \/ /\ ~mayAsk
           /\ setMessages([messages EXCEPT ![m] = "rejected"])
           /\ signCall' = [signCall EXCEPT ![m] = "threw"]
           /\ UNCHANGED approvalVars
     /\ UNCHANGED <<flowVars, uiWaits, finishStatus, deferSetAsSigned, historyVars>>

\* The user confirms: approveMessage, whatever the status is, and the keyring is asked.
messageAccepted(m, waits) ==
  /\ signCall[m] = "asking"
  /\ accept(m, waits)
  /\ setMessageStatus(m, "approved")
  /\ signCall' = [signCall EXCEPT ![m] = "signing"]
  /\ confirmed' = confirmed \cup {m}
  /\ UNCHANGED <<flowVars, deferSetAsSigned, withdrawn>>

messageRejected(m) ==
  /\ signCall[m] = "asking"
  /\ delete(m)
  /\ setMessageStatus(m, "rejected")
  /\ signCall' = [signCall EXCEPT ![m] = "threw"]
  /\ UNCHANGED <<flowVars, uiWaits, deferSetAsSigned, historyVars>>

\* The call has the signature and awaits signaturePromise, which may be settled.
awaitFinish(m) ==
  IF finishStatus'[m] = "none"
  THEN /\ signCall' = [signCall EXCEPT ![m] = "waiting"]
       /\ UNCHANGED uiWaits
  ELSE signCallEnds(m, IF finishStatus'[m] = "signed" THEN "returned" ELSE "threw")

keyringSigned(m) ==
  /\ signCall[m] = "signing"
  /\ IF deferSetAsSigned[m] THEN UNCHANGED <<messages, listed, finishStatus>>
     ELSE setMessageStatus(m, "signed")
  /\ awaitFinish(m)
  /\ UNCHANGED <<approvalVars, flowVars, deferSetAsSigned, historyVars>>

\* Fault: the interface is told of successes only.
keyringFailedUntold(m) ==
  /\ signCall[m] = "signing"
  /\ setMessageStatus(m, IF m \in TypedMessages THEN "errored" ELSE "rejected")
  /\ signCall' = [signCall EXCEPT ![m] = "threw"]
  /\ UNCHANGED <<approvalVars, flowVars, uiWaits, deferSetAsSigned, historyVars>>

\* Fault: the message keeps its status when the keyring fails.
keyringFailedSilently(m) ==
  /\ signCall[m] = "signing"
  /\ signCallEnds(m, "threw")
  /\ UNCHANGED <<approvalVars, flowVars, messages, listed, finishStatus, deferSetAsSigned,
                 historyVars>>

\* #errorMessage.
keyringFailed(m) ==
  /\ signCall[m] = "signing"
  /\ setMessageStatus(m, IF m \in TypedMessages THEN "errored" ELSE "rejected")
  /\ signCallEnds(m, "threw")
  /\ UNCHANGED <<approvalVars, flowVars, deferSetAsSigned, historyVars>>

\* setDeferredSignSuccess, and setDeferredSignError: a custodian decides.
custodianDecided(m, status) ==
  /\ deferSetAsSigned[m] /\ signCall[m] \in {"signing", "waiting"}
  /\ finishStatus[m] = "none"
  /\ setMessageStatus(m, status)
  /\ IF signCall[m] = "waiting" THEN awaitFinish(m) ELSE UNCHANGED <<signCall, uiWaits>>
  /\ UNCHANGED <<approvalVars, flowVars, deferSetAsSigned, historyVars>>

\* A hardware wallet or a custodian is asked, which decides later.
setMessageInProgress(m) ==
  /\ signCall[m] = "signing" /\ finishStatus[m] = "none"
  /\ setMessageStatus(m, "inProgress")
  /\ UNCHANGED <<approvalFlowVars, signCall, deferSetAsSigned, historyVars>>

\* rejectUnapproved, by the wallet itself; the approvals stay.
rejectUnapproved ==
  LET M == [m \in Messages |-> IF messages[m] = "unapproved" THEN "rejected" ELSE messages[m]]
  IN /\ unapprovedIn(messages) # {}
     /\ setMessages(M)
     /\ finishStatus' = finished(M)
     /\ withdrawn' = withdrawn \cup unapprovedIn(messages)
     /\ UNCHANGED <<approvalFlowVars, signCall, deferSetAsSigned, confirmed>>

\* clearUnapproved: until the next change of a message.
clearUnapproved ==
  /\ listed' = {}
  /\ UNCHANGED <<approvalFlowVars, messages, signCall, finishStatus, deferSetAsSigned, historyVars>>

MessagesNext ==
  \/ \E m \in Messages :
       \/ \E deferred \in BOOLEAN : newUnsignedMessage(m, deferred)
       \/ \E o \in Origins : securityChecked(m, o)
       \/ \E waits \in BOOLEAN : messageAccepted(m, waits)
       \/ messageRejected(m) \/ keyringSigned(m) \/ keyringFailed(m) \/ setMessageInProgress(m)
       \/ \E status \in {"signed", "rejected"} : custodianDecided(m, status)
  \/ rejectUnapproved \/ clearUnapproved

-----------------------------------------------------------------------------

(***************************************************************************)
(* A message is signed only if the user has confirmed it, although its     *)
(* status is changed from several sides; a dapp gets a signature only of a *)
(* message that says so; a call that is over leaves a final status behind, *)
(* and no request for a confirmation (except for a message that            *)
(* rejectUnapproved has rejected while its confirmation was open: it can   *)
(* still be confirmed and signed, for a dapp that was told otherwise); and *)
(* what the user is shown is unapproved.                                   *)
(***************************************************************************)
SignaturesAreConfirmed ==
  /\ \A m \in Messages :
       /\ messages[m] = "signed" => m \in confirmed
       /\ signCall[m] = "returned" => messages[m] = "signed"
       /\ signCall[m] \in {"returned", "threw"} /\ messages[m] # "none" /\ m \notin withdrawn =>
            messages[m] \in FinalStatuses /\ m \notin approvals
  /\ listed \subseteq unapprovedIn(messages)
=============================================================================
