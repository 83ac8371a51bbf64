------------------------------ MODULE MessageManagers ------------------------------
(***************************************************************************)
(* The managers of messages (packages/message-manager): each keeps the     *)
(* messages that dapps want signed, decrypted, or answered with a public   *)
(* key, lists the unapproved ones, and tells the call of the dapp when its *)
(* message is finished.  Calls to decrypt and for public keys wait in      *)
(* addUnapprovedMessageAsync, from a moment after their message is listed; *)
(* the wallet gives results and statuses.  SignatureController copies the  *)
(* lists of the two managers that are its own.                             *)
(***************************************************************************)
EXTENDS Naturals, FiniteSets

CONSTANTS
  MessageIds,
  MessageChains,     \* chains that typed data may name
  MaxMessageSteps    \* changes of messages from outside, and switches of the chain

ASSUME MessageManagersAssumption ==
  MessageIds # {} /\ MessageChains # {} /\ MaxMessageSteps \in Nat

VARIABLES
  messageOf,        \* each manager's messages
  messageCall,      \* where each call stands
  unapprovedState,  \* unapprovedMessages of the managers' states
  shownMessages,    \* unapprovedPersonalMsgs and unapprovedTypedMessages
  activeChain,      \* getCurrentChainId
  firstEnd,         \* history: how the message ended first, since the call listens
  messageSteps

managerVars == <<messageOf, messageCall, unapprovedState, shownMessages, activeChain, firstEnd,
                 messageSteps>>

NoMessage == [kind |-> "none"]
AnyChain == [chain |-> "any"]
Loading == [chain |-> "loading"]        \* an id of a chain that is no number
NoChainId == [chain |-> "undefined"]

SignKinds == {"personal_sign", "eth_signTypedData", "eth_signTypedData_v4"}
MessageKinds == SignKinds \cup {"eth_decrypt", "eth_getEncryptionPublicKey"}

\* What a dapp sends: an address, data that has the format or not, and a chain in it.
MessageParams ==
  [kind : MessageKinds, validFrom : BOOLEAN, validData : BOOLEAN,
   chain : MessageChains \cup {AnyChain}]

MessageManagersInit ==
  /\ messageOf = [id \in MessageIds |-> NoMessage]
  /\ messageCall = [id \in MessageIds |-> "none"]
  /\ unapprovedState = {} /\ shownMessages = {}
  /\ activeChain \in MessageChains
  /\ firstEnd = [id \in MessageIds |-> "none"]
  /\ messageSteps = 0

messageStep == messageSteps < MaxMessageSteps /\ messageSteps' = messageSteps + 1

-----------------------------------------------------------------------------

\* validateTypedSignMessageDataV3V4: there is a chain, and if the data names one, that one.
validChain(params) ==
  activeChain # NoChainId /\ params.chain \in {AnyChain, activeChain} \ {Loading}

\* The data of a public key is not looked at, and any data can be tried to decrypt.
validates(params) ==
  /\ params.validFrom
  /\ params.kind \in SignKinds => params.validData
  /\ params.kind = "eth_signTypedData_v4" => validChain(params)

unapprovedOf(M) == {id \in MessageIds : M[id] # NoMessage /\ M[id].status = "unapproved"}

\* saveMessageList; SignatureController hears of the managers that are its own.
saveMessageList(M) ==
  /\ messageOf' = M
  /\ unapprovedState' = unapprovedOf(M)
  /\ shownMessages' = {id \in unapprovedOf(M) : M[id].kind \in SignKinds}

\* What addUnapprovedMessage makes of what it is given, and is listed when it is added.
newMessage(kind) == [kind |-> kind, status |-> "unsaved"]
listedMessage(kind) == [kind |-> kind, status |-> "unapproved", rawSig |-> "none"]

\* addUnapprovedMessage validates, and awaits the security provider.
messageRequested(id, params) ==
  /\ messageCall[id] = "none" /\ messageOf[id] = NoMessage
  /\ messageCall' = [messageCall EXCEPT ![id] = IF validates(params) THEN "checking" ELSE "threw"]
  /\ messageOf' = IF validates(params)
                  THEN [messageOf EXCEPT ![id] = newMessage(params.kind)]
                  ELSE messageOf
  /\ UNCHANGED <<unapprovedState, shownMessages, activeChain, firstEnd, messageSteps>>

\* addMessage.
messageAdded(id) ==
  /\ messageCall[id] = "checking"
  /\ saveMessageList([messageOf EXCEPT ![id] = listedMessage(@.kind)])
  /\ messageCall' = [messageCall EXCEPT ![id] = "added"]
  /\ UNCHANGED <<activeChain, firstEnd, messageSteps>>

securityCheckFails(id) ==
  /\ messageCall[id] = "checking"
  /\ messageOf' = [messageOf EXCEPT ![id] = NoMessage]
  /\ messageCall' = [messageCall EXCEPT ![id] = "threw"]
  /\ UNCHANGED <<unapprovedState, shownMessages, activeChain, firstEnd, messageSteps>>

\* The call goes on from its await, and waits for `:finished'.
waitsForFinish(id) ==
  /\ messageCall[id] = "added"
  /\ messageCall' = [messageCall EXCEPT ![id] = "listening"]
  /\ UNCHANGED <<messageOf, unapprovedState, shownMessages, activeChain, firstEnd, messageSteps>>

isSaved(id) == messageOf[id] # NoMessage /\ messageOf[id].status # "unsaved"

\* The statuses that finish a message: those of all managers, and one of its own.
finishStatuses(kind) ==
  {"rejected", "signed", "errored"}
  \cup (CASE kind = "eth_decrypt" -> {"decrypted"}
          [] kind = "eth_getEncryptionPublicKey" -> {"received"}
          [] OTHER -> {})

\* What the call makes of the status: every status but one is an error.
outcomeOf(kind, status) ==
  IF \/ kind \in SignKinds /\ status = "signed"
     \/ kind = "eth_decrypt" /\ status = "decrypted"
     \/ kind = "eth_getEncryptionPublicKey" /\ status = "received"
  THEN "returned" ELSE "threw"

\* setMessageStatus, after setResult if there is a result.
messageStatusSet(id, status, result) ==
  LET m == messageOf[id]
      ends == status \in finishStatuses(m.kind)
  IN /\ isSaved(id) /\ messageStep
     /\ saveMessageList([messageOf EXCEPT ![id].status = status,
                                          ![id].rawSig = IF result = "none" THEN @ ELSE result])
     /\ messageCall' = IF ends /\ messageCall[id] = "listening"
                       THEN [messageCall EXCEPT ![id] = outcomeOf(m.kind, status)]
                       ELSE messageCall
     /\ firstEnd' = IF messageCall[id] = "listening" /\ firstEnd[id] = "none"
                       /\ status \in {"rejected", "signed", "errored", "decrypted", "received"}
                    THEN [firstEnd EXCEPT ![id] = status] ELSE firstEnd
     /\ UNCHANGED activeChain

\* What each kind of message is set to: by the wallet, or by SignatureController.
resultStatus(kind) ==
  CASE kind = "eth_decrypt" -> "decrypted"
    [] kind = "eth_getEncryptionPublicKey" -> "received"
    [] OTHER -> "signed"

messageApproved(id) == messageStatusSet(id, "approved", "none")

messageAnswered(id) == messageStatusSet(id, resultStatus(messageOf[id].kind), "answer")

messageDenied(id) == messageStatusSet(id, "rejected", "none")

messageErrored(id) == messageStatusSet(id, "errored", "none")

\* setResult: what is decrypted is shown before the dapp gets it.
resultSet(id) ==
  /\ isSaved(id) /\ messageStep
  /\ saveMessageList([messageOf EXCEPT ![id].rawSig = "answer"])
  /\ UNCHANGED <<messageCall, activeChain, firstEnd>>

\* rejectUnapproved of SignatureController.
allRejected ==
  LET M == [id \in MessageIds |->
              IF id \in unapprovedOf(messageOf) /\ messageOf[id].kind \in SignKinds
              THEN [messageOf[id] EXCEPT !.status = "rejected"] ELSE messageOf[id]]
  IN /\ M # messageOf /\ messageStep
     /\ saveMessageList(M)
     /\ messageCall' = [id \in MessageIds |->
          IF M[id] # messageOf[id] /\ messageCall[id] = "listening" THEN "threw" ELSE messageCall[id]]
     /\ firstEnd' = [id \in MessageIds |->
          IF M[id] # messageOf[id] /\ messageCall[id] = "listening" THEN "rejected" ELSE firstEnd[id]]
     /\ UNCHANGED activeChain

chainSwitches(chain) ==
  /\ chain # activeChain /\ messageStep
  /\ activeChain' = chain
  /\ UNCHANGED <<messageOf, messageCall, unapprovedState, shownMessages, firstEnd>>

MessageManagersNext ==
  \/ \E id \in MessageIds :
       \/ \E params \in MessageParams : messageRequested(id, params)
       \/ messageAdded(id) \/ securityCheckFails(id) \/ waitsForFinish(id)
       \/ messageApproved(id) \/ messageAnswered(id) \/ messageDenied(id) \/ messageErrored(id)
       \/ resultSet(id)
  \/ allRejected
  \/ \E chain \in MessageChains \cup {Loading, NoChainId} : chainSwitches(chain)

-----------------------------------------------------------------------------

(***************************************************************************)
(* A call that waits is told of the first end of its message, and of no    *)
(* other: it has an answer if the message was signed, decrypted or         *)
(* answered with a key, and an error otherwise; and what is listed, with   *)
(* what SignatureController copied of it, is what is unapproved.  Messages *)
(* that end before their call has come to wait are not heard of.           *)
(***************************************************************************)
MessagesAreAnswered ==
  /\ \A id \in MessageIds :
       /\ messageCall[id] = "listening" => firstEnd[id] = "none"
       /\ firstEnd[id] # "none" =>
            messageCall[id] = IF firstEnd[id] = resultStatus(messageOf[id].kind)
                              THEN "returned" ELSE "threw"
       /\ messageCall[id] = "returned" => messageOf[id].rawSig = "answer"
  /\ unapprovedState = unapprovedOf(messageOf)
  /\ shownMessages = {id \in unapprovedState : messageOf[id].kind \in SignKinds}
=============================================================================
