---------------------------- MODULE TransactionEdits ----------------------------
(***************************************************************************)
(* What happens to a transaction while the user looks at it (packages/     *)
(* transaction-controller): the user interface edits it, its effects are   *)
(* simulated again whenever what it calls changes, and GasFeePoller keeps  *)
(* its estimates fresh, until it is approved and signed.  Edits, the       *)
(* simulations, the updates of the poller and approveTransaction all read  *)
(* the record, await, and write.  The parameters are `call' (to, value and *)
(* data) and `fees' (gas and its price), each as first given or as edited; *)
(* the estimates themselves are not told apart.  Notes are made of it: the *)
(* alert of a security provider, the history of its form, its gas before   *)
(* an edit.  The locks of the approval and who hears how it ended are the  *)
(* subject of TransactionController.                                       *)
(***************************************************************************)
EXTENDS Integers, FiniteSets

CONSTANTS
  EditedTxs,  \* ids of transactions
  NoTxMeta,   \* an id that is not in the list
  Editors,    \* calls of updateEditableParams under way at a time
  Updates,    \* updates of the poller under way at a time
  MaxEdits    \* how often parameters are edited

ASSUME EditsAssumption == MaxEdits \in Nat /\ Updates # {}

VARIABLES
  metas,       \* state.transactions
  confirming,  \* where processApproval and approveTransaction of each transaction stand
  signing,     \* the record approveTransaction goes on with
  editing,     \* calls of updateEditableParams: the record they will write
  simulating,  \* the calls of each transaction that are being simulated
  poller,      \* GasFeePoller: #running, the timer in #timeout, and timers no longer in it
  feeUpdates,    \* its updates of unapproved transactions
  edits,       \* how often parameters were edited and notes made
  confirmedAs, \* history: the parameters the user confirmed
  told,        \* history: the notes that were made
  incidents    \* history: which of the races told of below a transaction was in

editVars == <<metas, confirming, signing, editing, simulating, poller, feeUpdates, edits,
              confirmedAs, told, incidents>>
toldVars == <<confirmedAs, told>>

EditVersions == {"given", "edited"}
TxParams == [call : EditVersions, fees : EditVersions]
NoSimulation == "none"
TxNotes == {"alert", "sends", "previousGas"}
TxMetas == [status : {"unapproved", "approved", "signed", "submitted", "failed"},
            params : TxParams, simulation : EditVersions \cup {NoSimulation},
            notes : SUBSET TxNotes]
ASSUME NoTxMetaAssumption == NoTxMeta \notin EditedTxs \cup TxMetas
NoEdit == [tx |-> NoTxMeta]
NoFeeUpdate == [step |-> "idle", left |-> {}, rejected |-> FALSE]
Given == [call |-> "given", fees |-> "given"]

EditsTypeOK ==
  /\ metas \in [EditedTxs -> TxMetas \cup {NoTxMeta}]
  /\ confirming \in [EditedTxs ->
       {"idle", "asking", "approving", "signing", "publishing", "done", "gone"}]
  /\ signing \in [EditedTxs -> TxMetas \cup {NoTxMeta}]
  /\ editing \in [Editors -> [tx : EditedTxs, meta : TxMetas] \cup {NoEdit}]
  /\ simulating \in [EditedTxs -> SUBSET EditVersions]
  /\ poller \in [running : BOOLEAN, timeout : BOOLEAN, strayTimers : Nat,
                 stoppedInUpdate : BOOLEAN, rejected : BOOLEAN]
  /\ feeUpdates \in [Updates -> [step : {"idle", "fetching", "updating"},
                               left : SUBSET EditedTxs, rejected : BOOLEAN]]
  /\ edits \in 0..MaxEdits
  /\ confirmedAs \in [EditedTxs -> TxParams]
  /\ told \in [EditedTxs -> SUBSET TxNotes]
  /\ incidents \in [EditedTxs -> SUBSET {"edited late", "overwritten", "raced", "told late"}]

\* One transaction that is edited, or several that are not.
EditsInit ==
  /\ \/ /\ edits = 0
        /\ \E one \in EditedTxs :
             confirming = [t \in EditedTxs |-> IF t = one THEN "idle" ELSE "gone"]
     \/ /\ edits = MaxEdits
        /\ confirming = [t \in EditedTxs |-> "idle"]
  /\ metas = [t \in EditedTxs |-> NoTxMeta]
  /\ signing = [t \in EditedTxs |-> NoTxMeta]
  /\ editing = [e \in Editors |-> NoEdit]
  /\ simulating = [t \in EditedTxs |-> {}]
  /\ poller = [running |-> FALSE, timeout |-> FALSE, strayTimers |-> 0,
               stoppedInUpdate |-> FALSE, rejected |-> FALSE]
  /\ feeUpdates = [u \in Updates |-> NoFeeUpdate]
  /\ confirmedAs = [t \in EditedTxs |-> Given]
  /\ told = [t \in EditedTxs |-> {}]
  /\ incidents = [t \in EditedTxs |-> {}]

-----------------------------------------------------------------------------

(***************************************************************************)
(* GasFeePoller                                                            *)
(***************************************************************************)

unapprovedIn(T) == {t \in EditedTxs : T[t] # NoTxMeta /\ T[t].status = "unapproved"}

goesOn(u) == feeUpdates[u] # NoFeeUpdate /\ ~feeUpdates[u].rejected

\* setTimeout: the timer that was in #timeout, if it has not fired, is no longer known.
timerSet(p) ==
  [p EXCEPT !.timeout = TRUE, !.strayTimers = IF p.timeout THEN @ + 1 ELSE @]

\* onStateChange, which hears of every new list T.  A start begins with an update.
\* A stop clears the timer, and if an update is under way there is none.
listChanged(T) ==
  LET unapproved == unapprovedIn(T) IN
  \/ /\ unapproved # {} <=> poller.running
     /\ UNCHANGED <<poller, feeUpdates>>
  \/ /\ unapproved # {} /\ ~poller.running
     /\ \E u \in Updates :
          /\ feeUpdates[u] = NoFeeUpdate
          /\ feeUpdates' = [feeUpdates EXCEPT ![u] =
                            [NoFeeUpdate EXCEPT !.step = "fetching", !.left = unapproved]]
     /\ poller' = [poller EXCEPT !.running = TRUE, !.rejected = FALSE]
  \/ /\ unapproved = {} /\ poller.running
     /\ poller' = [poller EXCEPT
          !.running = FALSE, !.timeout = FALSE,
          !.stoppedInUpdate = @ \/ \E u \in Updates : goesOn(u)]
     /\ UNCHANGED feeUpdates

\* #onTimeout, of the timer in #timeout or of another one: with nothing to update
\* the next timer is set at once.
onTimeout ==
  \E fired \in
       (IF poller.timeout THEN {[poller EXCEPT !.timeout = FALSE]} ELSE {}) \cup
       (IF poller.strayTimers > 0 THEN {[poller EXCEPT !.strayTimers = @ - 1]} ELSE {}) :
    /\ \/ /\ unapprovedIn(metas) = {}
          /\ poller' = timerSet(fired)
          /\ UNCHANGED feeUpdates
       \/ /\ unapprovedIn(metas) # {}
          /\ poller' = fired
          /\ \E u \in Updates :
               /\ feeUpdates[u] = NoFeeUpdate
               /\ feeUpdates' = [feeUpdates EXCEPT ![u] =
                    [NoFeeUpdate EXCEPT !.step = "fetching", !.left = unapprovedIn(metas)]]
    /\ UNCHANGED <<metas, confirming, signing, editing, simulating, edits, toldVars,
                   incidents>>

\* GasFeeController answers for all chains, or one request fails and the update with it.
gasFeesFetched(u) ==
  /\ feeUpdates[u].step = "fetching"
  /\ \/ /\ feeUpdates' = [feeUpdates EXCEPT ![u].step = "updating"]
        /\ UNCHANGED poller
     \/ /\ feeUpdates' = [feeUpdates EXCEPT ![u] = NoFeeUpdate]
        /\ poller' = [poller EXCEPT !.rejected = TRUE]
  /\ UNCHANGED <<metas, confirming, signing, editing, simulating, edits, toldVars, incidents>>

(***************************************************************************)
(* The estimates of one of the transactions are there and are written,     *)
(* whatever its status is by now.  Writing throws if it is gone, and the   *)
(* update is rejected; the others of it are still written.  Where there    *)
(* are no new estimates nothing is written.  The next timer is set after   *)
(* the last one.                                                           *)
(***************************************************************************)
estimatesWritten(u, t, isNew) ==
  LET rejected == feeUpdates[u].rejected \/ (isNew /\ metas[t] = NoTxMeta)
      left == feeUpdates[u].left \ {t}
  IN /\ feeUpdates[u].step = "updating" /\ t \in feeUpdates[u].left
     /\ feeUpdates' = [feeUpdates EXCEPT ![u] =
          IF left = {} THEN NoFeeUpdate ELSE [@ EXCEPT !.left = left, !.rejected = rejected]]
     /\ poller' = IF left = {} /\ ~rejected THEN timerSet(poller)
                  ELSE [poller EXCEPT !.rejected = @ \/ rejected]
     /\ UNCHANGED <<metas, confirming, signing, editing, simulating, edits, toldVars,
                    incidents>>

-----------------------------------------------------------------------------

(***************************************************************************)
(* Edits and simulations                                                   *)
(***************************************************************************)

\* #checkIfTransactionParamsUpdated: fees do not change the effects.
callChanged(old, new) == old.params.call # new.params.call

\* #updateTransactionInternal with a whole record: if it calls something else, its
\* effects are simulated again.  A transaction that is gone stays so.
written(t, meta, incident) ==
  IF metas[t] = NoTxMeta
  THEN UNCHANGED <<metas, simulating, poller, feeUpdates, incidents>>
  ELSE LET simulates == callChanged(metas[t], meta)
           simulation == IF simulates THEN NoSimulation ELSE meta.simulation
           T == [metas EXCEPT ![t] = [meta EXCEPT !.simulation = simulation]]
           raced == IF simulates THEN simulating[t] # {}
                    ELSE meta.simulation # metas[t].simulation
       IN /\ metas' = T
          /\ simulating' =
               IF simulates THEN [simulating EXCEPT ![t] = @ \cup {meta.params.call}]
               ELSE simulating
          /\ incidents' =
               [incidents EXCEPT ![t] = @ \cup incident \cup (IF raced THEN {"raced"} ELSE {})]
          /\ listChanged(T)

\* getSimulationData answers: what it found is written, whatever was written since.
simulationAnswered(t, call) ==
  /\ call \in simulating[t]
  /\ simulating' = [simulating EXCEPT ![t] = @ \ {call}]
  /\ metas' = IF metas[t] = NoTxMeta THEN metas
              ELSE [metas EXCEPT ![t].simulation = call]
  /\ UNCHANGED <<confirming, signing, editing, poller, feeUpdates, edits, toldVars, incidents>>

isListed(t) == metas[t] # NoTxMeta

\* Fault: the status is not looked at.
mayEditListed(t) == isListed(t)

\* validateIfTransactionUnapproved
mayEdit(t) == isListed(t) /\ metas[t].status = "unapproved"

\* A write between the confirmation and the moment the nonce is there is signed
\* unseen; a later one overwrites what was approved.
incidentOf(t) ==
  CASE confirming[t] = "approving" -> {"edited late"}
    [] confirming[t] \in {"signing", "publishing", "done"} -> {"overwritten"}
    [] OTHER -> {}

\* updateTransactionGasFees
updateTransactionGasFees(t, fees) ==
  /\ mayEdit(t) /\ edits < MaxEdits /\ fees # metas[t].params.fees
  /\ edits' = edits + 1
  /\ written(t, [metas[t] EXCEPT !.params.fees = fees],
             incidentOf(t) \cap {"edited late"})
  /\ UNCHANGED <<confirming, signing, editing, toldVars>>

\* updateEditableParams up to its first await: the type of the transaction and its
\* layer 1 fee are asked for.
updateEditableParams(e, t, params) ==
  /\ editing[e] = NoEdit /\ mayEdit(t) /\ edits < MaxEdits
  /\ edits' = edits + 1
  /\ editing' = [editing EXCEPT ![e] =
                   [tx |-> t, meta |-> [metas[t] EXCEPT !.params = params]]]
  /\ UNCHANGED <<metas, confirming, signing, simulating, poller, feeUpdates, toldVars,
                 incidents>>

\* Its end: the record of then is written; or the network fails, and nothing is.
editableParamsUpdated(e) ==
  LET t == editing[e].tx IN
  /\ editing[e] # NoEdit
  /\ editing' = [editing EXCEPT ![e] = NoEdit]
  /\ \/ written(t, editing[e].meta, incidentOf(t))
     \/ UNCHANGED <<metas, simulating, poller, feeUpdates, incidents>>
  /\ UNCHANGED <<confirming, signing, edits, toldVars>>

-----------------------------------------------------------------------------

(***************************************************************************)
(* Notes                                                                   *)
(***************************************************************************)

\* A call that has read the record of t will write it back.
isBeingWritten(t) ==
  (\E e \in Editors : editing[e].tx = t) \/ confirming[t] \in {"signing", "publishing"}

\* A note is written to the record as it is now.
noteMade(t, note) ==
  /\ edits < MaxEdits
  /\ edits' = edits + 1
  /\ told' = [told EXCEPT ![t] = @ \cup {note}]
  /\ written(t, [metas[t] EXCEPT !.notes = @ \cup {note}],
             IF isBeingWritten(t) THEN {"told late"} ELSE {})
  /\ UNCHANGED <<confirming, signing, editing, confirmedAs>>

\* The alert comes when it comes: whatever the status is.
updateSecurityAlertResponse(t) ==
  isListed(t) /\ "alert" \notin metas[t].notes /\ noteMade(t, "alert")

\* The entry is added to a history of the length that the caller saw, or not at all.
updateTransactionSendFlowHistory(t) ==
  mayEdit(t) /\ "sends" \notin metas[t].notes /\ noteMade(t, "sends")

updatePreviousGasParams(t) == mayEdit(t) /\ noteMade(t, "previousGas")

-----------------------------------------------------------------------------

(***************************************************************************)
(* From addTransaction to the end of approveTransaction                    *)
(***************************************************************************)

\* The end of addTransaction: what needs no approval is not simulated.
editedTransactionAdded(t, requireApproval) ==
  LET T == [metas EXCEPT ![t] = [status |-> "unapproved", params |-> Given,
                                 simulation |-> NoSimulation, notes |-> {}]]
  IN /\ confirming[t] = "idle"
     /\ metas' = T
     /\ confirming' = [confirming EXCEPT ![t] =
                         IF requireApproval THEN "asking" ELSE "approving"]
     /\ simulating' = IF requireApproval
                      THEN [simulating EXCEPT ![t] = {Given.call}] ELSE simulating
     /\ listChanged(T)
     /\ UNCHANGED <<signing, editing, edits, toldVars, incidents>>

\* The user confirms.  The user interface may send the record back with its edits;
\* it is written as it is.
editedTransactionConfirmed(t, params) ==
  /\ confirming[t] = "asking" /\ isListed(t)
  /\ params = metas[t].params \/ edits < MaxEdits
  /\ edits' = IF params = metas[t].params THEN edits ELSE edits + 1
  /\ confirming' = [confirming EXCEPT ![t] = "approving"]
  /\ confirmedAs' = [confirmedAs EXCEPT ![t] = params]
  /\ written(t, [metas[t] EXCEPT !.params = params], {})
  /\ UNCHANGED <<signing, editing, told>>

\* The user rejects the transaction, or clears the list.
editedTransactionGone(t) ==
  LET T == [metas EXCEPT ![t] = NoTxMeta] IN
  /\ isListed(t)
  /\ metas' = T
  /\ confirming' = [confirming EXCEPT ![t] = "gone"]
  /\ signing' = [signing EXCEPT ![t] = NoTxMeta]
  /\ listChanged(T)
  /\ UNCHANGED <<editing, simulating, edits, toldVars, incidents>>

\* approveTransaction has its nonce: what the list holds now is approved, and signed.
editedTransactionApproved(t) ==
  LET meta == [metas[t] EXCEPT !.status = "approved"]
      T == [metas EXCEPT ![t] = meta]
  IN /\ confirming[t] = "approving"
     /\ confirming' = [confirming EXCEPT ![t] = "signing"]
     /\ signing' = [signing EXCEPT ![t] = meta]
     /\ metas' = T
     /\ listChanged(T)
     /\ UNCHANGED <<editing, simulating, edits, toldVars, incidents>>

\* The keyring signs: the record that was approved is written.
editedTransactionSigned(t) ==
  /\ confirming[t] = "signing"
  /\ confirming' = [confirming EXCEPT ![t] = "publishing"]
  /\ signing' = [signing EXCEPT ![t].status = "signed"]
  /\ written(t, [signing[t] EXCEPT !.status = "signed"], {})
  /\ UNCHANGED <<editing, edits, toldVars>>

\* The network has the transaction: only its status changes.
editedTransactionPublished(t) ==
  LET T == [metas EXCEPT ![t].status = "submitted"] IN
  /\ confirming[t] = "publishing"
  /\ confirming' = [confirming EXCEPT ![t] = "done"]
  /\ metas' = T
  /\ listChanged(T)
  /\ UNCHANGED <<signing, editing, simulating, edits, toldVars, incidents>>

\* Signing or publishing fails: the record that was approved is written.
editedTransactionFailed(t) ==
  /\ confirming[t] \in {"signing", "publishing"}
  /\ confirming' = [confirming EXCEPT ![t] = "done"]
  /\ written(t, [signing[t] EXCEPT !.status = "failed"], {})
  /\ UNCHANGED <<signing, editing, edits, toldVars>>

-----------------------------------------------------------------------------

EditsNext ==
  \/ onTimeout
  \/ \E u \in Updates :
       \/ gasFeesFetched(u)
       \/ \E t \in EditedTxs, isNew \in BOOLEAN : estimatesWritten(u, t, isNew)
  \/ \E e \in Editors :
       \/ \E t \in EditedTxs, params \in TxParams : updateEditableParams(e, t, params)
       \/ editableParamsUpdated(e)
  \/ \E t \in EditedTxs :
       \/ \E requireApproval \in BOOLEAN : editedTransactionAdded(t, requireApproval)
       \/ \E fees \in EditVersions : updateTransactionGasFees(t, fees)
       \/ \E call \in EditVersions : simulationAnswered(t, call)
       \/ updateSecurityAlertResponse(t) \/ updatePreviousGasParams(t)
       \/ updateTransactionSendFlowHistory(t)
       \/ \E params \in TxParams : editedTransactionConfirmed(t, params)
       \/ editedTransactionGone(t) \/ editedTransactionApproved(t)
       \/ editedTransactionSigned(t) \/ editedTransactionPublished(t)
       \/ editedTransactionFailed(t)

-----------------------------------------------------------------------------

\* What is signed was confirmed, but for edits that end after the confirmation; and
\* the list goes on to show what was signed, and never as unapproved, but for calls
\* of updateEditableParams that began before ("Can only call [...] on an unapproved
\* transaction").
SignedIsShown ==
  \A t \in EditedTxs : confirming[t] \in {"signing", "publishing", "done"} =>
    /\ "edited late" \notin incidents[t] => signing[t].params = confirmedAs[t]
    /\ "overwritten" \notin incidents[t] =>
         metas[t].params = signing[t].params /\ metas[t].status # "unapproved"

\* What the user is shown of the effects belongs to what is asked for, and comes, unless
\* a simulation was overtaken by another one or an edit wrote back an older record.
SimulationIsOfCall ==
  \A t \in EditedTxs : confirming[t] = "asking" /\ "raced" \notin incidents[t] =>
    \/ metas[t].simulation = metas[t].params.call /\ simulating[t] = {}
    \/ metas[t].simulation = NoSimulation /\ simulating[t] = {metas[t].params.call}

\* What was noted of a transaction is shown with it, also when others write it, but for
\* notes made while a call was under way that read the record before.
NotesAreKept ==
  \A t \in EditedTxs : isListed(t) /\ "told late" \notin incidents[t] =>
    metas[t].notes = told[t]

\* "Automatically polls and updates suggested gas fees on unapproved transactions": as
\* long as there are any, there is one more update to come, and only one, unless one
\* was rejected; without any there is none.  A stop within an update breaks both.
EstimatesGoOn ==
  LET timers == poller.strayTimers + (IF poller.timeout THEN 1 ELSE 0)
      loops == timers + Cardinality({u \in Updates : goesOn(u)})
  IN /\ poller.running <=> unapprovedIn(metas) # {}
     /\ poller.running /\ ~poller.rejected => loops > 0
     /\ ~poller.stoppedInUpdate => loops <= (IF poller.running THEN 1 ELSE 0)

(***************************************************************************)
(* Edits, notes, simulations, estimates and signatures do not undo each    *)
(* other.                                                                  *)
(***************************************************************************)
EditsAreKept ==
  EditsTypeOK /\ SignedIsShown /\ SimulationIsOfCall /\ NotesAreKept /\ EstimatesGoOn
=============================================================================
