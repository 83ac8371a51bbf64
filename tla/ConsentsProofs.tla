------------------------------ MODULE ConsentsProofs ------------------------------
(***************************************************************************)
(* What Consents promises of permissions, signatures, user operations and  *)
(* flows, proved for any dapps, wallets and requests.  The invariant has   *)
(* one part for each component; a step of one component keeps the others'  *)
(* parts because it leaves their variables alone, and the approvals, which *)
(* they share, by the lemmas of ApprovalControllerProofs.                  *)
(***************************************************************************)
EXTENDS Consents, ApprovalControllerProofs, SequenceTheorems

-----------------------------------------------------------------------------

(* The invariant. *)

PageSteps == [step : {"idle", "closed"}] \cup [step : {"shown"}, flow : Flows]

\* A flow is once on the stack, and one that is left there has been ended.
FlowsInv ==
  /\ approvalFlows \in Seq(Flows)
  /\ usesFlow \in [Flows -> {"not yet", "open", "ended"}]
  /\ page \in [Pages -> PageSteps]
  /\ outOfOrder \in SUBSET Flows
  /\ \A f \in outOfOrder : usesFlow[f] = "ended"
  /\ \A i, j \in DOMAIN approvalFlows : approvalFlows[i] = approvalFlows[j] => i = j
  /\ FlowsShownAreOpen

UiWaits == [ApprovalIds -> {"no", "waiting", "told"}]

\* Side effects run for a request of which something was approved.
PermSteps ==
  {IdlePermRequest, EndedPermRequest} \cup
    {q \in [step : {"asking", "effects"}, origin : Origins, asked : Permissions,
            approved : Permissions, preserve : BOOLEAN] :
       q.step = "effects" => targetsOf(q.approved) # {}}

PermTypes ==
  /\ subjects \in [Origins -> Permissions \cup {NoSubject}]
  /\ permRequest \in [PermRequests -> PermSteps]
  /\ subjectMetadata \in SUBSET Origins
  /\ encountered \in Seq(Origins)
  /\ walletSteps \in 0..MaxWalletSteps

\* What consentTo collects, one value of a caveat at a time.
consentsTo(o, P, C) ==
  \A t \in targetsOf(P) : IF P[t] = {} THEN <<o, t, Unrestricted>> \in C
                          ELSE \A v \in P[t] : <<o, t, v>> \in C

\* A subject's permissions are justified by what was consented and what has succeeded.
justified(o, P, C, E) ==
  P # NoSubject =>
    /\ targetsOf(P) # {}
    /\ consentsTo(o, P, C)
    /\ \A t \in targetsOf(P) \cap Eventful : <<o, t>> \in E

PermInv == PermTypes /\ \A o \in Origins : justified(o, subjects[o], consented, effects)

\* A message and the call that has made it: who hears of a status that is final hears
\* it first, and what was heard of a message that is not withdrawn stays true enough.
MessageInv(m) ==
  /\ signCall[m] \in {"signing", "waiting", "returned"} \/ messages[m] = "signed" => m \in confirmed
  /\ signCall[m] \in {"idle", "checking"} => messages[m] = "none" /\ finishStatus[m] = "none"
  /\ signCall[m] = "asking" =>
       finishStatus[m] # "signed" /\ (finishStatus[m] # "none" => m \in withdrawn)
  /\ signCall[m] \in {"asking", "signing", "waiting"} =>
       /\ finishStatus[m] = "signed" => messages[m] = "signed"
       /\ finishStatus[m] # "none" /\ m \notin withdrawn => messages[m] \in FinalStatuses
  /\ signCall[m] = "returned" => messages[m] = "signed"
  /\ signCall[m] \in {"returned", "threw"} /\ messages[m] # "none" /\ m \notin withdrawn =>
       messages[m] \in FinalStatuses

MsgInv ==
  /\ MessagesTypeOK
  /\ \A m \in Messages : MessageInv(m)
  /\ listed \subseteq unapprovedIn(messages)

\* Only a call that asks the user has an approval.
AskedInv ==
  \A m \in Messages :
     IF part = "signatures" THEN m \in approvals => signCall[m] = "asking" ELSE signCall[m] = "idle"

Built == [data : Versions \cup {"none"}, fees : Versions \cup {"none"},
          paymaster : Requests \cup {NoPaymaster}]

\* The operation is the one the user was asked for.
asBuilt(u) ==
  /\ userOperation[u].data = opRequest[u].data /\ userOperation[u].fees = opRequest[u].fees
  /\ userOperation[u].paymaster \in {NoPaymaster, opRequest[u]}

\* An operation that goes on, or that the bundler has, is as built; and what the checks
\* and the state say of it goes back to the bundler.
OperationInv(u) ==
  /\ \/ opCall[u] \in {"sponsoring", "sponsoring again", "asking", "signing", "sending", "done"}
     \/ u \in sent
     => asBuilt(u)
  /\ u \in sent => opCall[u] \in {"sending", "done", "failed", "gone"}
  /\ opCall[u] = "done" => u \in sent
  /\ receipt[u] # "none" => u \in sent
  /\ checks[u].block > 0 \/ userOperations[u] = "confirmed" => receipt[u] = "confirmed"
  /\ userOperations[u] \in {"submitted", "confirmed"} => u \in sent
  /\ checks[u].receipt + checks[u].block <= MaxPolls

OpInv ==
  /\ UserOperationsTypeOK
  /\ userOperation \in [UserOperations -> Built]
  /\ sent \in SUBSET UserOperations
  /\ \A u \in UserOperations : OperationInv(u)

ConsentsInv ==
  /\ ApprovalsInv /\ FlowsInv /\ PermInv /\ MsgInv /\ AskedInv /\ OpInv
  /\ uiWaits \in UiWaits
  /\ part \in {"permissions", "flows", "signatures", "user operations"}

-----------------------------------------------------------------------------

(* What a step leaves alone. *)

LEMMA KeptApprovals ==
  ASSUME ApprovalsInv, UNCHANGED approvalVars
  PROVE  ApprovalsInv'
BY DEF ApprovalsInv, ApprovalsTypeOK, ApprovalsAgree, approvalVars, countOf

LEMMA KeptFlows ==
  ASSUME FlowsInv, UNCHANGED flowVars
  PROVE  FlowsInv'
BY DEF FlowsInv, flowVars, FlowsShownAreOpen

LEMMA KeptPermissions ==
  ASSUME PermInv, UNCHANGED permissionVars
  PROVE  PermInv'
BY DEF PermInv, PermTypes, permissionVars, metadataVars

LEMMA KeptMessages ==
  ASSUME MsgInv, UNCHANGED messageVars
  PROVE  MsgInv'
BY DEF MsgInv, MessageInv, MessagesTypeOK, messageVars, historyVars

LEMMA KeptOperations ==
  ASSUME OpInv, UNCHANGED userOperationVars
  PROVE  OpInv'
BY DEF OpInv, OperationInv, asBuilt, UserOperationsTypeOK, userOperationVars

\* The requests of other parts do not touch messages.
LEMMA KeptAsked ==
  ASSUME AskedInv, part # "signatures", UNCHANGED <<part, signCall>>
  PROVE  AskedInv'
BY DEF AskedInv

-----------------------------------------------------------------------------

(* Flows and pages. *)

LEMMA EndingAFlow ==
  ASSUME FlowsInv, NEW f \in Flows, ended(f), page' \in [Pages -> PageSteps]
  PROVE  FlowsInv'
<1>0. /\ approvalFlows \in Seq(Flows)
      /\ \A i, j \in DOMAIN approvalFlows : approvalFlows[i] = approvalFlows[j] => i = j
  BY DEF FlowsInv
<1>1. usesFlow' = [usesFlow EXCEPT ![f] = "ended"] BY DEF ended
<1>2. usesFlow' \in [Flows -> {"not yet", "open", "ended"}] BY <1>1 DEF FlowsInv
<1>3. CASE approvalFlows # <<>> /\ Last(approvalFlows) = f
  <2> DEFINE n == Len(approvalFlows)
  <2>1. n \in Nat \ {0} /\ DOMAIN approvalFlows = 1..n /\ approvalFlows[n] = f
    BY <1>0, <1>3 DEF Last
  <2>2. approvalFlows' = SubSeq(approvalFlows, 1, n - 1) /\ outOfOrder' = outOfOrder
    BY <1>3 DEF ended, Front
  <2>3. \A i \in 1..(n - 1) : approvalFlows[i] \in Flows BY <1>0
  <2> HIDE DEF n
  <2>4. /\ approvalFlows' \in Seq(Flows)
        /\ Len(approvalFlows') = n - 1
        /\ \A i \in 1..(n - 1) : approvalFlows'[i] = approvalFlows[i] BY <2>1, <2>2, <2>3
  <2>5. DOMAIN approvalFlows' = 1..(n - 1) BY <2>4
  <2>6. \A i, j \in DOMAIN approvalFlows' : approvalFlows'[i] = approvalFlows'[j] => i = j
    BY <1>0, <2>1, <2>4
  <2>7. \A g \in Flows \ {f} : (\E i \in DOMAIN approvalFlows' : approvalFlows'[i] = g)
                                <=> (\E i \in DOMAIN approvalFlows : approvalFlows[i] = g)
    BY <2>1, <2>4
  <2>8. \A i \in DOMAIN approvalFlows' : approvalFlows'[i] # f BY <1>0, <2>1, <2>4
  <2>9. FlowsShownAreOpen' BY <1>1, <2>2, <2>7, <2>8 DEF FlowsInv, FlowsShownAreOpen
  <2> QED BY <1>1, <1>2, <2>2, <2>4, <2>6, <2>9 DEF FlowsInv
<1>4. CASE ~(approvalFlows # <<>> /\ Last(approvalFlows) = f)
  <2>1. approvalFlows' = approvalFlows /\ outOfOrder' = outOfOrder \cup {f} BY <1>4 DEF ended
  <2>2. FlowsShownAreOpen' BY <1>1, <2>1 DEF FlowsInv, FlowsShownAreOpen
  <2> QED BY <1>1, <2>1, <2>2 DEF FlowsInv
<1> QED BY <1>3, <1>4

LEMMA StartingAFlow ==
  ASSUME FlowsInv, NEW f \in Flows, startFlow(f)
  PROVE  FlowsInv'
<1> DEFINE n == Len(approvalFlows)
<1>0. /\ approvalFlows \in Seq(Flows)
      /\ \A i, j \in DOMAIN approvalFlows : approvalFlows[i] = approvalFlows[j] => i = j
  BY DEF FlowsInv
<1>1. /\ usesFlow[f] = "not yet" /\ usesFlow' = [usesFlow EXCEPT ![f] = "open"]
      /\ approvalFlows' = Append(approvalFlows, f)
      /\ page' = page /\ outOfOrder' = outOfOrder BY DEF startFlow
<1>2. n \in Nat /\ DOMAIN approvalFlows = 1..n OBVIOUS
<1>3. /\ approvalFlows' \in Seq(Flows)
      /\ Len(approvalFlows') = n + 1
      /\ \A i \in 1..n : approvalFlows'[i] = approvalFlows[i]
      /\ approvalFlows'[n + 1] = f
  <2> DEFINE s == Append(approvalFlows, f)
  <2>1. /\ s \in Seq(Flows)
        /\ Len(s) = n + 1
        /\ \A i \in 1..n : s[i] = approvalFlows[i]
        /\ s[n + 1] = f BY <1>0
  <2>2. approvalFlows' = s BY <1>1
  <2> HIDE DEF s, n
  <2> QED BY <2>1, <2>2
<1> HIDE DEF n
<1>4. DOMAIN approvalFlows' = 1..(n + 1) BY <1>3
<1>5. f \notin outOfOrder /\ \A i \in 1..n : approvalFlows[i] # f
  BY <1>1, <1>2 DEF FlowsInv, FlowsShownAreOpen
<1>6. \A i, j \in DOMAIN approvalFlows' : approvalFlows'[i] = approvalFlows'[j] => i = j
  BY <1>0, <1>2, <1>3, <1>5
<1>7. \A g \in Flows : (\E i \in DOMAIN approvalFlows' : approvalFlows'[i] = g)
                        <=> (g = f \/ \E i \in DOMAIN approvalFlows : approvalFlows[i] = g)
  BY <1>2, <1>3
<1>8. FlowsShownAreOpen' BY <1>1, <1>7 DEF FlowsInv, FlowsShownAreOpen
<1> QED BY <1>1, <1>3, <1>6, <1>8 DEF FlowsInv

LEMMA FlowSteps ==
  ASSUME ApprovalsAssumption, FlowsAssumption, ApprovalsInv, FlowsInv, FlowsNext
  PROVE  ApprovalsInv' /\ FlowsInv' /\ uiWaits' = uiWaits
<1>1. ASSUME NEW p \in Pages
      PROVE  [page EXCEPT ![p] = [step |-> "closed"]] \in [Pages -> PageSteps]
  BY DEF FlowsInv, PageSteps
<1>2. ASSUME NEW p \in Pages, page[p].step = "shown"
      PROVE  page[p].flow \in Flows BY <1>2 DEF FlowsInv, PageSteps
<1>3. ASSUME NEW f \in Flows, startFlow(f) \/ endFlow(f)
      PROVE  ApprovalsInv' /\ FlowsInv' /\ uiWaits' = uiWaits
  BY <1>3, KeptApprovals, StartingAFlow, EndingAFlow DEF startFlow, endFlow, FlowsInv
<1>4. ASSUME NEW p \in Pages, NEW f \in Flows, NEW type \in {"success", "error"},
             result(p, type, f)
      PROVE  ApprovalsInv' /\ FlowsInv' /\ uiWaits' = uiWaits
  <2>1. CASE mayAdd(p, Wallet, type)
    <3> DEFINE a == [origin |-> Wallet, type |-> type]
    <3>1. a \in Approval /\ p \in ApprovalIds \ approvals BY <2>1 DEF Approval, mayAdd
    <3>2. /\ add(p, a) /\ page' = [page EXCEPT ![p] = [step |-> "shown", flow |-> f]]
          /\ UNCHANGED <<approvalFlows, usesFlow, outOfOrder, uiWaits>> BY <1>4, <2>1 DEF result
    <3>3. page' \in [Pages -> PageSteps] BY <3>2 DEF FlowsInv, PageSteps
    <3>4. FlowsInv' BY <3>2, <3>3 DEF FlowsInv, FlowsShownAreOpen
    <3> HIDE DEF a
    <3> QED BY <3>1, <3>2, <3>4, Adding
  <2>2. CASE ~mayAdd(p, Wallet, type) BY <1>1, <1>4, <2>2, EndingAFlow, KeptApprovals DEF result
  <2> QED BY <2>1, <2>2
<1>5. ASSUME NEW p \in Pages, NEW accepted \in BOOLEAN, pageClosed(p, accepted)
      PROVE  ApprovalsInv' /\ FlowsInv' /\ uiWaits' = uiWaits
  BY <1>1, <1>5, <1>2, EndingAFlow, Deleting DEF pageClosed, endsFlow
<1>6. CASE approvalsCleared BY <1>6, <1>1, <1>2, EndingAFlow, Clearing DEF approvalsCleared
<1> QED BY <1>3, <1>4, <1>5, <1>6 DEF FlowsNext

-----------------------------------------------------------------------------

(* Permissions. *)

\* The set consentTo is what consentsTo quantifies over.
LEMMA ConsentIs ==
  ASSUME NEW o, NEW P \in Permissions, NEW C
  PROVE  consentTo(o, P) \subseteq C <=> consentsTo(o, P, C)
<1>1. ASSUME NEW t \in targetsOf(P)
      PROVE  t \in Targets /\ P[t] \in SUBSET Values BY DEF targetsOf, Permissions, Permission
<1>2. ASSUME consentTo(o, P) \subseteq C
      PROVE  consentsTo(o, P, C)
  <2> SUFFICES ASSUME NEW t \in targetsOf(P)
               PROVE  IF P[t] = {} THEN <<o, t, Unrestricted>> \in C
                      ELSE \A v \in P[t] : <<o, t, v>> \in C BY DEF consentsTo
  <2>1. P[t] = {} => <<o, t, Unrestricted>> \in consentTo(o, P) BY DEF consentTo
  <2>2. \A v \in P[t] : <<o, t, v>> \in consentTo(o, P) BY <1>1 DEF consentTo
  <2> QED BY <1>2, <2>1, <2>2
<1>3. ASSUME consentsTo(o, P, C)
      PROVE  consentTo(o, P) \subseteq C
  <2> SUFFICES ASSUME NEW c \in consentTo(o, P)
               PROVE  c \in C OBVIOUS
  <2>1. /\ c[2] \in targetsOf(P) /\ c = <<o, c[2], c[3]>>
        /\ IF P[c[2]] = {} THEN c[3] = Unrestricted ELSE c[3] \in P[c[2]] BY DEF consentTo
  <2> QED BY <1>3, <2>1 DEF consentsTo
<1> QED BY <1>2, <1>3

LEMMA ConsentGrows ==
  ASSUME NEW o, NEW P, NEW C, NEW D, consentsTo(o, P, C), C \subseteq D
  PROVE  consentsTo(o, P, D)
BY DEF consentsTo

LEMMA JustifiedGrows ==
  ASSUME NEW o, NEW P, NEW C, NEW D, NEW E, NEW F,
         justified(o, P, C, E), C \subseteq D, E \subseteq F
  PROVE  justified(o, P, D, F)
BY ConsentGrows DEF justified

LEMMA NoneIsPermissions ==
  ASSUME PermissionsAssumption
  PROVE  NoPermissions \in Permissions /\ targetsOf(NoPermissions) = {}
BY DEF NoPermissions, Permissions, targetsOf

LEMMA PermissionsAre ==
  ASSUME PermissionsAssumption, PermTypes, NEW o \in Origins
  PROVE  getPermissions(o) \in Permissions
BY NoneIsPermissions DEF PermTypes, getPermissions

\* Every target of getPermissions is justified, with or without a subject.
LEMMA GotIsJustified ==
  ASSUME PermissionsAssumption, PermInv, NEW o \in Origins
  PROVE  /\ consentsTo(o, getPermissions(o), consented)
         /\ \A t \in targetsOf(getPermissions(o)) \cap Eventful : <<o, t>> \in effects
BY NoneIsPermissions DEF PermInv, justified, getPermissions, consentsTo

\* Permissions put together from justified ones, target by target, are justified.
LEMMA TogetherJustified ==
  ASSUME NEW o, NEW P, NEW Q, NEW R, NEW C, NEW E,
         consentsTo(o, P, C), consentsTo(o, Q, C),
         \A t \in (targetsOf(P) \cup targetsOf(Q)) \cap Eventful : <<o, t>> \in E,
         targetsOf(P) # {},
         \A t \in Targets : \/ R[t] = P[t]
                            \/ R[t] = Q[t] /\ P[t] = NoPermission
                            \/ P[t] # NoPermission /\ Q[t] # NoPermission /\ R[t] = Q[t] \cup P[t],
         \A t \in Targets : P[t] # NoPermission => R[t] # NoPermission
  PROVE  justified(o, R, C, E)
<1>1. targetsOf(R) # {} BY DEF targetsOf
<1>2. targetsOf(R) \subseteq targetsOf(P) \cup targetsOf(Q) BY DEF targetsOf
<1>3. consentsTo(o, R, C)
  <2> SUFFICES ASSUME NEW t \in targetsOf(R)
               PROVE  IF R[t] = {} THEN <<o, t, Unrestricted>> \in C
                      ELSE \A v \in R[t] : <<o, t, v>> \in C BY DEF consentsTo
  <2>1. CASE R[t] = P[t] BY DEF consentsTo, targetsOf
  <2>2. CASE R[t] = Q[t] /\ P[t] = NoPermission BY DEF consentsTo, targetsOf
  <2>3. CASE P[t] # NoPermission /\ Q[t] # NoPermission /\ R[t] = Q[t] \cup P[t]
    BY DEF targetsOf, consentsTo
  <2> QED BY <2>1, <2>2, <2>3 DEF targetsOf
<1> QED BY <1>1, <1>2, <1>3 DEF justified

\* Where the new permission has nothing of its own, the old one counts.
LEMMA GrantedIsJustified ==
  ASSUME PermissionsAssumption, PermInv, NEW o \in Origins, NEW P \in Permissions,
         NEW preserve \in BOOLEAN, NEW C, NEW E, consented \subseteq C, effects \subseteq E,
         targetsOf(P) # {}, consentTo(o, P) \subseteq C, {o} \X getSideEffects(P) \subseteq E
  PROVE  /\ granted(o, P, preserve) \in Permissions
         /\ justified(o, granted(o, P, preserve), C, E)
<1> DEFINE Q == IF preserve THEN getPermissions(o) ELSE NoPermissions
           R == granted(o, P, preserve)
<1>1. Q \in Permissions /\ consentsTo(o, Q, C) /\ \A t \in targetsOf(Q) \cap Eventful : <<o, t>> \in E
  BY NoneIsPermissions, PermissionsAre, GotIsJustified DEF PermInv, consentsTo
<1>2. consentsTo(o, P, C) /\ \A t \in targetsOf(P) \cap Eventful : <<o, t>> \in E
  BY ConsentIs DEF getSideEffects
<1>3. R = [t \in Targets |-> IF P[t] # NoPermission THEN P[t] ELSE Q[t]]
  BY DEF granted, NoPermissions
<1> HIDE DEF Q, R
<1>4. R \in Permissions BY <1>1, <1>3 DEF Permissions
<1>5. justified(o, R, C, E) BY <1>1, <1>2, <1>3, TogetherJustified
<1> QED BY <1>4, <1>5 DEF R

LEMMA MergedIsPermissions ==
  ASSUME NEW P \in Permissions, NEW Q \in Permissions
  PROVE  mergeIncrementalPermissions(Q, P) \in Permissions
BY DEF mergeIncrementalPermissions, mergePermission, Permissions, Permission

LEMMA MergedIsJustified ==
  ASSUME PermissionsAssumption, PermInv, NEW o \in Origins, NEW P \in Permissions,
         NEW C, NEW E, consented \subseteq C, effects \subseteq E,
         targetsOf(P) # {}, consentTo(o, P) \subseteq C, {o} \X targetsOf(P) \subseteq E
  PROVE  LET R == mergeIncrementalPermissions(getPermissions(o), P)
         IN R \in Permissions /\ justified(o, R, C, E)
<1> DEFINE Q == getPermissions(o)
           R == mergeIncrementalPermissions(Q, P)
<1>1. Q \in Permissions /\ consentsTo(o, Q, C) /\ \A t \in targetsOf(Q) \cap Eventful : <<o, t>> \in E
  BY PermissionsAre, GotIsJustified, ConsentGrows DEF PermInv
<1>2. consentsTo(o, P, C) /\ \A t \in targetsOf(P) : <<o, t>> \in E BY ConsentIs
<1>3. R = [t \in Targets |-> IF P[t] = NoPermission THEN Q[t]
                             ELSE IF Q[t] = NoPermission THEN P[t] ELSE Q[t] \cup P[t]]
  BY DEF mergeIncrementalPermissions, mergePermission
<1>4. R \in Permissions BY <1>1, MergedIsPermissions
<1>5. \A t \in Targets : P[t] # NoPermission => R[t] # NoPermission
  <2> SUFFICES ASSUME NEW t \in Targets, P[t] # NoPermission PROVE R[t] # NoPermission OBVIOUS
  <2>1. P[t] \in SUBSET Values /\ (Q[t] # NoPermission => Q[t] \in SUBSET Values)
    BY <1>1 DEF Permissions, Permission
  <2>2. Q[t] # NoPermission => Q[t] \cup P[t] # NoPermission BY <2>1
  <2> QED BY <1>3, <2>2
<1> HIDE DEF Q, R
<1>6. justified(o, R, C, E) BY <1>1, <1>2, <1>3, <1>5, TogetherJustified
<1> QED BY <1>4, <1>6 DEF Q, R

\* What is revoked takes only its own consent with it.
LEMMA WithoutIsJustified ==
  ASSUME PermissionsAssumption, NEW o, NEW P \in Permissions \cup {NoSubject}, NEW revoked,
         NEW C, NEW D, NEW E, justified(o, P, C, E),
         \A c \in C : c \in D \/ c[1] # o \/ c[2] \in revoked
  PROVE  /\ withoutPermissions(P, revoked) \in Permissions \cup {NoSubject}
         /\ justified(o, withoutPermissions(P, revoked), D, E)
<1> DEFINE R == [t \in Targets |-> IF t \in revoked THEN NoPermission ELSE P[t]]
<1>1. CASE P = NoSubject \/ targetsOf(P) \subseteq revoked BY <1>1 DEF withoutPermissions, justified
<1>2. CASE P # NoSubject /\ ~(targetsOf(P) \subseteq revoked)
  <2>1. withoutPermissions(P, revoked) = R /\ P \in Permissions BY <1>2 DEF withoutPermissions
  <2>2. R \in Permissions BY <2>1 DEF Permissions
  <2>3. targetsOf(R) = targetsOf(P) \ revoked /\ \A t \in targetsOf(R) : R[t] = P[t]
    BY DEF targetsOf
  <2> HIDE DEF R
  <2>4. consentsTo(o, R, D)
    <3> SUFFICES ASSUME NEW t \in targetsOf(R)
                 PROVE  IF R[t] = {} THEN <<o, t, Unrestricted>> \in D
                        ELSE \A v \in R[t] : <<o, t, v>> \in D BY DEF consentsTo
    <3>1. t \in targetsOf(P) /\ t \notin revoked /\ R[t] = P[t] BY <2>3
    <3>2. \A x : <<o, t, x>> \in C => <<o, t, x>> \in D BY <3>1
    <3>3. IF P[t] = {} THEN <<o, t, Unrestricted>> \in C ELSE \A v \in P[t] : <<o, t, v>> \in C
      BY <1>2, <3>1 DEF justified, consentsTo
    <3> QED BY <3>1, <3>3
  <2> QED BY <1>2, <2>1, <2>2, <2>3, <2>4 DEF justified
<1> QED BY <1>1, <1>2

\* A value that is taken out of every caveat.
leftOf(P, v) ==
  [t \in Targets |-> IF P[t] = {v} THEN NoPermission
                     ELSE IF P[t] = NoPermission THEN NoPermission ELSE P[t] \ {v}]

LEMMA MutatedIsJustified ==
  ASSUME PermissionsAssumption, NEW o, NEW P \in Permissions, NEW v \in Values, P # NoSubject,
         NEW C, NEW D, NEW E, justified(o, P, C, E),
         \A c \in C : c \in D \/ c[3] = v
  PROVE  /\ leftOf(P, v) \in Permissions
         /\ leftOf(P, v) # NoPermissions => justified(o, leftOf(P, v), D, E)
<1> DEFINE left == leftOf(P, v)
<1>0. left = [t \in Targets |-> IF P[t] = {v} THEN NoPermission
                                ELSE IF P[t] = NoPermission THEN NoPermission ELSE P[t] \ {v}]
  BY DEF leftOf
<1> HIDE DEF left
<1>1. \A t \in Targets : P[t] = NoPermission \/ P[t] \in SUBSET Values
  BY DEF Permissions, Permission
<1>2. left \in [Targets -> Permission \cup {NoPermission}] BY <1>0, <1>1 DEF Permission
<1>3. left \in Permissions BY <1>0, <1>2 DEF Permissions
<1>4. \A t \in targetsOf(left) : /\ t \in targetsOf(P) /\ P[t] # {v}
                                 /\ P[t] \in SUBSET Values /\ left[t] = P[t] \ {v}
  BY <1>0, <1>1 DEF targetsOf
<1>5. consentsTo(o, left, D)
  <2> SUFFICES ASSUME NEW t \in targetsOf(left)
               PROVE  IF left[t] = {} THEN <<o, t, Unrestricted>> \in D
                      ELSE \A w \in left[t] : <<o, t, w>> \in D BY DEF consentsTo
  <2>1. IF P[t] = {} THEN <<o, t, Unrestricted>> \in C ELSE \A w \in P[t] : <<o, t, w>> \in C
    BY <1>4 DEF justified, consentsTo
  <2>2. CASE left[t] = {} BY <1>4, <2>1
  <2>3. CASE left[t] # {}
    <3> SUFFICES ASSUME NEW w \in left[t] PROVE <<o, t, w>> \in D BY <2>3
    <3>1. w # v /\ <<o, t, w>> \in C BY <1>4, <2>1
    <3> QED BY <3>1
  <2> QED BY <2>2, <2>3
<1>6. left # NoPermissions => targetsOf(left) # {} BY <1>2 DEF NoPermissions, targetsOf
<1> QED BY <1>3, <1>4, <1>5, <1>6 DEF justified, left

\* A caveat that is set.
LEMMA SetIsJustified ==
  ASSUME PermissionsAssumption, NEW o, NEW P \in Permissions, NEW t \in Restrictable,
         NEW V \in Permission, P[t] # NoPermission, NEW C, NEW D, NEW E,
         justified(o, P, C, E), P # NoSubject, C \subseteq D,
         consentTo(o, [NoPermissions EXCEPT ![t] = V]) \subseteq D
  PROVE  /\ [P EXCEPT ![t] = V] \in Permissions
         /\ justified(o, [P EXCEPT ![t] = V], D, E)
<1> DEFINE N == [NoPermissions EXCEPT ![t] = V]
           R == [P EXCEPT ![t] = V]
<1>1. V # NoPermission /\ t \in Targets BY DEF Permission
<1>2. N \in Permissions /\ targetsOf(N) = {t} /\ N[t] = V
  BY <1>1 DEF NoPermissions, Permissions, targetsOf
<1>3. R \in Permissions /\ targetsOf(R) = targetsOf(P) BY <1>1 DEF Permissions, targetsOf
<1>4. R[t] = V /\ \A u \in Targets \ {t} : R[u] = P[u] BY DEF Permissions
<1> HIDE DEF N
<1>5. consentsTo(o, N, D) /\ consentsTo(o, P, D) BY <1>2, ConsentIs DEF N, justified
<1> HIDE DEF R
<1>6. consentsTo(o, R, D)
  <2> SUFFICES ASSUME NEW u \in targetsOf(R)
               PROVE  IF R[u] = {} THEN <<o, u, Unrestricted>> \in D
                      ELSE \A v \in R[u] : <<o, u, v>> \in D BY DEF consentsTo
  <2>1. CASE u = t BY <1>2, <1>4, <1>5, <2>1 DEF consentsTo
  <2>2. CASE u # t BY <1>3, <1>4, <1>5, <2>2 DEF consentsTo, targetsOf
  <2> QED BY <2>1, <2>2
<1>7. justified(o, R, D, E) BY <1>3, <1>6 DEF justified
<1> QED BY <1>3, <1>7 DEF R

LEMMA EndingIsAStep ==
  ASSUME PermTypes, NEW r \in PermRequests
  PROVE  [permRequest EXCEPT ![r] = EndedPermRequest] \in [PermRequests -> PermSteps]
BY DEF PermTypes, PermSteps

\* A request under way, and what the user may still approve of it.
LEMMA UnderWay ==
  ASSUME PermTypes, NEW r \in PermRequests, permRequest[r].step \in {"asking", "effects"}
  PROVE  /\ permRequest[r] \in [step : {"asking", "effects"}, origin : Origins, asked : Permissions,
                                approved : Permissions, preserve : BOOLEAN]
         /\ permRequest[r].step = "effects" => targetsOf(permRequest[r].approved) # {}
BY DEF PermTypes, PermSteps, IdlePermRequest, EndedPermRequest

LEMMA RequestSteps ==
  ASSUME ApprovalsAssumption, PermissionsAssumption, ApprovalsInv, PermInv,
         NEW r \in PermRequests, NEW o \in Origins, NEW P \in Permissions,
         requestPermissions(r, o, P) \/ requestPermissionsIncremental(r, o, P)
  PROVE  ApprovalsInv' /\ PermInv'
<1>1. UNCHANGED <<subjects, metadataVars, consented, effects, walletSteps>>
  BY DEF requestPermissions, requestPermissionsIncremental
<1>2. ASSUME NEW Q \in Permissions, NEW preserve \in BOOLEAN, permissionsAsked(r, o, Q, preserve)
      PROVE  ApprovalsInv' /\ permRequest' \in [PermRequests -> PermSteps]
  <2>1. CASE mayAdd(r, o, "permissions")
    <3> DEFINE a == [origin |-> o, type |-> "permissions"]
               q == [step |-> "asking", origin |-> o, asked |-> Q, approved |-> NoPermissions,
                     preserve |-> preserve]
    <3>1. a \in Approval /\ r \in ApprovalIds \ approvals BY <2>1 DEF Approval, mayAdd
    <3>2. add(r, a) /\ permRequest' = [permRequest EXCEPT ![r] = q]
      BY <1>2, <2>1 DEF permissionsAsked
    <3>3. q \in PermSteps BY NoneIsPermissions DEF PermSteps
    <3> HIDE DEF a, q
    <3> QED BY <3>1, <3>2, <3>3, Adding DEF PermInv, PermTypes
  <2>2. CASE ~mayAdd(r, o, "permissions")
    BY <1>2, <2>2, KeptApprovals, EndingIsAStep DEF permissionsAsked, PermInv
  <2> QED BY <2>1, <2>2
<1>3. ApprovalsInv' /\ permRequest' \in [PermRequests -> PermSteps]
  <2>1. CASE requestPermissions(r, o, P) BY <1>2, <2>1 DEF requestPermissions
  <2>2. CASE requestPermissionsIncremental(r, o, P)
    <3> DEFINE new == mergeIncrementalPermissions(getPermissions(o), P)
    <3>1. new \in Permissions BY PermissionsAre, MergedIsPermissions DEF PermInv
    <3>2. \/ permRequest' = [permRequest EXCEPT ![r] = EndedPermRequest] /\ UNCHANGED approvalVars
          \/ permissionsAsked(r, o, new, FALSE) BY <2>2 DEF requestPermissionsIncremental
    <3> HIDE DEF new
    <3> QED BY <1>2, <3>1, <3>2, KeptApprovals, EndingIsAStep DEF PermInv
  <2> QED BY <2>1, <2>2
<1> QED BY <1>1, <1>3 DEF PermInv, PermTypes, metadataVars

\* permissionsGranted, after the side effects of P that E says have succeeded.
LEMMA Granting ==
  ASSUME PermissionsAssumption, PermInv, NEW r \in PermRequests, NEW P \in Permissions,
         permRequest[r].step \in {"asking", "effects"}, targetsOf(P) # {},
         permissionsGranted(r, P), effects \subseteq effects',
         {permRequest[r].origin} \X getSideEffects(P) \subseteq effects',
         UNCHANGED <<metadataVars, walletSteps>>
  PROVE  PermInv'
<1> DEFINE o == permRequest[r].origin
           preserve == permRequest[r].preserve
<1>1. o \in Origins /\ preserve \in BOOLEAN BY UnderWay DEF PermInv
<1>2. permRequest' \in [PermRequests -> PermSteps] BY EndingIsAStep DEF permissionsGranted, PermInv
<1>3. \A p \in Origins : justified(p, subjects[p], consented, effects) BY DEF PermInv
<1>4. CASE isValidFor(o, P)
  <2> DEFINE R == granted(o, P, preserve)
  <2>1. subjects' = [subjects EXCEPT ![o] = R] /\ consented' = consented \cup consentTo(o, P)
    BY <1>4 DEF permissionsGranted, grantedTo
  <2>2. R \in Permissions /\ justified(o, R, consented', effects') BY <1>1, <2>1, GrantedIsJustified
  <2> HIDE DEF R, o
  <2>3. \A p \in Origins : justified(p, subjects'[p], consented', effects')
    BY <1>1, <1>3, <2>1, <2>2, JustifiedGrows
  <2> QED BY <1>1, <1>2, <2>1, <2>2, <2>3 DEF PermInv, PermTypes, metadataVars
<1>5. CASE ~isValidFor(o, P)
  BY <1>5, <1>3, JustifiedGrows, <1>2 DEF permissionsGranted, PermInv, PermTypes, metadataVars
<1> QED BY <1>4, <1>5

LEMMA DecisionSteps ==
  ASSUME ApprovalsAssumption, PermissionsAssumption, ApprovalsInv, PermInv, NEW r \in PermRequests,
         (\E P \in Permissions : acceptPermissionsRequest(r, P)) \/ rejectPermissionsRequest(r)
  PROVE  ApprovalsInv' /\ PermInv'
<1>1. permRequest[r].step = "asking" /\ delete(r) /\ UNCHANGED <<metadataVars, effects, walletSteps>>
  BY DEF acceptPermissionsRequest, rejectPermissionsRequest
<1>2. ApprovalsInv' BY <1>1, Deleting
<1>3. ASSUME permRequest' \in [PermRequests -> PermSteps], UNCHANGED <<subjects, consented>>
      PROVE  PermInv' BY <1>1, <1>3 DEF PermInv, PermTypes, metadataVars
<1>4. CASE rejectPermissionsRequest(r)
  BY <1>2, <1>3, <1>4, EndingIsAStep DEF rejectPermissionsRequest, PermInv
<1>5. ASSUME NEW P \in Permissions, acceptPermissionsRequest(r, P)
      PROVE  PermInv'
  <2>1. CASE ~isValidApproval(r, P)
    BY <1>3, <1>5, <2>1, EndingIsAStep DEF acceptPermissionsRequest, PermInv
  <2>2. CASE isValidApproval(r, P) /\ getSideEffects(P) = {}
    BY <1>5, <2>2, Granting DEF acceptPermissionsRequest
  <2>3. CASE isValidApproval(r, P) /\ getSideEffects(P) # {}
    <3> DEFINE q == [permRequest[r] EXCEPT !.step = "effects", !.approved = P]
    <3>1. /\ permRequest' = [permRequest EXCEPT ![r] = q]
          /\ UNCHANGED <<subjects, consented>> BY <1>5, <2>3 DEF acceptPermissionsRequest
    <3>2. targetsOf(P) # {} BY <1>5 DEF acceptPermissionsRequest
    <3>3. q \in PermSteps BY <1>1, <3>2, UnderWay DEF PermInv, PermSteps
    <3> HIDE DEF q
    <3>4. permRequest' \in [PermRequests -> PermSteps] BY <3>1, <3>3 DEF PermInv, PermTypes
    <3> QED BY <1>3, <3>1, <3>4
  <2> QED BY <2>1, <2>2, <2>3
<1> QED BY <1>2, <1>4, <1>5

LEMMA EffectSteps ==
  ASSUME ApprovalsAssumption, PermissionsAssumption, ApprovalsInv, PermInv, NEW r \in PermRequests,
         sideEffectsEnd(r)
  PROVE  ApprovalsInv' /\ PermInv'
<1> DEFINE P == permRequest[r].approved
<1>1. permRequest[r].step = "effects" /\ UNCHANGED <<approvalVars, metadataVars, walletSteps>>
  BY DEF sideEffectsEnd
<1>2. PICK succeeded \in SUBSET getSideEffects(P) :
        /\ effects' = effects \cup ({permRequest[r].origin} \X succeeded)
        /\ IF succeeded = getSideEffects(P) THEN permissionsGranted(r, P)
           ELSE /\ permRequest' = [permRequest EXCEPT ![r] = EndedPermRequest]
                /\ UNCHANGED <<subjects, consented>> BY DEF sideEffectsEnd
<1>3. P \in Permissions /\ targetsOf(P) # {} BY <1>1, UnderWay DEF PermInv
<1>4. CASE succeeded = getSideEffects(P)
  <2> HIDE DEF P
  <2>1. permissionsGranted(r, P) /\ effects \subseteq effects'
        /\ {permRequest[r].origin} \X getSideEffects(P) \subseteq effects' BY <1>2, <1>4
  <2> QED BY <1>1, <1>3, <2>1, Granting, KeptApprovals
<1>5. CASE succeeded # getSideEffects(P)
  BY <1>2, <1>5, EndingIsAStep, JustifiedGrows, <1>1, KeptApprovals DEF PermInv, PermTypes, metadataVars
<1> QED BY <1>4, <1>5

LEMMA WalletStepIs ==
  ASSUME PermissionsAssumption, ApprovalsInv, PermInv, walletStep
  PROVE  /\ ApprovalsInv' /\ UNCHANGED <<permRequest, metadataVars>>
         /\ walletSteps' \in 0..MaxWalletSteps
BY KeptApprovals DEF walletStep, PermInv, PermTypes

\* What the wallet does to one subject.
LEMMA OneSubject ==
  ASSUME PermissionsAssumption, ApprovalsInv, PermInv, walletStep, NEW o \in Origins, NEW R,
         R \in Permissions \cup {NoSubject}, subjects' = [subjects EXCEPT ![o] = R],
         justified(o, R, consented', effects'), effects \subseteq effects',
         \A p \in Origins \ {o} : justified(p, subjects[p], consented, effects)
                                    => justified(p, subjects[p], consented', effects')
  PROVE  ApprovalsInv' /\ PermInv'
BY WalletStepIs DEF PermInv, PermTypes, metadataVars

LEMMA WalletGrants ==
  ASSUME PermissionsAssumption, ApprovalsInv, PermInv, NEW o \in Origins, NEW P \in Permissions,
         NEW incremental \in BOOLEAN, grantPermissions(o, P, incremental)
  PROVE  ApprovalsInv' /\ PermInv'
<1> DEFINE R == IF incremental THEN mergeIncrementalPermissions(getPermissions(o), P)
                ELSE granted(o, P, TRUE)
<1>1. /\ walletStep /\ targetsOf(P) # {} /\ subjects' = [subjects EXCEPT ![o] = R]
      /\ consented' = consented \cup consentTo(o, P)
      /\ effects' = effects \cup ({o} \X targetsOf(P)) BY DEF grantPermissions
<1>2. /\ consented \subseteq consented' /\ effects \subseteq effects'
      /\ consentTo(o, P) \subseteq consented' /\ {o} \X targetsOf(P) \subseteq effects' BY <1>1
<1>3. {o} \X getSideEffects(P) \subseteq effects' BY <1>2 DEF getSideEffects
<1>4. R \in Permissions /\ justified(o, R, consented', effects')
  BY <1>1, <1>2, MergedIsJustified, <1>3, GrantedIsJustified
<1> HIDE DEF R
<1>5. \A p \in Origins \ {o} : justified(p, subjects[p], consented, effects)
                                 => justified(p, subjects[p], consented', effects')
  BY <1>2, JustifiedGrows
<1> QED BY <1>1, <1>4, <1>5, OneSubject

LEMMA WalletRevokes ==
  ASSUME PermissionsAssumption, ApprovalsInv, PermInv, NEW o \in Origins,
         NEW revoked \in SUBSET Targets, revokePermissions(o, revoked)
  PROVE  ApprovalsInv' /\ PermInv'
<1> DEFINE R == withoutPermissions(subjects[o], revoked)
<1>1. /\ walletStep /\ subjects' = [subjects EXCEPT ![o] = R] /\ effects' = effects
      /\ consented' = consented \ ({o} \X revoked \X (Values \cup {Unrestricted}))
  BY DEF revokePermissions
<1>2. \A c \in consented : c \in consented' \/ (c[1] = o /\ c[2] \in revoked)
  <2> SUFFICES ASSUME NEW c \in consented, c \notin consented'
               PROVE  c[1] = o /\ c[2] \in revoked OBVIOUS
  <2>1. c \in {o} \X revoked \X (Values \cup {Unrestricted}) BY <1>1
  <2> QED BY <2>1
<1>3. subjects[o] \in Permissions \cup {NoSubject} /\ justified(o, subjects[o], consented, effects)
  BY DEF PermInv, PermTypes
<1>4. R \in Permissions \cup {NoSubject} /\ justified(o, R, consented', effects')
  BY <1>1, <1>3, WithoutIsJustified
<1> HIDE DEF R
<1>5. ASSUME NEW p \in Origins \ {o}, justified(p, subjects[p], consented, effects)
      PROVE  justified(p, subjects[p], consented', effects')
  BY <1>2, <1>1, <1>5 DEF justified, consentsTo
<1> QED BY <1>1, <1>4, <1>5, OneSubject

LEMMA WalletSetsCaveat ==
  ASSUME PermissionsAssumption, ApprovalsInv, PermInv, NEW o \in Origins, NEW t \in Targets,
         NEW V \in Permission, setCaveat(o, t, V)
  PROVE  ApprovalsInv' /\ PermInv'
<1> DEFINE R == [subjects[o] EXCEPT ![t] = V]
<1>1. /\ walletStep /\ t \in Restrictable /\ getPermissions(o)[t] # NoPermission
      /\ subjects' = [subjects EXCEPT ![o] = R] /\ effects' = effects
      /\ consented' = consented \cup consentTo(o, [NoPermissions EXCEPT ![t] = V]) BY DEF setCaveat
<1>2. subjects[o] # NoSubject /\ subjects[o] \in Permissions /\ subjects[o][t] # NoPermission
  BY <1>1 DEF getPermissions, NoPermissions, PermInv, PermTypes
<1>3. /\ consented \subseteq consented'
      /\ consentTo(o, [NoPermissions EXCEPT ![t] = V]) \subseteq consented' BY <1>1
<1>4. R \in Permissions /\ justified(o, R, consented', effects')
  BY <1>1, <1>2, <1>3, SetIsJustified DEF PermInv
<1> HIDE DEF R
<1>5. \A p \in Origins \ {o} : justified(p, subjects[p], consented, effects)
                                 => justified(p, subjects[p], consented', effects')
  BY <1>1, JustifiedGrows
<1> QED BY <1>1, <1>4, <1>5, OneSubject

LEMMA WalletChangesAll ==
  ASSUME PermissionsAssumption, ApprovalsInv, PermInv,
         \/ \E t \in Targets : revokePermissionForAllSubjects(t)
         \/ \E v \in Values : updatePermissionsByCaveat(v)
         \/ permissionsCleared
  PROVE  ApprovalsInv' /\ PermInv'
<1>1. walletStep /\ effects' = effects
  BY DEF revokePermissionForAllSubjects, updatePermissionsByCaveat, permissionsCleared
<1>2. \A o \in Origins : /\ subjects[o] \in Permissions \cup {NoSubject}
                         /\ justified(o, subjects[o], consented, effects) BY DEF PermInv, PermTypes
<1>3. ASSUME /\ subjects' \in [Origins -> Permissions \cup {NoSubject}]
             /\ \A o \in Origins : justified(o, subjects'[o], consented', effects')
      PROVE  ApprovalsInv' /\ PermInv'
  BY <1>1, <1>3, WalletStepIs DEF PermInv, PermTypes, metadataVars
<1>4. ASSUME NEW t \in Targets, revokePermissionForAllSubjects(t)
      PROVE  ApprovalsInv' /\ PermInv'
  BY <1>4, <1>1, <1>2, WithoutIsJustified, <1>3 DEF revokePermissionForAllSubjects
<1>5. ASSUME NEW v \in Values, updatePermissionsByCaveat(v)
      PROVE  ApprovalsInv' /\ PermInv'
  <2> DEFINE left(o) == leftOf(subjects[o], v)
             new(o) == IF subjects[o] = NoSubject THEN NoSubject
                       ELSE IF left(o) = NoPermissions THEN NoSubject ELSE left(o)
  <2>1. subjects' = [o \in Origins |-> new(o)] /\ consented' = consented \ (Origins \X Targets \X {v})
    BY <1>5 DEF updatePermissionsByCaveat, leftOf
  <2>2. \A c \in consented : c \in consented' \/ c[3] = v BY <2>1
  <2>3. ASSUME NEW o \in Origins
        PROVE  new(o) \in Permissions \cup {NoSubject} /\ justified(o, new(o), consented', effects')
    <3>1. CASE subjects[o] = NoSubject \/ left(o) = NoPermissions BY <3>1 DEF justified
    <3>2. CASE subjects[o] # NoSubject /\ left(o) # NoPermissions
      BY <1>1, <1>2, <3>2, <2>2, MutatedIsJustified
    <3> QED BY <3>1, <3>2
  <2> HIDE DEF new
  <2> QED BY <1>3, <2>1, <2>3
<1>6. CASE permissionsCleared BY <1>6, <1>3 DEF permissionsCleared, justified
<1> QED BY <1>4, <1>5, <1>6

\* Metadata, and a restart.
LEMMA MetadataSteps ==
  ASSUME PermissionsAssumption, ApprovalsInv, PermInv,
         (\E o \in Origins : addSubjectMetadata(o)) \/ trimMetadataState \/ permissionsRestart
  PROVE  ApprovalsInv' /\ PermInv'
<1>1. UNCHANGED <<subjects, consented, effects>>
  BY DEF addSubjectMetadata, trimMetadataState, permissionsRestart
<1>2. ApprovalsInv'
  BY KeptApprovals, Clearing DEF addSubjectMetadata, trimMetadataState, permissionsRestart
<1>3. ASSUME permRequest' \in [PermRequests -> PermSteps], subjectMetadata' \in SUBSET Origins,
             encountered' \in Seq(Origins), walletSteps' \in 0..MaxWalletSteps
      PROVE  PermInv' BY <1>1, <1>3 DEF PermInv, PermTypes
<1>4. ASSUME NEW o \in Origins, addSubjectMetadata(o)
      PROVE  PermInv'
  <2> DEFINE full == Len(encountered) >= SubjectCacheLimit
             left == IF full THEN Tail(encountered) ELSE encountered
  <2>1. encountered \in Seq(Origins) BY DEF PermInv, PermTypes
  <2>2. left \in Seq(Origins) BY <2>1
  <2>3. /\ encountered' = IF \E i \in DOMAIN left : left[i] = o THEN left ELSE Append(left, o)
        /\ subjectMetadata' \subseteq subjectMetadata \cup {o}
        /\ UNCHANGED <<permRequest, walletSteps>> BY <1>4 DEF addSubjectMetadata
  <2> HIDE DEF left
  <2>4. encountered' \in Seq(Origins) BY <2>2, <2>3
  <2> QED BY <1>3, <2>3, <2>4 DEF PermInv, PermTypes
<1>5. CASE trimMetadataState BY <1>2, <1>3, <1>5 DEF trimMetadataState, PermInv, PermTypes
<1>6. CASE permissionsRestart
  BY <1>6, EmptySeq, <1>2, <1>3 DEF permissionsRestart, PermSteps, PermInv, PermTypes
<1> QED BY <1>2, <1>4, <1>5, <1>6

LEMMA PermissionSteps ==
  ASSUME ApprovalsAssumption, PermissionsAssumption, ApprovalsInv, PermInv, PermissionsNext
  PROVE  ApprovalsInv' /\ PermInv'
BY WalletSetsCaveat, RequestSteps, DecisionSteps, EffectSteps, MetadataSteps, WalletGrants, WalletRevokes,
   WalletChangesAll DEF Permission, removeCaveat, PermissionsNext

-----------------------------------------------------------------------------

(* Signatures. *)

MessageStatuses == FinalStatuses \cup {"none", "unapproved", "approved", "inProgress"}
SignSteps == {"idle", "checking", "asking", "signing", "waiting", "returned", "threw"}

\* A message that a step leaves alone.
LEMMA KeptMessage ==
  ASSUME NEW n, MessageInv(n), messages'[n] = messages[n], finishStatus'[n] = finishStatus[n],
         signCall'[n] = signCall[n], n \in confirmed => n \in confirmed',
         n \in withdrawn => n \in withdrawn'
  PROVE  MessageInv(n)'
BY DEF MessageInv

\* The list follows the messages, so what is to be shown is their invariant.
LEMMA ListIsMade ==
  ASSUME MessagesTypeOK,
         messages' \in [Messages -> MessageStatuses], signCall' \in [Messages -> SignSteps],
         finishStatus' \in [Messages -> FinalStatuses \cup {"none"}],
         deferSetAsSigned' = deferSetAsSigned \/ deferSetAsSigned' \in [Messages -> BOOLEAN],
         confirmed' \in SUBSET Messages, withdrawn' \in SUBSET Messages,
         listed' \subseteq unapprovedIn(messages'),
         \A m \in Messages : MessageInv(m)'
  PROVE  MsgInv'
BY DEF MsgInv, MessagesTypeOK, MessageStatuses, SignSteps, unapprovedIn

LEMMA StatusIsSet ==
  ASSUME MessagesTypeOK, NEW m \in Messages, NEW status \in MessageStatuses,
         setMessageStatus(m, status)
  PROVE  /\ messages' \in [Messages -> MessageStatuses] /\ messages'[m] = status
         /\ \A n \in Messages \ {m} : messages'[n] = messages[n] /\ finishStatus'[n] = finishStatus[n]
         /\ finishStatus' \in [Messages -> FinalStatuses \cup {"none"}]
         /\ finishStatus'[m] =
              IF finishStatus[m] = "none" /\ signCall[m] \in {"asking", "signing", "waiting"}
                 /\ status # messages[m] /\ status \in FinalStatuses
              THEN status ELSE finishStatus[m]
         /\ listed' = unapprovedIn(messages')
BY DEF MessagesTypeOK, MessageStatuses, setMessageStatus, setMessages, finished

LEMMA SettingSteps ==
  ASSUME MessagesAssumption, MsgInv, NEW m \in Messages, NEW status \in MessageStatuses,
         setMessageStatus(m, status), signCall' \in [Messages -> SignSteps],
         \A n \in Messages \ {m} : signCall'[n] = signCall[n],
         deferSetAsSigned' = deferSetAsSigned, withdrawn' = withdrawn,
         confirmed' = confirmed \/ confirmed' = confirmed \cup {m},
         MessageInv(m)'
  PROVE  MsgInv'
BY StatusIsSet, KeptMessage, ListIsMade DEF MsgInv, MessagesTypeOK

LEMMA CallSteps ==
  ASSUME ApprovalsAssumption, MessagesAssumption, ApprovalsInv, MsgInv, AskedInv,
         part = "signatures", part' = part, NEW m \in Messages,
         \/ \E deferred \in BOOLEAN : newUnsignedMessage(m, deferred)
         \/ \E o \in Origins : securityChecked(m, o)
  PROVE  ApprovalsInv' /\ MsgInv' /\ AskedInv' /\ uiWaits' = uiWaits /\ flowVars' = flowVars
<1>1. /\ MessagesTypeOK /\ \A n \in Messages : MessageInv(n)
      /\ listed \subseteq unapprovedIn(messages) BY DEF MsgInv
<1>2. signCall[m] \in {"idle", "checking"} => messages[m] = "none" /\ finishStatus[m] = "none" /\ m \notin approvals
  BY <1>1 DEF MessageInv, AskedInv
<1>3. ASSUME NEW deferred \in BOOLEAN, newUnsignedMessage(m, deferred)
      PROVE  ApprovalsInv' /\ MsgInv' /\ AskedInv' /\ uiWaits' = uiWaits /\ flowVars' = flowVars
  BY <1>3, <1>1, <1>2, KeptMessage, ListIsMade, KeptApprovals DEF newUnsignedMessage, historyVars,
     approvalFlowVars, MessageInv, MessagesTypeOK, SignSteps, MessageStatuses, AskedInv, approvalVars
<1>4. ASSUME NEW o \in Origins, securityChecked(m, o)
      PROVE  ApprovalsInv' /\ MsgInv' /\ AskedInv' /\ uiWaits' = uiWaits /\ flowVars' = flowVars
  <2> DEFINE a == [origin |-> o, type |-> messageType(m)]
             fresh(status) == [messages EXCEPT ![m] = status]
  <2>1. /\ signCall[m] = "checking"
        /\ UNCHANGED <<uiWaits, flowVars, finishStatus, deferSetAsSigned, confirmed, withdrawn>>
    BY <1>4 DEF securityChecked, historyVars
  <2>2. \/ /\ signCall' = [signCall EXCEPT ![m] = "threw"]
           /\ UNCHANGED <<approvalVars, messages, listed>>
        \/ /\ mayAdd(m, o, messageType(m)) /\ add(m, a)
           /\ messages' = fresh("unapproved") /\ listed' = unapprovedIn(messages')
           /\ signCall' = [signCall EXCEPT ![m] = "asking"]
        \/ /\ messages' = fresh("rejected") /\ listed' = unapprovedIn(messages')
           /\ signCall' = [signCall EXCEPT ![m] = "threw"]
           /\ UNCHANGED approvalVars BY <1>4 DEF securityChecked, setMessages
  <2>3. a \in Approval /\ (mayAdd(m, o, messageType(m)) => m \in ApprovalIds \ approvals)
    BY DEF Approval, messageType, mayAdd
  <2>4. ApprovalsInv'
    <3> HIDE DEF a
    <3> QED BY <2>2, <2>3, KeptApprovals, Adding
  <2>5. /\ messages' \in [Messages -> MessageStatuses] /\ signCall' \in [Messages -> SignSteps]
        /\ \A n \in Messages \ {m} : messages'[n] = messages[n] /\ signCall'[n] = signCall[n]
        /\ \/ signCall'[m] = "threw" /\ messages'[m] \in {"none", "rejected"}
           \/ signCall'[m] = "asking" /\ messages'[m] = "unapproved"
    BY <1>1, <1>2, <2>1, <2>2 DEF MessagesTypeOK, MessageStatuses, FinalStatuses, SignSteps
  <2>6. MessageInv(m)' BY <1>2, <2>1, <2>5 DEF MessageInv, FinalStatuses
  <2>7. \A n \in Messages \ {m} : MessageInv(n)' BY <1>1, <2>1, <2>5, KeptMessage
  <2>8. listed' \subseteq unapprovedIn(messages') BY <1>1, <2>2
  <2>9. MsgInv' BY <1>1, <2>1, <2>5, <2>6, <2>7, <2>8, ListIsMade DEF MessagesTypeOK
  <2>10. AskedInv' BY <1>1, <2>2, <1>2, <2>1, <2>5 DEF add, approvalVars, AskedInv
  <2> QED BY <2>1, <2>4, <2>9, <2>10
<1> QED BY <1>3, <1>4

LEMMA ConfirmSteps ==
  ASSUME ApprovalsAssumption, MessagesAssumption, ApprovalsInv, MsgInv, AskedInv, uiWaits \in UiWaits,
         part = "signatures", part' = part, NEW m \in Messages,
         (\E waits \in BOOLEAN : messageAccepted(m, waits)) \/ messageRejected(m)
  PROVE  ApprovalsInv' /\ MsgInv' /\ AskedInv' /\ uiWaits' \in UiWaits /\ flowVars' = flowVars
<1>1. MessagesTypeOK /\ MessageInv(m) BY DEF MsgInv
<1>2. signCall[m] = "asking" /\ delete(m) /\ deferSetAsSigned' = deferSetAsSigned
      /\ withdrawn' = withdrawn /\ flowVars' = flowVars
  BY DEF messageAccepted, messageRejected, accept, historyVars
<1>3. ApprovalsInv' /\ approvals' = approvals \ {m} BY <1>2, Deleting DEF delete
<1>4. uiWaits' \in UiWaits BY DEF messageAccepted, messageRejected, accept, UiWaits
<1>5. \/ /\ setMessageStatus(m, "approved") /\ signCall' = [signCall EXCEPT ![m] = "signing"]
         /\ confirmed' = confirmed \cup {m}
      \/ /\ setMessageStatus(m, "rejected") /\ signCall' = [signCall EXCEPT ![m] = "threw"]
         /\ confirmed' = confirmed BY DEF messageAccepted, messageRejected, historyVars
<1>6. signCall' \in [Messages -> SignSteps] /\ \A n \in Messages \ {m} : signCall'[n] = signCall[n]
  BY <1>1, <1>5 DEF MessagesTypeOK, SignSteps
<1>7. "approved" \in MessageStatuses /\ "rejected" \in MessageStatuses
  BY DEF MessageStatuses, FinalStatuses
<1>8. MessageInv(m)'
  BY <1>1, <1>7, StatusIsSet, <1>2, <1>5 DEF FinalStatuses, MessagesTypeOK, MessageInv
<1>9. MsgInv' BY <1>2, <1>5, <1>6, <1>7, <1>8, SettingSteps
<1>10. AskedInv' BY <1>3, <1>6 DEF AskedInv
<1> QED BY <1>2, <1>3, <1>4, <1>9, <1>10

\* Steps of a call that has its confirmation: nothing pends any more.
LEMMA LaterSteps ==
  ASSUME AskedInv, part = "signatures", part' = part, UNCHANGED approvalVars, NEW m \in Messages,
         \A n \in Messages \ {m} : signCall'[n] = signCall[n], signCall[m] # "asking"
  PROVE  AskedInv'
BY DEF AskedInv, approvalVars

LEMMA SigningSteps ==
  ASSUME ApprovalsAssumption, MessagesAssumption, ApprovalsInv, MsgInv, AskedInv, uiWaits \in UiWaits,
         part = "signatures", part' = part, NEW m \in Messages,
         \/ keyringSigned(m) \/ keyringFailed(m) \/ setMessageInProgress(m)
         \/ \E status \in {"signed", "rejected"} : custodianDecided(m, status)
  PROVE  ApprovalsInv' /\ MsgInv' /\ AskedInv' /\ uiWaits' \in UiWaits /\ flowVars' = flowVars
<1>1. MessagesTypeOK /\ MessageInv(m) /\ \A n \in Messages : MessageInv(n) BY DEF MsgInv
<1>2. /\ UNCHANGED <<approvalVars, flowVars>> /\ deferSetAsSigned' = deferSetAsSigned
      /\ confirmed' = confirmed /\ withdrawn' = withdrawn
      /\ signCall[m] \in {"signing", "waiting"}
  BY DEF keyringSigned, keyringFailed, setMessageInProgress, custodianDecided, historyVars, approvalFlowVars
<1>3. /\ m \in confirmed
      /\ finishStatus[m] = "signed" => messages[m] = "signed"
      /\ finishStatus[m] # "none" /\ m \notin withdrawn => messages[m] \in FinalStatuses
  BY <1>1, <1>2 DEF MessageInv
<1>4. {"signed", "rejected", "errored", "inProgress"} \subseteq MessageStatuses
  BY DEF MessageStatuses, FinalStatuses
<1>5. told(m) \in UiWaits BY DEF told, UiWaits
<1>6. ASSUME MsgInv', uiWaits' \in UiWaits, \A n \in Messages \ {m} : signCall'[n] = signCall[n]
      PROVE  ApprovalsInv' /\ MsgInv' /\ AskedInv' /\ uiWaits' \in UiWaits /\ flowVars' = flowVars
  BY <1>2, <1>6, LaterSteps, KeptApprovals
\* What awaitFinish makes of the call.
<1>7. ASSUME awaitFinish(m)
      PROVE  /\ uiWaits' \in UiWaits /\ signCall' \in [Messages -> SignSteps]
             /\ \A n \in Messages \ {m} : signCall'[n] = signCall[n]
             /\ signCall'[m] = IF finishStatus'[m] = "none" THEN "waiting"
                               ELSE IF finishStatus'[m] = "signed" THEN "returned" ELSE "threw"
  BY <1>1, <1>5, <1>7 DEF awaitFinish, signCallEnds, MessagesTypeOK, SignSteps
\* A status that is set before the call goes on.
<1>8. ASSUME NEW status \in {"signed", "rejected"}, setMessageStatus(m, status), awaitFinish(m),
             status = "rejected" => finishStatus[m] = "none"
      PROVE  MsgInv'
  BY <1>1, <1>2, <1>4, <1>8, StatusIsSet, <1>3, <1>7, SettingSteps DEF FinalStatuses, MessageInv
<1>9. CASE keyringSigned(m)
  <2>1. awaitFinish(m) BY <1>9 DEF keyringSigned
  <2>2. CASE deferSetAsSigned[m]
    <3>1. UNCHANGED <<messages, listed, finishStatus>> /\ signCall[m] = "signing"
      BY <1>9, <2>2 DEF keyringSigned
    <3>2. MessageInv(m)' BY <1>2, <1>3, <1>7, <2>1, <3>1 DEF MessageInv
    <3>3. \A n \in Messages \ {m} : MessageInv(n)' BY <1>1, <1>2, <1>7, <2>1, <3>1, KeptMessage
    <3>4. listed' \subseteq unapprovedIn(messages') /\ messages' \in [Messages -> MessageStatuses]
      BY <3>1 DEF MsgInv, MessagesTypeOK, MessageStatuses
    <3>5. MsgInv' BY <1>1, <1>2, <1>7, <2>1, <3>1, <3>2, <3>3, <3>4, ListIsMade DEF MessagesTypeOK
    <3> QED BY <1>6, <1>7, <2>1, <3>5
  <2>3. CASE ~deferSetAsSigned[m] BY <1>9, <2>3, <1>6, <1>7, <1>8 DEF keyringSigned
  <2> QED BY <2>2, <2>3
<1>10. CASE keyringFailed(m)
  BY <1>10, <1>5, <1>1, <1>4, StatusIsSet, <1>2, SettingSteps, <1>6 DEF keyringFailed, signCallEnds,
     MessagesTypeOK, SignSteps, MessageInv, FinalStatuses
<1>11. CASE setMessageInProgress(m)
  BY <1>11, <1>1, <1>4, StatusIsSet, <1>2, <1>3, SettingSteps, <1>6 DEF setMessageInProgress,
     approvalFlowVars, MessageInv, MessagesTypeOK, SignSteps
<1>12. ASSUME NEW status \in {"signed", "rejected"}, custodianDecided(m, status)
       PROVE  ApprovalsInv' /\ MsgInv' /\ AskedInv' /\ uiWaits' \in UiWaits /\ flowVars' = flowVars
  <2>1. setMessageStatus(m, status) /\ finishStatus[m] = "none" BY <1>12 DEF custodianDecided
  <2>2. CASE signCall[m] = "waiting" BY <1>12, <2>2, <1>6, <1>7, <1>8 DEF custodianDecided
  <2>3. CASE signCall[m] = "signing"
    <3>1. signCall' = signCall /\ uiWaits' = uiWaits BY <1>12, <2>3 DEF custodianDecided
    <3>2. messages'[m] = status /\ finishStatus'[m] \in {"none", status}
      BY <1>1, <1>4, <2>1, StatusIsSet
    <3>3. MessageInv(m)' BY <1>2, <1>3, <2>3, <3>1, <3>2 DEF MessageInv, FinalStatuses
    <3>4. signCall' \in [Messages -> SignSteps] BY <1>1, <3>1 DEF MessagesTypeOK, SignSteps
    <3>5. MsgInv' BY <1>2, <1>4, <2>1, <3>1, <3>3, <3>4, SettingSteps
    <3> QED BY <1>6, <3>1, <3>5
  <2> QED BY <1>2, <2>2, <2>3
<1> QED BY <1>9, <1>10, <1>11, <1>12

LEMMA ListSteps ==
  ASSUME MsgInv, rejectUnapproved \/ clearUnapproved
  PROVE  MsgInv' /\ UNCHANGED <<approvalVars, flowVars, uiWaits, signCall>>
<1>1. MessagesTypeOK /\ \A n \in Messages : MessageInv(n) BY DEF MsgInv
<1>2. UNCHANGED <<approvalVars, flowVars, uiWaits, signCall, deferSetAsSigned, confirmed>>
  BY DEF rejectUnapproved, clearUnapproved, approvalFlowVars, historyVars
<1>3. signCall' \in [Messages -> SignSteps] /\ confirmed' \in SUBSET Messages
  BY <1>1, <1>2 DEF MessagesTypeOK, SignSteps
<1>4. CASE rejectUnapproved
  <2> DEFINE M == [m \in Messages |-> IF messages[m] = "unapproved" THEN "rejected" ELSE messages[m]]
  <2>1. /\ messages' = M /\ finishStatus' = finished(M) /\ listed' = unapprovedIn(messages')
        /\ withdrawn' = withdrawn \cup unapprovedIn(messages)
    BY <1>4 DEF rejectUnapproved, setMessages
  <2>2. ASSUME NEW m \in Messages
        PROVE  \/ messages'[m] = messages[m] /\ finishStatus'[m] = finishStatus[m]
               \/ /\ messages[m] = "unapproved" /\ messages'[m] = "rejected" /\ m \in withdrawn'
                  /\ finishStatus'[m] \in {finishStatus[m], "rejected"}
                  /\ finishStatus[m] # "none" \/ signCall[m] \notin {"asking", "signing", "waiting"}
                       => finishStatus'[m] = finishStatus[m] BY <2>1 DEF finished, unapprovedIn
  <2>3. messages' \in [Messages -> MessageStatuses] /\ withdrawn' \in SUBSET Messages
    BY <1>1, <2>1 DEF MessagesTypeOK, MessageStatuses, FinalStatuses, unapprovedIn
  <2>4. finishStatus' \in [Messages -> FinalStatuses \cup {"none"}]
    BY <1>1, <2>1 DEF MessagesTypeOK, finished
  <2>5. ASSUME NEW m \in Messages
        PROVE  MessageInv(m)' BY <1>1, <2>1, <1>2, <2>2 DEF MessageInv
  <2>6. listed' \subseteq unapprovedIn(messages') BY <2>1
  <2> QED BY <1>1, <1>2, <1>3, <2>3, <2>4, <2>5, <2>6, ListIsMade
<1>5. CASE clearUnapproved
  BY <1>5, <1>1, <1>2, KeptMessage, <1>3, ListIsMade DEF clearUnapproved, historyVars, MessagesTypeOK,
     MessageStatuses
<1> QED BY <1>4, <1>5

LEMMA MessageSteps ==
  ASSUME ApprovalsAssumption, MessagesAssumption, ApprovalsInv, MsgInv, AskedInv, uiWaits \in UiWaits,
         part = "signatures", part' = part, MessagesNext
  PROVE  ApprovalsInv' /\ MsgInv' /\ AskedInv' /\ uiWaits' \in UiWaits /\ flowVars' = flowVars
BY ListSteps, KeptApprovals, CallSteps, ConfirmSteps, SigningSteps DEF AskedInv, approvalVars, MessagesNext

-----------------------------------------------------------------------------

(* User operations. *)

OpTypes ==
  /\ UserOperationsTypeOK
  /\ userOperation \in [UserOperations -> Built]
  /\ sent \in SUBSET UserOperations

\* A step that leaves an operation alone.
sameOperation(n) ==
  /\ userOperations'[n] = userOperations[n] /\ opCall'[n] = opCall[n]
  /\ userOperation'[n] = userOperation[n] /\ opRequest'[n] = opRequest[n]
  /\ receipt'[n] = receipt[n] /\ checks'[n] = checks[n] /\ (n \in sent' <=> n \in sent)

LEMMA OneOperation ==
  ASSUME OpInv, NEW u \in UserOperations, OpTypes', OperationInv(u)',
         \A n \in UserOperations \ {u} : sameOperation(n)
  PROVE  OpInv'
<1>1. ASSUME NEW n \in UserOperations \ {u} PROVE OperationInv(n)'
  <2>1. OperationInv(n) BY DEF OpInv
  <2>2. /\ userOperations'[n] = userOperations[n] /\ opCall'[n] = opCall[n]
        /\ receipt'[n] = receipt[n] /\ checks'[n] = checks[n] /\ (n \in sent' <=> n \in sent)
    BY DEF sameOperation
  <2>3. asBuilt(n)' <=> asBuilt(n) BY DEF sameOperation, asBuilt
  <2> HIDE DEF asBuilt
  <2> QED BY <2>1, <2>2, <2>3 DEF OperationInv
<1> QED BY <1>1 DEF OpInv, OpTypes

LEMMA RequestsAre ==
  ASSUME OpTypes, NEW u \in UserOperations
  PROVE  /\ userOperation[u] \in Built /\ opRequest[u] \in Requests
         /\ opRequest[u] = [data |-> opRequest[u].data, fees |-> opRequest[u].fees]
         /\ opRequest[u].data \in Versions /\ opRequest[u].fees \in Versions
BY DEF OpTypes, UserOperationsTypeOK, Requests

LEMMA OperationIs ==
  ASSUME OpInv, NEW u \in UserOperations
  PROVE  OpTypes /\ OperationInv(u)
BY DEF OpInv, OpTypes

\* Steps that change only where the call and its caller stand, and the status.
LEMMA StatusSteps ==
  ASSUME OpInv, NEW u \in UserOperations,
         addUserOperation(u) \/ userRejectsOperation(u) \/ failUserOperation(u)
           \/ signUserOperation(u) \/ submitUserOperation(u) \/ transactionHash(u)
  PROVE  OpInv'
<1>1. OpTypes /\ OperationInv(u) BY OperationIs
<1>2. UNCHANGED <<userOperation, opRequest, sent, receipt, checks>>
  BY DEF addUserOperation, userRejectsOperation, failUserOperation, signUserOperation, submitUserOperation,
     transactionHash, opFollowVars
<1>3. PICK status \in {"unapproved", "none", "failed", "signed", "submitted", userOperations[u]},
           step \in {"preparing", "failed", "failed again", "sending", "done", opCall[u]} :
        /\ userOperations' = [userOperations EXCEPT ![u] = status]
        /\ opCall' = [opCall EXCEPT ![u] = step]
        /\ step \in {"sending", "done"} /\ step # opCall[u] =>
             /\ opCall[u] \in {"signing", "sending"}
             /\ step = "done" => u \in sent /\ opCall[u] = "sending"
        /\ step = "preparing" /\ step # opCall[u] => opCall[u] = "idle"
        /\ step = "failed again" /\ step # opCall[u] => opCall[u] \in {"preparing again", "sponsoring again"}
        /\ status = "submitted" /\ status # userOperations[u] => u \in sent
  BY <1>1 DEF transactionHash, OpTypes, UserOperationsTypeOK, addUserOperation, at, withOpStatus,
     userRejectsOperation, failUserOperation, signUserOperation, submitUserOperation
<1>4. caller' \in [UserOperations -> {"no", "hash", "confirmation", "late", "told", "threw", "gone"}]
  BY <1>1 DEF OpTypes, UserOperationsTypeOK, addUserOperation, userRejectsOperation, failUserOperation,
     signUserOperation, submitUserOperation, transactionHash, hashThrows, hashReturns
<1>5. OpTypes' BY <1>1, <1>2, <1>3, <1>4 DEF OpTypes, UserOperationsTypeOK, Decided
<1>6. \A n \in UserOperations \ {u} : sameOperation(n)
  BY <1>1, <1>2, <1>3 DEF sameOperation, OpTypes, UserOperationsTypeOK
<1>7. userOperations'[u] = status /\ opCall'[u] = step
  BY <1>1, <1>3 DEF OpTypes, UserOperationsTypeOK
<1>8. u \in sent' <=> u \in sent BY <1>2
<1>9. OperationInv(u)' BY <1>1, <1>2, <1>3, <1>7 DEF OperationInv, asBuilt
<1> QED BY <1>5, <1>6, <1>9, OneOperation

LEMMA PreparingSteps ==
  ASSUME OpInv, NEW u \in UserOperations, prepareUserOperation(u)
  PROVE  OpInv'
<1> DEFINE op == [data |-> opRequest[u].data, fees |-> opRequest[u].fees, paymaster |-> NoPaymaster]
<1>1. OpTypes /\ OperationInv(u) BY OperationIs
<1>2. /\ UNCHANGED <<userOperations, opRequest, sent, receipt, checks, caller>>
      /\ userOperation' = [userOperation EXCEPT ![u] = op]
      /\ opCall[u] \in {"preparing", "preparing again"} BY DEF prepareUserOperation, opFollowVars
<1>3. PICK step \in {"sponsoring", "sponsoring again"} : opCall' = [opCall EXCEPT ![u] = step]
  BY DEF prepareUserOperation, at
<1>4. op \in Built BY <1>1, RequestsAre DEF Built
<1>5. op.data = opRequest[u].data /\ op.fees = opRequest[u].fees /\ op.paymaster = NoPaymaster
  OBVIOUS
<1> HIDE DEF op
<1>6. OpTypes' BY <1>1, <1>2, <1>3, <1>4 DEF OpTypes, UserOperationsTypeOK
<1>7. \A n \in UserOperations \ {u} : sameOperation(n)
  BY <1>1, <1>2, <1>3 DEF sameOperation, OpTypes, UserOperationsTypeOK
<1>8. userOperation'[u] = op /\ opCall'[u] = step
  BY <1>1, <1>2, <1>3 DEF OpTypes, UserOperationsTypeOK
<1>9. u \notin sent BY <1>1, <1>2 DEF OperationInv
<1>10. OperationInv(u)' BY <1>1, <1>2, <1>5, <1>8 DEF OperationInv, asBuilt
<1> QED BY <1>6, <1>7, <1>10, OneOperation

LEMMA SponsoringSteps ==
  ASSUME ApprovalsAssumption, UserOperationsAssumption, ApprovalsInv, OpInv,
         NEW u \in UserOperations, paymasterAnswers(u)
  PROVE  ApprovalsInv' /\ OpInv' /\ UNCHANGED <<flowVars, uiWaits>>
<1> DEFINE old == userOperation[u]
<1>1. OpTypes /\ OperationInv(u) BY OperationIs
<1>2. PICK sponsored \in BOOLEAN : /\ addPaymasterData(u, sponsored)
                                   /\ \/ regenerated(u, sponsored)
                                      \/ \E o \in Origins, requireApproval \in BOOLEAN :
                                           asked(u, sponsored, o, requireApproval)
  BY DEF paymasterAnswers, asked, regenerated
<1> DEFINE paymaster == IF sponsored THEN [data |-> old.data, fees |-> old.fees] ELSE NoPaymaster
           op == [old EXCEPT !.paymaster = paymaster]
<1>3. /\ opCall[u] \in {"sponsoring", "sponsoring again"}
      /\ userOperation' = [userOperation EXCEPT ![u] = op]
      /\ UNCHANGED <<flowVars, uiWaits, opRequest, sent, receipt, checks, caller>>
  BY <1>1, <1>2 DEF addPaymasterData, opFollowVars
<1>4. old.data = opRequest[u].data /\ old.fees = opRequest[u].fees /\ old \in Built
  BY <1>1, <1>3, RequestsAre DEF OperationInv, asBuilt
<1>5. paymaster \in {NoPaymaster, opRequest[u]} BY <1>1, <1>4, RequestsAre
<1>6. op \in Built /\ op.data = opRequest[u].data /\ op.fees = opRequest[u].fees
      /\ op.paymaster \in {NoPaymaster, opRequest[u]}
  <2>1. paymaster \in Requests \cup {NoPaymaster} BY <1>1, <1>5, RequestsAre
  <2> HIDE DEF paymaster
  <2> QED BY <1>4, <1>5, <2>1 DEF Built
<1> HIDE DEF op, old, paymaster
<1>7. PICK step \in {"asking", "signing"} : opCall' = [opCall EXCEPT ![u] = step]
  BY <1>2 DEF asked, regenerated, at
<1>8. \/ userOperations' = userOperations
      \/ userOperations' = [userOperations EXCEPT ![u] = "approved"]
  BY <1>2 DEF asked, regenerated, withOpStatus
<1>9. ApprovalsInv'
  <2>1. CASE UNCHANGED approvalVars BY <2>1, KeptApprovals
  <2>2. ASSUME NEW o \in Origins, mayAdd(u, o, "transaction"),
               add(u, [origin |-> o, type |-> "transaction"])
        PROVE  ApprovalsInv'
    <3> DEFINE a == [origin |-> o, type |-> "transaction"]
    <3>1. a \in Approval /\ u \in ApprovalIds \ approvals BY <2>2 DEF Approval, mayAdd
    <3>2. add(u, a) BY <2>2
    <3> HIDE DEF a
    <3> QED BY <3>1, <3>2, Adding
  <2> QED BY <1>2, <2>1, <2>2 DEF asked, regenerated
<1>10. OpTypes' BY <1>1, <1>3, <1>6, <1>7, <1>8 DEF OpTypes, UserOperationsTypeOK
<1>11. \A n \in UserOperations \ {u} : sameOperation(n)
  BY <1>1, <1>3, <1>7, <1>8 DEF sameOperation, OpTypes, UserOperationsTypeOK
<1>12. /\ userOperation'[u] = op /\ opCall'[u] = step
       /\ userOperations'[u] \in {userOperations[u], "approved"}
  BY <1>1, <1>3, <1>7, <1>8 DEF OpTypes, UserOperationsTypeOK
<1>13. u \notin sent BY <1>1, <1>3 DEF OperationInv
<1>14. OperationInv(u)' BY <1>1, <1>3, <1>6, <1>12 DEF OperationInv, asBuilt
<1> QED BY <1>3, <1>9, <1>10, <1>11, <1>14, OneOperation

LEMMA ApprovingSteps ==
  ASSUME ApprovalsAssumption, ApprovalsInv, OpInv, uiWaits \in UiWaits, NEW u \in UserOperations,
         NEW edited \in Requests, NEW waits \in BOOLEAN, userApprovesOperation(u, edited, waits)
  PROVE  ApprovalsInv' /\ OpInv' /\ uiWaits' \in UiWaits /\ flowVars' = flowVars
<1> DEFINE old == userOperation[u]
           op == [old EXCEPT !.fees = edited.fees]
<1>1. OpTypes /\ OperationInv(u) BY OperationIs
<1>2. /\ opCall[u] = "asking" /\ delete(u)
      /\ userOperation' = [userOperation EXCEPT ![u] = op]
      /\ opRequest' = [opRequest EXCEPT ![u] = edited]
      /\ UNCHANGED <<flowVars, sent, receipt, checks, caller>>
  BY <1>1 DEF userApprovesOperation, accept, opFollowVars
<1>3. ApprovalsInv' /\ uiWaits' \in UiWaits
  BY <1>2, Deleting DEF userApprovesOperation, accept, UiWaits
<1>4. /\ old \in Built /\ old.data = opRequest[u].data /\ old.fees = opRequest[u].fees
      /\ old.paymaster \in {NoPaymaster, opRequest[u]}
  BY <1>1, <1>2, RequestsAre DEF OperationInv, asBuilt
<1>5. /\ op \in Built /\ op.fees = edited.fees /\ op.data = old.data /\ op.paymaster = old.paymaster
  BY <1>4 DEF Built, Requests
<1>6. PICK step \in {"preparing again", "signing"} :
        /\ opCall' = [opCall EXCEPT ![u] = step]
        /\ step = "signing" => ~regenerates(old, edited)
        /\ \/ userOperations' = userOperations
           \/ userOperations' = [userOperations EXCEPT ![u] = "approved"]
  BY DEF userApprovesOperation, at, withOpStatus
<1>7. step = "signing" => op.data = edited.data /\ op.paymaster \in {NoPaymaster, edited}
  <2> SUFFICES ASSUME ~regenerates(old, edited)
               PROVE  op.data = edited.data /\ op.paymaster \in {NoPaymaster, edited} BY <1>6
  <2>1. edited.data = old.data /\ (edited.fees # old.fees => old.paymaster = NoPaymaster)
    BY DEF regenerates
  <2>2. edited = [data |-> edited.data, fees |-> edited.fees] BY DEF Requests
  <2>3. opRequest[u] = [data |-> old.data, fees |-> old.fees] BY <1>1, <1>4, RequestsAre
  <2> HIDE DEF op, old
  <2> QED BY <1>4, <1>5, <2>1, <2>2, <2>3
<1> HIDE DEF op, old
<1>8. OpTypes' BY <1>1, <1>2, <1>5, <1>6 DEF OpTypes, UserOperationsTypeOK
<1>9. \A n \in UserOperations \ {u} : sameOperation(n)
  BY <1>1, <1>2, <1>6 DEF sameOperation, OpTypes, UserOperationsTypeOK
<1>10. /\ userOperation'[u] = op /\ opCall'[u] = step /\ opRequest'[u] = edited
       /\ userOperations'[u] \in {userOperations[u], "approved"}
  BY <1>1, <1>2, <1>6 DEF OpTypes, UserOperationsTypeOK
<1>11. u \notin sent BY <1>1, <1>2 DEF OperationInv
<1>12. OperationInv(u)' BY <1>1, <1>2, <1>5, <1>7, <1>10 DEF OperationInv, asBuilt
<1> QED BY <1>2, <1>3, <1>8, <1>9, <1>12, OneOperation

\* What the bundler does.
LEMMA BundlerSteps ==
  ASSUME OpInv, NEW u \in UserOperations,
         bundlerTakes(u) \/ \E outcome \in Decided : bundled(u, outcome)
  PROVE  OpInv'
<1>1. OpTypes /\ OperationInv(u) BY OperationIs
<1>2. UNCHANGED <<userOperations, opCall, userOperation, opRequest, checks, caller>>
  BY DEF bundlerTakes, bundled
<1>3. CASE bundlerTakes(u)
  BY <1>3, <1>1, <1>2, OneOperation DEF bundlerTakes, OpTypes, UserOperationsTypeOK, sameOperation,
     OperationInv, asBuilt
<1>4. ASSUME NEW outcome \in Decided, bundled(u, outcome)
      PROVE  OpInv'
  <2>1. sent' = sent /\ receipt' = [receipt EXCEPT ![u] = outcome] /\ u \in sent /\ receipt[u] = "none"
    BY <1>4 DEF bundled
  <2>2. OpTypes' /\ \A n \in UserOperations \ {u} : sameOperation(n)
    BY <1>1, <1>2, <2>1 DEF OpTypes, UserOperationsTypeOK, sameOperation
  <2>3. OperationInv(u)' BY <1>1, <1>2, <2>1 DEF OperationInv, asBuilt
  <2> QED BY <2>2, <2>3, OneOperation
<1> QED BY <1>3, <1>4

\* A check that has the receipt awaits the block.
LEMMA CheckMoves ==
  ASSUME NEW n \in Nat, NEW c \in [receipt : 0..n, block : 0..n],
         c.receipt > 0, c.receipt + c.block <= n
  PROVE  LET d == [c EXCEPT !.receipt = @ - 1, !.block = @ + 1]
         IN d \in [receipt : 0..n, block : 0..n] /\ d.receipt + d.block <= n
<1> DEFINE m == [c EXCEPT !.receipt = @ - 1]
           d == [m EXCEPT !.block = @ + 1]
<1>1. /\ m \in [receipt : 0..n, block : 0..n]
      /\ m.receipt = c.receipt - 1 /\ m.block = c.block OBVIOUS
<1>2. d \in [receipt : 0..n, block : 0..n] /\ d.receipt + d.block <= n
  <2> HIDE DEF m
  <2>1. m.receipt + m.block < n /\ m.block + 1 \in 0..n BY <1>1
  <2>2. d \in [receipt : 0..n, block : 0..n] BY <1>1
  <2>3. d.receipt = m.receipt /\ d.block = m.block + 1 OBVIOUS
  <2> QED BY <1>1
<1> QED BY <1>2

\* What the tracker does: a check moves on, and may decide the operation.
LEMMA CheckSteps ==
  ASSUME UserOperationsAssumption, OpInv, NEW u \in UserOperations, NEW answered \in BOOLEAN,
         receiptChecked(u, answered) \/ blockRead(u, answered)
  PROVE  OpInv'
<1> DEFINE old == checks[u]
<1>1. OpTypes /\ OperationInv(u) BY OperationIs
<1>2. MaxPolls \in Nat /\ old \in [receipt : 0..MaxPolls, block : 0..MaxPolls]
  BY <1>1 DEF OpTypes, UserOperationsTypeOK
<1>3. UNCHANGED <<opCall, userOperation, opRequest, sent, receipt>> BY DEF receiptChecked, blockRead
<1>4. PICK new \in [receipt : 0..MaxPolls, block : 0..MaxPolls] :
        /\ checks' = [checks EXCEPT ![u] = new]
        /\ new.receipt + new.block <= MaxPolls
        /\ new.block > old.block => receipt[u] = "confirmed"
  <2>1. CASE receiptChecked(u, answered)
    <3>1. CASE answered /\ receipt[u] = "confirmed"
      <4> DEFINE new == [old EXCEPT !.receipt = @ - 1, !.block = @ + 1]
      <4>1. checks' = [checks EXCEPT ![u] = new] BY <1>1, <2>1, <3>1 DEF receiptChecked
      <4>2. old.receipt > 0 /\ old.receipt + old.block <= MaxPolls
        BY <1>1, <2>1 DEF receiptChecked, OperationInv
      <4>3. /\ new \in [receipt : 0..MaxPolls, block : 0..MaxPolls]
            /\ new.receipt + new.block <= MaxPolls BY <1>2, <4>2, CheckMoves
      <4> HIDE DEF new
      <4> QED BY <3>1, <4>1, <4>3
    <3>2. CASE ~(answered /\ receipt[u] = "confirmed")
      <4> DEFINE new == [old EXCEPT !.receipt = @ - 1]
      <4>1. checks' = [checks EXCEPT ![u] = new] BY <1>1, <2>1 DEF receiptChecked
      <4>2. old.receipt > 0 /\ old.receipt + old.block <= MaxPolls
        BY <1>1, <2>1 DEF receiptChecked, OperationInv
      <4>3. /\ new \in [receipt : 0..MaxPolls, block : 0..MaxPolls]
            /\ new.receipt + new.block <= MaxPolls /\ new.block = old.block BY <1>2, <4>2
      <4>4. ~(new.block > old.block) BY <1>2
      <4> HIDE DEF new
      <4> QED BY <4>1, <4>3, <4>4
    <3> QED BY <3>1, <3>2
  <2>2. CASE blockRead(u, answered)
    <3> DEFINE new == [old EXCEPT !.block = @ - 1]
    <3>1. checks' = [checks EXCEPT ![u] = new] BY <1>1, <2>2 DEF blockRead
    <3>2. old.block > 0 /\ old.receipt + old.block <= MaxPolls
      BY <1>1, <2>2 DEF blockRead, OperationInv
    <3>3. /\ new \in [receipt : 0..MaxPolls, block : 0..MaxPolls]
          /\ new.receipt + new.block <= MaxPolls /\ ~(new.block > old.block) BY <1>2, <3>2
    <3> HIDE DEF new
    <3> QED BY <3>1, <3>3
  <2> QED BY <2>1, <2>2
<1>5. PICK status \in Decided \cup {userOperations[u]} :
        /\ userOperations' = [userOperations EXCEPT ![u] = status]
        /\ status = "confirmed" /\ status # userOperations[u] => receipt[u] = "confirmed"
  <2>1. CASE userOperations' = userOperations
    <3>1. userOperations' = [userOperations EXCEPT ![u] = userOperations[u]]
      BY <1>1, <2>1 DEF OpTypes, UserOperationsTypeOK
    <3> QED BY <3>1
  <2>2. CASE receiptChecked(u, answered) /\ userOperations' # userOperations
    BY <2>2 DEF receiptChecked, operationDecided, withOpStatus, Decided
  <2>3. CASE blockRead(u, answered) /\ userOperations' # userOperations
    BY <2>3, <1>1 DEF blockRead, OperationInv, operationDecided, withOpStatus, Decided
  <2> QED BY <2>1, <2>2, <2>3
<1>6. caller' \in [UserOperations -> {"no", "hash", "confirmation", "late", "told", "threw", "gone"}]
  BY <1>1 DEF OpTypes, UserOperationsTypeOK, receiptChecked, blockRead, operationDecided, hears
<1>7. OpTypes' BY <1>1, <1>3, <1>4, <1>5, <1>6 DEF OpTypes, UserOperationsTypeOK
<1>8. \A n \in UserOperations \ {u} : sameOperation(n) BY <1>1, <1>3, <1>4, <1>5 DEF sameOperation
<1>9. checks'[u] = new /\ userOperations'[u] = status
  BY <1>1, <1>4, <1>5 DEF OpTypes, UserOperationsTypeOK
<1>10. new.block > 0 => old.block > 0 \/ receipt[u] = "confirmed" BY <1>2, <1>4
<1>11. OperationInv(u)' BY <1>1, <1>5, <1>10, <1>3, <1>4, <1>9 DEF OperationInv, Decided, asBuilt
<1> QED BY <1>7, <1>8, <1>11, OneOperation

\* New polls of all that is submitted, and a restart, which forgets calls and checks.
LEMMA PollingSteps ==
  ASSUME UserOperationsAssumption, OpInv, polled
  PROVE  OpInv'
<1>1. OpTypes /\ \A u \in UserOperations : OperationInv(u) BY DEF OpInv, OpTypes
<1>2. /\ UNCHANGED <<userOperations, opCall, userOperation, opRequest, sent, receipt, caller>>
      /\ checks' = [u \in UserOperations |->
                      IF userOperations[u] = "submitted"
                      THEN [checks[u] EXCEPT !.receipt = @ + 1] ELSE checks[u]] BY DEF polled
<1>3. ASSUME NEW u \in UserOperations
      PROVE  /\ checks'[u] \in [receipt : 0..MaxPolls, block : 0..MaxPolls]
             /\ checks'[u].receipt + checks'[u].block <= MaxPolls
             /\ checks'[u].block = checks[u].block
  <2> DEFINE old == checks[u]
  <2>1. MaxPolls \in Nat /\ old \in [receipt : 0..MaxPolls, block : 0..MaxPolls]
    BY <1>1 DEF OpTypes, UserOperationsTypeOK
  <2>2. CASE userOperations[u] = "submitted"
    <3>1. old.receipt + old.block < MaxPolls BY <2>2 DEF polled
    <3>2. checks'[u] = [old EXCEPT !.receipt = @ + 1] BY <1>2, <2>2
    <3> HIDE DEF old
    <3>3. [old EXCEPT !.receipt = @ + 1] \in [receipt : 0..MaxPolls, block : 0..MaxPolls]
      BY <2>1, <3>1
    <3>4. /\ [old EXCEPT !.receipt = @ + 1].receipt = old.receipt + 1
          /\ [old EXCEPT !.receipt = @ + 1].block = old.block OBVIOUS
    <3>5. old.receipt + 1 + old.block <= MaxPolls BY <2>1, <3>1
    <3> QED BY <3>2, <3>3, <3>5 DEF old
  <2>3. CASE userOperations[u] # "submitted" BY <1>1, <1>2, <2>1, <2>3 DEF OperationInv
  <2> QED BY <2>2, <2>3
<1>4. checks' \in [UserOperations -> [receipt : 0..MaxPolls, block : 0..MaxPolls]] BY <1>2, <1>3
<1>5. OpTypes' BY <1>1, <1>2, <1>4 DEF OpTypes, UserOperationsTypeOK
<1>6. \A u \in UserOperations : OperationInv(u)' BY <1>1, <1>2, <1>3 DEF OperationInv, asBuilt
<1> QED BY <1>5, <1>6 DEF OpInv, OpTypes

LEMMA RestoringSteps ==
  ASSUME UserOperationsAssumption, OpInv, operationsRestored
  PROVE  ApprovalsInv' /\ OpInv' /\ uiWaits' \in UiWaits /\ flowVars' = flowVars
<1>1. OpTypes /\ \A u \in UserOperations : OperationInv(u) BY DEF OpInv, OpTypes
<1>2. clear /\ uiWaits' \in UiWaits /\ flowVars' = flowVars
  BY DEF operationsRestored, clear, UiWaits
<1>3. /\ UNCHANGED <<userOperations, userOperation, opRequest, sent, receipt>>
      /\ opCall' = [u \in UserOperations |-> IF opCall[u] = "idle" THEN "idle" ELSE "gone"]
      /\ checks' = [u \in UserOperations |-> [receipt |-> 0, block |-> 0]]
      /\ caller' = [u \in UserOperations |-> IF opCall[u] = "idle" THEN "no" ELSE "gone"]
  BY DEF operationsRestored
<1>4. OpTypes'
  <2>1. [receipt |-> 0, block |-> 0] \in [receipt : 0..MaxPolls, block : 0..MaxPolls] OBVIOUS
  <2> QED BY <1>1, <1>3, <2>1 DEF OpTypes, UserOperationsTypeOK
<1>5. ASSUME NEW u \in UserOperations
      PROVE  OperationInv(u)'
  <2>1. checks'[u] = [receipt |-> 0, block |-> 0] /\ MaxPolls \in Nat BY <1>3
  <2>2. checks'[u].receipt + checks'[u].block <= MaxPolls /\ ~(checks'[u].block > 0) BY <2>1
  <2>3. opCall'[u] \in {"idle", "gone"} /\ (u \in sent => opCall'[u] = "gone") /\ OperationInv(u)
    BY <1>1, <1>3 DEF OperationInv
  <2> QED BY <1>3, <2>2, <2>3 DEF OperationInv, asBuilt
<1> QED BY <1>2, <1>4, <1>5, Clearing DEF OpInv, OpTypes

LEMMA OperationSteps ==
  ASSUME ApprovalsAssumption, UserOperationsAssumption, ApprovalsInv, OpInv, uiWaits \in UiWaits,
         UserOperationsNext
  PROVE  ApprovalsInv' /\ OpInv' /\ uiWaits' \in UiWaits /\ flowVars' = flowVars
<1>1. ASSUME NEW u \in UserOperations
      PROVE  told(u) \in UiWaits BY DEF told, UiWaits
<1>2. ASSUME NEW u \in UserOperations,
             addUserOperation(u) \/ userRejectsOperation(u) \/ failUserOperation(u)
               \/ signUserOperation(u) \/ submitUserOperation(u) \/ transactionHash(u)
      PROVE  ApprovalsInv' /\ OpInv' /\ uiWaits' \in UiWaits /\ flowVars' = flowVars
  BY <1>2, <1>1, StatusSteps, KeptApprovals, Deleting DEF addUserOperation, userRejectsOperation,
     failUserOperation, signUserOperation, submitUserOperation, transactionHash, approvalFlowVars
<1>3. ASSUME NEW u \in UserOperations,
             \/ prepareUserOperation(u) \/ bundlerTakes(u)
             \/ \E outcome \in Decided : bundled(u, outcome)
             \/ \E answered \in BOOLEAN : receiptChecked(u, answered) \/ blockRead(u, answered)
      PROVE  ApprovalsInv' /\ OpInv' /\ uiWaits' \in UiWaits /\ flowVars' = flowVars
  BY <1>3, PreparingSteps, BundlerSteps, CheckSteps, KeptApprovals DEF prepareUserOperation, bundlerTakes,
     bundled, receiptChecked, blockRead, approvalFlowVars
<1>4. ASSUME NEW u \in UserOperations, paymasterAnswers(u)
      PROVE  ApprovalsInv' /\ OpInv' /\ uiWaits' \in UiWaits /\ flowVars' = flowVars
  BY <1>4, SponsoringSteps
<1>5. ASSUME NEW u \in UserOperations, NEW edited \in Requests, NEW waits \in BOOLEAN,
             userApprovesOperation(u, edited, waits)
      PROVE  ApprovalsInv' /\ OpInv' /\ uiWaits' \in UiWaits /\ flowVars' = flowVars
  BY <1>5, ApprovingSteps
<1>6. CASE polled BY <1>6, PollingSteps, KeptApprovals DEF polled, approvalFlowVars
<1>7. CASE operationsRestored BY <1>7, RestoringSteps
<1> QED BY <1>2, <1>3, <1>4, <1>5, <1>6, <1>7 DEF UserOperationsNext

-----------------------------------------------------------------------------

(* The invariant is inductive. *)

ConsentsAssumptions ==
  /\ ApprovalsAssumption /\ FlowsAssumption /\ PermissionsAssumption /\ MessagesAssumption
  /\ UserOperationsAssumption

LEMMA InitialConsents ==
  ASSUME ConsentsAssumptions, Init
  PROVE  ConsentsInv
<1>1. ApprovalsInv BY InitialApprovals DEF Init, FlowsInit
<1>2. FlowsInv /\ uiWaits \in UiWaits
  <2>1. /\ approvalFlows = <<>> /\ usesFlow = [f \in Flows |-> "not yet"]
        /\ page = [p \in Pages |-> [step |-> "idle"]] /\ outOfOrder = {}
        /\ uiWaits = [id \in ApprovalIds |-> "no"] BY DEF Init, FlowsInit
  <2>2. approvalFlows \in Seq(Flows) /\ DOMAIN approvalFlows = {}
    <3>1. <<>> \in Seq(Flows) /\ Len(<<>>) = 0 OBVIOUS
    <3>2. DOMAIN approvalFlows = 1..0 BY <2>1, <3>1, LenProperties
    <3>3. 1..0 = {} OBVIOUS
    <3>4. approvalFlows \in Seq(Flows) BY <2>1, <3>1
    <3> QED BY <3>2
  <2>3. page \in [Pages -> PageSteps] BY <2>1 DEF PageSteps
  <2>4. FlowsShownAreOpen BY <2>1, <2>2 DEF FlowsShownAreOpen
  <2>5. FlowsInv BY <2>1, <2>2, <2>3, <2>4 DEF FlowsInv
  <2> QED BY <2>1, <2>5 DEF UiWaits
<1>3. PermInv
  <2>1. PermTypes
    <3>1. encountered \in Seq(Origins) BY EmptySeq DEF Init, PermissionsInit
    <3>2. walletSteps \in 0..MaxWalletSteps
      <4>1. MaxWalletSteps \in Nat /\ walletSteps = 0
        BY DEF Init, PermissionsInit, ConsentsAssumptions
      <4> QED BY <4>1
    <3>3. permRequest \in [PermRequests -> PermSteps] BY DEF Init, PermissionsInit, PermSteps
    <3> QED BY <3>1, <3>2, <3>3 DEF Init, PermissionsInit, PermTypes
  <2>2. \A o \in Origins : subjects[o] = NoSubject BY DEF Init, PermissionsInit
  <2> QED BY <2>1, <2>2 DEF PermInv, justified
<1>4. MsgInv BY DEF Init, MessagesInit, MsgInv, MessagesTypeOK, MessageInv
<1>5. AskedInv /\ part \in {"permissions", "flows", "signatures", "user operations"}
  BY DEF Init, MessagesInit, FlowsInit, ApprovalsInit, AskedInv
<1>6. OpInv
  <2>1. MaxPolls \in Nat BY DEF ConsentsAssumptions
  <2>2. OpTypes
    <3>1. userOperation \in [UserOperations -> Built]
      BY DEF Init, UserOperationsInit, Built, NotBuilt
    <3>2. opRequest \in [UserOperations -> Requests]
      BY DEF Init, UserOperationsInit, Versions, Requests
    <3>3. checks \in [UserOperations -> [receipt : 0..MaxPolls, block : 0..MaxPolls]]
      <4>1. 0 \in 0..MaxPolls BY <2>1
      <4> QED BY <4>1 DEF Init, UserOperationsInit
    <3> QED BY <3>1, <3>2, <3>3 DEF Init, UserOperationsInit, OpTypes, UserOperationsTypeOK
  <2>3. ASSUME NEW u \in UserOperations PROVE OperationInv(u)
    <3>1. checks[u] = [receipt |-> 0, block |-> 0] BY DEF Init, UserOperationsInit
    <3>2. checks[u].receipt + checks[u].block <= MaxPolls /\ ~(checks[u].block > 0) BY <2>1, <3>1
    <3> QED BY <3>2 DEF Init, UserOperationsInit, OperationInv
  <2> QED BY <2>2, <2>3 DEF OpInv, OpTypes
<1> QED BY <1>1, <1>2, <1>3, <1>4, <1>5, <1>6 DEF ConsentsInv

LEMMA ConsentSteps ==
  ASSUME ConsentsAssumptions, ConsentsInv, [Next]_allVars
  PROVE  ConsentsInv'
<1> USE DEF ConsentsAssumptions
<1>1. /\ ApprovalsInv /\ FlowsInv /\ PermInv /\ MsgInv /\ AskedInv /\ OpInv /\ uiWaits \in UiWaits
      /\ part \in {"permissions", "flows", "signatures", "user operations"} BY DEF ConsentsInv
<1>2. CASE permissions
  BY <1>2, <1>1, PermissionSteps, KeptFlows, KeptMessages, KeptOperations, KeptAsked DEF permissions, inPart,
     messageVars, ConsentsInv
<1>3. CASE flows
  BY <1>3, <1>1, FlowSteps, KeptPermissions, KeptMessages, KeptOperations, KeptAsked DEF flows, inPart,
     messageVars, ConsentsInv
<1>4. CASE signatures(MessagesNext)
  BY <1>4, <1>1, MessageSteps, KeptFlows, KeptPermissions, KeptOperations DEF signatures, inPart, ConsentsInv
<1>5. CASE userOperationSteps
  BY <1>5, <1>1, OperationSteps, KeptFlows, KeptPermissions, KeptMessages, KeptAsked DEF userOperationSteps,
     inPart, messageVars, ConsentsInv
<1>6. CASE UNCHANGED allVars
  BY <1>6, <1>1, KeptApprovals, KeptFlows, KeptPermissions, KeptMessages, KeptOperations DEF allVars,
     approvalFlowVars, AskedInv, approvalVars, messageVars, ConsentsInv
<1> QED BY <1>2, <1>3, <1>4, <1>5, <1>6 DEF Next

\* The invariant says what the runs check.
LEMMA ConsentsSay ==
  ASSUME ConsentsAssumptions, ConsentsInv
  PROVE  ShownIsOpen /\ PermissionsAreConsented /\ SignaturesAreConfirmed /\ OperationsAreAsApproved
<1>1. FlowsTypeOK BY DEF ConsentsInv, ApprovalsInv, FlowsInv, PageSteps, UiWaits, FlowsTypeOK
<1>2. PermissionsTypeOK BY DEF ConsentsInv, PermInv, PermTypes, PermSteps, PermissionsTypeOK
<1>3. ShownIsOpen BY <1>1, <1>2 DEF ConsentsInv, ApprovalsInv, FlowsInv, MsgInv, OpInv, ShownIsOpen
<1>4. PermissionsAreConsented
  <2> SUFFICES ASSUME NEW o \in Origins, subjects[o] # NoSubject
               PROVE  /\ targetsOf(subjects[o]) # {}
                      /\ consentTo(o, subjects[o]) \subseteq consented
                      /\ {o} \X getSideEffects(subjects[o]) \subseteq effects
    BY DEF PermissionsAreConsented, hasPermissions
  <2>1. subjects[o] \in Permissions /\ justified(o, subjects[o], consented, effects)
    BY DEF ConsentsInv, PermInv, PermTypes
  <2> QED BY <2>1, ConsentIs DEF justified, getSideEffects
<1>5. SignaturesAreConfirmed
  BY DEF ConsentsInv, AskedInv, MsgInv, MessageInv, SignaturesAreConfirmed
<1>6. OperationsAreAsApproved
  BY DEF ConsentsInv, OpInv, OperationInv, asBuilt, OperationsAreAsApproved
<1> QED BY <1>3, <1>4, <1>5, <1>6

-----------------------------------------------------------------------------

\* With the names of what is kept: all of ConsentsInv is an invariant.
LEMMA ConsentsHold == Spec => []ConsentsInv
<1> USE ApprovalsAssumption, FlowsAssumption, PermissionsAssumption, MessagesAssumption,
        UserOperationsAssumption DEF ConsentsAssumptions
<1>1. Init => ConsentsInv BY InitialConsents
<1>2. ConsentsInv /\ [Next]_allVars => ConsentsInv' BY ConsentSteps
<1> QED BY <1>1, <1>2, PTL DEF Spec

LEMMA ConsentsSayAll ==
  ConsentsInv => /\ ShownIsOpen /\ PermissionsAreConsented
                 /\ SignaturesAreConfirmed /\ OperationsAreAsApproved
BY ConsentsSay, ApprovalsAssumption, FlowsAssumption, PermissionsAssumption, MessagesAssumption,
   UserOperationsAssumption DEF ConsentsAssumptions

(***************************************************************************)
(* ApprovalController's three copies of the pending approvals agree after  *)
(* every add, accept, reject, clear and restart, for any number of dapps,  *)
(* types and requests that share them; and the flows the user sees are     *)
(* those that go on, whichever pages end them and however they end.        *)
(***************************************************************************)
THEOREM ShownIsAlwaysOpen == Spec => []ShownIsOpen
BY ConsentsHold, ConsentsSayAll, PTL

(***************************************************************************)
(* PermissionController: what a subject holds, down to each value of each  *)
(* caveat, was approved and has not been revoked, and its side effects     *)
(* have succeeded, however requests, the wallet's own grants, revocations, *)
(* changed caveats and restarts interleave.                                *)
(***************************************************************************)
THEOREM PermissionsAlwaysConsented == Spec => []PermissionsAreConsented
BY ConsentsHold, ConsentsSayAll, PTL

(***************************************************************************)
(* SignatureController: no message is signed without the user, no dapp     *)
(* gets a signature of a message that is not signed, and no call leaves a  *)
(* message or an approval half done, whichever of the keyring, a custodian *)
(* and rejectUnapproved comes first.                                       *)
(***************************************************************************)
THEOREM SignaturesAlwaysConfirmed == Spec => []SignaturesAreConfirmed
BY ConsentsHold, ConsentsSayAll, PTL

(***************************************************************************)
(* UserOperationController: the bundler gets what was approved, after any  *)
(* edit and with a paymaster that vouches for it, and the state never says *)
(* submitted or confirmed of what is not, with any number of polls, lost   *)
(* answers and restarts.                                                   *)
(***************************************************************************)
THEOREM OperationsAlwaysApproved == Spec => []OperationsAreAsApproved
BY ConsentsHold, ConsentsSayAll, PTL

(***************************************************************************)
(* SubjectMetadataController: no step deletes the metadata of a subject    *)
(* with permissions, whatever the size of its cache.                       *)
(***************************************************************************)
THEOREM MetadataAlwaysKept == Spec => MetadataOfSubjectsIsKept
<1> DEFINE Kept == \A o \in subjectMetadata : hasPermissions(o) => o \in subjectMetadata'
<1>1. ASSUME [Next]_allVars
      PROVE  [Kept]_permissionVars
  <2>1. CASE UNCHANGED permissionVars BY <2>1
  <2>2. CASE permissions
    <3>1. PermissionsNext BY <2>2 DEF permissions
    <3>2. CASE UNCHANGED subjectMetadata BY <3>2
    <3>3. ASSUME NEW o \in Origins, addSubjectMetadata(o)
          PROVE  Kept BY <3>3 DEF addSubjectMetadata, forgets
    <3>4. CASE trimMetadataState \/ permissionsRestart
      BY <3>4 DEF trimMetadataState, permissionsRestart
    <3> QED
      BY <3>1, <3>2, <3>3, <3>4 DEF PermissionsNext, requestPermissions, requestPermissionsIncremental,
         acceptPermissionsRequest, rejectPermissionsRequest, sideEffectsEnd, walletStep, grantPermissions,
         revokePermissions, setCaveat, removeCaveat, revokePermissionForAllSubjects,
         updatePermissionsByCaveat, permissionsCleared, metadataVars
  <2> QED BY <1>1, <2>1, <2>2 DEF Next, flows, signatures, userOperationSteps, allVars
<1>2. [Next]_allVars => [Kept]_permissionVars BY <1>1
<1> QED BY <1>2, PTL DEF Spec, MetadataOfSubjectsIsKept
=============================================================================
