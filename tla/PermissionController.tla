------------------------- MODULE PermissionController -------------------------
(***************************************************************************)
(* Who may do what (packages/permission-controller): dapps ask for         *)
(* permissions, the user approves some of what they ask, the side effects  *)
(* of the approved permissions run, and they are granted; the wallet       *)
(* grants, changes and revokes permissions meanwhile.                      *)
(* SubjectMetadataController remembers something of each dapp, forgets     *)
(* dapps without permissions, and is asked when a permission is validated. *)
(*                                                                         *)
(* A permission is the set of the values of its caveat, {} without caveat; *)
(* the caveat's merger is the union.                                       *)
(***************************************************************************)
EXTENDS ApprovalController, Sequences

CONSTANTS
  Targets,         \* what may be permitted
  Values,          \* what a caveat can list
  NoPermission,    \* a target that is not among the permissions of a subject
  NoSubject,       \* an origin that is not in state.subjects
  Restrictable,    \* targets whose specification allows the caveat
  Eventful,        \* targets whose specification has a side effect
  Typed,           \* targets whose specification lists subject types
  PermRequests,    \* calls of requestPermissions and requestPermissionsIncremental
  SubjectCacheLimit,
  MaxWalletSteps   \* how often the wallet itself changes permissions, or is restarted

Unrestricted == "without a caveat"

ASSUME PermissionsAssumption ==
  /\ "permissions" \in Types \ Unlimited
  /\ Restrictable \cup Eventful \cup Typed \subseteq Targets
  /\ PermRequests \subseteq ApprovalIds
  /\ SubjectCacheLimit \in Nat \ {0} /\ MaxWalletSteps \in Nat
  /\ NoPermission \notin SUBSET Values /\ Unrestricted \notin Values

VARIABLES
  subjects,        \* state.subjects
  permRequest,     \* each call
  subjectMetadata, \* the origins in SubjectMetadataController's state
  encountered,     \* subjectsWithoutPermissionsEncounteredSinceStartup, in order
  consented,       \* history: what was granted with consent and not revoked since
  effects,         \* history: <<call, target>> whose side effect succeeded
  walletSteps      \* how many there were

metadataVars == <<subjectMetadata, encountered>>
permissionVars == <<subjects, permRequest, metadataVars, consented, effects, walletSteps>>

Permission == SUBSET Values
Permissions ==
  {P \in [Targets -> Permission \cup {NoPermission}] :
     \A t \in Targets \ Restrictable : P[t] \in {{}, NoPermission}}
NoPermissions == [t \in Targets |-> NoPermission]
IdlePermRequest == [step |-> "idle"]
EndedPermRequest == [step |-> "ended"]

PermissionsTypeOK ==
  /\ subjects \in [Origins -> Permissions \cup {NoSubject}]
  /\ \A r \in PermRequests :
       permRequest[r] \in {IdlePermRequest, EndedPermRequest} \cup
         [step : {"asking", "effects"}, origin : Origins, asked : Permissions,
          approved : Permissions, preserve : BOOLEAN]
  /\ subjectMetadata \in SUBSET Origins
  /\ encountered \in Seq(Origins)
  /\ walletSteps \in 0..MaxWalletSteps

PermissionsInit ==
  /\ subjects = [o \in Origins |-> NoSubject]
  /\ permRequest = [r \in PermRequests |-> IdlePermRequest]
  /\ subjectMetadata = {}
  /\ encountered = <<>>
  /\ consented = {}
  /\ effects = {}
  /\ walletSteps = 0

-----------------------------------------------------------------------------

getPermissions(o) == IF subjects[o] = NoSubject THEN NoPermissions ELSE subjects[o]

hasPermissions(o) == subjects[o] # NoSubject

targetsOf(P) == {t \in Targets : P[t] # NoPermission}

\* validatePermission: a target with subject types is for known subjects only.
isValidFor(o, P) == targetsOf(P) \cap Typed # {} => o \in subjectMetadata

\* validateRequestedPermissions.
isValidRequest(o, P) == targetsOf(P) # {} /\ isValidFor(o, P)

mergePermission(left, right) == IF left = NoPermission THEN right ELSE left \cup right

\* #mergeIncrementalPermissions: the left side where the right one adds nothing.
mergeIncrementalPermissions(existing, asked) ==
  [t \in Targets |-> IF asked[t] = NoPermission THEN existing[t]
                     ELSE mergePermission(existing[t], asked[t])]

\* What is consented to when a subject gets a permission.
consentTo(o, P) ==
  {c \in {o} \X targetsOf(P) \X (Values \cup {Unrestricted}) :
     IF P[c[2]] = {} THEN c[3] = Unrestricted ELSE c[3] \in P[c[2]]}

\* #applyGrantedPermissions of grantPermissions.
granted(o, approved, preserve) ==
  [t \in Targets |-> IF approved[t] # NoPermission THEN approved[t]
                     ELSE IF preserve THEN getPermissions(o)[t] ELSE NoPermission]

\* deletePermission, for each target: a subject is deleted with its last permission.
withoutPermissions(P, revoked) ==
  IF P = NoSubject THEN NoSubject
  ELSE IF targetsOf(P) \subseteq revoked THEN NoSubject
  ELSE [t \in Targets |-> IF t \in revoked THEN NoPermission ELSE P[t]]

-----------------------------------------------------------------------------

permissionsAsked(r, o, P, preserve) ==
  IF mayAdd(r, o, "permissions")
  THEN /\ add(r, [origin |-> o, type |-> "permissions"])
       /\ permRequest' = [permRequest EXCEPT ![r] =
            [step |-> "asking", origin |-> o, asked |-> P, approved |-> NoPermissions,
             preserve |-> preserve]]
  ELSE /\ permRequest' = [permRequest EXCEPT ![r] = EndedPermRequest]
       /\ UNCHANGED approvalVars

requestPermissions(r, o, P) ==
  /\ permRequest[r] = IdlePermRequest /\ isValidRequest(o, P)
  /\ permissionsAsked(r, o, P, TRUE)
  /\ UNCHANGED <<subjects, metadataVars, consented, effects, walletSteps>>

\* The user is shown what the subject will have; nothing is asked that it has.
requestPermissionsIncremental(r, o, P) ==
  LET new == mergeIncrementalPermissions(getPermissions(o), P) IN
  /\ permRequest[r] = IdlePermRequest /\ isValidRequest(o, P)
  /\ IF new = getPermissions(o) \/ ~isValidRequest(o, new)
     THEN /\ permRequest' = [permRequest EXCEPT ![r] = EndedPermRequest]
          /\ UNCHANGED approvalVars
     ELSE permissionsAsked(r, o, new, FALSE)
  /\ UNCHANGED <<subjects, metadataVars, consented, effects, walletSteps>>

\* Fault: what was asked for is granted instead of what was approved.
grantedToAsked(o, r, P) == granted(o, permRequest[r].asked, permRequest[r].preserve)

grantedTo(o, r, P) == granted(o, P, permRequest[r].preserve)

\* The call grants and returns, or throws.
permissionsGranted(r, P) ==
  LET o == permRequest[r].origin IN
  /\ permRequest' = [permRequest EXCEPT ![r] = EndedPermRequest]
  /\ IF isValidFor(o, P)
     THEN /\ subjects' = [subjects EXCEPT ![o] = grantedTo(o, r, P)]
          /\ consented' = consented \cup consentTo(o, P)
     ELSE UNCHANGED <<subjects, consented>>

getSideEffects(P) == targetsOf(P) \cap Eventful

\* validateApprovedPermissions: some of what was asked for, and still valid.
isValidApproval(r, P) ==
  /\ targetsOf(P) \subseteq targetsOf(permRequest[r].asked)
  /\ isValidRequest(permRequest[r].origin, P)

\* acceptPermissionsRequest with what the user approves (at least one
\* permission); the request's promise continues.
acceptPermissionsRequest(r, P) ==
  /\ permRequest[r].step = "asking"
  /\ targetsOf(P) # {}
  /\ delete(r)
  /\ IF ~isValidApproval(r, P)
     THEN /\ permRequest' = [permRequest EXCEPT ![r] = EndedPermRequest]
          /\ UNCHANGED <<subjects, consented>>
     ELSE IF getSideEffects(P) = {} THEN permissionsGranted(r, P)
     ELSE /\ permRequest' = [permRequest EXCEPT ![r].step = "effects", ![r].approved = P]
          /\ UNCHANGED <<subjects, consented>>
  /\ UNCHANGED <<metadataVars, effects, walletSteps>>

\* rejectPermissionsRequest, or accepted without a permission, or with an id or an
\* origin that was changed.
rejectPermissionsRequest(r) ==
  /\ permRequest[r].step = "asking"
  /\ delete(r)
  /\ permRequest' = [permRequest EXCEPT ![r] = EndedPermRequest]
  /\ UNCHANGED <<subjects, metadataVars, consented, effects, walletSteps>>

\* executeSideEffects: they have all ended; with a failure, the failure handlers have
\* run too, and the call throws.
sideEffectsEnd(r) ==
  LET P == permRequest[r].approved IN
  /\ permRequest[r].step = "effects"
  /\ \E succeeded \in SUBSET getSideEffects(P) :
       /\ effects' = effects \cup ({permRequest[r].origin} \X succeeded)
       /\ IF succeeded = getSideEffects(P) THEN permissionsGranted(r, P)
          ELSE /\ permRequest' = [permRequest EXCEPT ![r] = EndedPermRequest]
               /\ UNCHANGED <<subjects, consented>>
  /\ UNCHANGED <<approvalVars, metadataVars, walletSteps>>

-----------------------------------------------------------------------------

walletStep ==
  /\ walletSteps < MaxWalletSteps
  /\ walletSteps' = walletSteps + 1
  /\ UNCHANGED <<approvalVars, permRequest, metadataVars>>

\* grantPermissions and grantPermissionsIncremental by the wallet itself.
grantPermissions(o, P, incremental) ==
  /\ walletStep
  /\ targetsOf(P) # {} /\ isValidFor(o, P)
  /\ subjects' = [subjects EXCEPT ![o] =
       IF incremental THEN mergeIncrementalPermissions(getPermissions(o), P)
       ELSE granted(o, P, TRUE)]
  /\ consented' = consented \cup consentTo(o, P)
  /\ effects' = effects \cup ({o} \X targetsOf(P))

\* revokePermission, and with all targets revokeAllPermissions.
revokePermissions(o, revoked) ==
  /\ walletStep
  /\ revoked # {} /\ revoked \subseteq targetsOf(getPermissions(o))
  /\ subjects' = [subjects EXCEPT ![o] = withoutPermissions(@, revoked)]
  /\ consented' = consented \ ({o} \X revoked \X (Values \cup {Unrestricted}))
  /\ UNCHANGED effects

revokePermissionForAllSubjects(t) ==
  /\ walletStep
  /\ subjects' = [o \in Origins |-> withoutPermissions(subjects[o], {t})]
  /\ consented' = consented \ (Origins \X {t} \X (Values \cup {Unrestricted}))
  /\ UNCHANGED effects

\* addCaveat and updateCaveat.  An invalid one changes nothing.
setCaveat(o, t, P) ==
  /\ walletStep
  /\ t \in Restrictable /\ getPermissions(o)[t] \notin {NoPermission, P}
  /\ isValidFor(o, [NoPermissions EXCEPT ![t] = P])
  /\ subjects' = [subjects EXCEPT ![o][t] = P]
  /\ consented' = consented \cup consentTo(o, [NoPermissions EXCEPT ![t] = P])
  /\ UNCHANGED effects

\* removeCaveat: the permission is then held without a caveat.
removeCaveat(o, t) == setCaveat(o, t, {})

\* updatePermissionsByCaveat with the mutator of a value that is gone: it is taken out
\* of every caveat, and permissions are revoked whose caveat has no other.
updatePermissionsByCaveat(v) ==
  /\ walletStep
  /\ subjects' = [o \in Origins |->
       IF subjects[o] = NoSubject THEN NoSubject
       ELSE LET left == [t \in Targets |-> IF subjects[o][t] = {v} THEN NoPermission
                                           ELSE IF subjects[o][t] = NoPermission
                                           THEN NoPermission ELSE subjects[o][t] \ {v}]
            IN IF left = NoPermissions THEN NoSubject ELSE left]
  /\ consented' = consented \ (Origins \X Targets \X {v})
  /\ UNCHANGED effects

permissionsCleared ==
  /\ walletStep
  /\ subjects' = [o \in Origins |-> NoSubject]
  /\ consented' = {}
  /\ UNCHANGED effects

\* Fault: the oldest subject is forgotten whether it has permissions or not.
forgetsAny(o) == TRUE

forgets(o) == ~hasPermissions(o)

\* addSubjectMetadata: o is remembered, and the oldest one that was added may have to
\* go, which can be o itself.
addSubjectMetadata(o) ==
  LET full == Len(encountered) >= SubjectCacheLimit
      oldest == Head(encountered)
      left == IF full THEN Tail(encountered) ELSE encountered
  IN /\ encountered' = IF \E i \in DOMAIN left : left[i] = o THEN left ELSE Append(left, o)
     /\ subjectMetadata' = (subjectMetadata \cup {o}) \
          (IF full /\ forgets(oldest) THEN {oldest} ELSE {})
     /\ UNCHANGED <<approvalVars, subjects, permRequest, consented, effects, walletSteps>>

\* trimMetadataState.
trimMetadataState ==
  /\ subjectMetadata' = {o \in subjectMetadata : hasPermissions(o)}
  /\ UNCHANGED <<approvalVars, subjects, permRequest, encountered, consented, effects,
                 walletSteps>>

\* The wallet is closed and opened.
permissionsRestart ==
  /\ walletSteps < MaxWalletSteps
  /\ walletSteps' = walletSteps + 1
  /\ permRequest' = [r \in PermRequests |-> IF permRequest[r] = IdlePermRequest
                                            THEN IdlePermRequest ELSE EndedPermRequest]
  /\ subjectMetadata' = {o \in subjectMetadata : hasPermissions(o)}
  /\ encountered' = <<>>
  /\ clear
  /\ UNCHANGED <<subjects, consented, effects>>

-----------------------------------------------------------------------------

PermissionsNext ==
  \/ \E r \in PermRequests :
       \/ \E o \in Origins, P \in Permissions :
            requestPermissions(r, o, P) \/ requestPermissionsIncremental(r, o, P)
       \/ \E P \in Permissions : acceptPermissionsRequest(r, P)
       \/ rejectPermissionsRequest(r) \/ sideEffectsEnd(r)
  \/ \E o \in Origins :
       \/ addSubjectMetadata(o)
       \/ \E P \in Permissions, incremental \in BOOLEAN : grantPermissions(o, P, incremental)
       \/ \E revoked \in SUBSET Targets : revokePermissions(o, revoked)
       \/ \E t \in Targets, P \in Permission \ {{}} : setCaveat(o, t, P)
       \/ \E t \in Targets : removeCaveat(o, t)
  \/ \E t \in Targets : revokePermissionForAllSubjects(t)
  \/ \E v \in Values : updatePermissionsByCaveat(v)
  \/ permissionsCleared \/ trimMetadataState \/ permissionsRestart

-----------------------------------------------------------------------------

(***************************************************************************)
(* Whatever a subject holds, down to each value of a caveat, was granted   *)
(* after the user, or the wallet, had approved just that, and has not been *)
(* revoked since; what has a side effect is held only when that has        *)
(* succeeded; and there is no subject without permissions, for which       *)
(* hasPermissions would be wrong.                                          *)
(***************************************************************************)
PermissionsAreConsented ==
  \A o \in Origins : hasPermissions(o) =>
    /\ targetsOf(subjects[o]) # {}
    /\ consentTo(o, subjects[o]) \subseteq consented
    /\ {o} \X getSideEffects(subjects[o]) \subseteq effects

(***************************************************************************)
(* "In order to prevent a degraded user experience, metadata is never      *)
(* deleted for subjects with permissions, since metadata cannot yet be     *)
(* requested on demand": they keep it when others are remembered, when the *)
(* rest is trimmed, and when the wallet is restarted.                      *)
(***************************************************************************)
MetadataOfSubjectsIsKept ==
  [][\A o \in subjectMetadata : hasPermissions(o) => o \in subjectMetadata']_permissionVars
=============================================================================
