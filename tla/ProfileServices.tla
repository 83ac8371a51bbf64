--------------------------- MODULE ProfileServices ---------------------------
(***************************************************************************)
(* The session of a profile, whether it is synced, and the registration    *)
(* for pushed notifications (packages/profile-sync-controller and          *)
(* packages/notification-services-controller).                             *)
(*                                                                         *)
(* A session is asked for whenever a valid one is missing, by a flow of    *)
(* several requests.  A flow that fails turns syncing off, for which       *)
(* notifications are turned off first, for which a session is asked.       *)
(* Where pushed notifications go is a list at the server, which each       *)
(* device reads, changes and writes back.                                  *)
(*                                                                         *)
(* The servers, Firebase and NotificationServicesController are external.  *)
(***************************************************************************)
EXTENDS Naturals, FiniteSets, FiniteSetsExt

CONSTANTS
  SessionCalls,     \* calls of the two controllers
  MaxSessionSteps,  \* how often a call or the user begins something, or time passes
  PushCalls,        \* calls of NotificationServicesPushController
  Device,           \* the registration token of another device
  MaxPushTokens,    \* how many tokens Firebase makes
  MaxPushSteps      \* how often calls begin, the other device changes, or there is a restart

ASSUME ProfileServicesAssumption ==
  /\ Device \notin Nat
  /\ MaxSessionSteps \in Nat /\ MaxPushTokens \in Nat /\ MaxPushSteps \in Nat

VARIABLES
  isSignedIn,               \* state of AuthenticationController
  session,                  \* sessionData, by its age
  isProfileSyncingEnabled,  \* state of UserStorageController
  notifying,                \* isNotificationServicesEnabled
  metrics,                  \* getMetaMetricsState()
  sessionCall,              \* the calls
  maySignIn,                \* history: signing in was asked, or under way, since the last sign-out
  turnedOff,                \* history: syncing was turned off, and nobody turns it on since
  sessionSteps

profileVars == <<isSignedIn, session, isProfileSyncingEnabled, notifying, metrics, sessionCall,
                 maySignIn, turnedOff, sessionSteps>>

NoCallYet == [kind |-> "none", step |-> "idle"]

\* A session is "new" in the millisecond of its login, then "valid" for 30 minutes, "past" for
\* the next 30, and then "old".
Ages == {"none", "new", "valid", "past", "old"}

SessionInit ==
  /\ isSignedIn = FALSE /\ session = "none"
  /\ isProfileSyncingEnabled = TRUE
  /\ notifying = FALSE
  /\ metrics \in BOOLEAN
  /\ sessionCall = [c \in SessionCalls |-> NoCallYet]
  /\ maySignIn = FALSE /\ turnedOff = FALSE
  /\ sessionSteps = 0

sessionStep == sessionSteps < MaxSessionSteps /\ sessionSteps' = sessionSteps + 1

hasValidSession == session \in {"valid", "past"}

beginsCall(c, kind, step) ==
  /\ sessionCall[c] = NoCallYet
  /\ sessionCall' = [sessionCall EXCEPT ![c] = [kind |-> kind, step |-> step]]
goesTo(c, step) == sessionCall' = [sessionCall EXCEPT ![c].step = step]
callOver(c) == sessionCall' = [sessionCall EXCEPT ![c] = NoCallYet]

\* Syncing is, or is about to be, turned on.
turningOn(c) ==
  \E d \in SessionCalls \ {c} : sessionCall[d].kind \in {"enable", "notify"}

-----------------------------------------------------------------------------

performSignIn(c) ==
  /\ sessionStep /\ beginsCall(c, "signIn", "authenticating")
  /\ maySignIn' = TRUE
  /\ UNCHANGED <<isSignedIn, session, isProfileSyncingEnabled, notifying, metrics, turnedOff>>

signsOut ==
  /\ isSignedIn' = FALSE /\ session' = "none"
  /\ maySignIn' = (\E c \in SessionCalls : sessionCall[c].step \in {"authenticating", "renewing"})

\* The user stops taking part in the metrics, or signs out otherwise.
performSignOut ==
  /\ sessionStep /\ isSignedIn /\ signsOut
  /\ metrics' \in BOOLEAN
  /\ UNCHANGED <<isProfileSyncingEnabled, notifying, sessionCall, turnedOff>>

\* getBearerToken and getSessionProfile: who is not signed in gets no token.
getBearerToken(c) ==
  /\ sessionStep /\ isSignedIn /\ ~hasValidSession
  /\ beginsCall(c, "token", "authenticating")
  /\ UNCHANGED <<isSignedIn, session, isProfileSyncingEnabled, notifying, metrics, maySignIn,
                 turnedOff>>

\* Fault: a token is got for anybody.
getBearerTokenOfAnybody(c) ==
  /\ sessionStep /\ ~hasValidSession
  /\ beginsCall(c, "token", "authenticating")
  /\ UNCHANGED <<isSignedIn, session, isProfileSyncingEnabled, notifying, metrics, maySignIn,
                 turnedOff>>

\* enableProfileSyncing, also as the first step of createOnChainTriggers ("notify").
enableProfileSyncing(c, kind) ==
  /\ sessionStep
  /\ turnedOff' = FALSE
  /\ IF isSignedIn
     THEN /\ isProfileSyncingEnabled' = TRUE
          /\ IF kind = "enable" THEN UNCHANGED sessionCall
             ELSE beginsCall(c, kind, "creating")
          /\ UNCHANGED maySignIn
     ELSE /\ beginsCall(c, kind, "authenticating") /\ maySignIn' = TRUE
          /\ UNCHANGED isProfileSyncingEnabled
  /\ UNCHANGED <<isSignedIn, session, notifying, metrics>>

setIsProfileSyncingEnabled(b) ==
  /\ sessionStep /\ isProfileSyncingEnabled' = b
  /\ turnedOff' = (turnedOff /\ ~b)
  /\ UNCHANGED <<isSignedIn, session, notifying, metrics, sessionCall, maySignIn>>

\* createOnChainTriggers makes the triggers and turns notifications on, or fails.
notificationsEnabled(c) ==
  /\ sessionCall[c].step = "creating" /\ callOver(c)
  /\ \/ isSignedIn /\ notifying' = TRUE
     \/ ~isSignedIn /\ notifying' = FALSE
     \/ UNCHANGED notifying
  /\ UNCHANGED <<isSignedIn, session, isProfileSyncingEnabled, metrics, maySignIn, turnedOff,
                 sessionSteps>>

-----------------------------------------------------------------------------

\* The end of disableProfileSyncing.  Signing out throws if nobody is signed in, and syncing
\* stays as it is.
disabled(c, byUser) ==
  LET ends == metrics \/ isSignedIn IN
  /\ IF isSignedIn /\ ~metrics THEN signsOut ELSE UNCHANGED <<isSignedIn, session, maySignIn>>
  /\ isProfileSyncingEnabled' = (isProfileSyncingEnabled /\ ~ends)
  /\ turnedOff' = (turnedOff \/ (ends /\ byUser /\ ~turningOn(c)))

\* disableProfileSyncing, when syncing and notifications are on: its first wait for others.
waitsForNotifications == isProfileSyncingEnabled /\ notifying

disableProfileSyncing(c) ==
  /\ sessionStep /\ isProfileSyncingEnabled /\ sessionCall[c] = NoCallYet
  /\ IF waitsForNotifications
     THEN /\ beginsCall(c, "disable", "reading")
          /\ UNCHANGED <<isSignedIn, session, isProfileSyncingEnabled, maySignIn, turnedOff>>
     ELSE disabled(c, TRUE) /\ UNCHANGED sessionCall
  /\ UNCHANGED <<notifying, metrics>>

\* disableNotificationServices asks for the storage, and so for a session.  Whatever it throws
\* goes through all the calls that it is in.
storageReadToDisable(c) ==
  /\ sessionCall[c].step = "reading"
  /\ IF isProfileSyncingEnabled /\ isSignedIn
     THEN goesTo(c, IF hasValidSession THEN "clearing" ELSE "renewing")
     ELSE callOver(c)
  /\ UNCHANGED <<isSignedIn, session, isProfileSyncingEnabled, notifying, metrics, maySignIn,
                 turnedOff, sessionSteps>>

\* Notifications are off, or they could not be turned off.
notificationsDisabled(c) ==
  /\ sessionCall[c].step = "clearing" /\ callOver(c)
  /\ \/ notifying' = FALSE /\ disabled(c, sessionCall[c].kind = "disable")
     \/ UNCHANGED <<notifying, isSignedIn, session, isProfileSyncingEnabled, maySignIn, turnedOff>>
  /\ UNCHANGED <<metrics, sessionSteps>>

\* Fault: syncing is turned off although notifications could not be.
notificationsLeftOn(c) ==
  /\ sessionCall[c].step = "clearing" /\ callOver(c)
  /\ notifying' \in {FALSE, notifying} /\ disabled(c, sessionCall[c].kind = "disable")
  /\ UNCHANGED <<metrics, sessionSteps>>

\* #performAuthenticationFlow ends with a session, for everybody who asks from now on, also if
\* the user has signed out meanwhile.
authenticated(c) ==
  /\ sessionCall[c].step \in {"authenticating", "renewing"}
  /\ isSignedIn' = TRUE /\ session' = "new"
  /\ isProfileSyncingEnabled' = (
       \/ isProfileSyncingEnabled
       \/ sessionCall[c].kind \in {"enable", "notify"} /\ sessionCall[c].step = "authenticating")
  /\ IF sessionCall[c].step = "renewing" THEN goesTo(c, "clearing")
     ELSE IF sessionCall[c].kind = "notify" THEN goesTo(c, "creating")
     ELSE callOver(c)
  /\ UNCHANGED <<notifying, metrics, maySignIn, turnedOff, sessionSteps>>

\* It fails: syncing is turned off, for which a session may be asked again.
authenticationFails(c) ==
  /\ sessionCall[c].step \in {"authenticating", "renewing"}
  /\ IF waitsForNotifications
     THEN /\ goesTo(c, "reading")
          /\ UNCHANGED <<isSignedIn, session, isProfileSyncingEnabled, maySignIn, turnedOff>>
     ELSE /\ callOver(c)
          /\ IF isProfileSyncingEnabled THEN disabled(c, FALSE)
             ELSE UNCHANGED <<isSignedIn, session, isProfileSyncingEnabled, maySignIn, turnedOff>>
  /\ UNCHANGED <<notifying, metrics, sessionSteps>>

sessionAges ==
  /\ sessionStep /\ session \in {"new", "valid", "past"}
  /\ session' = CASE session = "new" -> "valid" [] session = "valid" -> "past"
                  [] session = "past" -> "old"
  /\ UNCHANGED <<isSignedIn, isProfileSyncingEnabled, notifying, metrics, sessionCall, maySignIn,
                 turnedOff>>

\* All that is stored survives.
profileRestart ==
  /\ sessionStep /\ \E c \in SessionCalls : sessionCall[c] # NoCallYet
  /\ sessionCall' = [c \in SessionCalls |-> NoCallYet]
  /\ UNCHANGED <<isSignedIn, session, isProfileSyncingEnabled, notifying, metrics, maySignIn,
                 turnedOff>>

SessionNext ==
  \/ \E c \in SessionCalls :
       \/ performSignIn(c) \/ getBearerToken(c)
       \/ \E kind \in {"enable", "notify"} : enableProfileSyncing(c, kind)
       \/ disableProfileSyncing(c) \/ storageReadToDisable(c)
       \/ notificationsDisabled(c) \/ notificationsEnabled(c)
       \/ authenticated(c) \/ authenticationFails(c)
  \/ performSignOut \/ sessionAges \/ profileRestart
  \/ \E b \in BOOLEAN : setIsProfileSyncingEnabled(b)

-----------------------------------------------------------------------------

VARIABLES
  links,          \* the registration tokens that the server pushes to
  firebaseToken,  \* the token that Firebase has for this device, or 0
  tokensMade,     \* how many tokens it has made: they are numbers
  fcmToken,       \* state of NotificationServicesPushController, 0 for the empty one
  listeners,      \* the listeners of clicks, numbered by the calls that added them
  unsubscriber,    \* #pushListenerUnsubscribe, the listener that it removes, or 0
  listened,       \* how many listeners were added
  pushCall,       \* the calls
  deviceLinked,   \* history: the other device has added its token, not removed it
  deviceCrossed,  \* history: it did so while a call here was about to write the list
  pushTroubled,   \* history: calls overlapped, failed on the way, or ended with the wallet
  relistened,     \* history: a listener was added while there was another
  pushSteps

pushHistory == <<deviceLinked, deviceCrossed, pushTroubled, relistened>>
pushVars == <<links, firebaseToken, tokensMade, fcmToken, listeners, unsubscriber, listened,
              pushCall, pushHistory, pushSteps>>

NoPush == [kind |-> "none"]

PushInit ==
  /\ links = {} /\ firebaseToken = 0 /\ tokensMade = 0 /\ fcmToken = 0
  /\ listeners = {} /\ unsubscriber = 0 /\ listened = 0
  /\ pushCall = [c \in PushCalls |-> NoPush]
  /\ deviceLinked = FALSE /\ deviceCrossed = FALSE /\ pushTroubled = FALSE /\ relistened = FALSE
  /\ pushSteps = 0

pushStep == pushSteps < MaxPushSteps /\ pushSteps' = pushSteps + 1
pushing == {c \in PushCalls : pushCall[c] # NoPush}
pushIsAt(c, kinds, step) ==
  c \in pushing /\ pushCall[c].kind \in kinds /\ pushCall[c].step = step
pushOver(c) == pushCall' = [pushCall EXCEPT ![c] = NoPush]
listening == <<listeners, unsubscriber, listened>>

\* enablePushNotifications, disablePushNotifications and updateTriggerPushNotifications wait for
\* a session.
pushBegins(c, kind) ==
  /\ pushStep /\ c \notin pushing
  /\ pushCall' = [pushCall EXCEPT ![c] = [kind |-> kind, step |-> "asking"]]
  /\ pushTroubled' = (pushTroubled \/ pushing # {})
  /\ UNCHANGED <<links, firebaseToken, tokensMade, fcmToken, listening, deviceLinked,
                 deviceCrossed, relistened>>

\* The state at the end of disablePushNotifications.
pushDisabled ==
  /\ fcmToken' = 0
  /\ listeners' = listeners \ {unsubscriber}
  /\ UNCHANGED <<unsubscriber, listened>>

\* With a session, getPushNotificationLinks is asked; without a token there is nothing to undo.
linksAsked(c) ==
  /\ pushIsAt(c, {"enable", "disable", "update"}, "asking")
  /\ IF pushCall[c].kind = "disable" /\ fcmToken = 0
     THEN pushOver(c) /\ pushDisabled
     ELSE /\ pushCall' = [pushCall EXCEPT
                ![c] = [kind |-> pushCall[c].kind, step |-> "reading", token |-> fcmToken]]
          /\ UNCHANGED <<fcmToken, listening>>
  /\ UNCHANGED <<links, firebaseToken, tokensMade, pushHistory, pushSteps>>

pushWrites(c, tokens, token) ==
  pushCall' = [pushCall EXCEPT ![c] = [kind |-> pushCall[c].kind, step |-> "writing",
                                       list |-> tokens, token |-> token]]

\* The list without this device's token, to write back; or with it, if it is there already.
linksRead(c) ==
  /\ pushIsAt(c, {"enable", "disable", "update"}, "reading")
  /\ LET token == pushCall[c].token IN
       CASE pushCall[c].kind = "disable" -> pushWrites(c, links \ {token}, token)
         [] pushCall[c].kind = "update" /\ token \in links -> pushWrites(c, links, 0)
         [] OTHER -> pushCall' = [pushCall EXCEPT ![c] =
                       [kind |-> pushCall[c].kind, step |-> "registering", list |-> links]]
  /\ UNCHANGED <<links, firebaseToken, tokensMade, fcmToken, listening, pushHistory, pushSteps>>

\* Fault: the list is replaced by this device's token, or by nothing.
linksForgotten(c) ==
  /\ pushIsAt(c, {"enable", "disable", "update"}, "reading")
  /\ LET token == pushCall[c].token IN
       CASE pushCall[c].kind = "disable" -> pushWrites(c, {}, token)
         [] pushCall[c].kind = "update" /\ token \in links -> pushWrites(c, {token}, 0)
         [] OTHER -> pushCall' = [pushCall EXCEPT ![c] =
                       [kind |-> pushCall[c].kind, step |-> "registering", list |-> {}]]
  /\ UNCHANGED <<links, firebaseToken, tokensMade, fcmToken, listening, pushHistory, pushSteps>>

\* createRegToken answers with the token of the device, or makes one.  An update deletes the
\* old one before, which may fail unnoticed.
registered(c) ==
  /\ pushIsAt(c, {"enable", "update"}, "registering")
  /\ \E kept \in (IF firebaseToken = 0 THEN {FALSE}
                  ELSE IF pushCall[c].kind = "enable" THEN {TRUE} ELSE BOOLEAN) :
       /\ kept \/ tokensMade < MaxPushTokens
       /\ tokensMade' = tokensMade + (IF kept THEN 0 ELSE 1)
       /\ firebaseToken' = IF kept THEN firebaseToken ELSE tokensMade'
  /\ pushWrites(c, pushCall[c].list \cup {firebaseToken'}, firebaseToken')
  /\ UNCHANGED <<links, fcmToken, listening, pushHistory, pushSteps>>

\* The server takes the list, or does not, or its answer is lost.  Whatever it is,
\* enablePushNotifications adds listeners and keeps the token; disablePushNotifications goes on
\* to Firebase only if the list was taken.
linksWritten(c, answered) ==
  /\ pushIsAt(c, {"enable", "disable", "update"}, "writing")
  /\ links' \in IF answered THEN {pushCall[c].list} ELSE {links, pushCall[c].list}
  /\ CASE pushCall[c].kind = "enable" ->
            /\ listened' = listened + 1
            /\ listeners' = listeners \cup {listened'} /\ unsubscriber' = listened'
            /\ relistened' = (relistened \/ listeners # {})
            /\ fcmToken' = pushCall[c].token
       [] pushCall[c].kind = "update" ->
            /\ fcmToken' = IF pushCall[c].token = 0 THEN fcmToken ELSE pushCall[c].token
            /\ UNCHANGED <<listening, relistened>>
       [] OTHER -> UNCHANGED <<fcmToken, listening, relistened>>
  /\ IF pushCall[c].kind = "disable" /\ answered
     THEN pushCall' = [pushCall EXCEPT ![c] = [kind |-> "disable", step |-> "deleting"]]
     ELSE pushOver(c)
  /\ pushTroubled' = (pushTroubled \/ ~answered)
  /\ UNCHANGED <<firebaseToken, tokensMade, deviceLinked, deviceCrossed, pushSteps>>

registrationDeleted(c) ==
  /\ pushIsAt(c, {"disable"}, "deleting") /\ pushOver(c)
  /\ firebaseToken' = 0
  /\ pushDisabled
  /\ UNCHANGED <<links, tokensMade, pushHistory, pushSteps>>

\* Another request fails, and the call ends.
pushFails(c) ==
  /\ c \in pushing /\ pushCall[c].step # "writing" /\ pushOver(c)
  /\ pushTroubled' = TRUE
  /\ firebaseToken' \in IF pushIsAt(c, {"update"}, "registering") THEN {0, firebaseToken}
                        ELSE {firebaseToken}
  /\ UNCHANGED <<links, tokensMade, fcmToken, listening, deviceLinked, deviceCrossed, relistened,
                 pushSteps>>

\* The other device adds its token to the list, or removes it.
deviceChanges ==
  /\ pushStep
  /\ links' = IF deviceLinked THEN links \ {Device} ELSE links \cup {Device}
  /\ deviceLinked' = ~deviceLinked
  /\ deviceCrossed' = (deviceCrossed \/ \E c \in pushing :
                         pushCall[c].step \in {"registering", "writing"})
  /\ UNCHANGED <<firebaseToken, tokensMade, fcmToken, listening, pushCall, pushTroubled, relistened>>

pushRestart ==
  /\ pushStep /\ (pushing # {} \/ listeners # {})
  /\ pushCall' = [c \in PushCalls |-> NoPush]
  /\ listeners' = {} /\ unsubscriber' = 0
  /\ pushTroubled' = (pushTroubled \/ pushing # {})
  /\ UNCHANGED <<links, firebaseToken, tokensMade, fcmToken, listened, deviceLinked, deviceCrossed,
                 relistened>>

PushNext ==
  \/ \E c \in PushCalls :
       \/ \E kind \in {"enable", "disable", "update"} : pushBegins(c, kind)
       \/ linksAsked(c) \/ linksRead(c) \/ registered(c)
       \/ \E answered \in BOOLEAN : linksWritten(c, answered)
       \/ registrationDeleted(c) \/ pushFails(c)
  \/ deviceChanges \/ pushRestart

-----------------------------------------------------------------------------

(***************************************************************************)
(* Who signs out stays signed out, whatever asks for a token afterwards,   *)
(* unless signing in is asked again or was under way; and who has turned   *)
(* syncing off gets no notifications until it is turned on.                *)
(***************************************************************************)
SessionsAreEnded ==
  /\ isSignedIn => maySignIn
  /\ turnedOff => ~isProfileSyncingEnabled /\ ~notifying

(***************************************************************************)
(* What the server pushes to, what Firebase knows and what the wallet      *)
(* thinks is the same device whenever no call is under way, and none has   *)
(* failed or overlapped with another; without a token nobody listens,      *)
(* unless listeners were added twice.  Other devices keep their place in   *)
(* the list, unless they change it while a call here has read it.          *)
(***************************************************************************)
PushesAreLinked ==
  /\ (pushing = {} /\ ~pushTroubled) =>
       /\ links \ {Device} = {fcmToken} \ {0}
       /\ firebaseToken = fcmToken
       /\ fcmToken = 0 /\ ~relistened => listeners = {}
  /\ deviceCrossed \/ (Device \in links <=> deviceLinked)

-----------------------------------------------------------------------------

(***************************************************************************)
(* Notifications (packages/notification-services-controller).  For each    *)
(* account the wallet keeps a trigger: at the server, which watches the    *)
(* chain for it, and in a list of its own in the remote user storage,      *)
(* which calls read, change and write back as a whole.  What happened is   *)
(* fetched, or pushed, into a list, in which the user marks what is read.  *)
(* Any of these calls may fail wherever it waits, and several may run.     *)
(*                                                                         *)
(* The triggers of an account are one; the storage and the servers are     *)
(* external.                                                               *)
(***************************************************************************)

CONSTANTS
  Addresses,       \* the accounts that the keyrings may have
  News,            \* feature announcements
  Events,          \* on-chain notifications
  Jobs,            \* calls of the controller
  NoTrigger,
  NoStorage,       \* the user storage has no notification settings
  MaxTriggers,     \* how many triggers are made
  MaxNoteSteps     \* how often calls are begun, accounts change, or the wallet is restarted

ASSUME NotificationsAssumption ==
  /\ News \cap Events = {} /\ MaxTriggers \in Nat /\ MaxNoteSteps \in Nat
  /\ IsFiniteSet(Addresses) /\ Addresses # {}
  /\ NoTrigger \notin [id : Nat, enabled : BOOLEAN]
  /\ NoStorage \notin [Addresses -> [id : Nat, enabled : BOOLEAN] \cup {NoTrigger}]

VARIABLES
  keyringAddresses,  \* the accounts of KeyringController
  accountsSeen,      \* subscriptionAccountsSeen
  timesAdded,        \* history: how often listAccounts has said that an account was added
  userStorage,       \* the notification settings in the remote storage
  serverTriggers,    \* the triggers that the server has
  lastTrigger,       \* the last trigger made: their uuids are numbers
  servicesEnabled,   \* isNotificationServicesEnabled and isFeatureAnnouncementsEnabled
  noteList,          \* metamaskNotificationsList: of each notification, what it says
  readList,          \* metamaskNotificationsReadList
  readAtServer,      \* the on-chain notifications that are marked as read at the server
  noteJobs,              \* the calls
  overlapped,        \* history: two calls that write the storage have run at a time
  noteSteps

triggerVars == <<userStorage, serverTriggers, lastTrigger>>
accountVars == <<keyringAddresses, accountsSeen, timesAdded>>
noteVars == <<noteList, readList, readAtServer>>
notificationVars == <<accountVars, triggerVars, servicesEnabled, noteVars, noteJobs, overlapped,
                      noteSteps>>

Notes == News \cup Events
Idle == [kind |-> "idle"]
Writers == {"create", "update", "delete"}

\* The triggers of a storage, and those that are enabled.
getAllUUIDs(triggers) == {triggers[a].id : a \in {a \in Addresses : triggers[a] # NoTrigger}}
enabledIn(triggers) == {a \in Addresses : triggers[a] # NoTrigger /\ triggers[a].enabled}

\* Services are enabled, for an account with its trigger, or nothing is there yet.
NotificationsInit ==
  /\ servicesEnabled \in BOOLEAN
  /\ keyringAddresses = IF servicesEnabled THEN {CHOOSE a \in Addresses : TRUE} ELSE {}
  /\ accountsSeen = keyringAddresses
  /\ timesAdded = [a \in Addresses |-> 0]
  /\ userStorage = IF ~servicesEnabled THEN NoStorage
                   ELSE [a \in Addresses |-> IF a \in accountsSeen THEN [id |-> 1, enabled |-> TRUE]
                                             ELSE NoTrigger]
  /\ serverTriggers = IF servicesEnabled THEN {1} ELSE {}
  /\ lastTrigger = 1
  /\ noteList = [n \in Notes |-> "absent"]
  /\ readList = {} /\ readAtServer = {}
  /\ noteJobs = [j \in Jobs |-> Idle]
  /\ overlapped = FALSE
  /\ noteSteps = 0

noteStep == noteSteps < MaxNoteSteps /\ noteSteps' = noteSteps + 1

\* A writer begins: the list it will read may be one that another is about to replace.
overlaps(j) ==
  overlapped' = (overlapped \/ \E k \in Jobs \ {j} : noteJobs[k].kind \in Writers)

jobEnds(j) == noteJobs' = [noteJobs EXCEPT ![j] = Idle]
jobGoesOn(j, step) == noteJobs' = [noteJobs EXCEPT ![j].step = step]
jobIsAt(j, kinds, step) == noteJobs[j].kind \in kinds /\ noteJobs[j].step = step

\* The call throws, which is caught: it leaves what it has done so far.
noteCallFails(j) ==
  /\ noteJobs[j] # Idle /\ noteJobs[j].kind # "mark"
  /\ jobEnds(j)
  /\ UNCHANGED <<accountVars, triggerVars, servicesEnabled, noteVars, overlapped, noteSteps>>

noteRestart ==
  /\ noteStep /\ \E j \in Jobs : noteJobs[j] # Idle
  /\ noteJobs' = [j \in Jobs |-> Idle]
  /\ keyringAddresses' = {}
  /\ UNCHANGED <<accountsSeen, timesAdded, triggerVars, servicesEnabled, noteVars, overlapped>>

-----------------------------------------------------------------------------

\* KeyringController:stateChange: with services enabled, the accounts of now are listed.
keyringsChange(S, j) ==
  /\ S # keyringAddresses /\ noteJobs[j] = Idle /\ noteStep
  /\ keyringAddresses' = S
  /\ noteJobs' = IF servicesEnabled
                 THEN [noteJobs EXCEPT ![j] = [kind |-> "list", listed |-> S]] ELSE noteJobs
  /\ UNCHANGED <<accountsSeen, timesAdded, triggerVars, servicesEnabled, noteVars, overlapped>>

\* listAccounts: without accounts the wallet is locked, and nothing was removed.
listAccounts(j) ==
  LET added == noteJobs[j].listed \ accountsSeen IN
  /\ accountsSeen' = IF noteJobs[j].listed = {} THEN accountsSeen ELSE accountsSeen \cup added
  /\ timesAdded' = [a \in Addresses |-> timesAdded[a] + (IF a \in added THEN 1 ELSE 0)]

begun(kind, S) == [kind |-> kind, step |-> "reading", accounts |-> S]

\* Triggers are made for who was added and, at the same time, deleted for who was removed.
accountsListed(j) ==
  LET added == noteJobs[j].listed \ accountsSeen
      removed == IF noteJobs[j].listed = {} THEN {} ELSE accountsSeen \ noteJobs[j].listed IN
  /\ noteJobs[j].kind = "list"
  /\ listAccounts(j)
  /\ \/ added # {} /\ removed = {} /\ noteJobs' = [noteJobs EXCEPT ![j] = begun("update", added)]
        /\ overlaps(j)
     \/ added = {} /\ removed # {} /\ noteJobs' = [noteJobs EXCEPT ![j] = begun("delete", removed)]
        /\ overlaps(j)
     \/ added = {} /\ removed = {} /\ jobEnds(j) /\ UNCHANGED overlapped
     \/ /\ added # {} /\ removed # {} /\ overlapped' = TRUE
        /\ \E k \in Jobs \ {j} :
             /\ noteJobs[k] = Idle
             /\ noteJobs' = [noteJobs EXCEPT ![j] = begun("update", added),
                                             ![k] = begun("delete", removed)]
  /\ UNCHANGED <<keyringAddresses, triggerVars, servicesEnabled, noteVars, noteSteps>>

\* updateOnChainTriggersByAccount and deleteOnChainTriggersByAccount, called by the user.
triggersByAccount(kind, S, j) ==
  /\ S # {} /\ noteJobs[j] = Idle /\ noteStep
  /\ noteJobs' = [noteJobs EXCEPT ![j] = begun(kind, S)]
  /\ overlaps(j)
  /\ UNCHANGED <<accountVars, triggerVars, servicesEnabled, noteVars>>

createOnChainTriggers(j) ==
  /\ noteJobs[j] = Idle /\ noteStep
  /\ noteJobs' = [noteJobs EXCEPT ![j] = [kind |-> "create", step |-> "signing in"]]
  /\ overlaps(j)
  /\ UNCHANGED <<accountVars, triggerVars, servicesEnabled, noteVars>>

\* Profile syncing is enabled, there is a token, and the keyrings are asked for accounts.
signedIn(j) ==
  /\ jobIsAt(j, {"create"}, "signing in")
  /\ noteJobs' = [noteJobs EXCEPT ![j] = [kind |-> "create", step |-> "listing",
                                  listed |-> keyringAddresses]]
  /\ UNCHANGED <<accountVars, triggerVars, servicesEnabled, noteVars, overlapped, noteSteps>>

accountsOfCreate(j) ==
  /\ jobIsAt(j, {"create"}, "listing")
  /\ listAccounts(j)
  /\ noteJobs' = [noteJobs EXCEPT ![j] = begun("create", noteJobs[j].listed)]
  /\ UNCHANGED <<keyringAddresses, triggerVars, servicesEnabled, noteVars, overlapped, noteSteps>>

-----------------------------------------------------------------------------

\* upsertAddressTriggers: a trigger, not yet enabled, for who has none.
upsert(triggers, S, ids) ==
  [a \in Addresses |-> IF a \in S /\ triggers[a] = NoTrigger
                       THEN [id |-> ids[a], enabled |-> FALSE] ELSE triggers[a]]

\* Fault: the triggers are made at the server before they are written.
nextOfReadAtOnce(kind, triggers) ==
  IF kind = "create" \/ \E a \in Addresses : triggers[a] # NoTrigger /\ ~triggers[a].enabled
  THEN "asking" ELSE "pushing"

\* New triggers are written before the server is asked for them.
nextOfRead(kind, triggers) ==
  IF kind = "create" THEN IF userStorage = NoStorage THEN "writing ahead" ELSE "asking"
  ELSE IF \E a \in Addresses : triggers[a] # NoTrigger /\ ~triggers[a].enabled
  THEN "writing ahead" ELSE "pushing"

\* update adds to the storage it has read; create makes one if there is none.
storageReadForTriggers(j) ==
  LET kind == noteJobs[j].kind
      found == IF userStorage = NoStorage THEN [a \in Addresses |-> NoTrigger] ELSE userStorage
      missing == IF kind = "create" /\ userStorage # NoStorage THEN {}
                 ELSE {a \in noteJobs[j].accounts : found[a] = NoTrigger}
      last == lastTrigger + Cardinality(missing) IN
  /\ jobIsAt(j, {"update", "create"}, "reading")
  /\ kind = "update" => userStorage # NoStorage
  /\ last <= MaxTriggers
  /\ lastTrigger' = last
  /\ \E ids \in [missing -> (lastTrigger + 1)..last] :
       LET triggers == upsert(found, missing, ids) IN
       /\ \A a, b \in missing : ids[a] = ids[b] => a = b
       /\ noteJobs' = [noteJobs EXCEPT ![j] = [kind |-> kind, step |-> nextOfRead(kind, triggers),
                                       accounts |-> @.accounts, triggers |-> triggers]]
  /\ UNCHANGED <<accountVars, userStorage, serverTriggers, servicesEnabled, noteVars, overlapped,
                 noteSteps>>

storageReadForDelete(j) ==
  /\ jobIsAt(j, {"delete"}, "reading") /\ userStorage # NoStorage
  /\ IF \A a \in noteJobs[j].accounts : userStorage[a] = NoTrigger THEN jobEnds(j)
     ELSE noteJobs' = [noteJobs EXCEPT ![j] = [kind |-> "delete", accounts |-> @.accounts,
                                       triggers |-> userStorage, step |-> "asking"]]
  /\ UNCHANGED <<accountVars, triggerVars, servicesEnabled, noteVars, overlapped, noteSteps>>

writtenAhead(j) ==
  /\ jobIsAt(j, {"update", "create"}, "writing ahead")
  /\ userStorage' = noteJobs[j].triggers
  /\ jobGoesOn(j, "asking")
  /\ UNCHANGED <<accountVars, serverTriggers, lastTrigger, servicesEnabled, noteVars, overlapped,
                 noteSteps>>

\* The server does what it is asked, and the call notes that in the list it has read.
serverAsked(j) ==
  LET c == noteJobs[j]
      S == IF c.kind = "create" THEN {a \in Addresses : c.triggers[a] # NoTrigger} ELSE c.accounts
      ids == {c.triggers[a].id : a \in {a \in S : c.triggers[a] # NoTrigger}} IN
  /\ jobIsAt(j, Writers, "asking")
  /\ serverTriggers' = IF c.kind = "delete" THEN serverTriggers \ ids ELSE serverTriggers \cup ids
  /\ noteJobs' = [noteJobs EXCEPT ![j].step = "pushing",
       ![j].triggers = [a \in Addresses |->
          IF a \notin S \/ @[a] = NoTrigger THEN @[a]
          ELSE IF c.kind = "delete" THEN NoTrigger ELSE [@[a] EXCEPT !.enabled = TRUE]]]
  /\ UNCHANGED <<accountVars, userStorage, lastTrigger, servicesEnabled, noteVars, overlapped,
                 noteSteps>>

\* NotificationServicesPushController: another server is told.
pushUpdated(j) ==
  /\ jobIsAt(j, Writers, "pushing")
  /\ jobGoesOn(j, "writing")
  /\ UNCHANGED <<accountVars, triggerVars, servicesEnabled, noteVars, overlapped, noteSteps>>

storageWritten(j) ==
  /\ jobIsAt(j, Writers, "writing")
  /\ userStorage' = noteJobs[j].triggers
  /\ noteJobs' = [noteJobs EXCEPT ![j] = IF @.kind = "create" THEN [kind |-> "enabling"] ELSE Idle]
  /\ UNCHANGED <<accountVars, serverTriggers, lastTrigger, servicesEnabled, noteVars, overlapped,
                 noteSteps>>

servicesAreEnabled(j) ==
  /\ noteJobs[j].kind = "enabling"
  /\ servicesEnabled' = TRUE
  /\ jobEnds(j)
  /\ UNCHANGED <<accountVars, triggerVars, noteVars, overlapped, noteSteps>>

disableNotificationServices(j) ==
  /\ noteJobs[j] = Idle /\ noteStep
  /\ noteJobs' = [noteJobs EXCEPT ![j] = [kind |-> "disabling"]]
  /\ UNCHANGED <<accountVars, triggerVars, servicesEnabled, noteVars, overlapped>>

servicesAreDisabled(j) ==
  /\ noteJobs[j].kind = "disabling" /\ userStorage # NoStorage
  /\ servicesEnabled' = FALSE
  /\ noteList' = [n \in Notes |-> "absent"]
  /\ jobEnds(j)
  /\ UNCHANGED <<accountVars, triggerVars, readList, readAtServer, overlapped, noteSteps>>

-----------------------------------------------------------------------------

\* fetchAndUpdateMetamaskNotifications: announcements first, if they are enabled.
fetchNotifications(j) ==
  /\ noteJobs[j] = Idle /\ noteStep
  /\ noteJobs' = [noteJobs EXCEPT ![j] =
       [kind |-> "fetch", step |-> "news", news |-> servicesEnabled]]
  /\ UNCHANGED <<accountVars, triggerVars, servicesEnabled, noteVars, overlapped>>

\* None of them may be found, or one that there is not any more is left out.
newsFetched(j, S) ==
  /\ jobIsAt(j, {"fetch"}, "news") /\ (S # {} => noteJobs[j].news)
  /\ noteJobs' = [noteJobs EXCEPT ![j] = [kind |-> "fetch", step |-> "events", found |-> S]]
  /\ UNCHANGED <<accountVars, triggerVars, servicesEnabled, noteVars, overlapped, noteSteps>>

\* The server has made its answer for the triggers that are enabled, in one of two pages.
eventsFetched(j, S) ==
  /\ jobIsAt(j, {"fetch"}, "events")
  /\ S # {} => userStorage # NoStorage /\ enabledIn(userStorage) # {}
  /\ noteJobs' = [noteJobs EXCEPT ![j] = [kind |-> "fetch", step |-> "listing",
                                          found |-> @.found \cup S,
                                          readThere |-> readAtServer]]
  /\ UNCHANGED <<accountVars, triggerVars, servicesEnabled, noteVars, overlapped, noteSteps>>

notificationsListed(j) ==
  LET c == noteJobs[j] IN
  /\ jobIsAt(j, {"fetch"}, "listing")
  /\ noteList' = [n \in Notes |->
       IF n \notin c.found THEN "absent"
       ELSE IF n \in (News \cap readList) \cup (Events \cap c.readThere) THEN "read" ELSE "unread"]
  /\ jobEnds(j)
  /\ UNCHANGED <<accountVars, triggerVars, servicesEnabled, readList, readAtServer, overlapped,
                 noteSteps>>

\* The end of markMetamaskNotificationsAsRead, in one update.
marked(S) ==
  /\ readList' = readList \cup (S \cap News)
  /\ noteList' = [n \in Notes |-> IF n \in S /\ noteList[n] # "absent" THEN "read" ELSE noteList[n]]

markMetamaskNotificationsAsRead(S, j) ==
  /\ S # {} /\ (\A n \in S : noteList[n] = "unread") /\ noteJobs[j] = Idle /\ noteStep
  /\ IF S \cap Events = {} THEN marked(S) /\ UNCHANGED noteJobs
     ELSE /\ noteJobs' = [noteJobs EXCEPT ![j] = [kind |-> "mark", step |-> "asking", notes |-> S]]
          /\ UNCHANGED <<readList, noteList>>
  /\ UNCHANGED <<accountVars, triggerVars, servicesEnabled, readAtServer, overlapped>>

\* The server marks what it is asked to; its answer comes, or not.
markedAtServer(j) ==
  /\ jobIsAt(j, {"mark"}, "asking")
  /\ readAtServer' = readAtServer \cup (noteJobs[j].notes \cap Events)
  /\ jobGoesOn(j, "answered")
  /\ UNCHANGED <<accountVars, triggerVars, servicesEnabled, noteList, readList, overlapped,
                 noteSteps>>

\* Without a token nothing is marked; without an answer, announcements only.
markingEnds(j) ==
  /\ noteJobs[j].kind = "mark"
  /\ \/ marked({}) /\ noteJobs[j].step = "asking"
     \/ marked(noteJobs[j].notes \cap News)
     \/ marked(noteJobs[j].notes) /\ noteJobs[j].step = "answered"
  /\ jobEnds(j)
  /\ UNCHANGED <<accountVars, triggerVars, servicesEnabled, readAtServer, overlapped, noteSteps>>

\* updateMetamaskNotificationsList: a notification is pushed, if it is new.
updateMetamaskNotificationsList(n) ==
  /\ noteList[n] = "absent" /\ noteStep
  /\ noteList' = [noteList EXCEPT ![n] = "unread"]
  /\ UNCHANGED <<accountVars, triggerVars, servicesEnabled, readList, readAtServer, noteJobs,
                 overlapped>>

triggerActions(j) ==
  \/ \E S \in SUBSET Addresses : keyringsChange(S, j)
  \/ \E S \in SUBSET Addresses, kind \in {"update", "delete"} : triggersByAccount(kind, S, j)
  \/ accountsListed(j) \/ createOnChainTriggers(j) \/ signedIn(j) \/ accountsOfCreate(j)
  \/ storageReadForTriggers(j) \/ storageReadForDelete(j) \/ writtenAhead(j) \/ serverAsked(j)
  \/ pushUpdated(j) \/ storageWritten(j) \/ servicesAreEnabled(j)

noteActions(j) ==
  \/ fetchNotifications(j) \/ notificationsListed(j)
  \/ \E S \in SUBSET News : newsFetched(j, S)
  \/ \E S \in SUBSET Events : eventsFetched(j, S)
  \/ \E S \in SUBSET Notes : markMetamaskNotificationsAsRead(S, j)
  \/ markedAtServer(j) \/ markingEnds(j)

otherActions(j) ==
  noteCallFails(j) \/ disableNotificationServices(j) \/ servicesAreDisabled(j)

TriggersNext == noteRestart \/ \E j \in Jobs : triggerActions(j) \/ otherActions(j)

NotesNext ==
  \/ noteRestart
  \/ \E j \in Jobs : noteActions(j) \/ otherActions(j)
  \/ \E n \in Events : updateMetamaskNotificationsList(n)

-----------------------------------------------------------------------------

(***************************************************************************)
(* An announcement that the user has read is not shown as unread again,    *)
(* although a list that was asked for before may come after.               *)
(***************************************************************************)
ReadStaysRead == \A n \in readList : noteList[n] # "unread"

(***************************************************************************)
(* Each account is said to be added once, so that its triggers are not     *)
(* made twice, however many changes of the keyrings are still being        *)
(* listed.                                                                 *)
(***************************************************************************)
AccountsAreAddedOnce == \A a \in Addresses : timesAdded[a] <= 1

(***************************************************************************)
(* What the server watches is in the user's storage, without which it      *)
(* could not be deleted, wherever a call fails or the wallet is closed: as *)
(* long as no two calls that write the storage run at a time.              *)
(***************************************************************************)
TriggersAreKnown ==
  ~overlapped =>
    serverTriggers \subseteq (IF userStorage = NoStorage THEN {} ELSE getAllUUIDs(userStorage))
=============================================================================
