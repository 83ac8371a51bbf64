-------------------------- MODULE RestrictedMethods --------------------------
(***************************************************************************)
(* What permissions are good for (permission-controller: the middleware,   *)
(* executeRestrictedMethod, getEndowments, decorateWithCaveats).  A dapp's *)
(* call of a restricted method runs the method within the caveats of the   *)
(* permission that the dapp holds; permissions and caveats change while    *)
(* methods run.  Permissions are persisted, and the next version of the    *)
(* wallet may have other methods and caveats.                              *)
(*                                                                         *)
(* Two caveats stand for all: one lets only some values through, one only  *)
(* the first few.  A method's result is a sequence of values, and what is  *)
(* let through of it are those at some of its positions.                   *)
(*                                                                         *)
(* Calls pass PermissionLogController on their way, which keeps the last   *)
(* ones, and for every dapp when it was last given each permission and     *)
(* each account.  It reads none of the above, and has steps of its own.    *)
(***************************************************************************)
EXTENDS Naturals, Sequences, FiniteSets, SequencesExt

CONSTANTS
  Callers,           \* origins
  Versions,          \* of the wallet: [targets, allowed, decorated, plain, unrestricted]
  MethodCalls,       \* calls of restricted methods
  NoCaveats,         \* the caveats of a permission that is not given
  MaxMethodSteps,    \* how often permissions change, or the wallet is upgraded
  MaxLogged,         \* how many calls pass the log
  LogLimit,          \* LOG_LIMIT
  MaxSeen            \* how often the wallet says that a dapp sees accounts

ASSUME RestrictedAssumption ==
  /\ IsFiniteSet(Callers) /\ MaxMethodSteps \in Nat
  /\ MaxLogged \in Nat /\ LogLimit \in Nat \ {0} /\ MaxSeen \in Nat
  /\ \A v \in Versions :
       DOMAIN v.targets = DOMAIN v.allowed /\ v.decorated \subseteq {"values", "first"}

VARIABLES
  wallet,         \* the version that runs
  given,           \* the caveats of each permission, in order
  methodCalls,    \* each call
  methodSteps

VARIABLES
  permissionLog,     \* state.permissionActivityLog: the calls, and whether they were a success
  permissionHistory, \* state.permissionHistory: when each thing was last given, 0 for never
  logged,            \* each call that passes the log
  logTime,           \* Date.now()
  seen               \* how often accounts were seen

methodVars == <<wallet, given, methodCalls, methodSteps>>
logVars == <<permissionLog, permissionHistory, logged, logTime, seen>>

Capabilities == UNION {DOMAIN v.targets : v \in Versions}
Returnable == {"a", "b"}
IdleMethodCall == [step |-> "idle"]

onlyValues(allows) == [type |-> "values", allows |-> allows, most |-> 0]
onlyFirst == [type |-> "first", allows |-> {}, most |-> 1]
plainCaveat == [type |-> "plain", allows |-> {}, most |-> 0]
Caveats == {onlyValues({"a"}), onlyValues({"b"}), onlyFirst, plainCaveat}

\* No caveat type twice.
CaveatLists ==
  {<<>>} \cup {<<c>> : c \in Caveats}
  \cup {<<p[1], p[2]>> : p \in {q \in Caveats \X Caveats : q[1].type # q[2].type}}

isKnownType(v, type) == type \in v.decorated \cup v.plain

\* Caveats of methods have a decorator, those of endowments have none.
validatePermissionSpecifications(v) ==
  \A t \in DOMAIN v.targets :
    /\ \A type \in v.allowed[t] : isKnownType(v, type)
    /\ v.targets[t] = "method" => v.allowed[t] \subseteq v.decorated
    /\ v.targets[t] = "endowment" => v.allowed[t] \cap v.decorated = {}

RestrictedInit ==
  /\ wallet \in Versions /\ validatePermissionSpecifications(wallet)
  /\ given = [o \in Callers |-> [t \in Capabilities |-> NoCaveats]]
  /\ methodCalls = [c \in MethodCalls |-> IdleMethodCall]
  /\ methodSteps = 0

methodStep == methodSteps < MaxMethodSteps /\ methodSteps' = methodSteps + 1

-----------------------------------------------------------------------------

\* constructPermission and validateCaveat, and later changes of the caveats.
permissionIsGiven(o, t, caveats) ==
  /\ methodStep
  /\ t \in DOMAIN wallet.targets
  /\ \A i \in DOMAIN caveats : caveats[i].type \in wallet.allowed[t]
  /\ given[o][t] # caveats
  /\ given' = [given EXCEPT ![o][t] = caveats]
  /\ UNCHANGED <<wallet, methodCalls>>

permissionIsRevoked(o, t) ==
  /\ methodStep
  /\ given[o][t] # NoCaveats
  /\ given' = [given EXCEPT ![o][t] = NoCaveats]
  /\ UNCHANGED <<wallet, methodCalls>>

\* The wallet is closed, and opened in a version that does not refuse to start.
upgraded(v) ==
  /\ methodStep
  /\ validatePermissionSpecifications(v)
  /\ wallet' = v
  /\ methodCalls' = [c \in MethodCalls |-> IF methodCalls[c] = IdleMethodCall THEN IdleMethodCall
                                           ELSE [step |-> "ended"]]
  /\ UNCHANGED given

\* getTypedPermissionSpecification
hasType(t, type) == t \in DOMAIN wallet.targets /\ wallet.targets[t] = type

hasPermission(o, t) == given[o][t] # NoCaveats

\* Fault: a caveat that is not known is passed over.
decoratesKnown(caveats) == TRUE

\* decorateWithCaveats throws for a caveat without a decorator.
decorates(caveats) == \A i \in DOMAIN caveats : caveats[i].type \in wallet.decorated

refused(c) ==
  /\ methodCalls' = [methodCalls EXCEPT ![c] = [step |-> "refused"]]
  /\ UNCHANGED <<wallet, given, methodSteps>>

\* The middleware passes on what is not restricted.
unrestrictedCalled(c) ==
  /\ methodCalls[c] = IdleMethodCall
  /\ methodCalls' = [methodCalls EXCEPT ![c] = [step |-> "passed on"]]
  /\ UNCHANGED <<wallet, given, methodSteps>>

\* The middleware and executeRestrictedMethod.
methodCalled(c, o, method) ==
  /\ methodCalls[c] = IdleMethodCall /\ method \notin wallet.unrestricted
  /\ IF hasType(method, "method") /\ hasPermission(o, method) /\ decorates(given[o][method])
     THEN /\ methodCalls' = [methodCalls EXCEPT ![c] =
               [step |-> "running", origin |-> o, target |-> method, caveats |-> given[o][method]]]
          /\ UNCHANGED <<wallet, given, methodSteps>>
     ELSE refused(c)

letsThrough(caveat, result) ==
  IF caveat.type = "values" THEN {i \in DOMAIN result : result[i] \in caveat.allows}
  ELSE {i \in DOMAIN result : Cardinality({j \in DOMAIN result : j < i}) < caveat.most}

restrict(result, caveat) ==
  IF caveat.type \in wallet.decorated THEN Restrict(result, letsThrough(caveat, result)) ELSE result

\* The first caveat is the innermost one.
decorated(result, caveats) ==
  LET Within[n \in 0 .. Len(caveats)] ==
        IF n = 0 THEN result ELSE restrict(Within[n - 1], caveats[n])
  IN Within[Len(caveats)]

methodEnded(c, result) ==
  LET call == methodCalls[c] IN
  /\ call.step = "running"
  /\ methodCalls' = [methodCalls EXCEPT ![c] =
       [step |-> "answered", origin |-> call.origin, target |-> call.target, caveats |-> call.caveats,
        result |-> decorated(result, call.caveats)]]
  /\ UNCHANGED <<wallet, given, methodSteps>>

\* The method, or a caveat, throws, or there is no result.
methodFailed(c) == methodCalls[c].step = "running" /\ refused(c)

\* getEndowments: caveats are left to the getter.
getEndowments(c, o, t) ==
  /\ methodCalls[c] = IdleMethodCall
  /\ IF hasPermission(o, t) /\ hasType(t, "endowment")
     THEN /\ methodCalls' = [methodCalls EXCEPT ![c] =
               [step |-> "endowed", origin |-> o, target |-> t, caveats |-> given[o][t]]]
          /\ UNCHANGED <<wallet, given, methodSteps>>
     ELSE refused(c)

RestrictedNext ==
  \/ \E o \in Callers, t \in Capabilities :
       \/ \E caveats \in CaveatLists : permissionIsGiven(o, t, caveats)
       \/ permissionIsRevoked(o, t)
       \/ \E c \in MethodCalls : methodCalled(c, o, t) \/ getEndowments(c, o, t)
  \/ \E c \in MethodCalls :
       \/ wallet.unrestricted # {} /\ unrestrictedCalled(c)
       \/ \E result \in {<<>>, <<"a", "b">>} : methodEnded(c, result)
       \/ methodFailed(c)
  \/ \E v \in Versions : upgraded(v)

-----------------------------------------------------------------------------

\* Permissions and accounts; to be given an account is a part of "eth_accounts".
LoggedCalls == 1..MaxLogged    \* in the order in which they come
LoggedMethods == {"eth_accounts", "other"}
LoggedAccounts == {"account1", "account2"}
Things == LoggedMethods \cup LoggedAccounts

LogInit ==
  /\ permissionLog = <<>>
  /\ permissionHistory = [o \in Callers |-> [t \in Things |-> 0]]
  /\ logged = [c \in LoggedCalls |-> [step |-> "idle"]]
  /\ logTime = 1
  /\ seen = 0

\* createMiddleware: internal and restricted methods pass it, some of them unnoticed.
isLogged(kind) == kind # "ignored"

\* getRequestedMethods: which permissions a call asks for.
requestedMethods(kind, asked) ==
  CASE kind = "eth_requestAccounts" -> {"eth_accounts"}
    [] kind = "requestPermissions" -> asked
    [] OTHER -> {}

logRequest(c, o, kind, asked) ==
  LET longer == Append(permissionLog, [call |-> c, success |-> "open"]) IN
  /\ logged[c].step = "idle" /\ \A d \in 1..(c - 1) : logged[d].step # "idle"
  /\ IF isLogged(kind)
     THEN /\ logged' = [logged EXCEPT ![c] =
               [step |-> "asked", origin |-> o, direct |-> kind = "eth_requestAccounts",
                requested |-> requestedMethods(kind, asked)]]
          /\ permissionLog' = IF Len(longer) > LogLimit THEN Tail(longer) ELSE longer
     ELSE /\ logged' = [logged EXCEPT ![c] = [step |-> "unnoticed"]]
          /\ UNCHANGED permissionLog
  /\ UNCHANGED <<permissionHistory, logTime, seen>>

\* What the entries of the answer are for: the accounts that it names come with eth_accounts.
newEntries(call, granted, accounts) ==
  LET methods == IF call.direct THEN call.requested ELSE granted \cap call.requested IN
  methods \cup (IF "eth_accounts" \in methods THEN accounts ELSE {})

commitNewHistory(o, entries) ==
  permissionHistory' = [permissionHistory EXCEPT ![o] =
    [t \in Things |-> IF t \in entries THEN logTime ELSE permissionHistory[o][t]]]

\* logResponse and logPermissionsHistory, when the answer comes back: a result, an error,
\* or an error after a result was set.
logResponse(c, hasResult, hasError, granted, accounts) ==
  LET call == logged[c]
      entries == IF hasResult /\ ~hasError THEN newEntries(call, granted, accounts) ELSE {} IN
  /\ call.step = "asked"
  /\ permissionLog' = [i \in DOMAIN permissionLog |->
       IF permissionLog[i].call # c THEN permissionLog[i]
       ELSE [call |-> c, success |-> IF hasResult THEN "yes" ELSE "no"]]
  /\ commitNewHistory(call.origin, entries)
  /\ logged' = [logged EXCEPT ![c] =
       [step |-> "answered", origin |-> call.origin, success |-> hasResult,
        gave |-> entries, answered |-> logTime]]
  /\ logTime' = logTime + 1
  /\ UNCHANGED seen

\* With no accounts, updateAccountsHistory does nothing.
updateAccountsHistory(o, accounts) ==
  /\ seen < MaxSeen /\ seen' = seen + 1
  /\ commitNewHistory(o, accounts)
  /\ logTime' = logTime + 1
  /\ UNCHANGED <<permissionLog, logged>>

LogNext ==
  \/ \E c \in LoggedCalls, o \in Callers, kind \in {"eth_requestAccounts", "requestPermissions", "restricted", "ignored"},
        asked \in {{"other"}, LoggedMethods} :
       logRequest(c, o, kind, asked)
  \/ \E c \in LoggedCalls, granted \in {{"eth_accounts"}, LoggedMethods},
        accounts \in {{"account1"}, LoggedAccounts},
        outcome \in {<<TRUE, FALSE>>, <<FALSE, TRUE>>, <<TRUE, TRUE>>} :
       logResponse(c, outcome[1], outcome[2], granted, accounts)
  \/ \E o \in Callers : updateAccountsHistory(o, LoggedAccounts)

-----------------------------------------------------------------------------

(***************************************************************************)
(* What a dapp is answered is within every caveat of the permission that   *)
(* it held when it called, whatever was changed while the method ran, and  *)
(* though the permission may have been given by another version of the     *)
(* wallet, with caveats, or for a method, that this one does not have.     *)
(***************************************************************************)
CallsAreRestricted ==
  \A c \in MethodCalls :
    LET call == methodCalls[c] IN
    /\ call.step = "answered" =>
         /\ call.caveats # NoCaveats
         /\ \A i \in DOMAIN call.caveats :
              LET caveat == call.caveats[i] IN
              CASE caveat.type = "values" -> Range(call.result) \subseteq caveat.allows
                [] caveat.type = "first" -> Cardinality(DOMAIN call.result) <= caveat.most
                [] OTHER -> FALSE
         /\ hasType(call.target, "method")
    /\ call.step = "endowed" => call.caveats # NoCaveats /\ hasType(call.target, "endowment")

(***************************************************************************)
(* The log of calls is true: it holds the last calls, and what it says of  *)
(* each is what it was answered, however the answers come; and an origin's *)
(* history has the last time of everything that an answer gave it, though  *)
(* later answers and other origins overtake.                               *)
(***************************************************************************)
PermissionsAreLogged ==
  LET noticed == {c \in LoggedCalls : logged[c].step \in {"asked", "answered"}}
      listed == {permissionLog[i].call : i \in DOMAIN permissionLog}
      answers == {c \in LoggedCalls : logged[c].step = "answered"} IN
  /\ \A i \in DOMAIN permissionLog :
       LET call == logged[permissionLog[i].call] IN
       permissionLog[i].success = IF call.step = "asked" THEN "open"
                                  ELSE IF call.success THEN "yes" ELSE "no"
  /\ \A c \in noticed \ listed :
       Cardinality({d \in listed : d > c}) = LogLimit
  /\ \A o \in Callers, t \in Things :
       LET times == {logged[c].answered : c \in {d \in answers : logged[d].origin = o /\ t \in logged[d].gave}} IN
       /\ \A time \in times : permissionHistory[o][t] >= time
       /\ t \in LoggedMethods => permissionHistory[o][t] \in times \cup {0}

-----------------------------------------------------------------------------

(***************************************************************************)
(* How often each origin may call an API within a time window              *)
(* (packages/rate-limit-controller).  The count of an origin is kept       *)
(* until a timer resets it, which its first call has set; but to record a  *)
(* call of one origin is to forget those of the others for that API.       *)
(***************************************************************************)

CONSTANTS
  Apis,            \* the APIs that are limited
  Origins,         \* who calls them
  RateLimitCount,  \* rateLimitCount
  MaxLimitSteps    \* how many calls are made

ASSUME RateLimitAssumption == RateLimitCount \in Nat \ {0} /\ MaxLimitSteps \in Nat

VARIABLES
  requests,        \* state.requests: the count of each API and origin, zero if there is none
  resets,          \* how many timers are set for each
  limitSteps

rateLimitVars == <<requests, resets, limitSteps>>

Limited == Apis \X Origins

RateLimitInit ==
  /\ requests = [l \in Limited |-> 0]
  /\ resets = [l \in Limited |-> 0]
  /\ limitSteps = 0

isRateLimited(api, origin) == requests[api, origin] >= RateLimitCount

setsTimer(api, origin) == requests[api, origin] = 0

\* recordRequest: the record of the API has this origin only.
recordRequest(api, origin, count) ==
  requests' = [l \in Limited |-> IF l = <<api, origin>> THEN count
                                 ELSE IF l[1] = api THEN 0 ELSE requests[l]]

callApi(api, origin) ==
  /\ limitSteps < MaxLimitSteps /\ limitSteps' = limitSteps + 1
  /\ ~isRateLimited(api, origin)
  /\ recordRequest(api, origin, requests[api, origin] + 1)
  /\ resets' = IF setsTimer(api, origin) THEN [resets EXCEPT ![<<api, origin>>] = @ + 1] ELSE resets

resetRequestCount(api, origin) ==
  /\ resets[api, origin] > 0
  /\ resets' = [resets EXCEPT ![<<api, origin>>] = @ - 1]
  /\ recordRequest(api, origin, 0)
  /\ UNCHANGED limitSteps

RateLimitNext ==
  \E api \in Apis, origin \in Origins : callApi(api, origin) \/ resetRequestCount(api, origin)

-----------------------------------------------------------------------------

(***************************************************************************)
(* No origin is shut out for good: whatever others call, and whichever     *)
(* timer fires first, there is a timer that will reset its count.          *)
(***************************************************************************)
NobodyIsShutOut ==
  \A api \in Apis, origin \in Origins : requests[api, origin] > 0 => resets[api, origin] > 0
=============================================================================
