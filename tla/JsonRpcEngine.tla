------------------------------ MODULE JsonRpcEngine ------------------------------
(***************************************************************************)
(* A request on its way through the middlewares of an engine               *)
(* (packages/json-rpc-engine) and back through the return handlers of      *)
(* those that passed it on.  The engine has a middleware that gives ids    *)
(* of its own (createIdRemapMiddleware), the log of permissions, an engine *)
(* used as a middleware with one of any kind and one wrapped by            *)
(* createAsyncMiddleware, and at last another such one or the stream to    *)
(* another context (packages/json-rpc-middleware-stream), on which         *)
(* messages get lost and are sent again.                                   *)
(***************************************************************************)
EXTENDS Naturals, Sequences, SequencesExt

CONSTANTS
  Requests,     \* requests; each also stands for the unique id that it is given
  OwnId,        \* the id that they all have come with
  NoRequest,
  RetryLimit    \* how often a request is sent again

ASSUME EngineAssumption ==
  OwnId \notin Requests /\ NoRequest \notin Requests /\ RetryLimit \in Nat

VARIABLES
  lastKind,      \* what is at the bottom of the stack
  requests,         \* each request, as it is handled
  idMap,         \* the idMap of the stream middleware
  copies,        \* copies of each request that are under way or at the other end
  retryCount,    \* retryCount of the request in idMap
  streamFails,   \* processMessage has given the stream an error
  activityLog    \* permissionActivityLog: what each entry says of the response

streamVars == <<idMap, copies, retryCount, streamFails>>
engineVars == <<lastKind, requests, streamVars, activityLog>>

Stack == <<"remap", "log", "plain", "async", lastKind>>
Bottom == Len(Stack)
Inner == {3, 4}    \* the middlewares of the nested engine
Nothing == "nothing"

\* JsonRpcEngine.#handle: a copy of the request, and a response of the same id.
NewCall ==
  [step |-> "down", pos |-> 1, id |-> OwnId, response |-> Nothing,
   passedOn |-> <<>>, nested |-> <<>>,  \* the middlewares of the engine, and of the nested
                                        \* one, that gave a return handler to next
   toRun |-> <<>>, resumed |-> <<>>, deaf |-> {}, failed |-> FALSE]

NoCall == [NewCall EXCEPT !.step = "idle"]

EngineInit ==
  /\ lastKind \in {"async", "stream"}
  /\ requests = [q \in Requests |-> NoCall]
  /\ idMap = [i \in Requests \cup {OwnId} |-> NoRequest]
  /\ copies = [q \in Requests |-> 0] /\ retryCount = [q \in Requests |-> 0]
  /\ streamFails = FALSE
  /\ activityLog = [q \in Requests |-> Nothing]

-----------------------------------------------------------------------------

\* A response may have an error besides its result.
hasResult(response) == response \in {"result", "both"}
hasError(response) == response \in {"error", "both"}
withError(response) == IF hasResult(response) THEN "both" ELSE "error"

\* The callback of handle: with an error there is no result.
answers(c, response) ==
  [c EXCEPT !.step = "answered", !.response = IF hasError(response) THEN "error" ELSE response]

\* Fault: the error about a request that nothing has answered is told to nobody.
completesOrThrows(c, handlers) ==
  IF c.response = Nothing THEN [c EXCEPT !.step = "dropped"]
  ELSE [c EXCEPT !.step = "back", !.toRun = Reverse(handlers)]

\* #checkForCompletion, before any return handler: one must have answered.
completes(c, handlers) ==
  IF c.response = Nothing THEN answers([c EXCEPT !.failed = TRUE], "error")
  ELSE [c EXCEPT !.step = "back", !.toRun = Reverse(handlers)]

\* end(error): the nested engine runs its return handlers first.
ends(c, response) ==
  LET d == [c EXCEPT !.response = response] IN
  IF c.pos \in Inner THEN [d EXCEPT !.step = "inner", !.toRun = Reverse(d.nested)]
  ELSE completes(d, d.passedOn \o d.nested)

\* next(returnHandler), or next(): a response with an error ends the request.
goesOn(c, handler) ==
  IF hasError(c.response) THEN ends(c, c.response)
  ELSE IF c.pos = Bottom THEN answers([c EXCEPT !.failed = TRUE], "error")
  ELSE [c EXCEPT !.pos = @ + 1,
                 !.passedOn = IF handler /\ c.pos \notin Inner THEN Append(@, c.pos) ELSE @,
                 !.nested = IF handler /\ c.pos \in Inner THEN Append(@, c.pos) ELSE @]

isAt(q, kind) == requests[q].step = "down" /\ Stack[requests[q].pos] = kind

handle(q) ==
  /\ requests[q] = NoCall
  /\ requests' = [requests EXCEPT ![q] = NewCall]
  /\ UNCHANGED <<lastKind, streamVars, activityLog>>

\* PermissionLogController.createMiddleware.
logRequest(q) ==
  /\ isAt(q, "log")
  /\ activityLog' = [activityLog EXCEPT ![q] = "asked"]
  /\ requests' = [requests EXCEPT ![q] = goesOn(@, TRUE)]
  /\ UNCHANGED <<lastKind, streamVars>>

newId(q) == q

idRemapMiddleware(q) ==
  /\ isAt(q, "remap")
  /\ requests' = [requests EXCEPT ![q] = [goesOn(@, TRUE) EXCEPT !.id = newId(q)]]
  /\ UNCHANGED <<lastKind, streamVars, activityLog>>

\* Any middleware: it ends the request, well or not, or goes on; or it throws.
plainMiddleware(q) ==
  /\ isAt(q, "plain")
  /\ \/ requests' = [requests EXCEPT ![q] = ends(@, withError(requests[q].response))]
     \/ \E result \in BOOLEAN :
          LET response == IF result /\ requests[q].response = Nothing THEN "result"
                          ELSE requests[q].response IN
          \/ requests' = [requests EXCEPT ![q] = ends(@, response)]
          \/ \E handler \in BOOLEAN :
               requests' = [requests EXCEPT ![q] = goesOn([@ EXCEPT !.response = response], handler)]
  /\ UNCHANGED <<lastKind, streamVars, activityLog>>

\* createAsyncMiddleware: it has returned, or thrown, without next; or next was called.
asyncMiddleware(q) ==
  /\ isAt(q, "async")
  /\ \/ \E response \in {requests[q].response, "result", withError(requests[q].response)} :
          requests' = [requests EXCEPT ![q] = ends(@, response)]
     \/ requests' = [requests EXCEPT ![q] = goesOn(@, TRUE)]
  /\ UNCHANGED <<lastKind, streamVars, activityLog>>

\* It threw after next, which it did not wait for: its return handler calls nobody back.
asyncThrows(q) ==
  LET c == requests[q]
      d == [goesOn(c, TRUE) EXCEPT !.response = withError(c.response), !.deaf = @ \cup {c.pos}] IN
  /\ isAt(q, "async") /\ ~hasError(c.response)
  /\ requests' = [requests EXCEPT ![q] = IF c.pos \in Inner /\ d.pos \notin Inner
                                   THEN completes(d, d.passedOn) ELSE d]
  /\ UNCHANGED <<lastKind, streamVars, activityLog>>

-----------------------------------------------------------------------------

\* createStreamMiddleware: the request is known before it is sent.
sendToStream(q) ==
  /\ isAt(q, "stream")
  /\ idMap' = [idMap EXCEPT ![requests[q].id] = q]
  /\ copies' = [copies EXCEPT ![q] = @ + 1]
  /\ requests' = [requests EXCEPT ![q].step = "stream"]
  /\ UNCHANGED <<lastKind, retryCount, streamFails, activityLog>>

messageLost(q) ==
  /\ copies[q] > 0
  /\ copies' = [copies EXCEPT ![q] = @ - 1]
  /\ UNCHANGED <<lastKind, requests, idMap, retryCount, streamFails, activityLog>>

\* processResponse: what was answered already, for another copy, is unknown.
responseReceived(q, response) ==
  LET found == idMap[newId(q)] IN
  /\ copies[q] > 0 /\ ~streamFails
  /\ copies' = [copies EXCEPT ![q] = @ - 1]
  /\ IF found = NoRequest THEN UNCHANGED <<idMap, requests>>
     ELSE /\ idMap' = [idMap EXCEPT ![newId(q)] = NoRequest]
          /\ requests' = [requests EXCEPT ![found] =
               ends(@, IF hasError(@.response) THEN "both" ELSE response)]
  /\ UNCHANGED <<lastKind, retryCount, streamFails, activityLog>>

waiting == {q \in Requests : \E i \in DOMAIN idMap : idMap[i] = q}

\* retryStuckRequests: a request at the limit throws, and the stream has failed.
retryStuckRequests ==
  /\ waiting # {} /\ ~streamFails
  /\ \E retried \in SUBSET waiting :
       /\ \A q \in retried : retryCount[q] < RetryLimit
       /\ IF retried = waiting THEN UNCHANGED streamFails
          ELSE (\E q \in waiting : retryCount[q] = RetryLimit) /\ streamFails' = TRUE
       /\ copies' = [q \in Requests |-> IF q \in retried THEN copies[q] + 1 ELSE copies[q]]
       /\ retryCount' = [q \in Requests |->
            IF q \in retried THEN retryCount[q] + 1 ELSE retryCount[q]]
  /\ UNCHANGED <<lastKind, requests, idMap, activityLog>>

-----------------------------------------------------------------------------

ready(q) == requests[q].step \in {"inner", "back"} /\ requests[q].toRun # <<>>

\* The call, with its next return handler done.
resumed(c) == [c EXCEPT !.toRun = Tail(@), !.resumed = Append(@, Head(c.toRun))]

\* #logResponse: whether there is a result, at that time, for the entries with that id.
logResponse(q) ==
  /\ ready(q) /\ Stack[Head(requests[q].toRun)] = "log"
  /\ activityLog' = [r \in Requests |->
       IF activityLog[r] # Nothing /\ newId(r) = newId(q)
       THEN IF hasResult(requests[q].response) THEN "result" ELSE "error"
       ELSE activityLog[r]]
  /\ requests' = [requests EXCEPT ![q] = resumed(@)]
  /\ UNCHANGED <<lastKind, streamVars>>

idRestored(q) ==
  /\ ready(q) /\ Stack[Head(requests[q].toRun)] = "remap"
  /\ requests' = [requests EXCEPT ![q] = [resumed(@) EXCEPT !.id = OwnId]]
  /\ UNCHANGED <<lastKind, streamVars, activityLog>>

\* A handler of another middleware, which may fail: then no other one is run.
returnHandler(q, fails) ==
  LET c == requests[q] IN
  /\ ready(q) /\ Stack[Head(c.toRun)] \in {"plain", "async"} /\ Head(c.toRun) \notin c.deaf
  /\ requests' = [requests EXCEPT ![q] =
       IF ~fails THEN resumed(c)
       ELSE IF c.step = "back" THEN answers([c EXCEPT !.failed = TRUE], "error")
       ELSE completes([c EXCEPT !.failed = TRUE, !.response = withError(c.response)],
                      c.passedOn)]
  /\ UNCHANGED <<lastKind, streamVars, activityLog>>

\* #runReturnHandlers is done.
returnHandlersDone(q) ==
  LET c == requests[q] IN
  /\ c.step \in {"inner", "back"} /\ c.toRun = <<>>
  /\ requests' = [requests EXCEPT ![q] =
       IF c.step = "inner" THEN completes(c, c.passedOn) ELSE answers(c, c.response)]
  /\ UNCHANGED <<lastKind, streamVars, activityLog>>

callGoesOn(q) ==
  \/ logRequest(q) \/ idRemapMiddleware(q) \/ plainMiddleware(q) \/ asyncMiddleware(q)
  \/ sendToStream(q)
  \/ logResponse(q) \/ idRestored(q) \/ returnHandler(q, FALSE) \/ returnHandlersDone(q)

EngineNext ==
  \/ \E q \in Requests :
       \/ handle(q) \/ callGoesOn(q) \/ asyncThrows(q) \/ returnHandler(q, TRUE)
       \/ messageLost(q)
       \/ \E response \in {"result", "error"} : responseReceived(q, response)
  \/ retryStuckRequests

\* Middlewares call next or end, and the other end answers what reaches it.
EngineFairness ==
  \A q \in Requests :
    /\ WF_engineVars(callGoesOn(q))
    /\ WF_engineVars(\E response \in {"result", "error"} : responseReceived(q, response))
-----------------------------------------------------------------------------

(***************************************************************************)
(* The return handlers run from the last middleware that passed the        *)
(* request on to the first, each at most once; and if none of them failed  *)
(* and something ended the request, all of them, so that the response has  *)
(* the id that the request came with, and the log of permissions knows of  *)
(* its success, or of its failure if there never was a result.  A request  *)
(* that waits for the other end of the stream is known under its id,       *)
(* whatever others are sent, answered twice or lost.                       *)
(***************************************************************************)
AnsweredAsAsked ==
  \A q \in Requests : requests[q] # NoCall =>
    LET c == requests[q] IN
    /\ \A i, j \in DOMAIN c.resumed : i < j => c.resumed[i] > c.resumed[j]
    /\ c.step = "answered" /\ ~c.failed /\ c.deaf = {} =>
         /\ c.resumed = Reverse(c.passedOn \o c.nested)
         /\ c.id = OwnId
         /\ c.response = "result" => activityLog[q] = "result"
         /\ activityLog[q] = "error" => c.response = "error"
    /\ c.step = "stream" => idMap[c.id] = q

(***************************************************************************)
(* A request is answered, if its messages to the other context and their   *)
(* answers are not all lost, and no asynchronous middleware threw after it *)
(* had called next without waiting for it.                                 *)
(***************************************************************************)
RequestsAreAnswered ==
  \A q \in Requests : requests[q] # NoCall ~>
    \/ requests[q].step = "answered" \/ requests[q].deaf # {}
    \/ requests[q].step = "stream" /\ (copies[q] = 0 \/ streamFails)
=============================================================================
