---------------------------- MODULE ControllerMessenger ----------------------------
(***************************************************************************)
(* Events between controllers (packages/base-controller).  A controller    *)
(* updates its state and publishes it to the subscribers of its            *)
(* stateChange, one after another; a handler may itself update the state,  *)
(* subscribe and unsubscribe, all within the publication that called it.   *)
(* ComposableController is a subscriber like others, which keeps what it   *)
(* was given as its copy of the state.                                     *)
(***************************************************************************)
EXTENDS Naturals, Sequences, SequencesExt

CONSTANTS
  Handlers,
  Selecting,          \* the handlers subscribed with a selector
  NoHandler,
  MaxFrames,          \* how deep publications are nested
  MaxMessengerSteps   \* how often states, and subscriptions, change

ASSUME MessengerAssumption ==
  /\ Selecting \subseteq Handlers /\ NoHandler \notin Handlers
  /\ MaxFrames \in Nat \ {0} /\ MaxMessengerSteps \in Nat

VARIABLES
  internalState,      \* #internalState, as a number of a version
  subscribers,        \* #events of the event: a Map, in the order of subscription
  eventPayloadCache,  \* #eventPayloadCache
  frames,             \* the publications that run, the one on top of the stack last
  copy,               \* what each handler has last been given, or has read as it subscribed
  overtaken,          \* history: handlers that an earlier publication still waits for
  messengerSteps

subscriptionVars == <<subscribers, eventPayloadCache>>
messengerVars == <<internalState, subscriptionVars, frames, copy, overtaken, messengerSteps>>

MessengerInit ==
  /\ internalState = 0
  /\ subscribers = <<>>
  /\ eventPayloadCache = [h \in Handlers |-> 0]
  /\ frames = <<>>
  /\ copy = [h \in Handlers |-> 0]
  /\ overtaken = {}
  /\ messengerSteps = 0

messengerStep == messengerSteps < MaxMessengerSteps /\ messengerSteps' = messengerSteps + 1

\* What a handler is told of a state: all of it, or what its selector makes of it.
selected(h, state) == IF h \in Selecting THEN state \div 2 ELSE state

-----------------------------------------------------------------------------

top == frames[Len(frames)]

\* The wallet acts while nothing is published, and a handler while it is called.
mayAct == IF frames = <<>> THEN TRUE ELSE top.calling # NoHandler

\* BaseController.update, and publish.
update ==
  /\ mayAct /\ Len(frames) < MaxFrames /\ messengerStep
  /\ internalState' = internalState + 1
  /\ frames' = Append(frames, [payload |-> internalState + 1, next |-> subscribers,
                               calling |-> NoHandler, current |-> TRUE])
  /\ overtaken' = UNION {ToSet(frames[i].next) : i \in DOMAIN frames}
  /\ UNCHANGED <<subscriptionVars, copy>>

\* A handler with a selector is called if what it selects has changed.
isCalled(h) == h \in Selecting => selected(h, top.payload) # eventPayloadCache[h]

deliver ==
  LET h == Head(top.next) IN
  /\ frames # <<>> /\ top.calling = NoHandler /\ top.next # <<>>
  /\ frames' = [frames EXCEPT ![Len(frames)] =
       [top EXCEPT !.next = Tail(@), !.calling = IF isCalled(h) THEN h ELSE NoHandler]]
  /\ copy' = [copy EXCEPT ![h] = IF isCalled(h) THEN selected(h, top.payload) ELSE @]
  /\ eventPayloadCache' =
       IF h \in Selecting THEN [eventPayloadCache EXCEPT ![h] = selected(h, top.payload)]
       ELSE eventPayloadCache
  /\ UNCHANGED <<internalState, subscribers, overtaken, messengerSteps>>

\* Fault: what a handler throws is thrown by publish.
afterThrow(frame) == [frame EXCEPT !.calling = NoHandler, !.next = <<>>]

afterCall(frame) == [frame EXCEPT !.calling = NoHandler]

\* The handler returns, or throws, which is caught.
handlerEnds ==
  /\ frames # <<>> /\ top.calling # NoHandler
  /\ frames' = [frames EXCEPT ![Len(frames)] = afterCall(top)]
  /\ UNCHANGED <<internalState, subscriptionVars, copy, overtaken, messengerSteps>>

published ==
  /\ frames # <<>> /\ top.calling = NoHandler /\ top.next = <<>>
  /\ frames' = Front(frames)
  /\ UNCHANGED <<internalState, subscriptionVars, copy, overtaken, messengerSteps>>

\* A Map is walked as it changes: who comes is called last, and who has gone is not.
subscribe(h) ==
  /\ mayAct /\ h \notin ToSet(subscribers) /\ messengerStep
  /\ subscribers' = Append(subscribers, h)
  /\ frames' = [i \in DOMAIN frames |->
       IF frames[i].current THEN [frames[i] EXCEPT !.next = Append(@, h)] ELSE frames[i]]
  /\ eventPayloadCache' =
       IF h \in Selecting THEN [eventPayloadCache EXCEPT ![h] = selected(h, internalState)]
       ELSE eventPayloadCache
  /\ copy' = [copy EXCEPT ![h] = selected(h, internalState)]
  /\ overtaken' =
       IF \E i \in DOMAIN frames : frames[i].payload # internalState
       THEN overtaken \cup {h} ELSE overtaken \ {h}
  /\ UNCHANGED internalState

\* A handler is in the Map, or in what is left of it, once.
without(handlers, h) ==
  IF h \in ToSet(handlers) THEN RemoveAt(handlers, CHOOSE i \in DOMAIN handlers : handlers[i] = h)
  ELSE handlers

unsubscribe(h) ==
  /\ mayAct /\ h \in ToSet(subscribers) /\ messengerStep
  /\ subscribers' = without(subscribers, h)
  /\ frames' = [i \in DOMAIN frames |->
       IF frames[i].current THEN [frames[i] EXCEPT !.next = without(@, h)] ELSE frames[i]]
  /\ UNCHANGED <<internalState, eventPayloadCache, copy, overtaken>>

\* BaseController.destroy: clearEventSubscriptions drops the Map that is walked.
destroy ==
  /\ mayAct /\ subscribers # <<>> /\ messengerStep
  /\ subscribers' = <<>>
  /\ frames' = [i \in DOMAIN frames |-> [frames[i] EXCEPT !.current = FALSE]]
  /\ UNCHANGED <<internalState, eventPayloadCache, copy, overtaken>>

MessengerNext ==
  \/ update \/ deliver \/ handlerEnds \/ published \/ destroy
  \/ \E h \in Handlers : subscribe(h) \/ unsubscribe(h)

-----------------------------------------------------------------------------

(***************************************************************************)
(* "Controller that composes multiple child controllers and maintains      *)
(* up-to-date composed state": when nothing is published any more, every   *)
(* subscriber has been given the newest state, or what it selects of it,   *)
(* although handlers throw, come and go, and update the state within its   *)
(* publication; but for those to which an earlier publication, which was   *)
(* interrupted by that of the newest state, gave its own state last.       *)
(***************************************************************************)
NewestIsSeen ==
  frames = <<>> =>
    \A h \in ToSet(subscribers) \ overtaken : copy[h] = selected(h, internalState)
=============================================================================
