----------------------- MODULE QueuedRequestController -----------------------
(***************************************************************************)
(* The queue of dapp requests that need a confirmation                     *)
(* (packages/queued-request-controller).  JavaScript runs one callback at  *)
(* a time, so each action below is the code between two awaits.  A promise *)
(* that settles puts the continuation of its awaiter at the end of the     *)
(* microtask queue, which is drained in order: `microtasks' is that queue. *)
(***************************************************************************)
EXTENDS Integers, Sequences, FiniteSets

CONSTANTS
  Requests,           \* the JSON-RPC requests dapps send, each once
  Origins,            \* the dapps
  Networks,           \* network client IDs
  OriginOf,           \* [Requests -> Origins]
  SwitchRequests,     \* requests for which shouldRequestSwitchNetwork is true
  InitialDomains,     \* SelectedNetworkController state.domains at the start
  InitialNetwork,     \* the globally selected network at the start
  NoOrigin,           \* originOfCurrentBatch === undefined
  NoNetwork,          \* a domain that is not in state.domains
  SwitchMayFail,      \* setActiveNetwork may reject (unknown network client)
  DomainsMayChange,   \* state.domains may change while requests are handled
  UserMaySwitch       \* the user may select another network meanwhile

ASSUME ConstantsAssumption ==
  /\ OriginOf \in [Requests -> Origins]
  /\ SwitchRequests \subseteq Requests
  /\ InitialDomains \in [Origins -> Networks \cup {NoNetwork}]
  /\ InitialNetwork \in Networks
  /\ NoOrigin \notin Origins
  /\ NoNetwork \notin Networks
  /\ SwitchMayFail \in BOOLEAN
  /\ DomainsMayChange \in BOOLEAN
  /\ UserMaySwitch \in BOOLEAN

VARIABLES
  originOfCurrentBatch,
  requestQueue,            \* requests whose waitForDequeue promise is queued
  processingRequestCount,
  queuedRequestCount,      \* the controller's state.queuedRequestCount
  pc,                      \* where each request's enqueueRequest call stands
  batch,                   \* the batch processNextBatch dequeued, by its first request
  switching,               \* setActiveNetwork calls that have not settled, by caller
  microtasks,
  domains,                 \* SelectedNetworkController state.domains
  selectedNetworkClientId, \* NetworkController state.selectedNetworkClientId
  arrivals                 \* history: the requests in the order they came

queueVars == <<originOfCurrentBatch, requestQueue, processingRequestCount,
               queuedRequestCount, batch>>
networkVars == <<domains, selectedNetworkClientId>>
vars == <<queueVars, pc, switching, microtasks, networkVars, arrivals>>

(***************************************************************************)
(* Array.prototype.filter by position: Pick(s, T) is the sequence of the   *)
(* elements of s at the positions T, in order.  Unlike SelectSeq it is     *)
(* defined without recursion, so that the prover can reason about it.      *)
(***************************************************************************)
Rank(T, p) == Cardinality({q \in T : q <= p})
Place(T, k) == CHOOSE p \in T : Rank(T, p) = k
Pick(s, T) == [k \in 1..Cardinality(T) |-> s[Place(T, k)]]

-----------------------------------------------------------------------------

Positions == {"idle", "queued", "inBatch", "switching", "resumed",
              "processing", "settled", "done", "failed"}

\* requestNext has been called and has not been accounted for yet.
Active == {r \in Requests : pc[r] \in {"processing", "settled"}}

\* A continuation: the request whose await is over and how the promise settled.
Continuation == [req : Requests, error : BOOLEAN]
Continue(r, error) == [req |-> r, error |-> error]

TypeOK ==
  /\ originOfCurrentBatch \in Origins \cup {NoOrigin}
  /\ requestQueue \in Seq(Requests)
  /\ processingRequestCount \in Int
  /\ queuedRequestCount \in Nat
  /\ pc \in [Requests -> Positions]
  /\ batch \in [Requests -> Seq(Requests)]
  /\ switching \in [Requests -> {"none", "ok", "error"}]
  /\ microtasks \in Seq(Continuation)
  /\ domains \in [Origins -> Networks \cup {NoNetwork}]
  /\ selectedNetworkClientId \in Networks
  /\ arrivals \in Seq(Requests)

Init ==
  /\ originOfCurrentBatch = NoOrigin
  /\ requestQueue = <<>>
  /\ processingRequestCount = 0
  /\ queuedRequestCount = 0
  /\ pc = [r \in Requests |-> "idle"]
  /\ batch = [r \in Requests |-> <<>>]
  /\ switching = [r \in Requests |-> "none"]
  /\ microtasks = <<>>
  /\ domains = InitialDomains
  /\ selectedNetworkClientId = InitialNetwork
  /\ arrivals = <<>>

-----------------------------------------------------------------------------

getNetworkClientIdForDomain(o) ==
  IF domains[o] = NoNetwork THEN selectedNetworkClientId ELSE domains[o]

(***************************************************************************)
(* The switch for origin o, awaited by the call of request r.  Nothing to  *)
(* switch: the continuation is queued at once.  Otherwise setActiveNetwork *)
(* selects the network and then waits for the network lookup, or rejects   *)
(* before it selects anything.                                             *)
(***************************************************************************)
switchNetworkIfNecessary(r, o, tasks) ==
  LET network == getNetworkClientIdForDomain(o) IN
    \/ /\ network = selectedNetworkClientId
       /\ microtasks' = Append(tasks, Continue(r, FALSE))
       /\ UNCHANGED <<switching, selectedNetworkClientId>>
    \/ /\ network # selectedNetworkClientId
       /\ selectedNetworkClientId' = network
       /\ switching' = [switching EXCEPT ![r] = "ok"]
       /\ microtasks' = tasks
    \/ /\ network # selectedNetworkClientId
       /\ SwitchMayFail
       /\ switching' = [switching EXCEPT ![r] = "error"]
       /\ microtasks' = tasks
       /\ UNCHANGED selectedNetworkClientId

\* The first n queued requests are the longest run with one origin.
IsNextBatch(n) ==
  /\ n \in 1..Len(requestQueue)
  /\ \A i \in 1..n : OriginOf[requestQueue[i]] = OriginOf[requestQueue[1]]
  /\ n < Len(requestQueue) =>
        OriginOf[requestQueue[n + 1]] # OriginOf[requestQueue[1]]

\* Fault: the batch is dequeued and resumed without the switch.
processNextBatchWithoutSwitch(position, tasks) ==
  \E n \in 1..Len(requestQueue) :
    /\ IsNextBatch(n)
    /\ originOfCurrentBatch' = OriginOf[requestQueue[1]]
    /\ requestQueue' = SubSeq(requestQueue, n + 1, Len(requestQueue))
    /\ batch' = [batch EXCEPT ![requestQueue[1]] = SubSeq(requestQueue, 1, n)]
    /\ pc' = [r \in Requests |->
                IF \E i \in 1..n : requestQueue[i] = r THEN "inBatch" ELSE position[r]]
    /\ microtasks' = Append(tasks, Continue(requestQueue[1], FALSE))
    /\ UNCHANGED <<switching, selectedNetworkClientId>>

\* queuedRequestCount is only brought up to date after the switch.
processNextBatch(position, tasks) ==
  \E n \in 1..Len(requestQueue) :
    /\ IsNextBatch(n)
    /\ LET members == SubSeq(requestQueue, 1, n)
           first == requestQueue[1]
       IN /\ originOfCurrentBatch' = OriginOf[first]
          /\ requestQueue' = SubSeq(requestQueue, n + 1, Len(requestQueue))
          /\ batch' = [batch EXCEPT ![first] = members]
          /\ pc' = [r \in Requests |->
                      IF \E i \in 1..n : requestQueue[i] = r
                      THEN "inBatch" ELSE position[r]]
          /\ switchNetworkIfNecessary(first, OriginOf[first], tasks)

\* Fault: the end of any request of a batch ends the batch.
batchIsOverTooEarly(count) == TRUE

\* Whether the outer finally block ends the current batch.
batchIsOver(count) == count = 0

\* Fault: the queue is not looked at when a batch has ended.
endBatchOnly(position, tasks) ==
  /\ originOfCurrentBatch' = NoOrigin
  /\ pc' = position
  /\ microtasks' = tasks
  /\ UNCHANGED <<requestQueue, batch, switching, selectedNetworkClientId>>

\* The end of a batch lets in the next one, or leaves the controller idle.
endBatch(position, tasks) ==
  \/ /\ requestQueue # <<>>
     /\ processNextBatch(position, tasks)
  \/ /\ requestQueue = <<>>
     /\ originOfCurrentBatch' = NoOrigin
     /\ pc' = position
     /\ microtasks' = tasks
     /\ UNCHANGED <<requestQueue, batch, switching, selectedNetworkClientId>>

(***************************************************************************)
(* The outer finally block of enqueueRequest, which every call reaches,    *)
(* whether requestNext was called or not: `position' is where that leaves  *)
(* the requests and `tasks' what is left of the microtask queue.           *)
(***************************************************************************)
leave(count, position, tasks) ==
  /\ processingRequestCount' = count
  /\ \/ /\ batchIsOver(count)
        /\ endBatch(position, tasks)
     \/ /\ ~batchIsOver(count)
        /\ pc' = position
        /\ microtasks' = tasks
        /\ UNCHANGED <<originOfCurrentBatch, requestQueue, batch, switching,
                       selectedNetworkClientId>>
  /\ UNCHANGED <<queuedRequestCount, domains, arrivals>>

\* processingRequestCount += 1 and the call of requestNext.
enter(r, tasks) ==
  /\ processingRequestCount' = processingRequestCount + 1
  /\ pc' = [pc EXCEPT ![r] = "processing"]
  /\ microtasks' = tasks
  /\ UNCHANGED <<originOfCurrentBatch, requestQueue, queuedRequestCount, batch,
                 switching, networkVars, arrivals>>

-----------------------------------------------------------------------------
\* The origin of the current batch, which a first request starts.
currentOrigin(r) ==
  IF originOfCurrentBatch = NoOrigin THEN OriginOf[r] ELSE originOfCurrentBatch

\* Fault: requests of the current origin overtake those that are queued.
mustQueueStrangers(r) == currentOrigin(r) # OriginOf[r]

mustQueue(r) == queuedRequestCount > 0 \/ currentOrigin(r) # OriginOf[r]

(***************************************************************************)
(* enqueueRequest up to its first await.                                   *)
(***************************************************************************)
enqueueRequest(r) ==
  /\ pc[r] = "idle"
  /\ originOfCurrentBatch' = currentOrigin(r)
  /\ arrivals' = Append(arrivals, r)
  /\ \/ /\ mustQueue(r)
        /\ requestQueue' = Append(requestQueue, r)
        /\ queuedRequestCount' = Len(requestQueue')
        /\ pc' = [pc EXCEPT ![r] = "queued"]
        /\ UNCHANGED <<processingRequestCount, switching, microtasks,
                       selectedNetworkClientId>>
     \/ /\ ~mustQueue(r)
        /\ r \in SwitchRequests
        /\ pc' = [pc EXCEPT ![r] = "switching"]
        /\ switchNetworkIfNecessary(r, OriginOf[r], microtasks)
        /\ UNCHANGED <<requestQueue, queuedRequestCount, processingRequestCount>>
     \/ /\ ~mustQueue(r)
        /\ r \notin SwitchRequests
        /\ processingRequestCount' = processingRequestCount + 1
        /\ pc' = [pc EXCEPT ![r] = "processing"]
        /\ UNCHANGED <<requestQueue, queuedRequestCount, switching, microtasks,
                       selectedNetworkClientId>>
  /\ UNCHANGED <<batch, domains>>

\* NetworkController: the network lookup of a switch ends, or its rejection lands.
switchSettles(r) ==
  /\ switching[r] # "none"
  /\ microtasks' = Append(microtasks, Continue(r, switching[r] = "error"))
  /\ switching' = [switching EXCEPT ![r] = "none"]
  /\ UNCHANGED <<queueVars, pc, networkVars, arrivals>>

\* The rest of the middleware stack and the user are done with a request.
requestNextSettles(r) ==
  /\ pc[r] = "processing"
  /\ pc' = [pc EXCEPT ![r] = "settled"]
  /\ microtasks' = Append(microtasks, Continue(r, FALSE))
  /\ UNCHANGED <<queueVars, switching, networkVars, arrivals>>

-----------------------------------------------------------------------------
(***************************************************************************)
(* The continuations, run in the order in which they were queued.          *)
(***************************************************************************)
AtHead(position) ==
  /\ microtasks # <<>>
  /\ pc[Head(microtasks).req] = position

\* After `await this.#switchNetworkIfNecessary()' in enqueueRequest, and after
\* `await waitForDequeue'.
resumeCall(position) ==
  /\ AtHead(position)
  /\ LET r == Head(microtasks).req
         tasks == Tail(microtasks)
     IN \/ /\ ~Head(microtasks).error
           /\ enter(r, tasks)
        \/ /\ Head(microtasks).error
           /\ leave(processingRequestCount, [pc EXCEPT ![r] = "failed"], tasks)

resumeSwitched == resumeCall("switching")
resumeDequeued == resumeCall("resumed")

\* Fault: the inner finally block is missing.
resumeSettledUncounted ==
  /\ AtHead("settled")
  /\ leave(processingRequestCount,
           [pc EXCEPT ![Head(microtasks).req] = "done"], Tail(microtasks))

\* After `await requestNext()': the inner finally block, then the outer one.
resumeSettled ==
  /\ AtHead("settled")
  /\ leave(processingRequestCount - 1,
           [pc EXCEPT ![Head(microtasks).req] = "done"], Tail(microtasks))

\* What processRequest does for every request of a batch.
resumptions(members, error) ==
  [i \in DOMAIN members |-> Continue(members[i], error)]

\* Fault: the count goes down by the size of the batch.
countAfterBatchByDifference(members) == queuedRequestCount - Len(members)

countAfterBatch(members) == Len(requestQueue)

\* The rest of processNextBatch: every request of the batch is resolved, or
\* rejected with the error of the switch.
resumeBatch ==
  /\ AtHead("inBatch")
  /\ LET first == Head(microtasks).req
         members == batch[first]
     IN /\ microtasks' = Tail(microtasks) \o resumptions(members, Head(microtasks).error)
        /\ pc' = [r \in Requests |->
                    IF \E i \in DOMAIN members : members[i] = r
                    THEN "resumed" ELSE pc[r]]
        /\ batch' = [batch EXCEPT ![first] = <<>>]
        /\ queuedRequestCount' = countAfterBatch(members)
  /\ UNCHANGED <<originOfCurrentBatch, requestQueue, processingRequestCount,
                 switching, networkVars, arrivals>>

runMicrotask == resumeSwitched \/ resumeDequeued \/ resumeSettled \/ resumeBatch

-----------------------------------------------------------------------------
(***************************************************************************)
(* The environment: state.domains and the globally selected network.       *)
(***************************************************************************)

\* The positions of the requests that a change of domain o rejects.
flushedPositions(o) == {i \in DOMAIN requestQueue : OriginOf[requestQueue[i]] = o}

\* Fault: the rejected requests stay in the queue.
keptAll(o) == DOMAIN requestQueue

kept(o) == DOMAIN requestQueue \ flushedPositions(o)

\* Every queued request of o is rejected; queuedRequestCount is left as it is.
flushQueueForOrigin(o) ==
  LET rejected == Pick(requestQueue, flushedPositions(o))
  IN /\ requestQueue' = Pick(requestQueue, kept(o))
     /\ microtasks' = microtasks \o
          [i \in DOMAIN rejected |-> Continue(rejected[i], TRUE)]
     /\ pc' = [r \in Requests |->
                 IF \E i \in flushedPositions(o) : requestQueue[i] = r
                 THEN "resumed" ELSE pc[r]]

\* The subscription to SelectedNetworkController:stateChange: a domain was
\* added, changed or removed.  A removal also rejects the pending confirmations
\* (clearPendingConfirmations) of the current batch; what that does to the
\* requests in progress is requestNextSettles, which may follow for each.
domainChanges(o, network) ==
  /\ DomainsMayChange
  /\ network # domains[o]
  /\ domains' = [domains EXCEPT ![o] = network]
  /\ flushQueueForOrigin(o)
  /\ UNCHANGED <<originOfCurrentBatch, processingRequestCount, queuedRequestCount,
                 batch, switching, selectedNetworkClientId, arrivals>>

\* NetworkController:setActiveNetwork, called by the wallet's own interface.
userSwitchesNetwork(network) ==
  /\ UserMaySwitch
  /\ selectedNetworkClientId # network
  /\ selectedNetworkClientId' = network
  /\ UNCHANGED <<queueVars, pc, switching, microtasks, domains, arrivals>>

Next ==
  \/ \E r \in Requests : enqueueRequest(r) \/ switchSettles(r) \/ requestNextSettles(r)
  \/ runMicrotask
  \/ \E o \in Origins, network \in Networks \cup {NoNetwork} : domainChanges(o, network)
  \/ \E network \in Networks : userSwitchesNetwork(network)

Spec == Init /\ [][Next]_vars

(***************************************************************************)
(* The JavaScript engine drains the microtask queue, every network lookup  *)
(* ends, and every confirmation is answered sooner or later.  Nothing      *)
(* obliges a dapp to send a request or the user to switch networks.        *)
(***************************************************************************)
Fairness ==
  /\ WF_vars(runMicrotask)
  /\ \A r \in Requests : WF_vars(switchSettles(r)) /\ WF_vars(requestNextSettles(r))

FairSpec == Spec /\ Fairness

-----------------------------------------------------------------------------

\* Every position of a request in the queue, a batch or the microtask queue.
Holders(r) ==
  {<<"queue", i>> : i \in {k \in DOMAIN requestQueue : requestQueue[k] = r}}
  \cup (UNION {{<<"batch", first, i>> : i \in {k \in DOMAIN batch[first] : batch[first][k] = r}}
                 : first \in Requests})
  \cup {<<"microtask", i>> : i \in {k \in DOMAIN microtasks :
          microtasks[k].req = r /\ pc[r] = "resumed"}}

(***************************************************************************)
(* A request that waits to be dequeued is held exactly once, and one that  *)
(* does not wait is held nowhere: flushes, batches and rejections neither  *)
(* lose a request nor run it twice (enqueueRequest, #flushQueueForOrigin,  *)
(* #processNextBatch).                                                     *)
(***************************************************************************)
WaitersHeldOnce ==
  \A r \in Requests :
    Cardinality(Holders(r)) = IF pc[r] \in {"queued", "inBatch", "resumed"} THEN 1 ELSE 0

(***************************************************************************)
(* #processingRequestCount counts the requests inside requestNext, so it   *)
(* reaches 0, and the next batch is let in, only when the last one leaves. *)
(***************************************************************************)
CountIsExact == processingRequestCount = Cardinality(Active)

(***************************************************************************)
(* "Processing requests in batches allows us to completely separate sets   *)
(* of requests that originate from different origins" (class comment).     *)
(***************************************************************************)
BatchIsolation ==
  \A r, s \in Active : OriginOf[r] = OriginOf[s]

(***************************************************************************)
(* "Queuing requests in batches also allows us to ensure the globally      *)
(* selected network matches the dapp-selected network, before the          *)
(* confirmation UI is rendered" (class comment): a dequeued request, or one *)
(* that needs the switch, is handed on while its dapp's network is selected. *)
(***************************************************************************)
HandedOnOnOwnNetwork ==
  [][\A r \in Requests :
       /\ pc'[r] = "processing"
       /\ pc[r] = "resumed" \/ pc[r] = "switching"
       => selectedNetworkClientId' = getNetworkClientIdForDomain(OriginOf[r])']_vars

(***************************************************************************)
(* "All requests get processed even in the event of preceding requests     *)
(* failing" (comment of enqueueRequest): every call of enqueueRequest      *)
(* settles.                                                                *)
(***************************************************************************)
EveryRequestSettles ==
  \A r \in Requests : pc[r] # "idle" ~> pc[r] \in {"done", "failed"}

\* The queue as the rest of the wallet sees it.
Batches == INSTANCE RequestBatches WITH
  arrived <- arrivals,
  active <- Active,
  over <- {r \in Requests : pc[r] \in {"done", "failed"}}

(***************************************************************************)
(* When nothing interferes (no failing switch, no change of domain, and no *)
(* request that makes its caller wait for a switch outside a batch) the    *)
(* queue implements RequestBatches.                                        *)
(***************************************************************************)
ImplementsBatches == Batches!Spec
=============================================================================
