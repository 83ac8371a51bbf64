--------------------------- MODULE RequestBatches ---------------------------
(***************************************************************************)
(* What the request queue promises to the rest of the wallet, without the  *)
(* queue: requests of different origins are never in progress together,    *)
(* and a request never starts before an earlier request of another origin  *)
(* is over.  The class comment of QueuedRequestController.ts states both.  *)
(***************************************************************************)
EXTENDS Naturals, Sequences

CONSTANTS Requests, Origins, OriginOf

VARIABLES arrived, active, over

vars == <<arrived, active, over>>

Arrived == {arrived[i] : i \in DOMAIN arrived}

\* The requests that reached the queue before r did and have another origin.
EarlierStrangers(r) ==
  {arrived[i] : i \in {k \in DOMAIN arrived :
                         /\ OriginOf[arrived[k]] # OriginOf[r]
                         /\ \A j \in 1..k : arrived[j] # r}}

Init == arrived = <<>> /\ active = {} /\ over = {}

Arrive(r) ==
  /\ r \notin Arrived
  /\ arrived' = Append(arrived, r)
  /\ UNCHANGED <<active, over>>

Start(r) ==
  /\ r \in Arrived \ (active \cup over)
  /\ \A a \in active : OriginOf[a] = OriginOf[r]
  /\ EarlierStrangers(r) \subseteq over
  /\ active' = active \cup {r}
  /\ UNCHANGED <<arrived, over>>

\* A request may arrive and start in one step: the queue was empty.
ArriveAndStart(r) ==
  /\ r \notin Arrived
  /\ \A a \in active : OriginOf[a] = OriginOf[r]
  /\ \A i \in DOMAIN arrived :
        OriginOf[arrived[i]] # OriginOf[r] => arrived[i] \in over
  /\ arrived' = Append(arrived, r)
  /\ active' = active \cup {r}
  /\ UNCHANGED over

Finish(r) ==
  /\ r \in active
  /\ active' = active \ {r}
  /\ over' = over \cup {r}
  /\ UNCHANGED arrived

Next == \E r \in Requests : Arrive(r) \/ Start(r) \/ ArriveAndStart(r) \/ Finish(r)

Spec == Init /\ [][Next]_vars
=============================================================================
