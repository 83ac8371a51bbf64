---------------------- MODULE MCQueuedRequestController ----------------------
(***************************************************************************)
(* Instances of QueuedRequestController: three dapps with up to five       *)
(* requests, on two networks; dapp c has no network of its own.            *)
(***************************************************************************)
EXTENDS QueuedRequestController, TLC

CONSTANTS a, b, c, ra1, ra2, rb1, rb2, rc1, net1, net2

MCOrigins == {a, b, c}
MCOriginOf == ra1 :> a @@ ra2 :> a @@ rb1 :> b @@ rb2 :> b @@ rc1 :> c
MCNetworks == {net1, net2}
MCDomains == a :> net2 @@ b :> net1 @@ c :> NoNetwork
MCSwitchOne == {ra1}
MCSwitchAll == Requests
MCSwitchNone == {}

\* Four requests where the run has to stay small.
MCFour == {ra1, ra2, rb1, rc1}
MCFive == {ra1, ra2, rb1, rb2, rc1}
MCOriginOfFour == [r \in MCFour |-> MCOriginOf[r]]

MCThree == {ra1, rb1, rc1}
MCOriginOfThree == [r \in MCThree |-> MCOriginOf[r]]
=============================================================================
