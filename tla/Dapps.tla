---------------------------------- MODULE Dapps ----------------------------------
(***************************************************************************)
(* What the wallet decides and shows on its own: the network of a dapp, on *)
(* one built-in network and two custom ones, for a dapp and a snap;        *)
(* whether its site is on a list of phishing sites; how often it may call; *)
(* the fees of its transactions, and what they would change; the messages  *)
(* it wants signed or decrypted; the methods it may call, and the log of   *)
(* its calls; the tokens that are found in an account; and the balances    *)
(* before and after a swap.  These share no state: a behaviour is one of   *)
(* one part, chosen at the start, and the states of the parts add up.      *)
(***************************************************************************)
EXTENDS SelectedNetworkController, PhishingController, TransactionFees,
        TransactionSimulation, MessageManagers, TokenDetectionController,
        RestrictedMethods, TLC

CONSTANTS main, x, y, chain1, chain2, dapp1, snap

MCInfura == {main}
MCCustom == {x, y}
MCChains == {chain1, chain2}
MCChainOf == main :> chain1
MCConfigured == [id \in Custom |-> chain1]
MCDomains == {dapp1, snap}
MCInternal == {snap}

\* A domain that is blocked, with a shop that is allowed; and one that resembles a wallet's.
MCSites == {<<"com", "evil", "shop">>, <<"", "com", "evil", "pay">>, <<"com", "wa11et", "www">>}
MCAlike == {{<<"wallet">>, <<"wa11et">>}}
entry(list, site, isRemoval) == [list |-> list, site |-> site, isRemoval |-> isRemoval]
MCPublished ==
  {<<entry("blocklist", <<"com", "evil">>, FALSE), entry("allowlist", <<"com", "evil", "shop">>, FALSE),
     entry("blocklist", <<"com", "evil">>, TRUE)>>,
   <<entry("fuzzylist", <<"com", "wallet">>, FALSE), entry("blocklist", <<"com", "evil">>, FALSE),
     entry("fuzzylist", <<"com", "wallet">>, TRUE)>>}

\* Versions of the wallet: with another caveat less, with the method an endowment, and
\* one that is not consistent.
firstVersion ==
  [targets |-> [accounts |-> "method", network |-> "endowment"],
   allowed |-> [accounts |-> {"values", "first"}, network |-> {"plain"}],
   decorated |-> {"values", "first"}, plain |-> {"plain"}, unrestricted |-> {"version"}]
MCVersions ==
  {firstVersion,
   [firstVersion EXCEPT !.allowed = [accounts |-> {"values"}, network |-> {}], !.decorated = {"values"}],
   [firstVersion EXCEPT !.targets.accounts = "endowment", !.allowed.accounts = {"plain"}],
   [firstVersion EXCEPT !.allowed.network = {"first"}]}

VARIABLE part

dappVars == <<part, vars, phishingVars, rateLimitVars, feeVars, simulationVars, detectionVars, managerVars, methodVars, logVars, swapVars>>

DappsInit ==
  /\ part \in {"networks", "phishing", "limits", "fees", "changes", "messages", "detection", "methods", "log", "swaps"}
  /\ Init
  /\ part # "networks" => useRequestQueue /\ permitted = {}
  /\ PhishingInit /\ RateLimitInit /\ FeesInit /\ SimulationInit /\ MessageManagersInit
  /\ DetectionInit /\ RestrictedInit /\ LogInit /\ SwapsInit
  /\ part # "phishing" => says = CHOOSE script \in Published : TRUE
  /\ part # "fees" => compatible /\ savedFees = NoFees
  /\ part # "methods" => wallet = firstVersion
  /\ part # "detection" => selection.account = Holder /\ isActive(detector)
  /\ activeChain = chain1

networkSteps ==
  part = "networks" /\ Next /\ UNCHANGED <<part, phishingVars, rateLimitVars, feeVars, simulationVars, detectionVars, managerVars, methodVars, logVars, swapVars>>

listSteps ==
  part = "phishing" /\ PhishingNext /\ UNCHANGED <<part, vars, rateLimitVars, feeVars, simulationVars, detectionVars, managerVars, methodVars, logVars, swapVars>>

callSteps ==
  part = "limits" /\ RateLimitNext /\ UNCHANGED <<part, vars, phishingVars, feeVars, simulationVars, detectionVars, managerVars, methodVars, logVars, swapVars>>

feeSteps ==
  part = "fees" /\ FeesNext /\ UNCHANGED <<part, vars, phishingVars, rateLimitVars, simulationVars, detectionVars, managerVars, methodVars, logVars, swapVars>>

changeSteps ==
  part = "changes" /\ SimulationNext /\ UNCHANGED <<part, vars, phishingVars, rateLimitVars, feeVars, detectionVars, managerVars, methodVars, logVars, swapVars>>

messageManagerSteps ==
  part = "messages" /\ MessageManagersNext
  /\ UNCHANGED <<part, vars, phishingVars, rateLimitVars, feeVars, simulationVars, detectionVars, methodVars, logVars, swapVars>>

tokenSteps ==
  part = "detection" /\ DetectionNext
  /\ UNCHANGED <<part, vars, phishingVars, rateLimitVars, feeVars, simulationVars, managerVars, methodVars, logVars, swapVars>>

restrictedSteps ==
  part = "methods" /\ RestrictedNext
  /\ UNCHANGED <<part, vars, phishingVars, rateLimitVars, feeVars, simulationVars, detectionVars, managerVars, logVars, swapVars>>

logSteps ==
  part = "log" /\ LogNext
  /\ UNCHANGED <<part, vars, phishingVars, rateLimitVars, feeVars, simulationVars, detectionVars, managerVars, methodVars, swapVars>>

tradeSteps ==
  part = "swaps" /\ SwapsNext
  /\ UNCHANGED <<part, vars, phishingVars, rateLimitVars, feeVars, simulationVars, detectionVars, managerVars, methodVars, logVars>>

DappsNext ==
  \/ networkSteps \/ listSteps \/ callSteps \/ feeSteps \/ changeSteps
  \/ messageManagerSteps \/ tokenSteps \/ restrictedSteps \/ logSteps \/ tradeSteps

DappsSpec == DappsInit /\ [][DappsNext]_dappVars

-----------------------------------------------------------------------------

(***************************************************************************)
(* What dapps get: no origin is shut out for good by the limit on its      *)
(* calls, messages are answered with what became of them, and methods with *)
(* what the permission to call them allows; and the log of it is true.     *)
(***************************************************************************)
DappsAreServed ==
  NobodyIsShutOut /\ MessagesAreAnswered /\ CallsAreRestricted /\ PermissionsAreLogged

(***************************************************************************)
(* What users are told unasked: the lists of phishing sites have no gaps,  *)
(* whatever downloads fail; the changes a transaction would make are those *)
(* that it makes; and the tokens that are detected are the account's, and  *)
(* none is missed.                                                         *)
(***************************************************************************)
UsersAreInformed ==
  /\ ListsHaveNoGaps /\ SitesAreJudged
  /\ ShownChangesAreTrue /\ SwapsAreFollowed
  /\ DetectedIsHeld /\ NothingIsMissed

(***************************************************************************)
(* The fees that are signed are of one kind, are those asked for, and rise *)
(* with each replacement; and the gas is enough, and fits into a block.    *)
(***************************************************************************)
FeesAreSound ==
  SignedFeesFit /\ AskedFeesArePaid /\ ReplacementsPayMore /\ GasCoversEstimate
=============================================================================
