---------------------------------- MODULE Services ----------------------------------
(***************************************************************************)
(* The services that ask others again and again, in one specification:     *)
(* polling itself, the rates and prices of assets, the balances of         *)
(* accounts, and the engine that requests pass, with its stream to another *)
(* context.  They share no state; so a behaviour is one of one part,       *)
(* chosen at the start, and the states of the parts add up.                *)
(***************************************************************************)
EXTENDS PollingController, JsonRpcEngine

VARIABLE part

servicesVars == <<pollingVars, exchangeVars, accountTrackerVars, engineVars, part>>

ServicesInit ==
  /\ part \in {"polling", "currency", "rates", "prices", "balances", "engine"}
  /\ PollingInit /\ RatesInit /\ BalancesInit /\ EngineInit
  /\ part # "balances" => ~multiAccount
  /\ part # "engine" => lastKind = "async"

pollingSteps ==
  /\ part = "polling" /\ PollingNext
  /\ UNCHANGED <<exchangeVars, accountTrackerVars, engineVars, part>>

exchangeSteps ==
  /\ \/ part = "currency" /\ currencySteps
     \/ part = "rates" /\ ratesSteps
     \/ part = "prices" /\ priceSteps
  /\ UNCHANGED <<pollingVars, accountTrackerVars, engineVars, part>>

balancesSteps ==
  /\ part = "balances" /\ BalancesNext
  /\ UNCHANGED <<pollingVars, exchangeVars, engineVars, part>>

engineSteps ==
  /\ part = "engine" /\ EngineNext
  /\ UNCHANGED <<pollingVars, exchangeVars, accountTrackerVars, part>>

ServicesNext == pollingSteps \/ exchangeSteps \/ balancesSteps \/ engineSteps

\* Networks answer, if only sometimes with balances, and the timer of the tracker fires.
balancesFairness ==
  /\ WF_accountTrackerVars(part = "balances" /\ polled)
  /\ \A r \in Refreshes :
       /\ WF_accountTrackerVars(part = "balances" /\ accountsSynced(r))
       /\ WF_accountTrackerVars(part = "balances" /\ \E S \in SUBSET Users : refreshed(r, S))
       /\ SF_accountTrackerVars(part = "balances" /\ allRead(r))

ServicesSpec ==
  /\ ServicesInit /\ [][ServicesNext]_servicesVars
  /\ PollingFairness /\ RatesFairness /\ balancesFairness /\ EngineFairness

-----------------------------------------------------------------------------

(***************************************************************************)
(* What late answers and timers must not break, in states of their types:  *)
(* a key is polled by one loop while somebody asks for it; rates are in    *)
(* the currency that is set, "the current currency" of the doc; and the    *)
(* return handlers of a request run in order and restore its id.           *)
(***************************************************************************)
ServicesStayInStep ==
  /\ PollingTypeOK /\ RatesTypeOK /\ BalancesTypeOK
  /\ PolledWhileAsked /\ RatesAreInCurrency /\ AnsweredAsAsked

(***************************************************************************)
(* What must go on: polls, and rates, prices and balances that catch up    *)
(* with the currency, the network, the tokens and the account selected.    *)
(***************************************************************************)
ServicesGoOn == PollsGoOn /\ RatesCatchUp /\ []<>(part # "balances" \/ BalancesAreCurrent)
=============================================================================
