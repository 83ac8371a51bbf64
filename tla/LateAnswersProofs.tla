---------------------------- MODULE LateAnswersProofs ----------------------------
(***************************************************************************)
(* What controllers keep of late answers is what they should, for any      *)
(* chains, calls, transactions and handlers.  Each part of LateAnswers has *)
(* an inductive invariant of its own, since the parts share no state.      *)
(***************************************************************************)
EXTENDS LateAnswers, FiniteSetTheorems, TLAPS

-----------------------------------------------------------------------------
(* Gas fees                                                                *)

\* A fetch that was not crossed by a change of the network asked its own chain.
FetchesAreOwn ==
  \A f \in FeeCalls : feeFetches[f] # NoFetch /\ ~feeFetches[f].crossed =>
    feeFetches[f].from = feeFetches[f].chain

\* Only who resets the polling has other tokens to take up again.
OthersAreTakenUp ==
  \A f \in FeeCalls : feeFetches[f] # NoFetch /\ feeFetches[f].for # "reset" =>
    feeFetches[f].rest = {}

\* While a first fetch, or that of a reset, is under way, the tokens and the chain are those
\* of when it ends.
PollingGoesOn ==
  /\ wanted # {}
  /\ pollTokens # {}
  /\ \A t \in FeeTokens :
       t \in wanted <=> t \in pollTokens \/ \E f \in FeeCalls : isPolling(f) /\ t \in feeFetches[f].rest
  /\ \A f \in FeeCalls : isPolling(f) /\ feeFetches[f].for = "reset" => feeFetches[f].target = feeNetwork
  /\ feeChain = feeNetwork \/ \E f \in FeeCalls : isPolling(f) /\ feeFetches[f].for = "reset"

FeesInv ==
  /\ pollTokens \subseteq FeeTokens /\ wanted \subseteq FeeTokens
  /\ feeChain \in FeeChains /\ feeNetwork \in FeeChains
  /\ feeFetches \in [FeeCalls -> FeeFetches \cup {NoFetch}]
  /\ FetchesAreOwn /\ OthersAreTakenUp
  /\ mishaps = {} /\ startsPolling => PollingGoesOn
  /\ FeesFollowNetwork

-----------------------------------------------------------------------------
(* Lists of tokens                                                         *)

SomeChains == FeeChains \cup {NoList}
Caches == UNION {[C -> BOOLEAN] : C \in SUBSET SomeChains}
ListFetches ==
  [for : {"start", "timer", "client"}, chain : SomeChains, cache : Caches,
   step : {"waits", "fetches", "thrown"}, aborted : BOOLEAN]

\* Who fetches has the mutex, and writes back a cache with everything that was kept.
FetchesHaveMutex ==
  \A f \in ListCalls : listFetches[f] # NoFetch /\ listFetches[f].step = "fetches" =>
    /\ listQueue # <<>> /\ f = Head(listQueue)
    /\ kept \subseteq DOMAIN listFetches[f].cache

ListsInv ==
  /\ listQueue \in Seq(ListCalls)
  /\ listFetches \in [ListCalls -> ListFetches \cup {NoFetch}]
  /\ tokensChainsCache \in Caches /\ listChain \in FeeChains
  /\ FetchesHaveMutex /\ TokenListsAreKept

-----------------------------------------------------------------------------
(* Balances                                                                *)

ToldTokens == TokenSets \cup {{}}
BalanceUpdates ==
  [account : BalanceAccounts, tokens : ToldTokens, poll : BOOLEAN, late : BOOLEAN]

\* The last update, unless one that began later has ended, is of the tokens told last.
LastIsNewest ==
  balanceUpdates # <<>> /\ ~balanceUpdates[Len(balanceUpdates)].late /\ ~missed =>
    balanceUpdates[Len(balanceUpdates)].tokens = balanceTokens

BalancesInv ==
  /\ balanceUpdates \in Seq(BalanceUpdates)
  /\ balanceTokens \in ToldTokens /\ balanceAccount \in BalanceAccounts /\ balanceHandle \in BOOLEAN
  /\ stale \in BOOLEAN /\ missed \in BOOLEAN
  /\ balanceTimers \in Nat /\ (balanceHandle => balanceTimers > 0)
  /\ LastIsNewest /\ BalancesFollowTokens

-----------------------------------------------------------------------------

LEMMA FeesInitial ==
  ASSUME ChainPollsInit PROVE FeesInv
BY DEF ChainPollsInit, FeesInv, FetchesAreOwn, OthersAreTakenUp, startsPolling, isPolling, FeesFollowNetwork

\* A fetch begins: what it awaits, and what it does not change.
LEMMA Asks ==
  ASSUME NoFetchAssumption, FeesInv, NEW f \in FeeCalls, NEW fetch \in FeeFetches, asks(f, fetch),
         fetch.crossed \/ fetch.from = fetch.chain, fetch.for = "reset" \/ fetch.rest = {}
  PROVE  /\ feeFetches' \in [FeeCalls -> FeeFetches \cup {NoFetch}]
         /\ FetchesAreOwn' /\ OthersAreTakenUp'
         /\ feeFetches'[f] = fetch /\ feeFetches'[f] # NoFetch /\ feeFetches[f] = NoFetch
         /\ \A g \in FeeCalls : g # f => feeFetches'[g] = feeFetches[g]
         /\ \A g \in FeeCalls : isPolling(g)' <=> isPolling(g) \/ (g = f /\ fetch.for \in {"first", "reset"})
BY DEF FeesInv, asks, NoFetchAssumption, FetchesAreOwn, OthersAreTakenUp, isPolling

LEMMA FeesAsked ==
  ASSUME NoFetchAssumption, FeesInv, NEW f \in FeeCalls,
         \/ \E t \in FeeTokens : getGasFeeEstimatesAndStartPolling(f, t)
         \/ feeIntervalFires(f)
         \/ \E chain \in FeeChains : feeClientPolled(f, chain)
  PROVE  FeesInv'
<1>0. FeesFollowNetwork BY DEF FeesInv
<1>1. CASE \E t \in FeeTokens : getGasFeeEstimatesAndStartPolling(f, t)
  <2>1. PICK t \in FeeTokens : getGasFeeEstimatesAndStartPolling(f, t) BY <1>1
  <2>2. /\ pollTokens' = pollTokens \cup {t} /\ wanted' = wanted \cup {t}
        /\ UNCHANGED <<gasFeeEstimates, feesByChain, apisDisabled, feeInterval, feeChain, feeNetwork, mishaps>>
        /\ IF Cardinality(pollTokens') = 1 THEN asks(f, Fetch("first", feeChain, {}, feeChain))
                                           ELSE UNCHANGED feeFetches
    BY <2>1 DEF getGasFeeEstimatesAndStartPolling, feeState
  <2>3. CASE asks(f, Fetch("first", feeChain, {}, feeChain))
    <3> DEFINE fetch == Fetch("first", feeChain, {}, feeChain)
    <3>1. fetch \in FeeFetches /\ fetch.from = fetch.chain /\ fetch.rest = {} /\ fetch.for = "first"
      BY DEF Fetch, FeeFetches, FeesInv
    <3> HIDE DEF fetch
    <3>2. /\ feeFetches' \in [FeeCalls -> FeeFetches \cup {NoFetch}]
          /\ FetchesAreOwn' /\ OthersAreTakenUp'
          /\ feeFetches'[f] = fetch /\ feeFetches[f] = NoFetch
          /\ \A g \in FeeCalls : g # f => feeFetches'[g] = feeFetches[g]
          /\ \A g \in FeeCalls : isPolling(g)' <=> isPolling(g) \/ g = f
      BY <2>3, <3>1, Asks DEF fetch
    <3>3. mishaps = {} => PollingGoesOn'
      BY <2>2, <3>1, <3>2, <1>0 DEF FeesInv, PollingGoesOn, isPolling, startsPolling, FeesFollowNetwork
    <3>4. startsPolling' BY <3>2 DEF startsPolling
    <3>5. FeesFollowNetwork' BY <1>0, <2>2, <3>4 DEF FeesFollowNetwork
    <3> QED BY <2>2, <3>2, <3>3, <3>5 DEF FeesInv
  <2>4. CASE Cardinality(pollTokens') # 1 /\ UNCHANGED feeFetches
    <3>1. pollTokens # {} BY <2>2, <2>4, FS_Singleton
    <3>2. startsPolling' <=> startsPolling BY <2>4 DEF startsPolling, isPolling
    <3>3. mishaps = {} /\ startsPolling => PollingGoesOn'
      BY <2>2, <2>4 DEF FeesInv, PollingGoesOn, isPolling
    <3>4. FeesFollowNetwork' BY <1>0, <2>2, <3>1, <3>2 DEF FeesFollowNetwork
    <3> QED BY <2>2, <2>4, <3>2, <3>3, <3>4 DEF FeesInv, FetchesAreOwn, OthersAreTakenUp
  <2> QED BY <2>2, <2>3, <2>4
<1>2. CASE feeIntervalFires(f) \/ \E chain \in FeeChains : feeClientPolled(f, chain)
  <2>1. PICK fetch \in FeeFetches :
          /\ asks(f, fetch) /\ (fetch.crossed \/ fetch.from = fetch.chain)
          /\ fetch.rest = {} /\ fetch.for \notin {"first", "reset"}
    <3>1. CASE feeIntervalFires(f)
      <4>1. /\ Fetch("interval", feeChain, {}, feeChain) \in FeeFetches
            /\ asks(f, Fetch("interval", feeChain, {}, feeChain))
        BY <3>1 DEF feeIntervalFires, Fetch, FeeFetches, FeesInv
      <4> QED BY <4>1 DEF Fetch
    <3>2. CASE \E chain \in FeeChains : feeClientPolled(f, chain)
      <4>1. PICK chain \in FeeChains : asks(f, [Fetch("client", chain, {}, chain) EXCEPT !.crossed = FALSE])
        BY <3>2 DEF feeClientPolled
      <4>2. [Fetch("client", chain, {}, chain) EXCEPT !.crossed = FALSE] \in FeeFetches
        BY DEF Fetch, FeeFetches
      <4> QED BY <4>1, <4>2 DEF Fetch
    <3> QED BY <1>2, <3>1, <3>2
  <2>2. UNCHANGED <<pollTokens, feeInterval, wanted, mishaps, gasFeeEstimates, feesByChain, feeChain, feeNetwork>>
    BY <1>2 DEF feeIntervalFires, feeClientPolled, feeState, feePolling, feeHistory
  <2>3. /\ feeFetches' \in [FeeCalls -> FeeFetches \cup {NoFetch}]
        /\ FetchesAreOwn' /\ OthersAreTakenUp'
        /\ feeFetches[f] = NoFetch
        /\ \A g \in FeeCalls : g # f => feeFetches'[g] = feeFetches[g]
        /\ \A g \in FeeCalls : isPolling(g)' <=> isPolling(g) BY <2>1, Asks
  <2>4. startsPolling' <=> startsPolling BY <2>3 DEF startsPolling
  <2>5. \A g \in FeeCalls : isPolling(g) => g # f BY <2>3 DEF isPolling
  <2>6. PollingGoesOn => PollingGoesOn' BY <2>2, <2>3, <2>5 DEF PollingGoesOn
  <2>7. FeesFollowNetwork' BY <1>0, <2>2, <2>4 DEF FeesFollowNetwork
  <2> QED BY <2>2, <2>3, <2>4, <2>6, <2>7 DEF FeesInv
<1> QED BY <1>1, <1>2

LEMMA FeesStopped ==
  ASSUME FeesInv, (\E t \in wanted : disconnectPoller(t)) \/ destroyFees
  PROVE  FeesInv'
BY DEF disconnectPoller, destroyFees, stopPolling, resetState, feeState, startsPolling, isPolling, FeesInv,
   FeesFollowNetwork, FetchesAreOwn, OthersAreTakenUp

LEMMA FeesSwitched ==
  ASSUME NoFetchAssumption, FeesInv, NEW f \in FeeCalls, NEW chain \in FeeChains, feeNetworkDidChange(f, chain)
  PROVE  FeesInv'
<1>1. /\ chain # feeNetwork /\ feeNetwork' = chain /\ wanted' = wanted
      /\ mishaps' = {} => mishaps = {} /\ ~startsPolling
      /\ IF chain # feeChain THEN resetPolling(f, chain)
                             ELSE UNCHANGED <<feeChain, pollTokens, feeInterval, feesByChain, feeFetches>>
  BY DEF feeNetworkDidChange, feePolling, feeState
<1>2. mishaps' = {} => pollTokens = wanted /\ feeChain = feeNetwork /\ feeInterval = (wanted # {})
  BY <1>1 DEF FeesInv, FeesFollowNetwork
<1>3. CASE UNCHANGED <<pollTokens, feeFetches, feeInterval, feesByChain>> /\ (pollTokens # {} => chain = feeChain) /\ feeChain' = chain
  BY <1>3, <1>1, <1>2 DEF startsPolling, isPolling, FeesInv, FeesFollowNetwork, FetchesAreOwn,
     OthersAreTakenUp
<1>4. CASE \E t \in pollTokens :
             /\ asks(f, [Fetch("reset", feeChain, pollTokens \ {t}, chain) EXCEPT !.crossed = TRUE])
             /\ pollTokens' = {t} /\ feesByChain' = [c \in {} |-> NoFees]
             /\ UNCHANGED feeChain
  <2>1. PICK t \in pollTokens :
             /\ asks(f, [Fetch("reset", feeChain, pollTokens \ {t}, chain) EXCEPT !.crossed = TRUE])
             /\ pollTokens' = {t} /\ feesByChain' = [c \in {} |-> NoFees]
             /\ UNCHANGED feeChain BY <1>4
  <2> DEFINE fetch == [Fetch("reset", feeChain, pollTokens \ {t}, chain) EXCEPT !.crossed = TRUE]
  <2>2. /\ fetch \in FeeFetches /\ fetch.crossed /\ fetch.for = "reset" /\ fetch.target = chain
        /\ fetch.rest = pollTokens \ {t} BY DEF Fetch, FeeFetches, FeesInv
  <2> HIDE DEF fetch
  <2>3. /\ feeFetches' \in [FeeCalls -> FeeFetches \cup {NoFetch}]
        /\ FetchesAreOwn' /\ OthersAreTakenUp'
        /\ feeFetches'[f] = fetch
        /\ \A g \in FeeCalls : isPolling(g)' <=> isPolling(g) \/ g = f
    <3>1. asks(f, fetch) BY <2>1 DEF fetch
    <3> QED BY <2>2, <3>1, Asks
  <2>4. startsPolling' BY <2>3 DEF startsPolling
  <2>5. mishaps' = {} => PollingGoesOn'
    BY <1>1, <1>2, <2>1, <2>2, <2>3 DEF startsPolling, PollingGoesOn, FeesInv
  <2>6. FeesFollowNetwork' BY <2>1, <2>4 DEF FeesFollowNetwork
  <2> QED BY <1>1, <2>1, <2>3, <2>4, <2>5, <2>6 DEF FeesInv
<1> QED BY <1>1, <1>3, <1>4 DEF resetPolling, feePolling, feeState, resetState

LEMMA FeesSourceAsked ==
  ASSUME NoFetchAssumption, FeesInv, NEW f \in FeeCalls, NEW compatible \in BOOLEAN,
         sourceAsked(f, compatible)
  PROVE  FeesInv'
<1> DEFINE fetch == feeFetches[f]
           new == asking(fetch, compatible)
<1>1. /\ fetch # NoFetch /\ feeFetches' = [feeFetches EXCEPT ![f] = new]
      /\ UNCHANGED <<pollTokens, feeInterval, wanted, mishaps, feesByChain, feeChain, feeNetwork>>
  BY DEF sourceAsked, feeState, feePolling, feeHistory
<1>2. /\ feeFetches \in [FeeCalls -> FeeFetches \cup {NoFetch}] /\ feeNetwork \in FeeChains
      /\ FeesFollowNetwork BY DEF FeesInv
<1>3. /\ fetch \in FeeFetches /\ new \in FeeFetches /\ new.for = fetch.for /\ new.rest = fetch.rest
      /\ new.target = fetch.target /\ new.chain = fetch.chain BY <1>1, <1>2 DEF FeeFetches, asking
<1>4. new.crossed \/ new.from = new.chain
  BY <1>1, <1>3 DEF FeesInv, FetchesAreOwn, FeeFetches, asking
<1> HIDE DEF fetch, new
<1>5. /\ feeFetches' \in [FeeCalls -> FeeFetches \cup {NoFetch}]
      /\ feeFetches'[f] = new /\ new # NoFetch
      /\ \A g \in FeeCalls : g # f => feeFetches'[g] = feeFetches[g]
  BY <1>1, <1>2, <1>3 DEF NoFetchAssumption
<1>6. \A g \in FeeCalls :
        /\ isPolling(g)' <=> isPolling(g)
        /\ feeFetches[g] # NoFetch /\ feeFetches'[g] # NoFetch =>
             /\ feeFetches'[g].for = feeFetches[g].for /\ feeFetches'[g].rest = feeFetches[g].rest
             /\ feeFetches'[g].target = feeFetches[g].target
  BY <1>1, <1>3, <1>5 DEF isPolling, fetch
<1>7. FetchesAreOwn' /\ OthersAreTakenUp'
  BY <1>1, <1>3, <1>4, <1>5 DEF FeesInv, FetchesAreOwn, OthersAreTakenUp, fetch
<1>8. startsPolling' <=> startsPolling BY <1>6 DEF startsPolling
<1>9. PollingGoesOn => PollingGoesOn' BY <1>6, <1>1 DEF isPolling, PollingGoesOn
<1>10. FeesFollowNetwork' BY <1>1, <1>2, <1>8 DEF FeesFollowNetwork
<1> QED BY <1>1, <1>5, <1>7, <1>8, <1>9, <1>10 DEF FeesInv

LEMMA FeesSettled ==
  ASSUME FeesInv, NEW f \in FeeCalls, feesFound(f) \/ feesFailed(f)
  PROVE  FeesInv'
<1>1. /\ feeFetches \in [FeeCalls -> FeeFetches \cup {NoFetch}] /\ FeesFollowNetwork
      /\ feeFetches[f] # NoFetch /\ feeFetches' = [feeFetches EXCEPT ![f] = NoFetch]
      /\ UNCHANGED <<wanted, feeNetwork>> BY DEF FeesInv, feesFound, feesFailed, feeHistory
<1>2. /\ feeFetches[f] \in FeeFetches
      /\ feeFetches' \in [FeeCalls -> FeeFetches \cup {NoFetch}]
      /\ \A g \in FeeCalls : feeFetches'[g] = IF g = f THEN NoFetch ELSE feeFetches[g]
      /\ \A g \in FeeCalls : isPolling(g)' <=> isPolling(g) /\ g # f BY <1>1 DEF isPolling
<1>3. FetchesAreOwn' /\ OthersAreTakenUp' BY <1>2 DEF FeesInv, FetchesAreOwn, OthersAreTakenUp
<1>4. startsPolling' => startsPolling BY <1>2 DEF startsPolling
<1>5. CASE feesFailed(f)
  BY <1>5, <1>2, <1>1, <1>3 DEF feesFailed, feeState, feePolling, startsPolling, FeesInv, PollingGoesOn,
     isPolling, FeesFollowNetwork
<1>6. CASE feesFound(f)
  <2> DEFINE fees == [chain |-> feeFetches[f].chain, from |-> feeFetches[f].from, crossed |-> feeFetches[f].crossed]
  <2>1. /\ feesByChain' = [c \in DOMAIN feesByChain \cup {feeFetches[f].chain} |->
                       IF c = feeFetches[f].chain THEN fees ELSE feesByChain[c]]
        /\ feeInterval' = (feeInterval \/ isPolling(f))
        /\ pollTokens' = pollTokens \cup feeFetches[f].rest
        /\ feeChain' = IF feeFetches[f].for = "reset" THEN feeFetches[f].target ELSE feeChain
        /\ UNCHANGED mishaps BY <1>6 DEF feesFound, feeHistory
  <2>2. \A c \in DOMAIN feesByChain' : ~feesByChain'[c].crossed => feesByChain'[c].from = c
    BY <1>1, <2>1 DEF FeesInv, FetchesAreOwn, FeesFollowNetwork
  <2> HIDE DEF fees
  <2>3. pollTokens' \subseteq FeeTokens /\ feeChain' \in FeeChains
    BY <1>2, <2>1 DEF FeesInv, FeeFetches
  <2>4. CASE ~isPolling(f)
    <3>1. feeFetches[f].rest = {} /\ feeFetches[f].for # "reset"
      BY <1>1, <1>2, <2>4 DEF isPolling, FeeFetches, FeesInv, OthersAreTakenUp
    <3>3. UNCHANGED <<pollTokens, feeChain>> /\ (feeInterval' <=> feeInterval) BY <2>1, <2>4, <3>1
    <3>4. startsPolling' <=> startsPolling BY <1>2, <2>4 DEF startsPolling
    <3>5. PollingGoesOn => PollingGoesOn' BY <1>1, <1>2, <2>4, <3>3 DEF PollingGoesOn, isPolling
    <3>6. FeesFollowNetwork' BY <1>1, <2>1, <2>2, <3>3, <3>4 DEF FeesFollowNetwork
    <3> QED BY <1>1, <1>2, <1>3, <2>1, <2>3, <3>4, <3>5, <3>6 DEF FeesInv
  <2>5. CASE isPolling(f)
    <3>1. mishaps = {} => PollingGoesOn BY <2>5 DEF FeesInv, startsPolling
    <3>2. feeFetches[f].rest \subseteq FeeTokens BY <1>2 DEF FeeFetches
    <3>3. mishaps = {} => \A t \in FeeTokens :
            t \in wanted <=> t \in pollTokens' \/ \E g \in FeeCalls : isPolling(g)' /\ t \in feeFetches'[g].rest
      BY <1>2, <2>1, <2>5, <3>1, <3>2 DEF PollingGoesOn
    <3>4. mishaps = {} => feeChain' = feeNetwork \/ \E g \in FeeCalls : isPolling(g)' /\ feeFetches'[g].for = "reset"
      BY <1>2, <2>1, <2>5, <3>1 DEF PollingGoesOn
    <3>5. mishaps = {} /\ startsPolling' => PollingGoesOn'
      BY <1>1, <1>2, <2>1, <3>1, <3>3, <3>4 DEF PollingGoesOn
    <3>6. mishaps = {} /\ ~startsPolling' => pollTokens' = wanted /\ feeChain' = feeNetwork /\ wanted # {}
      <4>1. SUFFICES ASSUME mishaps = {}, ~startsPolling' PROVE pollTokens' = wanted /\ feeChain' = feeNetwork /\ wanted # {}
        OBVIOUS
      <4>2. \A g \in FeeCalls : ~isPolling(g)' BY <4>1 DEF startsPolling
      <4>3. pollTokens' = wanted BY <2>3, <3>3, <4>1, <4>2 DEF FeesInv
      <4> QED BY <3>1, <3>4, <4>1, <4>2, <4>3 DEF PollingGoesOn
    <3>7. FeesFollowNetwork' BY <1>1, <2>1, <2>2, <2>5, <3>6 DEF FeesFollowNetwork
    <3> QED BY <1>1, <1>2, <1>3, <2>1, <2>3, <3>5, <3>7 DEF FeesInv
  <2> QED BY <2>4, <2>5
<1> QED BY <1>5, <1>6

LEMMA FeesSteps ==
  ASSUME NoFetchAssumption, FeesInv, FeesNext
  PROVE  FeesInv'
BY FeesAsked, FeesStopped, FeesSwitched, FeesSourceAsked, FeesSettled DEF switchApis, feePolling, feeHistory,
   FeesInv, FetchesAreOwn, OthersAreTakenUp, startsPolling, isPolling, PollingGoesOn, FeesFollowNetwork,
   FeesNext

-----------------------------------------------------------------------------

LEMMA EmptyCache == [c \in {} |-> FALSE] \in Caches /\ DOMAIN [c \in {} |-> FALSE] = {}
BY DEF Caches

LEMMA CacheWithList ==
  ASSUME NEW cache \in Caches, NEW chain \in SomeChains
  PROVE  withList(cache, chain) \in Caches /\ DOMAIN withList(cache, chain) = DOMAIN cache \cup {chain}
<1>1. PICK C \in SUBSET SomeChains : cache \in [C -> BOOLEAN] BY DEF Caches
<1>2. withList(cache, chain) \in [C \cup {chain} -> BOOLEAN] /\ C \cup {chain} \in SUBSET SomeChains
  BY <1>1 DEF withList
<1> QED BY <1>1, <1>2 DEF Caches

LEMMA ListsInitial ==
  ASSUME ChainPollsInit PROVE ListsInv
BY EmptyCache DEF ChainPollsInit, ListsInv, FetchesHaveMutex, TokenListsAreKept

\* Whoever waits for the mutex stands behind its holder.
LEMMA Waits ==
  ASSUME ListsInv, NEW f \in ListCalls, NEW fetch \in ListFetches, fetch.step = "waits",
         NEW fetches \in [ListCalls -> ListFetches \cup {NoFetch}],
         listFetches' = [fetches EXCEPT ![f] = fetch],
         \A g \in ListCalls : fetches[g] # NoFetch /\ fetches[g].step = "fetches" =>
           /\ listFetches[g] # NoFetch /\ listFetches[g].step = "fetches"
           /\ fetches[g].cache = listFetches[g].cache,
         listQueue' = Append(listQueue, f), UNCHANGED <<kept, tokensChainsCache>>, listChain' \in FeeChains
  PROVE  ListsInv'
BY DEF ListsInv, FetchesHaveMutex, TokenListsAreKept

LEMMA ListsWaited ==
  ASSUME ListsInv, NEW f \in ListCalls,
         \/ startList(f) \/ restartList(f) \/ listTimerFires(f)
         \/ \E chain \in FeeChains : listClientPolled(f, chain)
  PROVE  ListsInv'
<1>1. PICK for \in {"start", "timer", "client"}, chain \in SomeChains : waits(f, for, chain)
  BY DEF startList, restartList, listTimerFires, listClientPolled, SomeChains
<1>2. UNCHANGED <<listChain, tokensChainsCache, kept>>
  BY DEF startList, restartList, listTimerFires, listClientPolled, listState
<1> DEFINE fetch == [for |-> for, chain |-> chain, cache |-> tokensChainsCache, step |-> "waits",
                     aborted |-> FALSE]
<1>3. listFetches' = [listFetches EXCEPT ![f] = fetch] /\ listQueue' = Append(listQueue, f)
  BY <1>1 DEF waits
<1>4. fetch \in ListFetches /\ fetch.step = "waits" BY DEF ListsInv, ListFetches
<1>5. listFetches \in [ListCalls -> ListFetches \cup {NoFetch}] /\ listChain \in FeeChains
  BY DEF ListsInv
<1> HIDE DEF fetch
<1> QED BY <1>2, <1>3, <1>4, <1>5, Waits

LEMMA ListsSwitched ==
  ASSUME ListsInv, NEW f \in ListCalls, NEW chain \in FeeChains, listNetworkDidChange(f, chain)
  PROVE  ListsInv'
<1>0. /\ listQueue \in Seq(ListCalls) /\ tokensChainsCache \in Caches /\ FetchesHaveMutex
      /\ listFetches \in [ListCalls -> ListFetches \cup {NoFetch}] BY DEF ListsInv
<1> DEFINE fetches == abort(listFetches)
<1>1. ASSUME NEW g \in ListCalls
      PROVE  /\ fetches[g] \in ListFetches \cup {NoFetch}
             /\ fetches[g] # NoFetch /\ fetches[g].step = "fetches" =>
                  /\ listFetches[g] # NoFetch /\ listFetches[g].step = "fetches"
                  /\ fetches[g].cache = listFetches[g].cache
  <2>1. listFetches[g] \in ListFetches \cup {NoFetch} BY <1>0
  <2>2. CASE listFetches[g] # NoFetch /\ listFetches[g].step = "fetches"
    <3>1. listFetches[g] \in ListFetches /\ fetches[g] = [listFetches[g] EXCEPT !.aborted = TRUE]
      BY <2>1, <2>2 DEF abort
    <3> HIDE DEF fetches
    <3> QED BY <2>2, <3>1 DEF ListFetches
  <2>3. CASE ~(listFetches[g] # NoFetch /\ listFetches[g].step = "fetches")
    <3>1. fetches[g] = listFetches[g] BY <2>3 DEF abort
    <3> HIDE DEF fetches
    <3> QED BY <2>1, <2>3, <3>1
  <2> QED BY <2>2, <2>3
<1>2. fetches \in [ListCalls -> ListFetches \cup {NoFetch}]
  <2>1. fetches = [g \in ListCalls |-> fetches[g]] BY DEF abort
  <2> HIDE DEF fetches
  <2> QED BY <1>1, <2>1
<1> HIDE DEF fetches
<1>3. CASE preventPolling
  BY <1>3, <1>0, <1>1, <1>2, EmptyCache DEF listNetworkDidChange, clearingTokenListData, fetches,
     FetchesHaveMutex, ListsInv, TokenListsAreKept
<1>4. CASE ~preventPolling
  <2> DEFINE fetch == [for |-> "start", chain |-> NoList, cache |-> tokensChainsCache, step |-> "waits",
                       aborted |-> FALSE]
  <2>1. /\ listFetches' = [fetches EXCEPT ![f] = fetch] /\ listQueue' = Append(listQueue, f)
        /\ UNCHANGED <<tokensChainsCache, kept>> /\ listChain' = chain
    BY <1>4 DEF listNetworkDidChange, fetches
  <2>2. fetch \in ListFetches /\ fetch.step = "waits" BY <1>0 DEF ListFetches, SomeChains
  <2> HIDE DEF fetch
  <2> QED BY <1>0, <1>1, <1>2, <2>1, <2>2, Waits
<1> QED BY <1>3, <1>4

\* The mutex is released by who has it: no other call fetches.
LEMMA ListsReleased ==
  ASSUME ListsInv, NEW f \in ListCalls, listQueue # <<>>, f = Head(listQueue),
         listFetches' = [listFetches EXCEPT ![f] = NoFetch],
         listQueue' = Tail(listQueue),
         tokensChainsCache' \in Caches, UNCHANGED listChain,
         NEW chain, tokenList' = chain \/ tokenList' = NoList, foreign' = (chain # listChain),
         kept' \subseteq DOMAIN tokensChainsCache'
  PROVE  ListsInv'
<1>1. /\ listQueue' \in Seq(ListCalls)
      /\ \A g \in ListCalls : listFetches'[g] = IF g = f THEN NoFetch ELSE listFetches[g]
      /\ listFetches' \in [ListCalls -> ListFetches \cup {NoFetch}] BY DEF ListsInv
<1>2. FetchesHaveMutex' BY <1>1 DEF ListsInv, FetchesHaveMutex
<1>3. TokenListsAreKept' BY DEF TokenListsAreKept
<1> QED BY <1>1, <1>2, <1>3 DEF ListsInv

LEMMA FetchBegins ==
  ASSUME ListsInv, NEW f \in ListCalls, fetchBegins(f)
  PROVE  ListsInv'
<1> DEFINE chain == IF listFetches[f].for = "client" THEN listFetches[f].chain ELSE listChain
<1>1. /\ listQueue \in Seq(ListCalls) /\ kept \subseteq DOMAIN tokensChainsCache /\ FetchesHaveMutex
      /\ listFetches \in [ListCalls -> ListFetches \cup {NoFetch}]
      /\ tokensChainsCache \in Caches /\ listChain \in FeeChains BY DEF ListsInv, TokenListsAreKept
<1>2. /\ listQueue # <<>> /\ f = Head(listQueue) /\ listFetches[f] \in ListFetches
      /\ listFetches[f] # NoFetch /\ listFetches[f].step = "waits"
  BY <1>1 DEF fetchBegins, hasListMutex
<1>3. chain \in SomeChains BY <1>1, <1>2 DEF ListFetches, SomeChains
<1>4. CASE chain \in DOMAIN tokensChainsCache /\ tokensChainsCache[chain]
  <2>1. /\ listFetches' = [listFetches EXCEPT ![f] = NoFetch] /\ foreign' = (chain # listChain)
        /\ kept' = kept \cup {chain} /\ tokenList' = chain
        /\ tokensChainsCache' = withList(tokensChainsCache, chain)
        /\ listQueue' = Tail(listQueue) /\ listChain' = listChain
    BY <1>4 DEF fetchBegins, listSettled
  <2> HIDE DEF chain
  <2>2. tokensChainsCache' \in Caches /\ kept' \subseteq DOMAIN tokensChainsCache'
    BY <1>1, <1>3, <2>1, CacheWithList
  <2> QED BY <1>2, <2>1, <2>2, ListsReleased
<1>5. CASE ~(chain \in DOMAIN tokensChainsCache /\ tokensChainsCache[chain])
  <2>1. /\ UNCHANGED <<listChain, tokenList, tokensChainsCache, listQueue, kept, foreign>>
        /\ listFetches' = [listFetches EXCEPT ![f] =
             [@ EXCEPT !.chain = chain, !.cache = tokensChainsCache, !.step = "fetches"]]
    BY <1>5, Zenon DEF fetchBegins, listState
  <2> HIDE DEF chain
  <2>2. /\ listFetches' \in [ListCalls -> ListFetches \cup {NoFetch}]
        /\ \A g \in ListCalls : g # f => listFetches'[g] = listFetches[g]
        /\ listFetches'[f].cache = tokensChainsCache BY <1>1, <1>2, <1>3, <2>1 DEF ListFetches
  <2>3. FetchesHaveMutex' BY <1>1, <1>2, <2>1, <2>2 DEF FetchesHaveMutex
  <2> QED BY <1>1, <2>1, <2>2, <2>3 DEF ListsInv, TokenListsAreKept
<1> QED BY <1>4, <1>5

LEMMA ListFetched ==
  ASSUME ListsInv, NEW f \in ListCalls, NEW answers \in BOOLEAN, listFetched(f, answers)
  PROVE  ListsInv'
<1> DEFINE call == listFetches[f]
           chain == call.chain
<1>1. call # NoFetch /\ call.step = "fetches" /\ listFetches' = [listFetches EXCEPT ![f] = NoFetch]
      /\ foreign' = (chain # listChain) BY DEF listFetched
<1>2. /\ listQueue # <<>> /\ f = Head(listQueue) /\ kept \subseteq DOMAIN call.cache
      /\ call.cache \in Caches /\ chain \in SomeChains
  BY <1>1 DEF ListsInv, FetchesHaveMutex, ListFetches
<1>3. /\ listQueue' = Tail(listQueue) /\ listChain' = listChain
      /\ tokenList' = chain \/ tokenList' = NoList
      /\ \/ tokensChainsCache' = withList(call.cache, chain) /\ kept' = kept \cup {chain}
         \/ tokensChainsCache' = call.cache /\ kept' = kept BY DEF listFetched, listSettled
<1> HIDE DEF call, chain
<1>4. tokensChainsCache' \in Caches /\ kept' \subseteq DOMAIN tokensChainsCache'
  <2>1. /\ withList(call.cache, chain) \in Caches
        /\ DOMAIN withList(call.cache, chain) = DOMAIN call.cache \cup {chain}
    BY <1>2, CacheWithList
  <2>2. CASE tokensChainsCache' = withList(call.cache, chain) /\ kept' = kept \cup {chain}
    BY <1>2, <2>1, <2>2
  <2>3. CASE tokensChainsCache' = call.cache /\ kept' = kept BY <1>2, <2>3
  <2> QED BY <1>3, <2>2, <2>3
<1> QED BY <1>1, <1>2, <1>3, <1>4, ListsReleased DEF call

LEMMA ListsIdle ==
  ASSUME ListsInv, UNCHANGED <<listChain, tokenList, listFetches, listQueue, kept, foreign>>,
         tokensChainsCache' \in Caches, DOMAIN tokensChainsCache' = DOMAIN tokensChainsCache
  PROVE  ListsInv'
BY DEF ListsInv, FetchesHaveMutex, TokenListsAreKept

LEMMA ListsSteps ==
  ASSUME ListsInv, ListsNext
  PROVE  ListsInv'
<1>0. tokensChainsCache \in Caches /\ listFetches \in [ListCalls -> ListFetches \cup {NoFetch}]
  BY DEF ListsInv
<1>1. CASE stopList \/ updatePreventPollingOnNetworkRestart
  BY <1>0, <1>1, ListsIdle DEF stopList, updatePreventPollingOnNetworkRestart, listState, listCallVars
<1>2. CASE \E c \in FeeChains : cacheExpires(c)
  BY <1>2, <1>0, ListsIdle DEF cacheExpires, listCallVars, Caches
<1>3. CASE \E f \in ListCalls : clientIsGone(f)
  BY <1>3, <1>0 DEF clientIsGone, listState, ListFetches, FetchesHaveMutex, ListsInv, TokenListsAreKept
<1> QED BY <1>1, <1>2, <1>3, ListsWaited, ListsSwitched, FetchBegins, ListFetched DEF ListsNext

-----------------------------------------------------------------------------

LEMMA BalancesInitial ==
  ASSUME ChainPollsInit PROVE BalancesInv
<1>1. /\ balanceTokens = {} /\ balanceAccount \in BalanceAccounts /\ balancesDisabled \in BOOLEAN
      /\ contractBalances.tokens = {} /\ balanceHandle = balancesDisabled /\ stale = FALSE /\ missed = FALSE
      /\ IF balancesDisabled THEN balanceUpdates = <<>> /\ balanceTimers = 1
                             ELSE balanceUpdates = <<Update(TRUE)>> /\ balanceTimers = 0
  BY DEF ChainPollsInit
<1>2. balanceTokens \in ToldTokens /\ balanceAccount \in BalanceAccounts BY <1>1 DEF ToldTokens
<1> DEFINE first == Update(TRUE)
<1>21. first \in BalanceUpdates /\ first.poll /\ first.tokens = balanceTokens
  BY <1>2 DEF Update, BalanceUpdates
<1>22. ~balancesDisabled => balanceUpdates = <<first>> /\ balanceTimers = 0 BY <1>1
<1> HIDE DEF first
<1>3. CASE balancesDisabled
  <2>1. balanceUpdates = <<>> /\ balanceTimers = 1 /\ balanceHandle \in BOOLEAN BY <1>1, <1>3
  <2>2. balanceUpdates \in Seq(BalanceUpdates) /\ LastIsNewest BY <2>1 DEF LastIsNewest
  <2>3. BalancesFollowTokens BY <2>1, <1>1 DEF BalancesFollowTokens
  <2>4. balanceTimers \in Nat /\ (balanceHandle => balanceTimers > 0) BY <2>1
  <2> QED BY <1>1, <1>2, <2>1, <2>2, <2>3, <2>4 DEF BalancesInv
<1>4. CASE ~balancesDisabled
  <2>0. balanceUpdates = <<first>> BY <1>22, <1>4
  <2>1. /\ balanceUpdates \in Seq(BalanceUpdates) /\ Len(balanceUpdates) = 1 /\ balanceUpdates[1] = first
        /\ balanceUpdates # <<>> BY <1>21, <2>0
  <2>2. balanceTimers = 0 /\ 1 \in 1..Len(balanceUpdates) BY <1>22, <1>4, <2>1
  <2> QED BY <1>1, <1>2, <1>21, <1>4, <2>1, <2>2 DEF BalancesInv, LastIsNewest, BalancesFollowTokens
<1> QED BY <1>1, <1>3, <1>4

\* An update begins, or is left out; a poll that is due is in it, or sets its timer.
LEMMA UpdateBalances ==
  ASSUME BalancesInv, NEW poll \in BOOLEAN, NEW timers \in Nat, NEW update_ \in BalanceUpdates,
         updateBalances(poll, timers, update_),
         update_.tokens = balanceTokens', update_.poll = poll, balanceTokens' \in ToldTokens,
         poll => balanceTokens' = balanceTokens,
         poll \/ timers = balanceTimers,
         UNCHANGED <<balanceAccount, contractBalances, stale>>
  PROVE  BalancesInv'
<1>0. /\ balanceUpdates \in Seq(BalanceUpdates) /\ balanceTimers \in Nat
      /\ balanceHandle \in BOOLEAN /\ (balanceHandle => balanceTimers > 0)
      /\ LastIsNewest /\ BalancesFollowTokens /\ balanceAccount' \in BalanceAccounts
      /\ missed \in BOOLEAN /\ stale' \in BOOLEAN BY DEF BalancesInv
<1>1. CASE balancesDisabled
  <2>1. /\ balanceTimers' = IF poll THEN timers + 1 ELSE timers
        /\ balanceHandle' = (balanceHandle \/ poll)
        /\ missed' = (missed \/ update_.tokens # balanceTokens)
        /\ UNCHANGED balanceUpdates BY <1>1 DEF updateBalances
  <2>2. balanceTimers' \in Nat /\ (balanceHandle' => balanceTimers' > 0) /\ balanceHandle' \in BOOLEAN
    BY <1>0, <2>1
  <2>3. missed' \in BOOLEAN /\ (~missed' => ~missed /\ balanceTokens' = balanceTokens) BY <1>0, <2>1
  <2>4. LastIsNewest' BY <1>0, <2>1, <2>3 DEF LastIsNewest
  <2>5. BalancesFollowTokens' BY <1>0, <2>1, <2>3 DEF BalancesFollowTokens
  <2> QED BY <1>0, <2>1, <2>2, <2>3, <2>4, <2>5 DEF BalancesInv
<1>2. CASE ~balancesDisabled
  <2>1. /\ balanceUpdates' = Append(balanceUpdates, update_)
        /\ balanceTimers' = timers
        /\ balanceHandle' = (balanceHandle /\ ~poll)
        /\ missed' = FALSE BY <1>2 DEF updateBalances
  <2>2. /\ balanceUpdates' \in Seq(BalanceUpdates) /\ Len(balanceUpdates') = Len(balanceUpdates) + 1
        /\ balanceUpdates'[Len(balanceUpdates) + 1] = update_ /\ balanceUpdates' # <<>>
        /\ \A i \in 1..Len(balanceUpdates) : balanceUpdates'[i] = balanceUpdates[i]
        /\ Len(balanceUpdates) \in Nat BY <1>0, <2>1
  <2>3. LastIsNewest' BY <2>2 DEF LastIsNewest
  <2>4. BalancesFollowTokens'
    <3>1. balanceTimers' > 0 \/ \E i \in 1..Len(balanceUpdates') : balanceUpdates'[i].poll
      <4>1. CASE poll
        <5>1. Len(balanceUpdates) + 1 \in 1..Len(balanceUpdates') BY <2>2
        <5> QED BY <2>2, <4>1, <5>1
      <4>2. CASE ~poll BY <1>0, <2>1, <2>2, <4>2 DEF BalancesFollowTokens
      <4> QED BY <4>1, <4>2
    <3> QED BY <2>2, <3>1 DEF BalancesFollowTokens
  <2>5. balanceHandle' \in BOOLEAN /\ (balanceHandle' => balanceTimers' > 0) /\ balanceTimers' \in Nat
    BY <1>0, <2>1
  <2> QED BY <1>0, <2>1, <2>2, <2>3, <2>4, <2>5 DEF BalancesInv
<1> QED BY <1>1, <1>2

LEMMA BalancesAsked ==
  ASSUME BalancesInv,
         \/ \E tokens \in TokenSets : tokensStateChange(tokens)
         \/ pollBalances
         \/ \E ofHandle \in BOOLEAN : balanceTimerFires(ofHandle)
  PROVE  BalancesInv'
<1>0. /\ balanceTokens \in ToldTokens /\ balanceAccount \in BalanceAccounts /\ balanceTimers \in Nat
      /\ balanceHandle \in BOOLEAN /\ (balanceHandle => balanceTimers > 0) BY DEF BalancesInv
<1>1. /\ \A poll \in BOOLEAN : Update(poll) \in BalanceUpdates
      /\ Update(TRUE).tokens = balanceTokens /\ Update(TRUE).poll BY <1>0 DEF Update, BalanceUpdates
<1>2. ASSUME NEW tokens \in TokenSets, tokensStateChange(tokens)
      PROVE  BalancesInv'
  <2> DEFINE new == [Update(FALSE) EXCEPT !.tokens = tokens]
  <2>1. new \in BalanceUpdates /\ new.tokens = tokens /\ new.poll = FALSE /\ tokens \in ToldTokens
    BY <1>0 DEF Update, BalanceUpdates, ToldTokens
  <2>2. /\ balanceTokens' = tokens /\ updateBalances(FALSE, balanceTimers, new)
        /\ UNCHANGED <<balanceAccount, contractBalances, stale>> BY <1>2 DEF tokensStateChange
  <2> HIDE DEF new
  <2> QED BY <1>0, <2>1, <2>2, UpdateBalances
<1>3. CASE pollBalances
  <2>1. /\ updateBalances(TRUE, IF balanceHandle THEN balanceTimers - 1 ELSE balanceTimers, Update(TRUE))
        /\ UNCHANGED <<balanceTokens, balanceAccount, contractBalances, stale>>
    BY <1>3 DEF pollBalances
  <2>2. (IF balanceHandle THEN balanceTimers - 1 ELSE balanceTimers) \in Nat BY <1>0
  <2> QED BY <1>0, <1>1, <2>1, <2>2, UpdateBalances
<1>4. ASSUME NEW ofHandle \in BOOLEAN, balanceTimerFires(ofHandle)
      PROVE  BalancesInv'
  <2> DEFINE timers == balanceTimers - (IF balanceHandle /\ ~ofHandle THEN 2 ELSE 1)
  <2>1. /\ updateBalances(TRUE, timers, Update(TRUE))
        /\ UNCHANGED <<balanceTokens, balanceAccount, contractBalances, stale>>
        /\ balanceTimers > 0
        /\ IF ofHandle THEN balanceHandle ELSE balanceTimers > (IF balanceHandle THEN 1 ELSE 0)
    BY <1>4 DEF balanceTimerFires
  <2>2. timers \in Nat BY <1>0, <2>1
  <2> HIDE DEF timers
  <2> QED BY <1>0, <1>1, <2>1, <2>2, UpdateBalances
<1> QED BY <1>2, <1>3, <1>4

LEMMA BalancesUpdated ==
  ASSUME BalancesInv, NEW i \in 1..Len(balanceUpdates), balancesUpdated(i)
  PROVE  BalancesInv'
<1> DEFINE n == Len(balanceUpdates)
           left == [j \in 1..(n - 1) |->
                      IF j < i THEN [balanceUpdates[j] EXCEPT !.late = TRUE] ELSE balanceUpdates[j + 1]]
<1>0. /\ balanceUpdates \in Seq(BalanceUpdates) /\ balanceTimers \in Nat
      /\ balanceHandle \in BOOLEAN /\ (balanceHandle => balanceTimers > 0)
      /\ balanceTokens \in ToldTokens /\ balanceAccount \in BalanceAccounts
      /\ LastIsNewest /\ BalancesFollowTokens
      /\ n \in Nat /\ n >= 1 /\ i \in 1..n /\ balanceUpdates # <<>>
      /\ \A j \in 1..n : balanceUpdates[j] \in BalanceUpdates BY DEF BalancesInv
<1>1. /\ contractBalances'.tokens = balanceUpdates[i].tokens /\ stale' = balanceUpdates[i].late
      /\ balanceUpdates' = left
      /\ balanceTimers' = balanceTimers + (IF balanceUpdates[i].poll THEN 1 ELSE 0)
      /\ balanceHandle' = (balanceHandle \/ balanceUpdates[i].poll)
      /\ UNCHANGED <<balanceTokens, balanceAccount, missed>> BY DEF balancesUpdated
<1>2. \A j \in 1..(n - 1) :
        /\ j < i => left[j] = [balanceUpdates[j] EXCEPT !.late = TRUE]
        /\ ~(j < i) => left[j] = balanceUpdates[j + 1]
        /\ j \in 1..n /\ j + 1 \in 1..n BY <1>0
<1>3. \A j \in 1..(n - 1) :
        /\ left[j] \in BalanceUpdates
        /\ j < i => left[j].late /\ left[j].poll = balanceUpdates[j].poll
  <2>1. SUFFICES ASSUME NEW j \in 1..(n - 1)
                 PROVE  /\ left[j] \in BalanceUpdates
                        /\ j < i => left[j].late /\ left[j].poll = balanceUpdates[j].poll OBVIOUS
  <2>2. balanceUpdates[j] \in BalanceUpdates /\ balanceUpdates[j + 1] \in BalanceUpdates
    BY <1>0, <1>2
  <2>3. CASE j < i
    <3>1. left[j] = [balanceUpdates[j] EXCEPT !.late = TRUE] BY <1>2, <2>3
    <3> HIDE DEF left, n
    <3> QED BY <2>2, <3>1 DEF BalanceUpdates
  <2>4. CASE ~(j < i) BY <1>2, <2>2, <2>4
  <2> QED BY <2>3, <2>4
<1>4. left \in Seq(BalanceUpdates) /\ Len(left) = n - 1 /\ (left = <<>> <=> n = 1)
  <2>1. left = [j \in 1..(n - 1) |-> left[j]] /\ n - 1 \in Nat BY <1>0
  <2> HIDE DEF left, n
  <2>2. left \in [1..(n - 1) -> BalanceUpdates] BY <1>3, <2>1
  <2> QED BY <1>0, <2>1, <2>2
<1> HIDE DEF left, n
<1>5. LastIsNewest'
  <2>1. SUFFICES ASSUME balanceUpdates' # <<>>, ~balanceUpdates'[Len(balanceUpdates')].late, ~missed'
                 PROVE  balanceUpdates'[Len(balanceUpdates')].tokens = balanceTokens'
    BY DEF LastIsNewest
  <2>2. n - 1 \in 1..(n - 1) /\ n # 1 /\ Len(balanceUpdates') = n - 1 BY <1>0, <1>1, <1>4, <2>1
  <2>3. ~(n - 1 < i) BY <1>1, <1>3, <2>1, <2>2
  <2>4. left[n - 1] = balanceUpdates[n]
    <3>1. left[n - 1] = balanceUpdates[(n - 1) + 1] BY <1>2, <2>2, <2>3
    <3> QED BY <1>0, <3>1
  <2> QED BY <1>0, <1>1, <2>1, <2>2, <2>4 DEF LastIsNewest, n
<1>6. BalancesFollowTokens'
  <2>1. balanceUpdates' = <<>> /\ ~stale' /\ ~missed' => contractBalances'.tokens = balanceTokens'
    <3>1. SUFFICES ASSUME balanceUpdates' = <<>>, ~stale', ~missed' PROVE contractBalances'.tokens = balanceTokens'
      OBVIOUS
    <3>2. n = 1 /\ i = n BY <1>0, <1>1, <1>4, <3>1
    <3> QED BY <1>0, <1>1, <3>1, <3>2 DEF LastIsNewest, n
  <2>2. balanceTimers' > 0 \/ \E j \in 1..Len(balanceUpdates') : balanceUpdates'[j].poll
    <3>1. CASE balanceTimers > 0 \/ balanceUpdates[i].poll BY <1>0, <1>1, <3>1
    <3>2. CASE ~(balanceTimers > 0 \/ balanceUpdates[i].poll)
      <4>1. PICK j \in 1..n : balanceUpdates[j].poll BY <1>0, <3>2 DEF BalancesFollowTokens, n
      <4>2. CASE j < i BY <1>0, <4>2, <1>1, <1>3, <1>4, <4>1
      <4>3. CASE j > i
        <5>1. j - 1 \in 1..(n - 1) /\ ~(j - 1 < i) /\ (j - 1) + 1 = j BY <1>0, <4>3
        <5>2. left[j - 1] = balanceUpdates[j] BY <1>2, <5>1
        <5> QED BY <1>1, <1>4, <4>1, <5>1, <5>2
      <4>4. j # i BY <3>2, <4>1
      <4> QED BY <1>0, <4>2, <4>3, <4>4
    <3> QED BY <3>1, <3>2
  <2> QED BY <2>1, <2>2 DEF BalancesFollowTokens
<1>8. stale' \in BOOLEAN /\ missed' \in BOOLEAN BY <1>0, <1>1 DEF BalanceUpdates, BalancesInv
<1>7. balanceTimers' \in Nat /\ (balanceHandle' => balanceTimers' > 0) /\ balanceHandle' \in BOOLEAN
  BY <1>0, <1>1 DEF BalanceUpdates
<1> QED BY <1>0, <1>1, <1>4, <1>5, <1>6, <1>7, <1>8 DEF BalancesInv

LEMMA BalancesIdle ==
  ASSUME BalancesInv, balanceAccount' \in BalanceAccounts,
         UNCHANGED <<balanceTokens, contractBalances, balanceUpdates, balanceTimers, balanceHandle,
                     stale, missed>>
  PROVE  BalancesInv'
BY DEF BalancesInv, LastIsNewest, BalancesFollowTokens

LEMMA BalancesSteps ==
  ASSUME BalancesInv, BalancesNext
  PROVE  BalancesInv'
BY BalancesIdle, BalancesAsked, BalancesUpdated DEF switchBalances, balanceAccountChanges, BalancesInv,
   BalancesNext

LEMMA FeesUnchanged == FeesInv /\ UNCHANGED feeVars => FeesInv'
BY DEF FeesInv, feeVars, feeState, feePolling, feeHistory, FetchesAreOwn, OthersAreTakenUp, PollingGoesOn,
   FeesFollowNetwork, startsPolling, isPolling

LEMMA ListsUnchanged == ListsInv /\ UNCHANGED tokenListVars => ListsInv'
BY DEF ListsInv, tokenListVars, listState, listTiming, listCallVars, FetchesHaveMutex, TokenListsAreKept

LEMMA BalancesUnchanged == BalancesInv /\ UNCHANGED balanceVars => BalancesInv'
BY DEF BalancesInv, balanceVars, LastIsNewest, BalancesFollowTokens

LEMMA PollsUnchanged ==
  FeesInv /\ ListsInv /\ BalancesInv /\ UNCHANGED chainPollsVars => FeesInv' /\ ListsInv' /\ BalancesInv'
BY FeesUnchanged, ListsUnchanged, BalancesUnchanged DEF chainPollsVars

-----------------------------------------------------------------------------

LEMMA PollsInitial == Init => FeesInv /\ ListsInv /\ BalancesInv
BY NoFetchAssumption, FeesInitial, ListsInitial, BalancesInitial DEF Init

LEMMA PollsSteps ==
  ASSUME FeesInv, ListsInv, BalancesInv, [Next]_allVars
  PROVE  FeesInv' /\ ListsInv' /\ BalancesInv'
BY NoFetchAssumption, FeesSteps, FeesUnchanged, ListsSteps, ListsUnchanged, BalancesSteps, BalancesUnchanged,
   PollsUnchanged DEF chainSteps, namesSteps, assetSteps, answerSteps, editSteps, profileSteps, allVars,
   chainVars, Next, networkSteps

(***************************************************************************)
(* Whatever chains, tokens and calls there are, polls of gas fees go on    *)
(* for who wants them and ask the selected network, lists of tokens that   *)
(* were fetched are kept and the one shown is of the selected network, and *)
(* the balances listed are of the tokens told last, as soon as what was    *)
(* asked before has been answered.                                         *)
(***************************************************************************)
THEOREM PollsAlwaysFollow == Spec => []PollsFollowNetwork
<1>1. FeesInv /\ ListsInv /\ BalancesInv => PollsFollowNetwork
  BY DEF FeesInv, ListsInv, BalancesInv, PollsFollowNetwork
<1> QED BY <1>1, PollsInitial, PollsSteps, PTL DEF Spec

-----------------------------------------------------------------------------
(* Edited transactions                                                     *)

Pollers ==
  [running : BOOLEAN, timeout : BOOLEAN, strayTimers : Nat, stoppedInUpdate : BOOLEAN,
   rejected : BOOLEAN]
FeeUpdates == [step : {"idle", "fetching", "updating"}, left : SUBSET EditedTxs, rejected : BOOLEAN]
Incidents == {"edited late", "overwritten", "raced", "told late"}
EditCalls == [tx : EditedTxs, meta : TxMetas]

\* Whether there will be another update: timers that will fire, and updates that set one.
Going == {u \in Updates : goesOn(u)}
timersOf(p) == p.strayTimers + (IF p.timeout THEN 1 ELSE 0)

EstimatesInv ==
  /\ IsFiniteSet(Going)
  /\ ~poller.stoppedInUpdate => poller.strayTimers = 0
  /\ EstimatesGoOn

\* What is listed, and was not touched before it was added.
ListedInTurn(t) ==
  /\ isListed(t) <=> confirming[t] \notin {"idle", "gone"}
  /\ confirming[t] = "idle" =>
       told[t] = {} /\ confirmedAs[t] = Given /\ \A e \in Editors : editing[e].tx # t

\* What is signed is taken from the list, which holds what was confirmed.
SignedWasConfirmed(t) ==
  /\ confirming[t] = "approving" /\ "edited late" \notin incidents[t] =>
       metas[t].params = confirmedAs[t]
  /\ confirming[t] \in {"signing", "publishing"} =>
       signing[t] # NoTxMeta /\ signing[t].status # "unapproved"
  /\ confirming[t] \in {"signing", "publishing", "done"} =>
       /\ "edited late" \notin incidents[t] => signing[t].params = confirmedAs[t]
       /\ "overwritten" \notin incidents[t] =>
            metas[t].params = signing[t].params /\ metas[t].status # "unapproved"

SimulatedIsOfCall(t) ==
  confirming[t] = "asking" /\ "raced" \notin incidents[t] =>
    \/ metas[t].simulation = metas[t].params.call /\ simulating[t] = {}
    \/ metas[t].simulation = NoSimulation /\ simulating[t] = {metas[t].params.call}

\* Who read a record and will write it back has the notes that were made.
NotesAreCarried(t) ==
  "told late" \notin incidents[t] =>
    /\ isListed(t) => metas[t].notes = told[t]
    /\ \A e \in Editors : editing[e].tx = t => editing[e].meta.notes = told[t]
    /\ confirming[t] \in {"signing", "publishing"} => signing[t].notes = told[t]

TransactionInv(t) ==
  ListedInTurn(t) /\ SignedWasConfirmed(t) /\ SimulatedIsOfCall(t) /\ NotesAreCarried(t)

EditsInv ==
  EditsTypeOK /\ EstimatesInv /\ \A t \in EditedTxs : TransactionInv(t)

-----------------------------------------------------------------------------

LEMMA EditsTypes ==
  EditsTypeOK <=>
    /\ metas \in [EditedTxs -> TxMetas \cup {NoTxMeta}]
    /\ confirming \in [EditedTxs ->
         {"idle", "asking", "approving", "signing", "publishing", "done", "gone"}]
    /\ signing \in [EditedTxs -> TxMetas \cup {NoTxMeta}]
    /\ editing \in [Editors -> EditCalls \cup {NoEdit}]
    /\ simulating \in [EditedTxs -> SUBSET EditVersions]
    /\ poller \in Pollers /\ feeUpdates \in [Updates -> FeeUpdates]
    /\ edits \in 0..MaxEdits
    /\ confirmedAs \in [EditedTxs -> TxParams]
    /\ told \in [EditedTxs -> SUBSET TxNotes]
    /\ incidents \in [EditedTxs -> SUBSET Incidents]
BY DEF EditsTypeOK, EditCalls, Pollers, FeeUpdates, Incidents

\* In every state of these types, the number of loops is a natural number.
LEMMA LoopsCounted ==
  ASSUME poller \in Pollers, IsFiniteSet(Going)
  PROVE  /\ Cardinality(Going) \in Nat /\ timersOf(poller) \in Nat
         /\ EstimatesGoOn <=>
              /\ poller.running <=> unapprovedIn(metas) # {}
              /\ poller.running /\ ~poller.rejected => timersOf(poller) + Cardinality(Going) > 0
              /\ ~poller.stoppedInUpdate =>
                   timersOf(poller) + Cardinality(Going) <= (IF poller.running THEN 1 ELSE 0)
BY FS_CardinalityType DEF timersOf, Pollers, EstimatesGoOn, Going

LEMMA GoingGrows ==
  ASSUME IsFiniteSet(Going), feeUpdates \in [Updates -> FeeUpdates], NEW u \in Updates,
         feeUpdates[u] = NoFeeUpdate, NEW left_ \in SUBSET EditedTxs,
         feeUpdates' = [feeUpdates EXCEPT ![u] = [NoFeeUpdate EXCEPT !.step = "fetching", !.left = left_]]
  PROVE  /\ feeUpdates' \in [Updates -> FeeUpdates]
         /\ IsFiniteSet(Going') /\ Cardinality(Going') = Cardinality(Going) + 1
<1> DEFINE new == [NoFeeUpdate EXCEPT !.step = "fetching", !.left = left_]
<1>1. new \in FeeUpdates /\ ~new.rejected /\ new # NoFeeUpdate BY DEF FeeUpdates, NoFeeUpdate
<1>2. feeUpdates' = [feeUpdates EXCEPT ![u] = new] OBVIOUS
<1> HIDE DEF new
<1>3. feeUpdates' \in [Updates -> FeeUpdates] BY <1>1, <1>2
<1>4. u \notin Going /\ Going' = Going \cup {u} BY <1>1, <1>2 DEF Going, goesOn
<1> QED BY <1>3, <1>4, FS_AddElement

\* Of an update: it goes on as it did, or does not any more.
LEMMA GoingShrinks ==
  ASSUME IsFiniteSet(Going), feeUpdates \in [Updates -> FeeUpdates], NEW u \in Updates, NEW next_ \in FeeUpdates,
         feeUpdates' = [feeUpdates EXCEPT ![u] = next_],
         next_ # NoFeeUpdate /\ ~next_.rejected => goesOn(u)
  PROVE  /\ feeUpdates' \in [Updates -> FeeUpdates]
         /\ IsFiniteSet(Going')
         /\ IF goesOn(u) /\ ~(next_ # NoFeeUpdate /\ ~next_.rejected)
            THEN Cardinality(Going) = Cardinality(Going') + 1
            ELSE Going' = Going
<1>1. feeUpdates' \in [Updates -> FeeUpdates] OBVIOUS
<1>2. CASE goesOn(u) /\ ~(next_ # NoFeeUpdate /\ ~next_.rejected)
  <2>1. Going' = Going \ {u} /\ u \in Going BY <1>2 DEF Going, goesOn
  <2>2. Cardinality(Going) \in Nat /\ IsFiniteSet(Going') /\ Cardinality(Going') = Cardinality(Going) - 1
    BY <2>1, FS_RemoveElement, FS_CardinalityType
  <2> QED BY <1>1, <1>2, <2>2
<1>3. CASE ~(goesOn(u) /\ ~(next_ # NoFeeUpdate /\ ~next_.rejected)) BY <1>3, <1>1 DEF Going, goesOn
<1> QED BY <1>2, <1>3

LEMMA ListChanges ==
  ASSUME poller \in Pollers, feeUpdates \in [Updates -> FeeUpdates], EstimatesInv,
         listChanged(metas')
  PROVE  poller' \in Pollers /\ feeUpdates' \in [Updates -> FeeUpdates] /\ EstimatesInv'
<1> DEFINE unapproved == unapprovedIn(metas')
           n == Cardinality(Going)
<1>0. /\ n \in Nat /\ timersOf(poller) \in Nat /\ IsFiniteSet(Going)
      /\ ~poller.stoppedInUpdate => poller.strayTimers = 0
      /\ poller.running /\ ~poller.rejected => timersOf(poller) + n > 0
      /\ ~poller.stoppedInUpdate => timersOf(poller) + n <= (IF poller.running THEN 1 ELSE 0)
  BY LoopsCounted DEF EstimatesInv
<1>1. CASE UNCHANGED <<poller, feeUpdates>> /\ (unapproved # {} <=> poller.running)
  BY <1>0, <1>1 DEF Going, goesOn, EstimatesGoOn, timersOf, EstimatesInv
<1>2. ASSUME unapproved # {}, ~poller.running, NEW u \in Updates, feeUpdates[u] = NoFeeUpdate,
             feeUpdates' = [feeUpdates EXCEPT ![u] =
                              [NoFeeUpdate EXCEPT !.step = "fetching", !.left = unapproved]],
             poller' = [poller EXCEPT !.running = TRUE, !.rejected = FALSE]
      PROVE  poller' \in Pollers /\ feeUpdates' \in [Updates -> FeeUpdates] /\ EstimatesInv'
  <2>1. /\ poller' \in Pollers /\ poller'.running /\ ~poller'.rejected
        /\ poller'.stoppedInUpdate = poller.stoppedInUpdate
        /\ poller'.strayTimers = poller.strayTimers /\ poller'.timeout = poller.timeout
    BY <1>2 DEF Pollers
  <2>2. unapproved \in SUBSET EditedTxs BY DEF unapprovedIn
  <2>3. feeUpdates' \in [Updates -> FeeUpdates] /\ IsFiniteSet(Going') /\ Cardinality(Going') = n + 1
    BY <1>0, <1>2, <2>2, GoingGrows
  <2>4. timersOf(poller') = timersOf(poller) BY <2>1 DEF timersOf
  <2>5. EstimatesGoOn' <=>
          /\ poller'.running <=> unapproved # {}
          /\ poller'.running /\ ~poller'.rejected => timersOf(poller') + Cardinality(Going') > 0
          /\ ~poller'.stoppedInUpdate =>
               timersOf(poller') + Cardinality(Going') <= (IF poller'.running THEN 1 ELSE 0)
    BY <2>1, <2>3 DEF EstimatesGoOn, timersOf, Going
  <2> HIDE DEF unapproved, n
  <2>6. EstimatesGoOn' BY <1>0, <1>2, <2>1, <2>3, <2>4, <2>5
  <2> QED BY <1>0, <2>1, <2>3, <2>6 DEF EstimatesInv
<1>3. CASE /\ unapproved = {} /\ poller.running /\ UNCHANGED feeUpdates
           /\ poller' = [poller EXCEPT
                !.running = FALSE, !.timeout = FALSE,
                !.stoppedInUpdate = @ \/ \E u \in Updates : goesOn(u)]
  <2>1. /\ ~poller'.running /\ ~poller'.timeout
        /\ poller'.stoppedInUpdate <=> poller.stoppedInUpdate \/ Going # {}
        /\ poller'.strayTimers = poller.strayTimers BY <1>3 DEF Pollers, Going
  <2>2. poller' \in Pollers BY <1>3 DEF Pollers
  <2>3. Going' = Going /\ IsFiniteSet(Going') BY <1>0, <1>3 DEF Going, goesOn
  <2>4. ~poller'.stoppedInUpdate => poller'.strayTimers = 0 /\ n = 0 BY <1>0, <2>1, FS_EmptySet
  <2>5. timersOf(poller') = poller'.strayTimers BY <2>1, <2>2 DEF timersOf, Pollers
  <2>6. EstimatesGoOn' BY <1>0, <1>3, <2>1, <2>3, <2>4, <2>5 DEF EstimatesGoOn, timersOf, Going
  <2> QED BY <1>3, <2>2, <2>3, <2>4, <2>6 DEF EstimatesInv
<1> QED BY <1>1, <1>2, <1>3 DEF listChanged

-----------------------------------------------------------------------------

\* The list is as it was, and the loops are as many.
LEMMA LoopsKept ==
  ASSUME poller \in Pollers, EstimatesInv, poller' \in Pollers, IsFiniteSet(Going'),
         unapprovedIn(metas)' = unapprovedIn(metas),
         poller'.running = poller.running, poller'.stoppedInUpdate = poller.stoppedInUpdate,
         poller.rejected => poller'.rejected,
         ~poller.stoppedInUpdate => poller'.strayTimers = 0,
         \/ timersOf(poller') + Cardinality(Going') = timersOf(poller) + Cardinality(Going)
         \/ /\ poller'.rejected
            /\ timersOf(poller') + Cardinality(Going') <= timersOf(poller) + Cardinality(Going)
  PROVE  EstimatesInv'
<1> DEFINE n == timersOf(poller) + Cardinality(Going)
           m == timersOf(poller') + Cardinality(Going')
<1>1. /\ n \in Nat
      /\ poller.running <=> unapprovedIn(metas) # {}
      /\ poller.running /\ ~poller.rejected => n > 0
      /\ ~poller.stoppedInUpdate => n <= (IF poller.running THEN 1 ELSE 0)
  BY LoopsCounted DEF EstimatesInv
<1>2. Cardinality(Going') \in Nat /\ timersOf(poller') \in Nat
  BY FS_CardinalityType DEF timersOf, Pollers
<1>3. m \in Nat /\ (m = n \/ (poller'.rejected /\ m <= n)) BY <1>2
<1> HIDE DEF n
<1>4. (poller'.running /\ ~poller'.rejected => m > 0)
      /\ (~poller'.stoppedInUpdate => m <= (IF poller'.running THEN 1 ELSE 0)) BY <1>1, <1>3
<1>5. EstimatesGoOn' BY <1>1, <1>4 DEF EstimatesGoOn, timersOf, Going
<1> QED BY <1>5 DEF EstimatesInv

\* The next timer is one loop more.
LEMMA TimerSet ==
  ASSUME NEW p \in Pollers
  PROVE  /\ timerSet(p) \in Pollers /\ timersOf(timerSet(p)) = timersOf(p) + 1
         /\ timerSet(p).running = p.running /\ timerSet(p).stoppedInUpdate = p.stoppedInUpdate
         /\ timerSet(p).rejected = p.rejected
         /\ timersOf(p) = 0 => timerSet(p).strayTimers = 0
<1>1. p.strayTimers \in Nat /\ p.timeout \in BOOLEAN BY DEF Pollers
<1>2. CASE p.timeout
  <2>1. timerSet(p) = [p EXCEPT !.timeout = TRUE, !.strayTimers = p.strayTimers + 1]
    BY <1>2 DEF timerSet
  <2>3. p.strayTimers + 1 \in Nat BY <1>1
  <2>2. /\ timerSet(p) \in Pollers
        /\ timerSet(p).strayTimers = p.strayTimers + 1 /\ timerSet(p).timeout
        /\ timerSet(p).running = p.running /\ timerSet(p).stoppedInUpdate = p.stoppedInUpdate
        /\ timerSet(p).rejected = p.rejected BY <2>1, <2>3 DEF Pollers
  <2> QED BY <1>1, <1>2, <2>2 DEF timersOf
<1>3. CASE ~p.timeout
  <2>1. timerSet(p) = [p EXCEPT !.timeout = TRUE, !.strayTimers = @] BY <1>3 DEF timerSet
  <2>2. /\ timerSet(p) \in Pollers
        /\ timerSet(p).strayTimers = p.strayTimers /\ timerSet(p).timeout
        /\ timerSet(p).running = p.running /\ timerSet(p).stoppedInUpdate = p.stoppedInUpdate
        /\ timerSet(p).rejected = p.rejected BY <2>1 DEF Pollers
  <2> QED BY <1>1, <1>3, <2>2 DEF timersOf
<1> QED BY <1>2, <1>3

LEMMA TimerFires ==
  ASSUME EditsTypeOK, EstimatesInv, onTimeout
  PROVE  poller' \in Pollers /\ feeUpdates' \in [Updates -> FeeUpdates] /\ EstimatesInv'
<1> DEFINE n == Cardinality(Going)
<1>0. /\ poller \in Pollers /\ feeUpdates \in [Updates -> FeeUpdates]
      /\ IsFiniteSet(Going) /\ n \in Nat
      /\ ~poller.stoppedInUpdate => poller.strayTimers = 0 /\ timersOf(poller) + n <= 1
  BY EditsTypes, LoopsCounted DEF EstimatesInv
<1>1. PICK fired \in
       (IF poller.timeout THEN {[poller EXCEPT !.timeout = FALSE]} ELSE {}) \cup
       (IF poller.strayTimers > 0 THEN {[poller EXCEPT !.strayTimers = @ - 1]} ELSE {}) :
         \/ /\ poller' = timerSet(fired)
            /\ UNCHANGED feeUpdates
         \/ /\ poller' = fired
            /\ \E u \in Updates :
               /\ feeUpdates[u] = NoFeeUpdate
               /\ feeUpdates' = [feeUpdates EXCEPT ![u] =
                    [NoFeeUpdate EXCEPT !.step = "fetching", !.left = unapprovedIn(metas)]]
  BY DEF onTimeout
<1>2. /\ fired \in Pollers /\ timersOf(poller) = timersOf(fired) + 1 /\ timersOf(fired) \in Nat
      /\ fired.running = poller.running /\ fired.stoppedInUpdate = poller.stoppedInUpdate
      /\ fired.rejected = poller.rejected
  <2>1. CASE poller.timeout /\ fired = [poller EXCEPT !.timeout = FALSE]
    <3>1. /\ fired \in Pollers /\ ~fired.timeout /\ fired.strayTimers = poller.strayTimers
          /\ fired.running = poller.running /\ fired.stoppedInUpdate = poller.stoppedInUpdate
          /\ fired.rejected = poller.rejected BY <1>0, <2>1 DEF Pollers
    <3>2. poller.strayTimers \in Nat BY <1>0 DEF Pollers
    <3> QED BY <2>1, <3>1, <3>2 DEF timersOf
  <2>2. CASE poller.strayTimers > 0 /\ fired = [poller EXCEPT !.strayTimers = @ - 1]
    BY <1>0, <2>2 DEF Pollers, timersOf
  <2> QED BY <1>1, <2>1, <2>2
<1>3. ~poller.stoppedInUpdate => timersOf(fired) = 0 BY <1>0, <1>2
<1>4. unapprovedIn(metas)' = unapprovedIn(metas) BY DEF onTimeout, unapprovedIn
<1>5. CASE poller' = timerSet(fired) /\ UNCHANGED feeUpdates
  BY <1>5, <1>2, <1>3, TimerSet, <1>0, <1>4, LoopsKept DEF Going, goesOn
<1>6. ASSUME poller' = fired, NEW u \in Updates, feeUpdates[u] = NoFeeUpdate,
             feeUpdates' = [feeUpdates EXCEPT ![u] =
                    [NoFeeUpdate EXCEPT !.step = "fetching", !.left = unapprovedIn(metas)]]
      PROVE  poller' \in Pollers /\ feeUpdates' \in [Updates -> FeeUpdates] /\ EstimatesInv'
  <2>1. unapprovedIn(metas) \in SUBSET EditedTxs BY DEF unapprovedIn
  <2>2. /\ feeUpdates' \in [Updates -> FeeUpdates]
        /\ IsFiniteSet(Going') /\ Cardinality(Going') = n + 1 BY <1>0, <1>6, <2>1, GoingGrows
  <2>3. timersOf(poller') + Cardinality(Going') = timersOf(poller) + n BY <1>0, <1>2, <1>6, <2>2
  <2>4. ~poller.stoppedInUpdate => poller'.strayTimers = 0 BY <1>2, <1>3, <1>6 DEF timersOf, Pollers
  <2> QED BY <1>0, <1>2, <1>4, <1>6, <2>2, <2>3, <2>4, LoopsKept
<1> QED BY <1>1, <1>5, <1>6

LEMMA EstimatesComing ==
  ASSUME EditsTypeOK, EstimatesInv, NEW u \in Updates,
         gasFeesFetched(u) \/ \E t \in EditedTxs, isNew \in BOOLEAN : estimatesWritten(u, t, isNew)
  PROVE  poller' \in Pollers /\ feeUpdates' \in [Updates -> FeeUpdates] /\ EstimatesInv'
<1> DEFINE n == Cardinality(Going)
<1>0. /\ poller \in Pollers /\ feeUpdates \in [Updates -> FeeUpdates] /\ feeUpdates[u] \in FeeUpdates
      /\ IsFiniteSet(Going) /\ n \in Nat /\ timersOf(poller) \in Nat
      /\ ~poller.stoppedInUpdate => poller.strayTimers = 0 /\ timersOf(poller) + n <= 1
  BY EditsTypes, LoopsCounted DEF EstimatesInv
<1>1. NoFeeUpdate \in FeeUpdates BY DEF NoFeeUpdate, FeeUpdates
<1>4. unapprovedIn(metas)' = unapprovedIn(metas)
  BY DEF gasFeesFetched, estimatesWritten, unapprovedIn
<1> HIDE DEF n
<1>5. CASE feeUpdates[u].step = "fetching" /\ feeUpdates' = [feeUpdates EXCEPT ![u].step = "updating"]
           /\ UNCHANGED poller
  <2> DEFINE next == [feeUpdates[u] EXCEPT !.step = "updating"]
  <2>1. next \in FeeUpdates /\ next.rejected = feeUpdates[u].rejected /\ feeUpdates[u] # NoFeeUpdate
        /\ next # NoFeeUpdate /\ feeUpdates' = [feeUpdates EXCEPT ![u] = next]
    BY <1>0, <1>5 DEF FeeUpdates, NoFeeUpdate
  <2> HIDE DEF next
  <2>2. goesOn(u) <=> ~next.rejected BY <2>1 DEF goesOn
  <2>3. feeUpdates' \in [Updates -> FeeUpdates] /\ IsFiniteSet(Going') /\ Going' = Going
    BY <1>0, <2>1, <2>2, GoingShrinks
  <2> QED BY <1>0, <1>4, <1>5, <2>3, LoopsKept
<1>6. CASE feeUpdates' = [feeUpdates EXCEPT ![u] = NoFeeUpdate]
           /\ poller' = [poller EXCEPT !.rejected = TRUE]
  <2>1. feeUpdates' \in [Updates -> FeeUpdates] /\ IsFiniteSet(Going')
        /\ (Cardinality(Going) = Cardinality(Going') + 1 \/ Going' = Going)
    BY <1>0, <1>1, <1>6, GoingShrinks
  <2>2. Cardinality(Going') \in Nat /\ Cardinality(Going') <= n
    BY <1>0, <2>1, FS_CardinalityType DEF n
  <2>3. /\ poller' \in Pollers /\ timersOf(poller') = timersOf(poller)
        /\ poller'.running = poller.running /\ poller'.stoppedInUpdate = poller.stoppedInUpdate
        /\ poller'.rejected /\ poller'.strayTimers = poller.strayTimers
    BY <1>0, <1>6 DEF Pollers, timersOf
  <2>4. timersOf(poller') + Cardinality(Going') <= timersOf(poller) + Cardinality(Going)
    BY <1>0, <2>2, <2>3 DEF n
  <2> QED BY <1>0, <1>4, <2>1, <2>3, <2>4, LoopsKept
<1>7. ASSUME NEW t \in EditedTxs, NEW isNew \in BOOLEAN, estimatesWritten(u, t, isNew)
      PROVE  poller' \in Pollers /\ feeUpdates' \in [Updates -> FeeUpdates] /\ EstimatesInv'
  <2> DEFINE rejected == feeUpdates[u].rejected \/ (isNew /\ metas[t] = NoTxMeta)
             left == feeUpdates[u].left \ {t}
             next == IF left = {} THEN NoFeeUpdate ELSE [feeUpdates[u] EXCEPT !.left = left, !.rejected = rejected]
  <2>1. /\ feeUpdates[u].step = "updating"
        /\ feeUpdates' = [feeUpdates EXCEPT ![u] = next]
        /\ poller' = IF left = {} /\ ~rejected THEN timerSet(poller)
                     ELSE [poller EXCEPT !.rejected = @ \/ rejected] BY <1>7 DEF estimatesWritten
  <2>2. next \in FeeUpdates /\ (left # {} => (next.rejected <=> rejected) /\ next # NoFeeUpdate)
    BY <1>0, <1>1, <2>1 DEF FeeUpdates, NoFeeUpdate
  <2>3. goesOn(u) <=> ~feeUpdates[u].rejected BY <2>1 DEF goesOn, NoFeeUpdate
  <2>4. rejected \in BOOLEAN /\ (feeUpdates[u].rejected => rejected) BY <1>0 DEF FeeUpdates
  <2>6. left = {} => next = NoFeeUpdate OBVIOUS
  <2> HIDE DEF next, left, rejected
  <2>5. feeUpdates' \in [Updates -> FeeUpdates] /\ IsFiniteSet(Going')
        /\ IF goesOn(u) /\ ~(next # NoFeeUpdate /\ ~next.rejected)
            THEN Cardinality(Going) = Cardinality(Going') + 1
            ELSE Going' = Going BY <2>2, <2>3, <2>4, <2>6, <1>0, <2>1, GoingShrinks
  <2>7. Cardinality(Going') \in Nat /\ Cardinality(Going') <= n
    BY <1>0, <2>5, FS_CardinalityType DEF n
  <2>8. CASE left = {} /\ ~rejected
    <3>1. n = Cardinality(Going') + 1 BY <2>3, <2>4, <2>5, <2>6, <2>8 DEF n
    <3>2. ~poller.stoppedInUpdate => timersOf(poller) = 0 BY <1>0, <2>7, <3>1
    <3>3. /\ poller' \in Pollers /\ timersOf(poller') = timersOf(poller) + 1
          /\ poller'.running = poller.running /\ poller'.stoppedInUpdate = poller.stoppedInUpdate
          /\ poller'.rejected = poller.rejected
          /\ ~poller.stoppedInUpdate => poller'.strayTimers = 0 BY <1>0, <2>1, <2>8, <3>2, TimerSet
    <3>4. timersOf(poller') + Cardinality(Going') = timersOf(poller) + Cardinality(Going)
      BY <1>0, <2>7, <3>1, <3>3 DEF n
    <3> QED BY <1>0, <1>4, <2>5, <3>3, <3>4, LoopsKept
  <2>9. CASE ~(left = {} /\ ~rejected)
    <3>1. /\ poller' \in Pollers /\ timersOf(poller') = timersOf(poller)
          /\ poller'.running = poller.running /\ poller'.stoppedInUpdate = poller.stoppedInUpdate
          /\ poller'.rejected = (poller.rejected \/ rejected) /\ poller'.strayTimers = poller.strayTimers
      BY <1>0, <2>1, <2>4, <2>9 DEF Pollers, timersOf
    <3>2. CASE rejected
      <4>1. timersOf(poller') + Cardinality(Going') <= timersOf(poller) + Cardinality(Going)
        BY <1>0, <2>7, <3>1 DEF n
      <4> QED BY <1>0, <1>4, <2>5, <3>1, <3>2, <4>1, LoopsKept
    <3>3. CASE ~rejected BY <2>2, <2>4, <2>5, <2>9, <3>3, <1>0, <1>4, <3>1, LoopsKept
    <3> QED BY <3>2, <3>3
  <2> QED BY <2>8, <2>9
<1> QED BY <1>5, <1>6, <1>7 DEF gasFeesFetched

-----------------------------------------------------------------------------

\* The invariant of a transaction that a step does not touch.
LEMMA Untouched ==
  ASSUME NEW o \in EditedTxs, TransactionInv(o),
         metas'[o] = metas[o], confirming'[o] = confirming[o], signing'[o] = signing[o],
         simulating'[o] = simulating[o], confirmedAs'[o] = confirmedAs[o], told'[o] = told[o],
         incidents'[o] = incidents[o],
         \A e \in Editors : editing'[e].tx = o => editing'[e] = editing[e]
  PROVE  TransactionInv(o)'
BY DEF isListed, TransactionInv, ListedInTurn, SignedWasConfirmed, SimulatedIsOfCall, NotesAreCarried

\* The estimates are as sound as they were where neither poller nor statuses change.
LEMMA EstimatesIdle ==
  ASSUME EstimatesInv, UNCHANGED <<poller, feeUpdates>>, unapprovedIn(metas)' = unapprovedIn(metas)
  PROVE  EstimatesInv'
BY DEF Going, goesOn, EstimatesInv, EstimatesGoOn

\* What is written to a listed transaction.
LEMMA Written ==
  ASSUME EditsInv, NEW t \in EditedTxs, isListed(t), NEW meta \in TxMetas,
         NEW incident \in SUBSET Incidents, written(t, meta, incident)
  PROVE  /\ metas' \in [EditedTxs -> TxMetas \cup {NoTxMeta}]
         /\ metas'[t] \in TxMetas
         /\ metas'[t].params = meta.params /\ metas'[t].status = meta.status /\ metas'[t].notes = meta.notes
         /\ simulating' \in [EditedTxs -> SUBSET EditVersions]
         /\ incidents' \in [EditedTxs -> SUBSET Incidents]
         /\ incidents[t] \cup incident \subseteq incidents'[t]
         /\ \A o \in EditedTxs : o # t =>
              metas'[o] = metas[o] /\ simulating'[o] = simulating[o] /\ incidents'[o] = incidents[o]
         /\ poller' \in Pollers /\ feeUpdates' \in [Updates -> FeeUpdates] /\ EstimatesInv'
         /\ SimulatedIsOfCall(t) /\ confirming[t] = "asking" /\ "raced" \notin incidents'[t] =>
              \/ metas'[t].simulation = metas'[t].params.call /\ simulating'[t] = {}
              \/ metas'[t].simulation = NoSimulation /\ simulating'[t] = {metas'[t].params.call}
<1> DEFINE simulates == callChanged(metas[t], meta)
           simulation == IF simulates THEN NoSimulation ELSE meta.simulation
           new == [meta EXCEPT !.simulation = simulation]
           raced == IF simulates THEN simulating[t] # {} ELSE meta.simulation # metas[t].simulation
           more == incident \cup (IF raced THEN {"raced"} ELSE {})
<1>0. /\ metas \in [EditedTxs -> TxMetas \cup {NoTxMeta}] /\ simulating \in [EditedTxs -> SUBSET EditVersions]
      /\ incidents \in [EditedTxs -> SUBSET Incidents]
      /\ poller \in Pollers /\ feeUpdates \in [Updates -> FeeUpdates] /\ EstimatesInv
      /\ metas[t] \in TxMetas BY EditsTypes DEF EditsInv, isListed
<1>1. /\ metas' = [metas EXCEPT ![t] = new]
      /\ simulating' = IF simulates THEN [simulating EXCEPT ![t] = @ \cup {meta.params.call}]
                       ELSE simulating
      /\ incidents' = [incidents EXCEPT ![t] = @ \cup incident \cup (IF raced THEN {"raced"} ELSE {})]
      /\ listChanged([metas EXCEPT ![t] = new]) BY DEF written, isListed
<1>2. /\ new \in TxMetas /\ new.params = meta.params /\ new.status = meta.status /\ new.notes = meta.notes
      /\ new.simulation = simulation BY DEF TxMetas
<1>3. meta.params.call \in EditVersions BY DEF TxMetas, TxParams
<1>31. more \subseteq Incidents /\ incidents' = [incidents EXCEPT ![t] = @ \cup more]
  BY <1>1 DEF Incidents
<1>32. raced => "raced" \in more OBVIOUS
<1>33. incident \subseteq more OBVIOUS
<1>34. simulates <=> metas[t].params.call # meta.params.call BY DEF callChanged
<1>35. /\ simulates => simulation = NoSimulation /\ (raced <=> simulating[t] # {})
       /\ ~simulates => simulation = meta.simulation /\ (raced <=> meta.simulation # metas[t].simulation)
  OBVIOUS
<1> HIDE DEF new, simulation, simulates, raced, more
<1>4. /\ metas' \in [EditedTxs -> TxMetas \cup {NoTxMeta}]
      /\ metas'[t] = new
      /\ \A o \in EditedTxs : o # t => metas'[o] = metas[o] BY <1>0, <1>1, <1>2
<1>5. /\ simulating' \in [EditedTxs -> SUBSET EditVersions]
      /\ simulating'[t] = IF simulates THEN simulating[t] \cup {meta.params.call} ELSE simulating[t]
      /\ \A o \in EditedTxs : o # t => simulating'[o] = simulating[o] BY <1>0, <1>1, <1>3
<1>6. /\ incidents' \in [EditedTxs -> SUBSET Incidents] /\ incidents'[t] = incidents[t] \cup more
      /\ \A o \in EditedTxs : o # t => incidents'[o] = incidents[o] BY <1>0, <1>31
<1>7. poller' \in Pollers /\ feeUpdates' \in [Updates -> FeeUpdates] /\ EstimatesInv'
  BY <1>0, <1>1, ListChanges
<1>8. ASSUME SimulatedIsOfCall(t), confirming[t] = "asking", "raced" \notin incidents'[t]
      PROVE  \/ metas'[t].simulation = metas'[t].params.call /\ simulating'[t] = {}
             \/ metas'[t].simulation = NoSimulation /\ simulating'[t] = {metas'[t].params.call}
  BY <1>6, <1>8, <1>32, <1>2, <1>35, <1>4, <1>5, <1>34 DEF SimulatedIsOfCall
<1>9. incidents[t] \cup incident \subseteq incidents'[t] BY <1>33, <1>6
<1> QED BY <1>2, <1>4, <1>5, <1>6, <1>7, <1>8, <1>9

\* A step of one transaction keeps the invariant if it keeps that of the transaction.
LEMMA OfOneTransaction ==
  ASSUME EditsInv, NEW t \in EditedTxs,
         metas' \in [EditedTxs -> TxMetas \cup {NoTxMeta}],
         confirming' \in [EditedTxs ->
           {"idle", "asking", "approving", "signing", "publishing", "done", "gone"}],
         signing' \in [EditedTxs -> TxMetas \cup {NoTxMeta}],
         editing' \in [Editors -> EditCalls \cup {NoEdit}],
         simulating' \in [EditedTxs -> SUBSET EditVersions],
         poller' \in Pollers, feeUpdates' \in [Updates -> FeeUpdates], EstimatesInv',
         edits' \in 0..MaxEdits,
         confirmedAs' \in [EditedTxs -> TxParams],
         told' \in [EditedTxs -> SUBSET TxNotes],
         incidents' \in [EditedTxs -> SUBSET Incidents],
         \A o \in EditedTxs : o # t =>
           /\ metas'[o] = metas[o] /\ confirming'[o] = confirming[o] /\ signing'[o] = signing[o]
           /\ simulating'[o] = simulating[o] /\ confirmedAs'[o] = confirmedAs[o]
           /\ told'[o] = told[o] /\ incidents'[o] = incidents[o]
           /\ \A e \in Editors : editing'[e].tx = o => editing'[e] = editing[e],
         TransactionInv(t)'
  PROVE  EditsInv'
BY Untouched DEF EditsTypeOK, EditCalls, Pollers, FeeUpdates, Incidents, EditsInv

LEMMA EditsFacts ==
  ASSUME EditsInv
  PROVE  /\ metas \in [EditedTxs -> TxMetas \cup {NoTxMeta}]
         /\ confirming \in [EditedTxs ->
              {"idle", "asking", "approving", "signing", "publishing", "done", "gone"}]
         /\ signing \in [EditedTxs -> TxMetas \cup {NoTxMeta}]
         /\ editing \in [Editors -> EditCalls \cup {NoEdit}]
         /\ simulating \in [EditedTxs -> SUBSET EditVersions]
         /\ poller \in Pollers /\ feeUpdates \in [Updates -> FeeUpdates] /\ EstimatesInv
         /\ edits \in 0..MaxEdits
         /\ confirmedAs \in [EditedTxs -> TxParams]
         /\ told \in [EditedTxs -> SUBSET TxNotes]
         /\ incidents \in [EditedTxs -> SUBSET Incidents]
         /\ \A t \in EditedTxs :
              /\ TransactionInv(t)
              /\ isListed(t) => metas[t] \in TxMetas
BY EditsTypes DEF EditsInv, isListed

\* Written, with the confirmation, the records of others and the notes as they were.
LEMMA EditWritten ==
  ASSUME NoTxMetaAssumption, EditsInv, NEW t \in EditedTxs, isListed(t), NEW meta \in TxMetas,
         NEW incident \in SUBSET Incidents, written(t, meta, incident),
         editing' \in [Editors -> EditCalls \cup {NoEdit}],
         \A e \in Editors : editing'[e] # NoEdit => editing'[e] = editing[e],
         edits' \in 0..MaxEdits,
         UNCHANGED <<confirming, signing, toldVars>>,
         meta.notes \in {metas[t].notes, told[t]} \/ "told late" \in incidents[t],
         "edited late" \in incident \/ confirming[t] # "approving" \/ meta.params = metas[t].params,
         \/ "overwritten" \in incident
         \/ confirming[t] \notin {"signing", "publishing", "done"}
         \/ "overwritten" \in incidents[t]
         \/ meta.params = metas[t].params /\ meta.status = metas[t].status
  PROVE  EditsInv'
<1>1. /\ metas' \in [EditedTxs -> TxMetas \cup {NoTxMeta}]
      /\ metas'[t] \in TxMetas
      /\ metas'[t].params = meta.params /\ metas'[t].status = meta.status /\ metas'[t].notes = meta.notes
      /\ simulating' \in [EditedTxs -> SUBSET EditVersions]
      /\ incidents' \in [EditedTxs -> SUBSET Incidents]
      /\ incidents[t] \cup incident \subseteq incidents'[t]
      /\ \A o \in EditedTxs : o # t =>
           metas'[o] = metas[o] /\ simulating'[o] = simulating[o] /\ incidents'[o] = incidents[o]
      /\ poller' \in Pollers /\ feeUpdates' \in [Updates -> FeeUpdates] /\ EstimatesInv'
      /\ SimulatedIsOfCall(t) /\ confirming[t] = "asking" /\ "raced" \notin incidents'[t] =>
           \/ metas'[t].simulation = metas'[t].params.call /\ simulating'[t] = {}
           \/ metas'[t].simulation = NoSimulation /\ simulating'[t] = {metas'[t].params.call}
  BY Written
<1>2. /\ UNCHANGED <<confirming, signing, confirmedAs, told>>
      /\ TransactionInv(t) /\ metas[t] \in TxMetas
      /\ isListed(t)'
      /\ \A o \in EditedTxs : o # NoTxMeta
  BY <1>1, EditsFacts, NoTxMetaAssumption DEF toldVars, isListed
<1>3. \A e \in Editors, o \in EditedTxs : editing'[e].tx = o => editing'[e] = editing[e]
  <2>1. NoEdit.tx = NoTxMeta BY DEF NoEdit
  <2> QED BY <1>2, <2>1
<1>4. ListedInTurn(t)' BY <1>2, <1>3 DEF TransactionInv, ListedInTurn
<1>5. SignedWasConfirmed(t)' BY <1>1, <1>2 DEF TransactionInv, SignedWasConfirmed
<1>6. SimulatedIsOfCall(t)' BY <1>1, <1>2 DEF TransactionInv, SimulatedIsOfCall
<1>7. NotesAreCarried(t)' BY <1>1, <1>2, <1>3 DEF TransactionInv, NotesAreCarried
<1>8. TransactionInv(t)' BY <1>4, <1>5, <1>6, <1>7 DEF TransactionInv
<1> QED BY <1>1, <1>2, <1>3, <1>8, EditsFacts, OfOneTransaction

LEMMA IncidentsOf ==
  ASSUME NEW t \in EditedTxs
  PROVE  /\ incidentOf(t) \in SUBSET Incidents
         /\ confirming[t] = "approving" => incidentOf(t) = {"edited late"}
         /\ confirming[t] \in {"signing", "publishing", "done"} => incidentOf(t) = {"overwritten"}
BY DEF incidentOf, Incidents

LEMMA FeesEdited ==
  ASSUME EditsAssumption, NoTxMetaAssumption, EditsInv, NEW t \in EditedTxs, NEW fees \in EditVersions,
         updateTransactionGasFees(t, fees)
  PROVE  EditsInv'
<1> DEFINE meta == [metas[t] EXCEPT !.params.fees = fees]
           incident == incidentOf(t) \cap {"edited late"}
<1>1. /\ isListed(t) /\ metas[t].status = "unapproved" /\ edits < MaxEdits /\ edits' = edits + 1
      /\ written(t, meta, incident) /\ UNCHANGED <<confirming, signing, editing, toldVars>>
  BY DEF updateTransactionGasFees, mayEdit
<1>2. metas[t] \in TxMetas /\ TransactionInv(t) /\ editing \in [Editors -> EditCalls \cup {NoEdit}]
  BY <1>1, EditsFacts
<1>3. meta \in TxMetas /\ meta.notes = metas[t].notes BY <1>2 DEF TxMetas, TxParams
<1>4. incident \in SUBSET Incidents /\ (confirming[t] = "approving" => "edited late" \in incident)
  BY IncidentsOf
<1>5. confirming[t] \in {"signing", "publishing", "done"} => "overwritten" \in incidents[t]
  BY <1>1, <1>2 DEF TransactionInv, SignedWasConfirmed
<1>6. edits' \in 0..MaxEdits
  <2>1. edits \in 0..MaxEdits /\ MaxEdits \in Nat BY EditsFacts, EditsAssumption
  <2>2. edits < MaxEdits /\ edits' = edits + 1 BY <1>1
  <2> HIDE DEF meta, incident
  <2> QED BY <2>1, <2>2
<1> HIDE DEF meta, incident
<1> QED BY <1>1, <1>2, <1>3, <1>4, <1>5, <1>6, EditWritten

LEMMA ParamsEdited ==
  ASSUME NoTxMetaAssumption, EditsInv, NEW e \in Editors, editableParamsUpdated(e)
  PROVE  EditsInv'
<1>0. editing[e] # NoEdit BY DEF editableParamsUpdated
<1>2. PICK t \in EditedTxs, meta \in TxMetas : t = editing[e].tx /\ meta = editing[e].meta
  BY <1>0, EditsFacts DEF EditCalls
<1>1. /\ editing[e] # NoEdit
      /\ editing' = [editing EXCEPT ![e] = NoEdit]
      /\ \/ written(t, meta, incidentOf(t))
         \/ UNCHANGED <<metas, simulating, poller, feeUpdates, incidents>>
      /\ UNCHANGED <<confirming, signing, edits, toldVars>> BY <1>2 DEF editableParamsUpdated
<1>3. /\ editing' \in [Editors -> EditCalls \cup {NoEdit}]
      /\ \A f \in Editors : editing'[f] # NoEdit => editing'[f] = editing[f]
      /\ edits' \in 0..MaxEdits BY <1>1, EditsFacts
<1>4. CASE UNCHANGED <<metas, simulating, poller, feeUpdates, incidents>>
  BY <1>3, NoTxMetaAssumption, <1>4, EditsFacts, EstimatesIdle, <1>2, <1>1, Untouched, OfOneTransaction DEF
     NoEdit, unapprovedIn, toldVars
<1>5. CASE written(t, meta, incidentOf(t)) /\ ~isListed(t) BY <1>4, <1>5 DEF written, isListed
<1>6. CASE written(t, meta, incidentOf(t)) /\ isListed(t)
  BY <1>2, <1>6, EditsFacts, <1>1, <1>3, IncidentsOf, EditWritten DEF TransactionInv, NotesAreCarried
<1> QED BY <1>1, <1>4, <1>5, <1>6

LEMMA ParamsRead ==
  ASSUME EditsAssumption, NoTxMetaAssumption, EditsInv, NEW e \in Editors, NEW t \in EditedTxs,
         NEW params \in TxParams, updateEditableParams(e, t, params)
  PROVE  EditsInv'
<1> DEFINE call == [tx |-> t, meta |-> [metas[t] EXCEPT !.params = params]]
<1>1. /\ isListed(t) /\ edits < MaxEdits /\ edits' = edits + 1
      /\ editing' = [editing EXCEPT ![e] = call]
      /\ UNCHANGED <<metas, confirming, signing, simulating, poller, feeUpdates, confirmedAs, told, incidents>>
  BY DEF updateEditableParams, mayEdit, toldVars
<1>2. metas[t] \in TxMetas /\ TransactionInv(t) BY <1>1, EditsFacts
<1>3. call \in EditCalls /\ call.tx = t /\ call.meta.notes = metas[t].notes
  BY <1>2 DEF EditCalls, TxMetas
<1> HIDE DEF call
<1>4. /\ editing' \in [Editors -> EditCalls \cup {NoEdit}]
      /\ \A f \in Editors : editing'[f] = call \/ editing'[f] = editing[f] BY <1>1, <1>3, EditsFacts
<1>5. edits' \in 0..MaxEdits BY <1>1, EditsFacts, EditsAssumption
<1>6. EstimatesInv' BY <1>1, EditsFacts, EstimatesIdle DEF unapprovedIn
<1>7. TransactionInv(t)'
  <2>1. isListed(t)' <=> isListed(t) BY <1>1 DEF isListed
  <2>2. ListedInTurn(t)' BY <1>1, <1>2, <2>1 DEF TransactionInv, ListedInTurn
  <2>3. SignedWasConfirmed(t)' /\ SimulatedIsOfCall(t)'
    BY <1>1, <1>2 DEF TransactionInv, SignedWasConfirmed, SimulatedIsOfCall
  <2>4. NotesAreCarried(t)'
    <3>1. SUFFICES ASSUME "told late" \notin incidents[t]
                   PROVE  /\ isListed(t) => metas[t].notes = told[t]
                          /\ \A f \in Editors : editing'[f].tx = t => editing'[f].meta.notes = told[t]
                          /\ confirming[t] \in {"signing", "publishing"} => signing[t].notes = told[t]
      BY <1>1, <2>1 DEF NotesAreCarried
    <3> QED BY <1>1, <1>2, <1>3, <1>4, <3>1 DEF TransactionInv, NotesAreCarried
  <2> QED BY <2>2, <2>3, <2>4 DEF TransactionInv
<1>8. \A o \in EditedTxs, f \in Editors : o # t /\ editing'[f].tx = o => editing'[f] = editing[f]
  BY <1>3, <1>4
<1> QED BY <1>1, <1>4, <1>5, <1>6, <1>7, <1>8, EditsFacts, OfOneTransaction

LEMMA NoteMade ==
  ASSUME EditsAssumption, NoTxMetaAssumption, EditsInv, NEW t \in EditedTxs, NEW note \in TxNotes, isListed(t), noteMade(t, note)
  PROVE  EditsInv'
<1> DEFINE meta == [metas[t] EXCEPT !.notes = @ \cup {note}]
           incident == IF isBeingWritten(t) THEN {"told late"} ELSE {}
<1>1. /\ edits < MaxEdits /\ edits' = edits + 1
      /\ told' = [told EXCEPT ![t] = @ \cup {note}]
      /\ written(t, meta, incident)
      /\ UNCHANGED <<confirming, signing, editing, confirmedAs>> BY DEF noteMade
<1>2. metas[t] \in TxMetas /\ TransactionInv(t) BY EditsFacts
<1>3. /\ meta \in TxMetas /\ meta.notes = metas[t].notes \cup {note}
      /\ meta.params = metas[t].params /\ meta.status = metas[t].status BY <1>2 DEF TxMetas
<1>4. incident \in SUBSET Incidents /\ (isBeingWritten(t) => "told late" \in incident)
  BY DEF Incidents
<1> HIDE DEF meta, incident
<1>5. edits' \in 0..MaxEdits BY <1>1, EditsFacts, EditsAssumption
<1>6. /\ metas' \in [EditedTxs -> TxMetas \cup {NoTxMeta}]
      /\ metas'[t] \in TxMetas
      /\ metas'[t].params = meta.params /\ metas'[t].status = meta.status /\ metas'[t].notes = meta.notes
      /\ simulating' \in [EditedTxs -> SUBSET EditVersions]
      /\ incidents' \in [EditedTxs -> SUBSET Incidents]
      /\ incidents[t] \cup incident \subseteq incidents'[t]
      /\ \A o \in EditedTxs : o # t =>
           metas'[o] = metas[o] /\ simulating'[o] = simulating[o] /\ incidents'[o] = incidents[o]
      /\ poller' \in Pollers /\ feeUpdates' \in [Updates -> FeeUpdates] /\ EstimatesInv'
      /\ SimulatedIsOfCall(t) /\ confirming[t] = "asking" /\ "raced" \notin incidents'[t] =>
           \/ metas'[t].simulation = metas'[t].params.call /\ simulating'[t] = {}
           \/ metas'[t].simulation = NoSimulation /\ simulating'[t] = {metas'[t].params.call}
  BY <1>1, <1>3, <1>4, Written
<1>7. /\ told' \in [EditedTxs -> SUBSET TxNotes] /\ told'[t] = told[t] \cup {note}
      /\ \A o \in EditedTxs : o # t => told'[o] = told[o] BY <1>1, EditsFacts
<1>8. TransactionInv(t)'
  <2>1. isListed(t)' /\ isListed(t) /\ confirming[t] # "idle"
    BY <1>2, <1>6, NoTxMetaAssumption DEF isListed, TransactionInv, ListedInTurn
  <2>2. ListedInTurn(t)' BY <1>1, <1>2, <2>1 DEF TransactionInv, ListedInTurn
  <2>3. SignedWasConfirmed(t)' BY <1>1, <1>2, <1>3, <1>6 DEF TransactionInv, SignedWasConfirmed
  <2>4. SimulatedIsOfCall(t)' BY <1>1, <1>2, <1>6 DEF TransactionInv, SimulatedIsOfCall
  <2>5. NotesAreCarried(t)'
    <3>1. SUFFICES ASSUME "told late" \notin incidents'[t]
                   PROVE  /\ metas'[t].notes = told'[t]
                          /\ \A e \in Editors : editing[e].tx = t => editing[e].meta.notes = told'[t]
                          /\ confirming[t] \in {"signing", "publishing"} => signing[t].notes = told'[t]
      BY <1>1, <2>1 DEF NotesAreCarried
    <3>2. ~isBeingWritten(t) /\ "told late" \notin incidents[t] BY <1>4, <1>6, <3>1
    <3>3. metas[t].notes = told[t] BY <1>2, <2>1, <3>2 DEF TransactionInv, NotesAreCarried
    <3> QED BY <1>3, <1>6, <1>7, <3>2, <3>3 DEF isBeingWritten
  <2> QED BY <2>2, <2>3, <2>4, <2>5 DEF TransactionInv
<1> QED BY <1>1, <1>5, <1>6, <1>7, <1>8, EditsFacts, OfOneTransaction

LEMMA NotesMade ==
  ASSUME EditsAssumption, NoTxMetaAssumption, EditsInv, NEW t \in EditedTxs,
         \/ updateSecurityAlertResponse(t) \/ updatePreviousGasParams(t)
         \/ updateTransactionSendFlowHistory(t)
  PROVE  EditsInv'
BY NoteMade DEF updateSecurityAlertResponse, updatePreviousGasParams, updateTransactionSendFlowHistory,
   mayEdit, TxNotes

LEMMA SimulationAnswered ==
  ASSUME NoTxMetaAssumption, EditsInv, NEW t \in EditedTxs, NEW call \in EditVersions, simulationAnswered(t, call)
  PROVE  EditsInv'
<1>1. /\ call \in simulating[t]
      /\ simulating' = [simulating EXCEPT ![t] = @ \ {call}]
      /\ metas' = IF metas[t] = NoTxMeta THEN metas ELSE [metas EXCEPT ![t].simulation = call]
      /\ UNCHANGED <<confirming, signing, editing, poller, feeUpdates, edits, confirmedAs, told, incidents>>
  BY DEF simulationAnswered, toldVars
<1> DEFINE new == [metas[t] EXCEPT !.simulation = call]
<1>2. TransactionInv(t) /\ metas \in [EditedTxs -> TxMetas \cup {NoTxMeta}] BY EditsFacts
<1>3. /\ simulating' \in [EditedTxs -> SUBSET EditVersions] /\ simulating'[t] = simulating[t] \ {call}
      /\ \A o \in EditedTxs : o # t => simulating'[o] = simulating[o] BY <1>1, EditsFacts
<1>4. isListed(t) => /\ new \in TxMetas /\ new.params = metas[t].params /\ new.status = metas[t].status
                     /\ new.notes = metas[t].notes /\ new.simulation = call
  BY EditsFacts DEF TxMetas
<1>5. isListed(t) => metas' = [metas EXCEPT ![t] = new] BY <1>1 DEF isListed
<1> HIDE DEF new
<1>6. /\ metas' \in [EditedTxs -> TxMetas \cup {NoTxMeta}]
      /\ isListed(t) => metas'[t] = new
      /\ ~isListed(t) => metas'[t] = metas[t]
      /\ \A o \in EditedTxs : o # t => metas'[o] = metas[o] BY <1>1, <1>2, <1>4, <1>5 DEF isListed
<1>7. isListed(t)' <=> isListed(t) BY <1>4, <1>6, NoTxMetaAssumption DEF isListed
<1>8. EstimatesInv' BY <1>4, <1>6, <1>7, <1>1, EditsFacts, EstimatesIdle DEF isListed, unapprovedIn
<1>9. TransactionInv(t)'
  <2>1. ListedInTurn(t)' BY <1>1, <1>2, <1>7 DEF TransactionInv, ListedInTurn
  <2>2. SignedWasConfirmed(t)' BY <1>4, <1>6, <1>1, <1>2 DEF TransactionInv, SignedWasConfirmed
  <2>3. SimulatedIsOfCall(t)'
    <3>1. SUFFICES ASSUME confirming[t] = "asking", "raced" \notin incidents[t]
                   PROVE  metas'[t].simulation = metas'[t].params.call /\ simulating'[t] = {}
      BY <1>1 DEF SimulatedIsOfCall
    <3>2. isListed(t) BY <1>2, <3>1 DEF TransactionInv, ListedInTurn
    <3>3. simulating[t] = {metas[t].params.call}
      BY <1>1, <1>2, <3>1 DEF TransactionInv, SimulatedIsOfCall
    <3> QED BY <1>1, <1>3, <1>4, <1>6, <3>2, <3>3
  <2>4. NotesAreCarried(t)' BY <1>1, <1>2, <1>4, <1>6, <1>7 DEF TransactionInv, NotesAreCarried
  <2> QED BY <2>1, <2>2, <2>3, <2>4 DEF TransactionInv
<1> QED BY <1>1, <1>3, <1>6, <1>8, <1>9, EditsFacts, OfOneTransaction

-----------------------------------------------------------------------------

LEMMA EditedAdded ==
  ASSUME NoTxMetaAssumption, EditsInv, NEW t \in EditedTxs, NEW requireApproval \in BOOLEAN,
         editedTransactionAdded(t, requireApproval)
  PROVE  EditsInv'
<1> DEFINE new == [status |-> "unapproved", params |-> Given, simulation |-> NoSimulation, notes |-> {}]
           T == [metas EXCEPT ![t] = new]
<1>1. /\ confirming[t] = "idle"
      /\ metas' = T /\ listChanged(T)
      /\ confirming' = [confirming EXCEPT ![t] = IF requireApproval THEN "asking" ELSE "approving"]
      /\ simulating' = IF requireApproval THEN [simulating EXCEPT ![t] = {Given.call}] ELSE simulating
      /\ UNCHANGED <<signing, editing, edits, confirmedAs, told, incidents>>
  BY DEF editedTransactionAdded, toldVars
<1>2. /\ new \in TxMetas /\ new.params = Given /\ new.simulation = NoSimulation /\ new.notes = {}
      /\ Given.call \in EditVersions BY DEF TxMetas, TxParams, Given, EditVersions, NoSimulation
<1>3. TransactionInv(t) BY EditsFacts
<1> HIDE DEF new
<1>4. /\ metas' \in [EditedTxs -> TxMetas \cup {NoTxMeta}] /\ metas'[t] = new
      /\ \A o \in EditedTxs : o # t => metas'[o] = metas[o] BY <1>1, <1>2, EditsFacts
<1>5. /\ simulating' \in [EditedTxs -> SUBSET EditVersions]
      /\ requireApproval => simulating'[t] = {Given.call}
      /\ \A o \in EditedTxs : o # t => simulating'[o] = simulating[o] BY <1>1, <1>2, EditsFacts
<1>6. /\ confirming' \in [EditedTxs ->
           {"idle", "asking", "approving", "signing", "publishing", "done", "gone"}]
      /\ confirming'[t] = IF requireApproval THEN "asking" ELSE "approving"
      /\ \A o \in EditedTxs : o # t => confirming'[o] = confirming[o] BY <1>1, EditsFacts
<1>7. poller' \in Pollers /\ feeUpdates' \in [Updates -> FeeUpdates] /\ EstimatesInv'
  BY <1>1, EditsFacts, ListChanges
<1>8. isListed(t)' /\ told[t] = {} /\ confirmedAs[t] = Given /\ \A e \in Editors : editing[e].tx # t
  BY <1>1, <1>2, <1>3, <1>4, NoTxMetaAssumption DEF isListed, TransactionInv, ListedInTurn
<1>9. TransactionInv(t)'
  BY <1>6, <1>8, <1>1, <1>2, <1>4, <1>5 DEF ListedInTurn, SignedWasConfirmed, SimulatedIsOfCall,
     NotesAreCarried, TransactionInv
<1> HIDE DEF T
<1> QED BY <1>1, <1>4, <1>5, <1>6, <1>7, <1>9, EditsFacts, OfOneTransaction

LEMMA EditedConfirmed ==
  ASSUME EditsAssumption, NoTxMetaAssumption, EditsInv, NEW t \in EditedTxs, NEW params \in TxParams,
         editedTransactionConfirmed(t, params)
  PROVE  EditsInv'
<1> DEFINE meta == [metas[t] EXCEPT !.params = params]
<1>1. /\ confirming[t] = "asking" /\ isListed(t)
      /\ params = metas[t].params \/ edits < MaxEdits
      /\ edits' = IF params = metas[t].params THEN edits ELSE edits + 1
      /\ confirming' = [confirming EXCEPT ![t] = "approving"]
      /\ confirmedAs' = [confirmedAs EXCEPT ![t] = params]
      /\ written(t, meta, {})
      /\ UNCHANGED <<signing, editing, told>> BY DEF editedTransactionConfirmed
<1>2. metas[t] \in TxMetas /\ TransactionInv(t) BY <1>1, EditsFacts
<1>3. meta \in TxMetas /\ meta.notes = metas[t].notes /\ meta.params = params BY <1>2 DEF TxMetas
<1> HIDE DEF meta
<1>5. edits' \in 0..MaxEdits BY EditsFacts, EditsAssumption, <1>1
<1>6. /\ metas' \in [EditedTxs -> TxMetas \cup {NoTxMeta}]
      /\ metas'[t] \in TxMetas
      /\ metas'[t].params = meta.params /\ metas'[t].notes = meta.notes
      /\ simulating' \in [EditedTxs -> SUBSET EditVersions]
      /\ incidents' \in [EditedTxs -> SUBSET Incidents]
      /\ incidents[t] \subseteq incidents'[t]
      /\ \A o \in EditedTxs : o # t =>
           metas'[o] = metas[o] /\ simulating'[o] = simulating[o] /\ incidents'[o] = incidents[o]
      /\ poller' \in Pollers /\ feeUpdates' \in [Updates -> FeeUpdates] /\ EstimatesInv'
  BY <1>1, <1>3, Written
<1>7. /\ confirming' \in [EditedTxs ->
           {"idle", "asking", "approving", "signing", "publishing", "done", "gone"}]
      /\ confirming'[t] = "approving"
      /\ confirmedAs' \in [EditedTxs -> TxParams] /\ confirmedAs'[t] = params
      /\ \A o \in EditedTxs : o # t => confirming'[o] = confirming[o] /\ confirmedAs'[o] = confirmedAs[o]
  BY <1>1, EditsFacts
<1>8. TransactionInv(t)'
  BY <1>6, NoTxMetaAssumption, <1>7, <1>3, <1>1, <1>2 DEF isListed, ListedInTurn, SignedWasConfirmed,
     SimulatedIsOfCall, TransactionInv, NotesAreCarried
<1> QED BY <1>1, <1>5, <1>6, <1>7, <1>8, EditsFacts, OfOneTransaction

LEMMA EditedGone ==
  ASSUME NoTxMetaAssumption, EditsInv, NEW t \in EditedTxs, editedTransactionGone(t)
  PROVE  EditsInv'
<1> DEFINE T == [metas EXCEPT ![t] = NoTxMeta]
<1>1. /\ metas' = T /\ listChanged(T)
      /\ confirming' = [confirming EXCEPT ![t] = "gone"]
      /\ signing' = [signing EXCEPT ![t] = NoTxMeta]
      /\ UNCHANGED <<editing, simulating, edits, confirmedAs, told, incidents>>
  BY DEF editedTransactionGone, toldVars
<1>2. TransactionInv(t) BY EditsFacts
<1>3. /\ metas' \in [EditedTxs -> TxMetas \cup {NoTxMeta}] /\ metas'[t] = NoTxMeta
      /\ signing' \in [EditedTxs -> TxMetas \cup {NoTxMeta}]
      /\ confirming' \in [EditedTxs ->
           {"idle", "asking", "approving", "signing", "publishing", "done", "gone"}]
      /\ confirming'[t] = "gone"
      /\ \A o \in EditedTxs : o # t =>
           metas'[o] = metas[o] /\ signing'[o] = signing[o] /\ confirming'[o] = confirming[o]
  BY <1>1, EditsFacts
<1>4. poller' \in Pollers /\ feeUpdates' \in [Updates -> FeeUpdates] /\ EstimatesInv'
  BY <1>1, EditsFacts, ListChanges
<1>5. TransactionInv(t)'
  BY <1>3, <1>1, <1>2 DEF isListed, ListedInTurn, SignedWasConfirmed, SimulatedIsOfCall, TransactionInv,
     NotesAreCarried
<1> HIDE DEF T
<1> QED BY <1>1, <1>3, <1>4, <1>5, EditsFacts, OfOneTransaction

LEMMA EditedApproved ==
  ASSUME NoTxMetaAssumption, EditsInv, NEW t \in EditedTxs, editedTransactionApproved(t)
  PROVE  EditsInv'
<1> DEFINE meta == [metas[t] EXCEPT !.status = "approved"]
           T == [metas EXCEPT ![t] = meta]
<1>1. /\ confirming[t] = "approving"
      /\ confirming' = [confirming EXCEPT ![t] = "signing"]
      /\ signing' = [signing EXCEPT ![t] = meta]
      /\ metas' = T /\ listChanged(T)
      /\ UNCHANGED <<editing, simulating, edits, confirmedAs, told, incidents>>
  BY DEF editedTransactionApproved, toldVars
<1>2. TransactionInv(t) /\ isListed(t) /\ metas[t] \in TxMetas
  BY <1>1, EditsFacts DEF TransactionInv, ListedInTurn
<1>3. /\ meta \in TxMetas /\ meta.status = "approved" /\ meta.params = metas[t].params
      /\ meta.notes = metas[t].notes BY <1>2 DEF TxMetas
<1> HIDE DEF meta
<1>4. /\ metas' \in [EditedTxs -> TxMetas \cup {NoTxMeta}] /\ metas'[t] = meta
      /\ signing' \in [EditedTxs -> TxMetas \cup {NoTxMeta}] /\ signing'[t] = meta
      /\ confirming' \in [EditedTxs ->
           {"idle", "asking", "approving", "signing", "publishing", "done", "gone"}]
      /\ confirming'[t] = "signing"
      /\ \A o \in EditedTxs : o # t =>
           metas'[o] = metas[o] /\ signing'[o] = signing[o] /\ confirming'[o] = confirming[o]
  BY <1>1, <1>3, EditsFacts
<1>5. poller' \in Pollers /\ feeUpdates' \in [Updates -> FeeUpdates] /\ EstimatesInv'
  BY <1>1, EditsFacts, ListChanges
<1>6. TransactionInv(t)'
  BY <1>3, <1>4, NoTxMetaAssumption, <1>1, <1>2 DEF isListed, ListedInTurn, TransactionInv,
     SignedWasConfirmed, SimulatedIsOfCall, NotesAreCarried
<1> HIDE DEF T
<1> QED BY <1>1, <1>4, <1>5, <1>6, EditsFacts, OfOneTransaction

\* The record that was approved is written with its new status.
LEMMA SignedWritten ==
  ASSUME NoTxMetaAssumption, EditsInv, NEW t \in EditedTxs, confirming[t] \in {"signing", "publishing"},
         NEW status_ \in {"signed", "failed"}, NEW at \in {"publishing", "done"},
         at = "publishing" => status_ = "signed",
         confirming' = [confirming EXCEPT ![t] = at],
         signing' = [signing EXCEPT ![t].status = "signed"] \/ (at = "done" /\ UNCHANGED signing),
         written(t, [signing[t] EXCEPT !.status = status_], {}),
         UNCHANGED <<editing, edits, toldVars>>
  PROVE  EditsInv'
<1> DEFINE meta == [signing[t] EXCEPT !.status = status_]
           kept_ == [signing[t] EXCEPT !.status = "signed"]
<1>1. UNCHANGED <<editing, edits, confirmedAs, told>> /\ written(t, meta, {}) BY DEF toldVars
<1>2. TransactionInv(t) /\ isListed(t) /\ signing[t] \in TxMetas
  BY EditsFacts DEF TransactionInv, ListedInTurn, SignedWasConfirmed
<1>3. /\ meta \in TxMetas /\ meta.status = status_ /\ meta.params = signing[t].params
      /\ meta.notes = signing[t].notes
      /\ kept_ \in TxMetas /\ kept_.status = "signed" /\ kept_.params = signing[t].params
      /\ kept_.notes = signing[t].notes BY <1>2 DEF TxMetas
<1>4. signing' = [signing EXCEPT ![t] = kept_] \/ (at = "done" /\ UNCHANGED signing) OBVIOUS
<1> HIDE DEF meta, kept_
<1>5. /\ signing' \in [EditedTxs -> TxMetas \cup {NoTxMeta}] /\ signing'[t] \in TxMetas
      /\ signing'[t].params = signing[t].params /\ signing'[t].notes = signing[t].notes
      /\ at = "publishing" => signing'[t].status = "signed"
      /\ confirming' \in [EditedTxs ->
           {"idle", "asking", "approving", "signing", "publishing", "done", "gone"}]
      /\ confirming'[t] = at
      /\ \A o \in EditedTxs : o # t => signing'[o] = signing[o] /\ confirming'[o] = confirming[o]
  BY <1>2, <1>3, <1>4, EditsFacts
<1>6. /\ metas' \in [EditedTxs -> TxMetas \cup {NoTxMeta}]
      /\ metas'[t] \in TxMetas
      /\ metas'[t].params = meta.params /\ metas'[t].status = meta.status /\ metas'[t].notes = meta.notes
      /\ simulating' \in [EditedTxs -> SUBSET EditVersions]
      /\ incidents' \in [EditedTxs -> SUBSET Incidents]
      /\ incidents[t] \subseteq incidents'[t]
      /\ \A o \in EditedTxs : o # t =>
           metas'[o] = metas[o] /\ simulating'[o] = simulating[o] /\ incidents'[o] = incidents[o]
      /\ poller' \in Pollers /\ feeUpdates' \in [Updates -> FeeUpdates] /\ EstimatesInv'
  BY <1>1, <1>2, <1>3, Written
<1>7. TransactionInv(t)'
  <2>1. isListed(t)' /\ signing'[t] # NoTxMeta BY <1>5, <1>6, NoTxMetaAssumption DEF isListed
  <2>2. ListedInTurn(t)' BY <1>5, <2>1 DEF ListedInTurn
  <2>3. SignedWasConfirmed(t)' /\ SimulatedIsOfCall(t)'
    BY <1>1, <1>2, <1>3, <1>5, <1>6, <2>1 DEF TransactionInv, SignedWasConfirmed, SimulatedIsOfCall
  <2>4. NotesAreCarried(t)'
    <3>1. SUFFICES ASSUME "told late" \notin incidents'[t]
                   PROVE  /\ metas'[t].notes = told[t]
                          /\ \A e \in Editors : editing[e].tx = t => editing[e].meta.notes = told[t]
                          /\ signing'[t].notes = told[t] BY <1>1 DEF NotesAreCarried
    <3>2. "told late" \notin incidents[t] BY <1>6, <3>1
    <3>3. signing[t].notes = told[t] /\ \A e \in Editors : editing[e].tx = t => editing[e].meta.notes = told[t]
      BY <1>2, <3>2 DEF TransactionInv, NotesAreCarried
    <3> QED BY <1>3, <1>5, <1>6, <3>3
  <2> QED BY <2>2, <2>3, <2>4 DEF TransactionInv
<1> QED BY <1>1, <1>5, <1>6, <1>7, EditsFacts, OfOneTransaction

LEMMA EditedPublished ==
  ASSUME NoTxMetaAssumption, EditsInv, NEW t \in EditedTxs, editedTransactionPublished(t)
  PROVE  EditsInv'
<1> DEFINE meta == [metas[t] EXCEPT !.status = "submitted"]
           T == [metas EXCEPT ![t] = meta]
<1>1. /\ confirming[t] = "publishing"
      /\ confirming' = [confirming EXCEPT ![t] = "done"]
      /\ metas' = T /\ listChanged(T)
      /\ UNCHANGED <<signing, editing, simulating, edits, confirmedAs, told, incidents>>
  BY DEF editedTransactionPublished, toldVars
<1>2. TransactionInv(t) /\ isListed(t) /\ metas[t] \in TxMetas
  BY <1>1, EditsFacts DEF TransactionInv, ListedInTurn
<1>3. /\ meta \in TxMetas /\ meta.status = "submitted" /\ meta.params = metas[t].params
      /\ meta.notes = metas[t].notes BY <1>2 DEF TxMetas
<1> HIDE DEF meta
<1>4. /\ metas' \in [EditedTxs -> TxMetas \cup {NoTxMeta}] /\ metas'[t] = meta
      /\ confirming' \in [EditedTxs ->
           {"idle", "asking", "approving", "signing", "publishing", "done", "gone"}]
      /\ confirming'[t] = "done"
      /\ \A o \in EditedTxs : o # t => metas'[o] = metas[o] /\ confirming'[o] = confirming[o]
  BY <1>1, <1>3, EditsFacts
<1>5. poller' \in Pollers /\ feeUpdates' \in [Updates -> FeeUpdates] /\ EstimatesInv'
  BY <1>1, EditsFacts, ListChanges
<1>6. TransactionInv(t)'
  BY <1>3, <1>4, NoTxMetaAssumption, <1>1, <1>2 DEF isListed, ListedInTurn, TransactionInv,
     SignedWasConfirmed, SimulatedIsOfCall, NotesAreCarried
<1> HIDE DEF T
<1> QED BY <1>1, <1>4, <1>5, <1>6, EditsFacts, OfOneTransaction

-----------------------------------------------------------------------------

LEMMA EditsSteps ==
  ASSUME EditsAssumption, NoTxMetaAssumption, EditsInv, [EditsNext]_editVars
  PROVE  EditsInv'
<1>1. CASE \/ onTimeout
           \/ \E u \in Updates :
                gasFeesFetched(u) \/ \E t \in EditedTxs, isNew \in BOOLEAN : estimatesWritten(u, t, isNew)
  <2>1. UNCHANGED <<metas, confirming, signing, editing, simulating, edits, confirmedAs, told, incidents>>
    BY <1>1 DEF onTimeout, gasFeesFetched, estimatesWritten, toldVars
  <2>2. poller' \in Pollers /\ feeUpdates' \in [Updates -> FeeUpdates] /\ EstimatesInv'
    BY <1>1, TimerFires, EstimatesComing DEF EditsInv
  <2>3. EditsTypeOK'
    BY <2>1, <2>2, EditsFacts DEF EditsTypeOK, EditCalls, Pollers, FeeUpdates, Incidents
  <2>4. ASSUME NEW t \in EditedTxs PROVE TransactionInv(t)' BY <2>1, EditsFacts, Untouched
  <2> QED BY <2>2, <2>3, <2>4 DEF EditsInv
<1>2. CASE UNCHANGED editVars
  BY <1>2, EditsFacts, EstimatesIdle, Untouched DEF editVars, unapprovedIn, EditsInv, EditsTypeOK
<1>3. CASE \E e \in Editors : \/ \E t \in EditedTxs, params \in TxParams : updateEditableParams(e, t, params)
                              \/ editableParamsUpdated(e) BY <1>3, ParamsRead, ParamsEdited
<1>4. ASSUME NEW t \in EditedTxs, editedTransactionSigned(t) \/ editedTransactionFailed(t)
      PROVE  EditsInv' BY SignedWritten, <1>4 DEF editedTransactionSigned, editedTransactionFailed
<1> QED
  BY <1>1, <1>2, <1>3, <1>4, FeesEdited, NotesMade, SimulationAnswered, EditedAdded, EditedConfirmed,
     EditedGone, EditedApproved, EditedPublished DEF EditsNext

LEMMA EditsInitial ==
  ASSUME EditsAssumption, NoTxMetaAssumption, EditsInit
  PROVE  EditsInv
<1>1. /\ edits \in {0, MaxEdits}
      /\ confirming \in [EditedTxs -> {"idle", "gone"}]
      /\ metas = [t \in EditedTxs |-> NoTxMeta] /\ signing = [t \in EditedTxs |-> NoTxMeta]
      /\ editing = [e \in Editors |-> NoEdit] /\ simulating = [t \in EditedTxs |-> {}]
      /\ poller = [running |-> FALSE, timeout |-> FALSE, strayTimers |-> 0,
                   stoppedInUpdate |-> FALSE, rejected |-> FALSE]
      /\ feeUpdates = [u \in Updates |-> NoFeeUpdate]
      /\ confirmedAs = [t \in EditedTxs |-> Given] /\ told = [t \in EditedTxs |-> {}]
      /\ incidents = [t \in EditedTxs |-> {}] BY DEF EditsInit
<1>2. NoFeeUpdate \in FeeUpdates /\ Given \in TxParams /\ MaxEdits \in Nat
      /\ poller \in Pollers
  BY <1>1, EditsAssumption DEF NoFeeUpdate, FeeUpdates, Given, TxParams, EditVersions, Pollers
<1>3. edits \in 0..MaxEdits BY <1>1, <1>2
<1>4. EditsTypeOK BY <1>1, <1>2, <1>3 DEF EditsTypeOK, FeeUpdates, Pollers
<1>5. EstimatesInv
  <2>1. Going = {} BY <1>1 DEF Going, goesOn
  <2>2. IsFiniteSet(Going) /\ Cardinality(Going) = 0 BY <2>1, FS_EmptySet
  <2>3. unapprovedIn(metas) = {} /\ ~poller.running /\ ~poller.timeout /\ poller.strayTimers = 0
    BY <1>1 DEF unapprovedIn
  <2>4. timersOf(poller) = 0 BY <2>3 DEF timersOf
  <2>5. EstimatesGoOn BY <1>2, <2>2, <2>3, <2>4, LoopsCounted
  <2> QED BY <2>2, <2>3, <2>5 DEF EstimatesInv
<1>6. ASSUME NEW t \in EditedTxs PROVE TransactionInv(t)
  BY <1>1, NoTxMetaAssumption DEF isListed, NoEdit, TransactionInv, ListedInTurn, SignedWasConfirmed,
     SimulatedIsOfCall, NotesAreCarried
<1> QED BY <1>4, <1>5, <1>6 DEF EditsInv

LEMMA EditsKept ==
  ASSUME EditsInv
  PROVE  EditsAreKept
BY DEF EditsInv, TransactionInv, SignedWasConfirmed, SignedIsShown, SimulatedIsOfCall, SimulationIsOfCall,
   NotesAreCarried, NotesAreKept, EditsAreKept, EstimatesInv

(***************************************************************************)
(* Whatever transactions are edited, simulated, noted upon, signed and     *)
(* polled for, by however many calls, they do not undo what the others     *)
(* did, but where EditsAreKept says that they may.                         *)
(***************************************************************************)
THEOREM EditsAlwaysKept == Spec => []EditsAreKept
<1>1. Init => EditsInv BY EditsInitial, EditsAssumption, NoTxMetaAssumption DEF Init
<1>2. EditsInv /\ [Next]_allVars => EditsInv'
  BY EditsSteps, EditsAssumption, NoTxMetaAssumption DEF Next, assetSteps, networkSteps, answerSteps,
     editSteps, profileSteps, allVars
<1> QED BY <1>1, <1>2, EditsKept, PTL DEF Spec

-----------------------------------------------------------------------------
(* Tokens                                                                  *)

TokenCallRecords ==
  [step : {"detecting", "asking", "waiting", "fetching"},
   kind : {"add", "import", "detected"}, tokens : SUBSET Tokens, pair : Pairs,
   own : Accounts, client : BOOLEAN, lower : BOOLEAN, found : Lists]
TokenCallStates == {IdleTokenCall, EndedTokenCall} \cup TokenCallRecords

TokenTypes ==
  /\ tokenChain \in Chains /\ tokenAccount \in Accounts
  /\ lists \in [Pairs -> Lists] /\ view \in Lists
  /\ tokenCall \in [TokenCalls -> TokenCallStates]
  /\ tokenMutex \in Seq(TokenCalls)
  /\ imports \in SUBSET (Pairs \X Tokens)
  /\ crossed \in BOOLEAN /\ tokenSteps \in 0..MaxTokenSteps

\* Who waits for the mutex is in line, and who fetches is the first.
TokenMutexInTurn ==
  \A c \in TokenCalls :
    /\ tokenCall[c].step = "waiting" => \E i \in 1..Len(tokenMutex) : tokenMutex[i] = c
    /\ tokenCall[c].step = "fetching" => tokenMutex # <<>> /\ tokenMutex[1] = c

\* What a call read before it asked for metadata has everything that was imported.
FoundIsKept ==
  \A c \in TokenCalls : tokenCall[c].step = "fetching" =>
    /\ tokenCall[c].found.tokens \cap tokenCall[c].found.detected = {}
    /\ \A i \in imports : i[1] = tokenCall[c].pair => i[2] \in tokenCall[c].found.tokens

ListsAreSound ==
  /\ view = lists[selectedPair]
  /\ \A i \in imports : i[2] \in lists[i[1]].tokens
  /\ \A p \in Pairs : lists[p].tokens \cap lists[p].detected = {}

TokensInv ==
  TokenTypes /\ TokenMutexInTurn /\ (~crossed => FoundIsKept /\ ListsAreSound)

-----------------------------------------------------------------------------

LEMMA TokenStepCounted ==
  ASSUME TokensAssumption, TokenTypes, tokenStep
  PROVE  tokenSteps' \in 0..MaxTokenSteps
BY TokensAssumption DEF TokenTypes, tokenStep

LEMMA SelectedIsPair == TokenTypes => selectedPair \in Pairs
BY DEF TokenTypes, selectedPair, Pairs

\* Only calls, not yet or no longer with the mutex, change.
LEMMA TokenCallsMove ==
  ASSUME TokensInv, NEW c \in TokenCalls, NEW r \in TokenCallStates,
         tokenCall' = [tokenCall EXCEPT ![c] = r],
         tokenSteps' \in 0..MaxTokenSteps,
         UNCHANGED <<tokenChain, tokenAccount, lists, view, imports, crossed>>,
         \/ /\ UNCHANGED tokenMutex
            /\ r.step \notin {"waiting", "fetching"}
         \/ /\ tokenMutex # <<>> /\ tokenMutex' = Append(tokenMutex, c)
            /\ r.step = "waiting"
  PROVE  TokensInv'
<1>1. TokenTypes' BY DEF TokensInv, TokenTypes
<1>2. /\ \A d \in TokenCalls : tokenCall'[d] = IF d = c THEN r ELSE tokenCall[d]
      /\ tokenMutex \in Seq(TokenCalls) BY DEF TokensInv, TokenTypes
<1>3. /\ tokenMutex # <<>> => tokenMutex' # <<>> /\ tokenMutex'[1] = tokenMutex[1]
      /\ \A i \in 1..Len(tokenMutex) : i \in 1..Len(tokenMutex') /\ tokenMutex'[i] = tokenMutex[i]
      /\ r.step = "waiting" => \E i \in 1..Len(tokenMutex') : tokenMutex'[i] = c BY <1>2
<1>4. r.step # "fetching" OBVIOUS
<1>5. TokenMutexInTurn' BY <1>2, <1>3, <1>4 DEF TokensInv, TokenMutexInTurn
<1>6. ~crossed => FoundIsKept' /\ ListsAreSound'
  BY <1>2, <1>4 DEF TokensInv, FoundIsKept, ListsAreSound, selectedPair
<1> QED BY <1>1, <1>5, <1>6 DEF TokensInv

\* Who may go on with the mutex: no other call fetches.
mayHold(c) == tokenMutex = <<>> \/ tokenMutex[1] = c

LEMMA OnlyHolderFetches ==
  ASSUME TokensInv, NEW c \in TokenCalls, mayHold(c), NEW d \in TokenCalls, tokenCall[d].step = "fetching"
  PROVE  d = c
BY DEF TokensInv, TokenMutexInTurn, mayHold

\* The mutex is released with sound lists.
LEMMA TokenMutexReleased ==
  ASSUME TokensInv, NEW c \in TokenCalls, mayHold(c), releases(c),
         tokenSteps' \in 0..MaxTokenSteps, UNCHANGED selectionVars,
         lists' \in [Pairs -> Lists], view' \in Lists, imports' \in SUBSET (Pairs \X Tokens),
         crossed' \in BOOLEAN, ~crossed' => ListsAreSound'
  PROVE  TokensInv'
<1>1. /\ tokenCall' = [tokenCall EXCEPT ![c] = EndedTokenCall]
      /\ tokenMutex' = IF tokenMutex = <<>> THEN <<>> ELSE Tail(tokenMutex)
      /\ UNCHANGED <<tokenChain, tokenAccount>> BY DEF releases, selectionVars
<1>2. EndedTokenCall \in TokenCallStates /\ EndedTokenCall.step = "ended"
  BY DEF TokenCallStates, EndedTokenCall
<1>3. tokenMutex \in Seq(TokenCalls) /\ tokenCall \in [TokenCalls -> TokenCallStates]
  BY DEF TokensInv, TokenTypes
<1>4. /\ tokenCall' \in [TokenCalls -> TokenCallStates] /\ tokenMutex' \in Seq(TokenCalls)
      /\ \A d \in TokenCalls : tokenCall'[d] = IF d = c THEN EndedTokenCall ELSE tokenCall[d]
  BY <1>1, <1>2, <1>3
<1>5. TokenTypes' BY <1>1, <1>4 DEF TokensInv, TokenTypes
<1>6. \A d \in TokenCalls : tokenCall'[d].step # "fetching" BY <1>2, <1>4, OnlyHolderFetches
<1>7. ASSUME NEW d \in TokenCalls, tokenCall'[d].step = "waiting"
      PROVE  \E i \in 1..Len(tokenMutex') : tokenMutex'[i] = d
  <2>1. d # c /\ tokenCall[d].step = "waiting" BY <1>2, <1>4, <1>7
  <2>2. PICK i \in 1..Len(tokenMutex) : tokenMutex[i] = d BY <2>1 DEF TokensInv, TokenMutexInTurn
  <2>3. tokenMutex # <<>> /\ tokenMutex[1] = c /\ i # 1 BY <1>3, <2>1, <2>2 DEF mayHold
  <2>4. /\ tokenMutex' = Tail(tokenMutex) /\ Len(tokenMutex') = Len(tokenMutex) - 1
        /\ \A j \in 1..Len(tokenMutex') : tokenMutex'[j] = tokenMutex[j + 1] BY <1>1, <1>3, <2>3
  <2>5. i - 1 \in 1..Len(tokenMutex') /\ (i - 1) + 1 = i BY <1>3, <2>2, <2>3, <2>4
  <2>6. tokenMutex'[i - 1] = tokenMutex[(i - 1) + 1] BY <2>4, <2>5
  <2> QED BY <2>2, <2>5, <2>6
<1>8. TokenMutexInTurn' /\ FoundIsKept' BY <1>6, <1>7 DEF TokenMutexInTurn, FoundIsKept
<1> QED BY <1>5, <1>8 DEF TokensInv

LEMMA ListsRead ==
  ASSUME TokensInv, NEW c \in TokenCalls, NEW call \in TokenCallRecords, mayHold(c), readsLists(c, call),
         tokenSteps' \in 0..MaxTokenSteps, UNCHANGED selectionVars
  PROVE  TokensInv'
<1> DEFINE r == [call EXCEPT !.step = "fetching", !.found = lists[call.pair]]
<1>1. /\ tokenCall' = [tokenCall EXCEPT ![c] = r]
      /\ tokenMutex' = IF tokenMutex = <<>> THEN <<c>> ELSE tokenMutex
      /\ UNCHANGED <<tokenChain, tokenAccount, lists, view, imports, crossed>>
  BY DEF readsLists, selectionVars, listVars
<1>2. call.pair \in Pairs /\ lists[call.pair] \in Lists
  BY DEF TokensInv, TokenTypes, TokenCallRecords
<1>3. r \in TokenCallStates /\ r.step = "fetching" /\ r.found = lists[call.pair] /\ r.pair = call.pair
  BY <1>2 DEF TokenCallStates, TokenCallRecords
<1> HIDE DEF r
<1>4. tokenMutex \in Seq(TokenCalls) /\ tokenCall \in [TokenCalls -> TokenCallStates]
  BY DEF TokensInv, TokenTypes
<1>5. /\ tokenCall' \in [TokenCalls -> TokenCallStates] /\ tokenMutex' \in Seq(TokenCalls)
      /\ \A d \in TokenCalls : tokenCall'[d] = IF d = c THEN r ELSE tokenCall[d]
      /\ tokenMutex' # <<>> /\ tokenMutex'[1] = c BY <1>1, <1>3, <1>4 DEF mayHold
<1>6. TokenTypes' BY <1>1, <1>5 DEF TokensInv, TokenTypes
<1>7. \A d \in TokenCalls : tokenCall'[d].step = "fetching" => d = c BY <1>5, OnlyHolderFetches
<1>8. ASSUME NEW d \in TokenCalls, tokenCall'[d].step = "waiting"
      PROVE  \E i \in 1..Len(tokenMutex') : tokenMutex'[i] = d
  BY <1>3, <1>5, <1>8, <1>1, <1>4 DEF TokensInv, TokenMutexInTurn
<1>9. TokenMutexInTurn' BY <1>5, <1>7, <1>8 DEF TokenMutexInTurn
<1>10. ~crossed => ListsAreSound' /\ FoundIsKept'
  <2>1. SUFFICES ASSUME ~crossed PROVE ListsAreSound' /\ FoundIsKept' OBVIOUS
  <2>2. ListsAreSound' BY <1>1, <2>1 DEF TokensInv, ListsAreSound, selectedPair
  <2>3. /\ r.found.tokens \cap r.found.detected = {}
        /\ \A i \in imports : i[1] = r.pair => i[2] \in r.found.tokens
    BY <1>2, <1>3, <2>1 DEF TokensInv, ListsAreSound
  <2>4. FoundIsKept' BY <1>1, <1>5, <1>7, <2>3 DEF FoundIsKept
  <2> QED BY <2>2, <2>4
<1> QED BY <1>1, <1>6, <1>9, <1>10 DEF TokensInv

LEMMA TokensImported ==
  ASSUME TokensInv, NEW c \in TokenCalls, NEW call \in TokenCallRecords, mayHold(c), importsTokens(c, call),
         tokenSteps' \in 0..MaxTokenSteps, UNCHANGED selectionVars
  PROVE  TokensInv'
<1> DEFINE new == [tokens |-> view.tokens \cup call.tokens,
                   ignored |-> IF call.lower THEN view.ignored \ call.tokens ELSE view.ignored,
                   detected |-> view.detected \ call.tokens]
           p == IF call.client THEN call.pair ELSE selectedPair
<1>1. /\ view' = new /\ lists' = [lists EXCEPT ![p] = new]
      /\ imports' = imports \cup ({p} \X call.tokens)
      /\ crossed' = (crossed \/ (call.client /\ p # selectedPair))
      /\ releases(c)
      /\ selectedPair' = selectedPair BY DEF importsTokens, selectionVars, selectedPair
<1>2. /\ call.tokens \in SUBSET Tokens /\ call.pair \in Pairs /\ call.client \in BOOLEAN
      /\ view \in Lists /\ lists \in [Pairs -> Lists] /\ imports \in SUBSET (Pairs \X Tokens)
      /\ crossed \in BOOLEAN /\ selectedPair \in Pairs
  BY SelectedIsPair DEF TokensInv, TokenTypes, TokenCallRecords
<1>3. new \in Lists /\ new.tokens = view.tokens \cup call.tokens /\ new.detected = view.detected \ call.tokens
  BY <1>2 DEF Lists
<1>4. p \in Pairs /\ (~crossed' => ~crossed /\ p = selectedPair) BY <1>1, <1>2
<1> HIDE DEF new, p
<1>5. /\ lists' \in [Pairs -> Lists] /\ view' \in Lists /\ imports' \in SUBSET (Pairs \X Tokens)
      /\ crossed' \in BOOLEAN
      /\ \A q \in Pairs : lists'[q] = IF q = p THEN new ELSE lists[q]
      /\ \A i \in imports' : i \in imports \/ (i[1] = p /\ i[2] \in call.tokens)
  BY <1>1, <1>2, <1>3, <1>4
<1>6. ASSUME ~crossed' PROVE ListsAreSound'
  BY <1>4, <1>6, <1>1, <1>2, <1>5, <1>3 DEF TokensInv, ListsAreSound
<1> QED BY <1>1, <1>5, <1>6, TokenMutexReleased

LEMMA DetectedKept ==
  ASSUME TokensInv, NEW c \in TokenCalls, NEW call \in TokenCallRecords, mayHold(c), keepsDetected(c, call),
         tokenSteps' \in 0..MaxTokenSteps, UNCHANGED selectionVars
  PROVE  TokensInv'
<1> DEFINE old == lists[call.pair]
           more == {t \in call.tokens \ old.tokens : call.lower \/ t \notin old.ignored}
           new == [old EXCEPT !.detected = old.detected \cup more]
           after == [lists EXCEPT ![call.pair].detected = @ \cup more]
<1>1. /\ lists' = after
      /\ view' = [view EXCEPT !.tokens = after[selectedPair].tokens,
                              !.detected = after[selectedPair].detected]
      /\ UNCHANGED <<imports, crossed>>
      /\ releases(c)
      /\ selectedPair' = selectedPair BY DEF keepsDetected, selectionVars, selectedPair
<1>2. /\ call.tokens \in SUBSET Tokens /\ call.pair \in Pairs
      /\ view \in Lists /\ lists \in [Pairs -> Lists] /\ old \in Lists
      /\ imports \in SUBSET (Pairs \X Tokens)
      /\ crossed \in BOOLEAN /\ selectedPair \in Pairs
  BY SelectedIsPair DEF TokensInv, TokenTypes, TokenCallRecords
<1>3. more \subseteq Tokens /\ more \cap old.tokens = {} BY <1>2
<1>4. after = [lists EXCEPT ![call.pair] = new] OBVIOUS
<1> HIDE DEF more
<1>5. /\ new \in Lists /\ new.tokens = old.tokens /\ new.detected = old.detected \cup more
      /\ new.ignored = old.ignored BY <1>2, <1>3 DEF Lists
<1> HIDE DEF new, after
<1>6. /\ after \in [Pairs -> Lists]
      /\ \A q \in Pairs : after[q] = IF q = call.pair THEN new ELSE lists[q] BY <1>2, <1>4, <1>5
<1>7. /\ after[selectedPair] \in Lists
      /\ view' \in Lists /\ view'.tokens = after[selectedPair].tokens
      /\ view'.detected = after[selectedPair].detected /\ view'.ignored = view.ignored
  BY <1>1, <1>2, <1>6 DEF Lists
<1>8. ASSUME ~crossed' PROVE ListsAreSound'
  <2>1. view = lists[selectedPair] /\ ListsAreSound BY <1>1, <1>8 DEF TokensInv, ListsAreSound
  <2>2. view'.ignored = after[selectedPair].ignored BY <1>2, <1>5, <1>6, <1>7, <2>1
  <2>3. view' = (lists[selectedPair])' BY <1>1, <1>7, <2>2 DEF Lists
  <2>4. \A q \in Pairs : lists'[q].tokens \cap lists'[q].detected = {}
    BY <1>1, <1>2, <1>3, <1>5, <1>6, <2>1 DEF ListsAreSound
  <2>5. \A i \in imports : i[1] \in Pairs BY <1>2
  <2>6. \A i \in imports' : i[2] \in lists'[i[1]].tokens
    BY <1>1, <1>5, <1>6, <2>1, <2>5 DEF ListsAreSound
  <2> QED BY <2>3, <2>4, <2>6 DEF ListsAreSound
<1> QED BY <1>1, <1>2, <1>6, <1>7, <1>8, TokenMutexReleased

LEMMA TokenCallBegins ==
  ASSUME TokensInv, NEW c \in TokenCalls, NEW call \in TokenCallRecords, mayHold(c), begins(c, call),
         tokenSteps' \in 0..MaxTokenSteps, UNCHANGED selectionVars
  PROVE  TokensInv'
BY ListsRead, TokensImported, DetectedKept DEF begins

LEMMA TokenMutexAcquired ==
  ASSUME TokensInv, NEW c \in TokenCalls, NEW call \in TokenCallRecords, acquires(c, call),
         tokenSteps' \in 0..MaxTokenSteps, UNCHANGED selectionVars
  PROVE  TokensInv'
<1>1. CASE tokenMutex = <<>> BY <1>1, TokenCallBegins DEF acquires, mayHold
<1>2. CASE tokenMutex # <<>>
  <2> DEFINE r == [call EXCEPT !.step = "waiting"]
  <2>1. r \in TokenCallStates /\ r.step = "waiting" BY DEF TokenCallStates, TokenCallRecords
  <2>2. tokenCall' = [tokenCall EXCEPT ![c] = r] /\ tokenMutex' = Append(tokenMutex, c) /\ UNCHANGED listVars
    BY <1>2 DEF acquires
  <2> HIDE DEF r
  <2> QED BY <1>2, <2>1, <2>2, TokenCallsMove DEF listVars, selectionVars
<1> QED BY <1>1, <1>2

\* A call that is under way is a record of that type.
LEMMA TokenCallUnderWay ==
  ASSUME TokenTypes, NEW c \in TokenCalls,
         tokenCall[c].step \in {"detecting", "asking", "waiting", "fetching"}
  PROVE  tokenCall[c] \in TokenCallRecords
BY DEF TokenTypes, TokenCallStates, IdleTokenCall, EndedTokenCall

LEMMA NoTokensAreLists == NoTokens \in Lists
BY DEF NoTokens, Lists

LEMMA HandedOnKeepsTokens ==
  ASSUME TokensInv, NEW c \in TokenCalls, mutexHandedOn(c)
  PROVE  TokensInv'
BY TokenCallUnderWay, TokenCallBegins DEF mutexHandedOn, TokensInv, TokenTypes, TokenMutexInTurn, mayHold

LEMMA CallsKeepTokens ==
  ASSUME TokensInv, TokensAssumption, NEW c \in TokenCalls,
         \/ \E t \in Tokens, p \in Pairs : addToken(c, t, p) \/ watchAsset(c, t, p)
         \/ \E t \in Tokens, chain \in Chains, lower \in BOOLEAN : addTokens(c, {t}, chain, lower)
         \/ \E p \in Pairs : detectTokens(c, p)
  PROVE  TokensInv'
<1>1. tokenAccount \in Accounts /\ tokenChain \in Chains BY DEF TokensInv, TokenTypes
<1>2. tokenStep => tokenSteps' \in 0..MaxTokenSteps BY TokenStepCounted DEF TokensInv
<1>3. ASSUME NEW t \in Tokens, NEW p \in Pairs, addToken(c, t, p)
      PROVE  TokensInv'
  BY <1>3, <1>1, NoTokensAreLists, <1>2, TokenMutexAcquired DEF addToken, Call, TokenCallRecords
<1>4. ASSUME NEW t \in Tokens, NEW p \in Pairs, watchAsset(c, t, p)
      PROVE  TokensInv'
  <2>1. PICK r \in TokenCallStates :
          /\ r = Call("asking", "add", {t}, p, tokenAccount, p[1] # tokenChain, FALSE, NoTokens)
          /\ r.step = "asking"
    <3>1. (p[1] # tokenChain) \in BOOLEAN OBVIOUS
    <3>2. PICK client \in BOOLEAN : client = (p[1] # tokenChain) BY <3>1
    <3>3. Call("asking", "add", {t}, p, tokenAccount, client, FALSE, NoTokens) \in TokenCallRecords
      BY <1>1, NoTokensAreLists DEF Call, TokenCallRecords
    <3>4. Call("asking", "add", {t}, p, tokenAccount, client, FALSE, NoTokens).step = "asking"
      BY DEF Call
    <3> QED BY <3>2, <3>3, <3>4 DEF TokenCallStates
  <2>2. /\ tokenCall' = [tokenCall EXCEPT ![c] = r] /\ tokenStep
        /\ UNCHANGED <<selectionVars, listVars, tokenMutex>> BY <1>4, <2>1 DEF watchAsset
  <2> QED BY <1>2, <2>1, <2>2, TokenCallsMove DEF selectionVars, listVars
<1>5. ASSUME NEW t \in Tokens, NEW chain \in Chains, NEW lower \in BOOLEAN, addTokens(c, {t}, chain, lower)
      PROVE  TokensInv'
  BY <1>5, <1>1, NoTokensAreLists, <1>2, TokenMutexAcquired DEF addTokens, Pairs, Call, TokenCallRecords
<1>6. ASSUME NEW p \in Pairs, detectTokens(c, p)
      PROVE  TokensInv'
  <2>1. PICK S \in SUBSET Tokens : S = Tokens \ (lists[p].tokens \cup lists[p].ignored \cup lists[p].detected)
    OBVIOUS
  <2>2. PICK r \in TokenCallStates :
          /\ r = Call("detecting", "detected", S, p, tokenAccount, TRUE, TRUE, NoTokens)
          /\ r.step = "detecting"
    <3>1. Call("detecting", "detected", S, p, tokenAccount, TRUE, TRUE, NoTokens) \in TokenCallRecords
      BY <1>1, NoTokensAreLists DEF Call, TokenCallRecords
    <3>2. Call("detecting", "detected", S, p, tokenAccount, TRUE, TRUE, NoTokens).step = "detecting"
      BY DEF Call
    <3> QED BY <3>1, <3>2 DEF TokenCallStates
  <2>3. /\ tokenCall' = [tokenCall EXCEPT ![c] = r] /\ tokenStep
        /\ UNCHANGED <<selectionVars, listVars, tokenMutex>> BY <1>6, <2>1, <2>2 DEF detectTokens
  <2> QED BY <1>2, <2>2, <2>3, TokenCallsMove DEF selectionVars, listVars
<1> QED BY <1>3, <1>4, <1>5, <1>6

\* A call is asked for, or its balances read; then it takes the mutex or ends.
LEMMA AnswersKeepTokens ==
  ASSUME TokensInv, NEW c \in TokenCalls,
         \/ \E S \in SUBSET Tokens, lower \in BOOLEAN : balancesRead(c, S, lower)
         \/ watchApproved(c) \/ watchRejected(c)
  PROVE  TokensInv'
<1>1. /\ tokenAccount \in Accounts /\ tokenChain \in Chains /\ TokenTypes
      /\ tokenSteps \in 0..MaxTokenSteps BY DEF TokensInv, TokenTypes
<1>2. EndedTokenCall \in TokenCallStates /\ EndedTokenCall.step \notin {"waiting", "fetching"}
  BY DEF TokenCallStates, EndedTokenCall
<1>3. ASSUME NEW S \in SUBSET Tokens, NEW lower \in BOOLEAN, balancesRead(c, S, lower)
      PROVE  TokensInv'
  BY <1>3, <1>1, TokenCallUnderWay, TokenMutexAcquired, <1>2, TokenCallsMove DEF balancesRead,
     TokenCallRecords, selectionVars, listVars
<1>4. CASE watchApproved(c)
  <2> DEFINE chain == IF tokenCall[c].client THEN tokenCall[c].pair[1] ELSE tokenChain
  <2>1. /\ tokenCall[c].step = "asking" /\ UNCHANGED <<selectionVars, tokenSteps>>
        /\ acquires(c, [tokenCall[c] EXCEPT !.own = tokenAccount, !.pair = <<chain, @[2]>>])
    BY <1>4 DEF watchApproved
  <2>2. tokenCall[c] \in TokenCallRecords BY <1>1, <2>1, TokenCallUnderWay
  <2>3. tokenCall[c].pair \in Pairs BY <2>2 DEF TokenCallRecords
  <2>4. <<chain, tokenCall[c].pair[2]>> \in Pairs BY <1>1, <2>3 DEF Pairs
  <2>5. [tokenCall[c] EXCEPT !.own = tokenAccount, !.pair = <<chain, @[2]>>] \in TokenCallRecords
    <3> HIDE DEF chain
    <3> QED BY <1>1, <2>2, <2>4 DEF TokenCallRecords
  <2>6. PICK call \in TokenCallRecords :
          call = [tokenCall[c] EXCEPT !.own = tokenAccount, !.pair = <<chain, @[2]>>] BY <2>5
  <2>7. acquires(c, call) BY <2>1, <2>6
  <2> HIDE DEF chain
  <2> QED BY <1>1, <2>1, <2>7, TokenMutexAcquired
<1>5. CASE watchRejected(c)
  BY <1>5, <1>1, <1>2, TokenCallsMove DEF watchRejected, selectionVars, listVars
<1> QED BY <1>3, <1>4, <1>5

\* The token is kept with the lists that were read before: nothing was imported meanwhile.
LEMMA MetadataKeepsTokens ==
  ASSUME TokensInv, NEW c \in TokenCalls, metadataFetched(c) \/ metadataFailed(c)
  PROVE  TokensInv'
<1>1. tokenCall[c].step = "fetching" /\ releases(c) /\ UNCHANGED <<selectionVars, tokenSteps>>
  BY DEF metadataFetched, metadataFailed
<1>2. mayHold(c) BY <1>1 DEF TokensInv, TokenMutexInTurn, mayHold
<1>3. tokenSteps' \in 0..MaxTokenSteps /\ selectedPair' = selectedPair
  BY <1>1 DEF TokensInv, TokenTypes, selectionVars, selectedPair
<1>4. CASE metadataFailed(c)
  BY <1>4, <1>3, <1>1, <1>2, TokenMutexReleased DEF metadataFailed, listVars, TokensInv, TokenTypes,
     ListsAreSound
<1>5. CASE metadataFetched(c)
  <2>1. tokenCall[c] \in TokenCallRecords BY <1>1, TokenCallUnderWay DEF TokensInv
  <2>2. PICK call \in TokenCallRecords : call = tokenCall[c] BY <2>1
  <2> DEFINE new == [tokens |-> call.found.tokens \cup call.tokens,
                     ignored |-> call.found.ignored \ call.tokens,
                     detected |-> call.found.detected \ call.tokens]
             p == call.pair
  <2>3. /\ lists' = [lists EXCEPT ![p] = new]
        /\ view' = IF p[2] = call.own THEN new ELSE view
        /\ imports' = imports \cup ({p} \X call.tokens)
        /\ crossed' = (crossed \/ crosses(call))
        /\ stillOnChain(call) BY <1>5, <2>2 DEF metadataFetched
  <2>4. /\ call.tokens \in SUBSET Tokens /\ p \in Pairs /\ call.client \in BOOLEAN /\ call.found \in Lists
        /\ view \in Lists /\ lists \in [Pairs -> Lists] /\ imports \in SUBSET (Pairs \X Tokens)
        /\ crossed \in BOOLEAN /\ selectedPair \in Pairs
    BY SelectedIsPair DEF TokensInv, TokenTypes, TokenCallRecords
  <2>5. /\ new \in Lists /\ new.tokens = call.found.tokens \cup call.tokens
        /\ new.detected = call.found.detected \ call.tokens BY <2>4 DEF Lists
  <2>6. (crosses(call) \in BOOLEAN) /\ (~crosses(call) => call.own = tokenAccount /\ p[1] = tokenChain)
    BY <2>3 DEF crosses, stillOnChain
  <2>7. ~crosses(call) => (p[2] = call.own <=> p = selectedPair)
    BY <2>4, <2>6 DEF Pairs, selectedPair
  <2> HIDE DEF new, p
  <2>8. /\ lists' \in [Pairs -> Lists] /\ view' \in Lists /\ imports' \in SUBSET (Pairs \X Tokens)
        /\ crossed' \in BOOLEAN
        /\ \A q \in Pairs : lists'[q] = IF q = p THEN new ELSE lists[q]
        /\ \A i \in imports' : i \in imports \/ (i[1] = p /\ i[2] \in call.tokens)
    BY <2>3, <2>4, <2>5, <2>6
  <2>9. ASSUME ~crossed' PROVE ListsAreSound'
    BY <2>3, <2>9, <1>3, <2>4, <2>7, <2>8, <1>1, <2>2, <2>5 DEF TokensInv, ListsAreSound, FoundIsKept, p
  <2> QED BY <1>1, <1>2, <1>3, <2>8, <2>9, TokenMutexReleased
<1> QED BY <1>4, <1>5

-----------------------------------------------------------------------------

\* Calls and the mutex stay, and so does what imports has of what calls have read.
LEMMA ListsChange ==
  ASSUME TokensInv, UNCHANGED <<tokenCall, tokenMutex, crossed>>, tokenSteps' \in 0..MaxTokenSteps,
         tokenChain' \in Chains, tokenAccount' \in Accounts,
         lists' \in [Pairs -> Lists], view' \in Lists, imports' \subseteq imports,
         ~crossed => ListsAreSound'
  PROVE  TokensInv'
BY DEF TokensInv, TokenTypes, TokenMutexInTurn, FoundIsKept

LEMMA SwitchesKeepTokens ==
  ASSUME TokensInv, TokensAssumption,
         \/ \E chain \in Chains : networkDidChange(chain)
         \/ \E account \in Accounts : preferencesDidChange(account)
  PROVE  TokensInv'
BY TokenStepCounted, ListsChange DEF networkDidChange, preferencesDidChange, selectedPair, TokensInv,
   TokenTypes, showsTokensOf, Pairs, ListsAreSound

LEMMA IgnoresKeepTokens ==
  ASSUME TokensInv, TokensAssumption,
         (\E t \in Tokens : ignoreTokens(t)) \/ clearIgnoredTokens
  PROVE  TokensInv'
<1>1. /\ tokenStep /\ UNCHANGED <<tokenChain, tokenAccount, tokenCall, tokenMutex, crossed>>
      /\ selectedPair' = selectedPair
  BY DEF ignoreTokens, clearIgnoredTokens, selectionVars, selectedPair
<1>2. /\ tokenSteps' \in 0..MaxTokenSteps /\ tokenChain' \in Chains /\ tokenAccount' \in Accounts
      /\ lists \in [Pairs -> Lists] /\ view \in Lists /\ selectedPair \in Pairs
      /\ imports \in SUBSET (Pairs \X Tokens)
  BY <1>1, TokenStepCounted, SelectedIsPair DEF TokensInv, TokenTypes
<1>3. ASSUME NEW t \in Tokens, ignoreTokens(t)
      PROVE  TokensInv'
  <2> DEFINE new == [tokens |-> view.tokens \ {t}, ignored |-> view.ignored \cup {t},
                     detected |-> view.detected \ {t}]
  <2>1. /\ view' = new /\ lists' = [lists EXCEPT ![selectedPair] = new]
        /\ imports' = imports \ {<<selectedPair, t>>} BY <1>3 DEF ignoreTokens
  <2>2. /\ new \in Lists /\ new.tokens = view.tokens \ {t} /\ new.detected = view.detected \ {t}
    BY <1>2 DEF Lists
  <2> HIDE DEF new
  <2>3. /\ lists' \in [Pairs -> Lists] /\ view' \in Lists /\ imports' \subseteq imports
        /\ \A q \in Pairs : lists'[q] = IF q = selectedPair THEN new ELSE lists[q]
        /\ \A i \in imports' : i \in imports /\ i[1] \in Pairs /\ ~(i[1] = selectedPair /\ i[2] = t)
    BY <1>2, <2>1, <2>2
  <2>4. ASSUME ~crossed PROVE ListsAreSound'
    BY <2>4, <1>1, <1>2, <2>1, <2>3, <2>2 DEF TokensInv, ListsAreSound
  <2> QED BY <1>1, <1>2, <2>3, <2>4, ListsChange
<1>4. CASE clearIgnoredTokens
  BY <1>4, <1>2, <1>1, ListsChange DEF clearIgnoredTokens, Lists, TokensInv, ListsAreSound
<1> QED BY <1>3, <1>4

LEMMA TokensInitially == TokensAssumption /\ TokensInit => TokensInv
<1> SUFFICES ASSUME TokensAssumption, TokensInit PROVE TokensInv OBVIOUS
<1>1. /\ tokenChain \in Chains /\ tokenAccount \in Accounts
      /\ lists = [p \in Pairs |-> NoTokens] /\ view = NoTokens
      /\ tokenCall = [c \in TokenCalls |-> IdleTokenCall]
      /\ tokenMutex = <<>> /\ imports = {} /\ crossed = FALSE /\ tokenSteps = 0 BY DEF TokensInit
<1>2. NoTokens \in Lists /\ NoTokens.tokens = {} /\ NoTokens.detected = {} BY DEF NoTokens, Lists
<1>3. IdleTokenCall \in TokenCallStates /\ IdleTokenCall.step = "idle"
  BY DEF TokenCallStates, IdleTokenCall
<1>4. 0 \in 0..MaxTokenSteps BY DEF TokensAssumption
<1>5. TokenTypes
  <2>1. lists \in [Pairs -> Lists] /\ tokenCall \in [TokenCalls -> TokenCallStates]
    BY <1>1, <1>2, <1>3
  <2>2. tokenMutex \in Seq(TokenCalls) /\ imports \in SUBSET (Pairs \X Tokens) BY <1>1
  <2>3. view \in Lists /\ crossed \in BOOLEAN /\ tokenSteps \in 0..MaxTokenSteps BY <1>1, <1>2, <1>4
  <2> QED BY <1>1, <2>1, <2>2, <2>3 DEF TokenTypes
<1>6. TokenMutexInTurn /\ FoundIsKept BY <1>1, <1>3 DEF TokenMutexInTurn, FoundIsKept
<1>7. ListsAreSound BY <1>1, <1>2, <1>5, SelectedIsPair DEF ListsAreSound
<1> QED BY <1>5, <1>6, <1>7 DEF TokensInv

LEMMA TokenStepsKeepTokens ==
  ASSUME TokensInv, TokensAssumption, TokensNext
  PROVE  TokensInv'
BY SwitchesKeepTokens, IgnoresKeepTokens, CallsKeepTokens, AnswersKeepTokens, HandedOnKeepsTokens,
   MetadataKeepsTokens DEF TokensNext

LEMMA TokensIdle == TokensInv /\ UNCHANGED tokensVars => TokensInv'
<1> SUFFICES ASSUME TokensInv, UNCHANGED tokensVars PROVE TokensInv' OBVIOUS
<1>1. UNCHANGED <<tokenChain, tokenAccount, lists, view, tokenCall, tokenMutex, imports, crossed, tokenSteps>>
  BY DEF tokensVars, selectionVars, listVars
<1> QED
  BY <1>1 DEF TokensInv, TokenTypes, TokenMutexInTurn, FoundIsKept, ListsAreSound, selectedPair

LEMMA TokensInvMeansKept == TokensInv => ImportsAreKept
<1> SUFFICES ASSUME TokensInv PROVE ImportsAreKept OBVIOUS
<1>1. TokensTypeOK BY DEF TokensInv, TokenTypes, TokenCallStates, TokenCallRecords, TokensTypeOK
<1> QED BY <1>1 DEF TokensInv, ListsAreSound, ImportsAreKept, TokensAreOfActivePair

-----------------------------------------------------------------------------
(* NFTs                                                                    *)

NftLists == [Nfts -> Entry \cup {NoNft}]
NftCallRecords ==
  [step : {"metadata", "contract", "contract information", "individual", "verifying", "watching",
           "asking", "checking one", "detecting", "update", "updating", "checking"},
   nft : Nfts \cup {NoNft}, pair : NftPairs, client : BOOLEAN, detected : BOOLEAN,
   found : NftLists, contracts : SUBSET Contracts]

\* Calls of the account's lists as a whole name no NFT; a copy of one is of one that was listed.
NftCallsMade ==
  {r \in NftCallRecords :
     /\ r.step \notin {"detecting", "update", "updating", "checking"} => r.nft \in Nfts
     /\ r.step = "checking one" => r.found[r.nft] # NoNft}
NftCallStates == {IdleNftCall, EndedNftCall} \cup NftCallsMade

NftTypes ==
  /\ nftChain \in NftChains /\ nftAccount \in NftAccounts
  /\ allNfts \in [NftPairs -> NftLists]
  /\ allNftContracts \in [NftPairs -> SUBSET Contracts]
  /\ ignoredNfts \in SUBSET Nfts
  /\ nftCall \in [NftCalls -> NftCallStates]
  /\ nftMutex \in Seq(NftCalls)
  /\ added \in SUBSET (NftPairs \X Nfts)
  /\ disturbed \in BOOLEAN /\ nftSteps \in 0..MaxNftSteps

\* Whoever awaits answers with the mutex is the first in line.
NftMutexInTurn ==
  \A c \in NftCalls : nftCall[c].step \in {"contract information", "updating"} =>
    nftMutex # <<>> /\ nftMutex[1] = c

\* Who is to add an NFT has added its contract, and who asks about a contract has read all
\* that are there.
ContractsAreRead(call, contracts) ==
  /\ call.step = "individual" => call.nft[1] \in contracts[call.pair]
  /\ call.step = "contract information" => contracts[call.pair] \subseteq call.contracts

AddedAreListed(nfts, contracts, entries) ==
  /\ \A a \in entries : nfts[a[1]][a[2]] # NoNft
  /\ \A p \in NftPairs, n \in Nfts : nfts[p][n] # NoNft => n[1] \in contracts[p]

NftsInv ==
  /\ NftTypes
  /\ NftMutexInTurn
  /\ ~disturbed =>
       /\ \A c \in NftCalls : ContractsAreRead(nftCall[c], allNftContracts)
       /\ AddedAreListed(allNfts, allNftContracts, added)

-----------------------------------------------------------------------------

LEMMA NftStepCounted ==
  ASSUME NftsAssumption, NftTypes, nftStep
  PROVE  nftSteps' \in 0..MaxNftSteps
BY NftsAssumption DEF NftTypes, nftStep

LEMMA NftCallUnderWay ==
  ASSUME NftTypes, NEW c \in NftCalls, nftCall[c].step \notin {"idle", "ended"}
  PROVE  nftCall[c] \in NftCallsMade
BY DEF NftTypes, NftCallStates, IdleNftCall, EndedNftCall

LEMMA EndedNftCallIsState ==
  EndedNftCall \in NftCallStates /\ EndedNftCall.step = "ended"
BY DEF NftCallStates, EndedNftCall

LEMMA LineMoves ==
  ASSUME NEW S, NEW q \in Seq(S), NEW c \in S
  PROVE  /\ Append(q, c) \in Seq(S) /\ Append(q, c) # <<>>
         /\ q # <<>> => /\ Tail(q) \in Seq(S) /\ Append(Tail(q), c) \in Seq(S)
                       /\ Append(q, c)[1] = q[1] /\ Head(q) = q[1]
OBVIOUS

\* One call moves: it lines up, or has the mutex and may let it go; only with the mutex
\* does it add a contract.
LEMMA NftCallMoves ==
  ASSUME NftsInv, NEW c \in NftCalls, NEW r \in NftCallStates,
         nftCall' = [nftCall EXCEPT ![c] = r],
         nftChain' \in NftChains, nftAccount' \in NftAccounts,
         allNfts' \in [NftPairs -> NftLists], allNftContracts' \in [NftPairs -> SUBSET Contracts],
         ignoredNfts' \in SUBSET Nfts, added' \in SUBSET (NftPairs \X Nfts),
         disturbed' \in BOOLEAN, nftSteps' \in 0..MaxNftSteps,
         \/ /\ nftMutex' = nftMutex \/ nftMutex' = Append(nftMutex, c)
            /\ r.step \in {"contract information", "updating"} => hasMutex(c)
         \/ /\ hasMutex(c)
            /\ nftMutex' = Tail(nftMutex) \/ nftMutex' = Append(Tail(nftMutex), c)
            /\ r.step \notin {"contract information", "updating"},
         \/ UNCHANGED allNftContracts
         \/ /\ hasMutex(c)
            /\ ~disturbed' => \A p \in NftPairs : allNftContracts[p] \subseteq allNftContracts'[p],
         ~disturbed' => /\ ~disturbed
                        /\ ContractsAreRead(r, allNftContracts')
                        /\ AddedAreListed(allNfts', allNftContracts', added')
  PROVE  NftsInv'
<1>1. nftMutex \in Seq(NftCalls) /\ nftCall \in [NftCalls -> NftCallStates] BY DEF NftsInv, NftTypes
<1>2. /\ nftCall' \in [NftCalls -> NftCallStates]
      /\ \A d \in NftCalls : nftCall'[d] = IF d = c THEN r ELSE nftCall[d] BY <1>1
<1>3. /\ nftMutex' \in Seq(NftCalls)
      /\ hasMutex(c) => nftMutex # <<>> /\ nftMutex[1] = c
      /\ nftMutex # <<>> /\ (nftMutex' = nftMutex \/ nftMutex' = Append(nftMutex, c))
           => nftMutex' # <<>> /\ nftMutex'[1] = nftMutex[1]
  <2>1. PICK q \in Seq(NftCalls) : q = nftMutex BY <1>1
  <2>2. /\ Append(q, c) \in Seq(NftCalls) /\ Append(q, c) # <<>>
        /\ q # <<>> => /\ Tail(q) \in Seq(NftCalls) /\ Append(Tail(q), c) \in Seq(NftCalls)
                      /\ Append(q, c)[1] = q[1] /\ Head(q) = q[1] BY LineMoves
  <2> QED BY <2>1, <2>2, Zenon DEF hasMutex
<1>4. NftTypes' BY <1>2, <1>3 DEF NftTypes
<1>5. ASSUME NEW d \in NftCalls, nftCall[d].step \in {"contract information", "updating"}, hasMutex(c)
      PROVE  d = c BY <1>3, <1>5 DEF NftsInv, NftMutexInTurn
<1>6. NftMutexInTurn'
  <2>1. SUFFICES ASSUME NEW d \in NftCalls, nftCall'[d].step \in {"contract information", "updating"}
                 PROVE  nftMutex' # <<>> /\ nftMutex'[1] = d BY DEF NftMutexInTurn
  <2>2. nftMutex # <<>> /\ nftMutex[1] = d BY <1>2, <1>3, <2>1 DEF NftsInv, NftMutexInTurn
  <2>3. nftMutex' = nftMutex \/ nftMutex' = Append(nftMutex, c) BY <1>2, <1>5, <2>1
  <2> QED BY <1>3, <2>2, <2>3
<1>7. ASSUME ~disturbed', NEW d \in NftCalls
      PROVE  ContractsAreRead(nftCall'[d], allNftContracts')
  BY <1>2, <1>7, <1>5, NftCallUnderWay DEF NftsInv, NftCallsMade, NftCallRecords, ContractsAreRead
<1> QED BY <1>4, <1>6, <1>7 DEF NftsInv

\* A call that does not yet, or no longer, have to do with lists and contracts.
LEMMA NftCallMovesOn ==
  ASSUME NftsInv, NEW c \in NftCalls, NEW r \in NftCallStates,
         nftCall' = [nftCall EXCEPT ![c] = r],
         nftMutex' = nftMutex \/ nftMutex' = Append(nftMutex, c),
         r.step \notin {"contract information", "updating", "individual"},
         nftChain' \in NftChains, nftAccount' \in NftAccounts, nftSteps' \in 0..MaxNftSteps,
         UNCHANGED nftListVars
  PROVE  NftsInv'
BY NftCallMoves DEF nftListVars, NftsInv, NftTypes, ContractsAreRead

LEMMA NoNftsAreLists == NoNfts \in NftLists
BY DEF NoNfts, NftLists

LEMMA PairChanged ==
  ASSUME NEW S, NEW R, NEW p \in S \X R
  PROVE  /\ \A x \in S : [p EXCEPT ![1] = x] \in S \X R
         /\ \A y \in R : [p EXCEPT ![2] = y] \in S \X R
OBVIOUS

LEMMA CorrectChain ==
  ASSUME NftTypes, NEW call \in NftCallRecords
  PROVE  <<getCorrectChainId(call), call.pair[2]>> \in NftPairs
BY DEF NftTypes, NftCallRecords, NftPairs, getCorrectChainId

LEMMA AddsKeepNfts ==
  ASSUME NftsInv, NEW c \in NftCalls, NEW call \in NftCallRecords, call.nft \in Nfts,
         NEW withMetadata \in BOOLEAN, addsNft(c, call, withMetadata),
         nftSteps' \in 0..MaxNftSteps, UNCHANGED <<nftSelectionVars, nftListVars>>
  PROVE  NftsInv'
<1> DEFINE p == <<getCorrectChainId(call), call.pair[2]>>
           step == IF withMetadata THEN "contract" ELSE "metadata"
           r == [[call EXCEPT !.pair = p] EXCEPT !.step = step]
<1>1. p \in NftPairs BY CorrectChain DEF NftsInv
<1>2. r \in NftCallStates /\ r.step = step
  <2> HIDE DEF p
  <2>1. r \in NftCallRecords /\ r.step = step /\ r.nft = call.nft BY <1>1 DEF NftCallRecords
  <2> HIDE DEF r
  <2> QED BY <2>1 DEF NftCallStates, NftCallsMade
<1>3. /\ nftCall' = [nftCall EXCEPT ![c] = r]
      /\ nftMutex' = nftMutex \/ nftMutex' = Append(nftMutex, c) BY DEF addsNft, nftCallIs, linesUp
<1> HIDE DEF r
<1>4. nftChain' \in NftChains /\ nftAccount' \in NftAccounts
  BY DEF nftSelectionVars, NftsInv, NftTypes
<1> QED BY <1>2, <1>3, <1>4, NftCallMovesOn

LEMMA NftCallStarts ==
  ASSUME NftsInv, NftsAssumption, NEW c \in NftCalls, NEW r \in NftCallStates, startsNftCall(c, r),
         r.step \notin {"contract information", "updating", "individual"},
         UNCHANGED <<nftSelectionVars, nftListVars, nftMutex>>
  PROVE  NftsInv'
BY NftStepCounted, NftCallMovesOn DEF startsNftCall, nftCallIs, nftSelectionVars, NftsInv, NftTypes

LEMMA StartsKeepNfts ==
  ASSUME NftsInv, NftsAssumption, NEW c \in NftCalls,
         \/ \E nft \in Nfts, p \in NftPairs, client \in BOOLEAN :
              addNft(c, nft, p, client) \/ \E watch \in BOOLEAN : verifiesOwnership(c, nft, p, client, watch)
         \/ \E account \in NftAccounts, client \in BOOLEAN : detectNfts(c, account, client)
         \/ \E p \in NftPairs, client \in BOOLEAN : checkAllOwnership(c, p, client)
         \/ \E p \in NftPairs, nft \in Nfts : checkSingleOwnership(c, p, nft)
  PROVE  NftsInv'
<1>1. /\ nftStep => nftSteps' \in 0..MaxNftSteps
      /\ nftChain \in NftChains /\ nftAccount \in NftAccounts
      /\ allNfts \in [NftPairs -> NftLists] BY NftStepCounted DEF NftsInv, NftTypes
<1>2. ASSUME NEW nft \in Nfts, NEW p \in NftPairs, NEW client \in BOOLEAN, addNft(c, nft, p, client)
      PROVE  NftsInv'
  <2>1. PICK call \in NftCallRecords : call = NftCall("metadata", nft, p, client, FALSE) /\ call.nft \in Nfts
    <3>1. /\ NftCall("metadata", nft, p, client, FALSE) \in NftCallRecords
          /\ NftCall("metadata", nft, p, client, FALSE).nft = nft
      BY NoNftsAreLists DEF NftCall, NftCallRecords
    <3> QED BY <3>1
  <2>2. /\ addsNft(c, call, FALSE) /\ nftStep
        /\ UNCHANGED <<nftSelectionVars, nftListVars>> BY <1>2, <2>1 DEF addNft
  <2> QED BY <1>1, <2>1, <2>2, AddsKeepNfts
<1>3. ASSUME NEW nft \in Nfts, NEW p \in NftPairs, NEW client \in BOOLEAN, NEW watch \in BOOLEAN,
             verifiesOwnership(c, nft, p, client, watch)
      PROVE  NftsInv'
  <2>1. PICK step \in {"watching", "verifying"} : step = IF watch THEN "watching" ELSE "verifying"
    OBVIOUS
  <2>2. PICK r \in NftCallStates :
          r = NftCall(step, nft, p, client, FALSE) /\ r.step \in {"watching", "verifying"}
    <3>1. /\ NftCall(step, nft, p, client, FALSE) \in NftCallRecords
          /\ NftCall(step, nft, p, client, FALSE).step = step
          /\ NftCall(step, nft, p, client, FALSE).nft = nft
      BY NoNftsAreLists DEF NftCall, NftCallRecords
    <3> QED BY <3>1 DEF NftCallStates, NftCallsMade
  <2>3. /\ startsNftCall(c, r)
        /\ UNCHANGED <<nftSelectionVars, nftListVars, nftMutex>>
    BY <1>3, <2>1, <2>2 DEF verifiesOwnership
  <2> QED BY <2>2, <2>3, NftCallStarts
<1>4. ASSUME NEW account \in NftAccounts, NEW client \in BOOLEAN, detectNfts(c, account, client)
      PROVE  NftsInv'
  <2>1. PICK p \in NftPairs : p = <<nftChain, account>> BY <1>1 DEF NftPairs
  <2>2. PICK r \in NftCallStates :
          r = NftCall("detecting", NoNft, p, client, TRUE) /\ r.step = "detecting"
    <3>1. /\ NftCall("detecting", NoNft, p, client, TRUE) \in NftCallRecords
          /\ NftCall("detecting", NoNft, p, client, TRUE).step = "detecting"
      BY NoNftsAreLists DEF NftCall, NftCallRecords
    <3> QED BY <3>1 DEF NftCallStates, NftCallsMade
  <2>3. /\ startsNftCall(c, r)
        /\ UNCHANGED <<nftSelectionVars, nftListVars, nftMutex>> BY <1>4, <2>1, <2>2 DEF detectNfts
  <2> QED BY <2>2, <2>3, NftCallStarts
<1>5. ASSUME NEW p \in NftPairs, NEW client \in BOOLEAN, checkAllOwnership(c, p, client)
      PROVE  NftsInv'
  <2>1. PICK call \in NftCallRecords :
          call = NftCall("checking", NoNft, p, client, FALSE) /\ call.step = "checking"
    <3>1. /\ NftCall("checking", NoNft, p, client, FALSE) \in NftCallRecords
          /\ NftCall("checking", NoNft, p, client, FALSE).step = "checking"
      BY NoNftsAreLists DEF NftCall, NftCallRecords
    <3> QED BY <3>1
  <2>2. PICK copies \in NftLists : copies = allNfts[p] BY <1>1
  <2>3. [call EXCEPT !.found = copies] \in NftCallRecords /\ [call EXCEPT !.found = copies].step = "checking"
    BY <2>1 DEF NftCallRecords
  <2>4. PICK r \in NftCallStates : r = [call EXCEPT !.found = copies] /\ r.step = "checking"
    BY <2>3 DEF NftCallStates, NftCallsMade
  <2>5. /\ startsNftCall(c, r)
        /\ UNCHANGED <<nftSelectionVars, nftListVars, nftMutex>>
    BY <1>5, <2>1, <2>2, <2>4 DEF checkAllOwnership
  <2> QED BY <2>4, <2>5, NftCallStarts
<1>6. ASSUME NEW p \in NftPairs, NEW nft \in Nfts, checkSingleOwnership(c, p, nft)
      PROVE  NftsInv'
  <2>1. PICK call \in NftCallRecords :
          /\ call = NftCall("checking one", nft, p, TRUE, FALSE)
          /\ call.nft = nft /\ call.step = "checking one"
    <3>1. /\ NftCall("checking one", nft, p, TRUE, FALSE) \in NftCallRecords
          /\ NftCall("checking one", nft, p, TRUE, FALSE).nft = nft
          /\ NftCall("checking one", nft, p, TRUE, FALSE).step = "checking one"
      BY NoNftsAreLists DEF NftCall, NftCallRecords
    <3> QED BY <3>1
  <2>2. PICK copies \in NftLists : copies = allNfts[p] BY <1>1
  <2>3. copies[nft] # NoNft BY <1>6, <2>2 DEF checkSingleOwnership, listed
  <2>4. /\ [call EXCEPT !.found = copies] \in NftCallRecords
        /\ [call EXCEPT !.found = copies].step = "checking one"
        /\ [call EXCEPT !.found = copies].nft = nft
        /\ [call EXCEPT !.found = copies].found = copies BY <2>1 DEF NftCallRecords
  <2>5. PICK r \in NftCallRecords : r = [call EXCEPT !.found = copies] BY <2>4
  <2>6. r \in NftCallStates /\ r.step = "checking one"
    BY <2>3, <2>4, <2>5 DEF NftCallStates, NftCallsMade
  <2>7. /\ startsNftCall(c, r)
        /\ UNCHANGED <<nftSelectionVars, nftListVars, nftMutex>>
    BY <1>6, <2>1, <2>2, <2>5 DEF checkSingleOwnership
  <2> QED BY <2>6, <2>7, NftCallStarts
<1> QED BY <1>2, <1>3, <1>4, <1>5, <1>6

\* What is asked before an NFT is added.
LEMMA QuestionsKeepNfts ==
  ASSUME NftsInv, NEW c \in NftCalls,
         \/ \E nft \in Nfts : nftDetected(c, nft)
         \/ nftInformationFound(c) \/ ownershipVerified(c) \/ watchChecked(c) \/ nftCallFails(c)
         \/ \E given \in BOOLEAN : watchNftApproved(c, given)
  PROVE  NftsInv'
<1>1. /\ nftCall[c].step \in {"detecting", "metadata", "verifying", "watching", "asking"}
      /\ UNCHANGED <<nftSelectionVars, nftListVars, nftSteps>>
  BY DEF nftDetected, nftInformationFound, ownershipVerified, watchChecked, nftCallFails, watchNftApproved
<1>2. PICK call \in NftCallsMade : call = nftCall[c] BY <1>1, NftCallUnderWay DEF NftsInv
<1>3. /\ nftChain' \in NftChains /\ nftAccount' \in NftAccounts /\ nftSteps' \in 0..MaxNftSteps
      /\ call \in NftCallRecords /\ nftAccount \in NftAccounts
  BY <1>1 DEF nftSelectionVars, NftsInv, NftTypes, NftCallsMade
<1>4. ASSUME NEW r \in NftCallStates, nftCall' = [nftCall EXCEPT ![c] = r],
             r.step \notin {"contract information", "updating", "individual"},
             nftMutex' = nftMutex \/ nftMutex' = Append(nftMutex, c)
      PROVE  NftsInv' BY <1>1, <1>3, <1>4, NftCallMovesOn
<1>5. ASSUME NEW step \in {"contract", "asking"}, call.step # "detecting", nftCallAt(c, step),
             nftMutex' = nftMutex \/ nftMutex' = Append(nftMutex, c)
      PROVE  NftsInv'
  BY <1>3, <1>1, <1>2, <1>5, <1>4 DEF NftCallRecords, NftCallsMade, NftCallStates, nftCallAt
<1>6. CASE nftInformationFound(c) BY <1>2, <1>5, <1>6 DEF nftInformationFound, linesUp
<1>7. CASE watchChecked(c) BY <1>2, <1>5, <1>7 DEF watchChecked
<1>8. CASE nftCallFails(c) BY <1>4, <1>8, EndedNftCallIsState DEF nftCallFails, nftCallIs
<1>9. CASE ownershipVerified(c)
  BY <1>2, <1>9, <1>1, <1>3, AddsKeepNfts DEF ownershipVerified, NftCallsMade
<1>10. ASSUME NEW nft \in Nfts, nftDetected(c, nft)
       PROVE  NftsInv'
  BY <1>4, <1>10, EndedNftCallIsState, <1>3, <1>2, <1>1, AddsKeepNfts DEF nftDetected, nftCallIs,
     NftCallRecords
<1>11. ASSUME NEW given \in BOOLEAN, watchNftApproved(c, given)
       PROVE  NftsInv'
  <2>1. PICK q \in NftChains \X NftAccounts : q = call.pair BY <1>3 DEF NftCallRecords, NftPairs
  <2> DEFINE account == IF given THEN q[2] ELSE nftAccount
  <2>2. PICK a \in NftAccounts : a = account BY <1>3, <2>1
  <2>3. [q EXCEPT ![2] = a] \in NftChains \X NftAccounts BY PairChanged
  <2>7. PICK p \in NftPairs : p = [call.pair EXCEPT ![2] = IF given THEN @ ELSE nftAccount]
    BY <2>1, <2>2, <2>3 DEF NftPairs
  <2>4. [call EXCEPT !.pair = p] \in NftCallRecords /\ [call EXCEPT !.pair = p].nft = call.nft
    BY <1>3 DEF NftCallRecords
  <2>5. PICK r \in NftCallRecords : r = [call EXCEPT !.pair = p] /\ r.nft = call.nft BY <2>4
  <2>6. addsNft(c, r, TRUE) /\ r.nft \in Nfts
    BY <1>2, <1>11, <2>7, <2>5 DEF watchNftApproved, NftCallsMade
  <2> QED BY <1>1, <1>3, <2>6, AddsKeepNfts
<1> QED BY <1>6, <1>7, <1>8, <1>9, <1>10, <1>11

\* What a call with the lists and contracts of an account's calls keeps of types.
LEMMA NftTypesKept ==
  ASSUME NftsInv, UNCHANGED <<nftSelectionVars, ignoredNfts, nftSteps>>
  PROVE  /\ nftChain' \in NftChains /\ nftAccount' \in NftAccounts
         /\ ignoredNfts' \in SUBSET Nfts /\ nftSteps' \in 0..MaxNftSteps
BY DEF NftsInv, NftTypes, nftSelectionVars

\* A call goes on to its next step, or to add its NFT.
LEMMA NftCallAtStep ==
  ASSUME NEW call \in NftCallsMade, call.nft \in Nfts, NEW step \in {"individual", "contract"}
  PROVE  /\ [call EXCEPT !.step = step] \in NftCallStates
         /\ [call EXCEPT !.step = step].step = step
         /\ [call EXCEPT !.step = step].nft = call.nft
         /\ [call EXCEPT !.step = step].pair = call.pair
BY DEF NftCallRecords, NftCallsMade, NftCallStates

LEMMA ContractAddKeepsNfts ==
  ASSUME NftsInv, NEW c \in NftCalls, addNftContract(c)
  PROVE  NftsInv'
<1>1. /\ nftCall[c].step = "contract" /\ hasMutex(c)
      /\ UNCHANGED <<nftSelectionVars, allNfts, allNftContracts, ignoredNfts, added, nftSteps>>
  BY DEF addNftContract, mayAddContract
<1>2. PICK call \in NftCallsMade : call = nftCall[c] BY <1>1, NftCallUnderWay DEF NftsInv
<1>3. PICK p \in NftPairs : p = <<getCorrectChainId(call), call.pair[2]>>
  BY CorrectChain DEF NftsInv, NftCallsMade
<1>4. /\ call \in NftCallRecords /\ call.nft \in Nfts /\ call.pair \in NftPairs
  BY <1>1, <1>2 DEF NftCallsMade, NftCallRecords
<1>5. /\ disturbed' = (disturbed \/ p # call.pair)
      /\ IF call.nft[1] \in allNftContracts[p]
         THEN nftCallAt(c, "individual") /\ nftMutex' = Append(Tail(nftMutex), c)
         ELSE /\ nftCallIs(c, [call EXCEPT !.step = "contract information",
                                           !.contracts = allNftContracts[p]])
              /\ UNCHANGED nftMutex BY <1>2, <1>3 DEF addNftContract
<1>6. /\ allNfts' \in [NftPairs -> NftLists] /\ allNftContracts' \in [NftPairs -> SUBSET Contracts]
      /\ added' \in SUBSET (NftPairs \X Nfts) /\ disturbed' \in BOOLEAN
  BY <1>1, <1>5 DEF NftsInv, NftTypes
<1>7. ~disturbed' => /\ ~disturbed /\ p = call.pair
                     /\ AddedAreListed(allNfts', allNftContracts', added') BY <1>1, <1>5 DEF NftsInv
<1>8. CASE call.nft[1] \in allNftContracts[p]
  <2>1. PICK r \in NftCallStates :
          /\ r = [call EXCEPT !.step = "individual"] /\ r.step = "individual"
          /\ r.nft = call.nft /\ r.pair = call.pair BY <1>4, NftCallAtStep
  <2>2. nftCall' = [nftCall EXCEPT ![c] = r] /\ nftMutex' = Append(Tail(nftMutex), c)
    BY <1>2, <1>5, <1>8, <2>1 DEF nftCallAt
  <2>3. ~disturbed' => ContractsAreRead(r, allNftContracts')
    BY <1>1, <1>7, <1>8, <2>1 DEF ContractsAreRead
  <2> QED BY <1>1, <1>6, <1>7, <2>1, <2>2, <2>3, NftCallMoves, NftTypesKept
<1>9. CASE call.nft[1] \notin allNftContracts[p]
  <2>1. PICK contracts \in SUBSET Contracts : contracts = allNftContracts[p]
    BY DEF NftsInv, NftTypes
  <2>2. /\ [call EXCEPT !.step = "contract information", !.contracts = contracts] \in NftCallRecords
        /\ [call EXCEPT !.step = "contract information", !.contracts = contracts].step = "contract information"
        /\ [call EXCEPT !.step = "contract information", !.contracts = contracts].nft = call.nft
        /\ [call EXCEPT !.step = "contract information", !.contracts = contracts].pair = call.pair
        /\ [call EXCEPT !.step = "contract information", !.contracts = contracts].contracts = contracts
    BY <1>4 DEF NftCallRecords
  <2>3. PICK r \in NftCallStates :
          /\ r = [call EXCEPT !.step = "contract information", !.contracts = contracts]
          /\ r.step = "contract information" /\ r.pair = call.pair /\ r.contracts = contracts
    BY <1>4, <2>2 DEF NftCallStates, NftCallsMade
  <2>4. nftCall' = [nftCall EXCEPT ![c] = r] /\ nftMutex' = nftMutex
    BY <1>5, <1>9, <2>1, <2>3 DEF nftCallIs
  <2>5. ~disturbed' => ContractsAreRead(r, allNftContracts')
    BY <1>1, <1>7, <2>1, <2>3 DEF ContractsAreRead
  <2> QED BY <1>1, <1>6, <1>7, <2>3, <2>4, <2>5, NftCallMoves, NftTypesKept
<1> QED BY <1>8, <1>9

LEMMA ContractFoundKeepsNfts ==
  ASSUME NftsInv, NEW c \in NftCalls, NEW isKnown \in BOOLEAN, contractInformationFound(c, isKnown)
  PROVE  NftsInv'
<1>1. /\ nftCall[c].step = "contract information"
      /\ UNCHANGED <<nftSelectionVars, allNfts, ignoredNfts, added, disturbed, nftSteps>>
  BY DEF contractInformationFound
<1>2. PICK call \in NftCallsMade : call = nftCall[c] BY <1>1, NftCallUnderWay DEF NftsInv
<1>3. hasMutex(c)
  <2>1. nftMutex \in Seq(NftCalls) /\ nftMutex # <<>> /\ nftMutex[1] = c
    BY <1>1 DEF NftsInv, NftTypes, NftMutexInTurn
  <2> QED BY <2>1 DEF hasMutex
<1>4. /\ call.nft \in Nfts /\ call.nft[1] \in Contracts /\ call.pair \in NftPairs
      /\ call.contracts \in SUBSET Contracts BY <1>1, <1>2 DEF NftCallsMade, NftCallRecords, Nfts
<1>5. /\ allNfts' \in [NftPairs -> NftLists] /\ added' \in SUBSET (NftPairs \X Nfts)
      /\ disturbed' \in BOOLEAN /\ allNftContracts \in [NftPairs -> SUBSET Contracts]
  BY <1>1 DEF NftsInv, NftTypes
<1>6. CASE call.detected /\ ~isKnown
  <2>1. /\ nftCall' = [nftCall EXCEPT ![c] = EndedNftCall] /\ nftMutex' = Tail(nftMutex)
        /\ UNCHANGED allNftContracts
    BY <1>2, <1>6 DEF contractInformationFound, nftCallIs, mutexReleased
  <2>2. ContractsAreRead(EndedNftCall, allNftContracts') BY EndedNftCallIsState DEF ContractsAreRead
  <2>3. ~disturbed' => ~disturbed /\ AddedAreListed(allNfts', allNftContracts', added')
    BY <1>1, <2>1 DEF NftsInv
  <2> QED BY <1>1, <1>3, <1>5, <2>1, <2>2, <2>3, NftCallMoves, NftTypesKept, EndedNftCallIsState
<1>7. CASE ~(call.detected /\ ~isKnown)
  <2>1. /\ allNftContracts' = [allNftContracts EXCEPT ![call.pair] = call.contracts \cup {call.nft[1]}]
        /\ nftCallAt(c, "individual")
        /\ nftMutex' = Append(Tail(nftMutex), c) BY <1>2, <1>7 DEF contractInformationFound
  <2>2. PICK r \in NftCallStates :
          /\ r = [call EXCEPT !.step = "individual"] /\ r.step = "individual"
          /\ r.nft = call.nft /\ r.pair = call.pair BY <1>4, NftCallAtStep
  <2>3. nftCall' = [nftCall EXCEPT ![c] = r] BY <1>2, <2>1, <2>2 DEF nftCallAt
  <2>4. /\ allNftContracts' \in [NftPairs -> SUBSET Contracts]
        /\ \A q \in NftPairs : allNftContracts'[q] =
             IF q = call.pair THEN call.contracts \cup {call.nft[1]} ELSE allNftContracts[q]
    BY <1>4, <1>5, <2>1
  <2>5. ~disturbed' => /\ ~disturbed
                       /\ \A q \in NftPairs : allNftContracts[q] \subseteq allNftContracts'[q]
    BY <1>1, <1>2, <2>4 DEF NftsInv, ContractsAreRead
  <2>6. ~disturbed' => AddedAreListed(allNfts', allNftContracts', added')
    BY <1>1, <2>5 DEF NftsInv, AddedAreListed
  <2>7. ContractsAreRead(r, allNftContracts') BY <1>4, <2>2, <2>4 DEF ContractsAreRead
  <2> QED BY <1>1, <1>3, <1>5, <2>1, <2>2, <2>3, <2>4, <2>5, <2>6, <2>7, NftCallMoves, NftTypesKept
<1> QED BY <1>6, <1>7

LEMMA NftAddedKeepsNfts ==
  ASSUME NftsInv, NoNftAssumption, NEW c \in NftCalls, NEW isNamed \in BOOLEAN, addIndividualNft(c, isNamed)
  PROVE  NftsInv'
<1>1. /\ nftCall[c].step = "individual" /\ hasMutex(c)
      /\ UNCHANGED <<nftSelectionVars, allNftContracts, ignoredNfts, disturbed, nftSteps>>
  BY DEF addIndividualNft
<1>2. PICK call \in NftCallsMade : call = nftCall[c] BY <1>1, NftCallUnderWay DEF NftsInv
<1>3. call.nft \in Nfts /\ call.pair \in NftPairs BY <1>1, <1>2 DEF NftCallsMade, NftCallRecords
<1>4. PICK old \in Entry \cup {NoNft} : old = allNfts[call.pair][call.nft]
  BY <1>3 DEF NftsInv, NftTypes, NftLists
<1>5. PICK new \in Entry :
        new = IF old = NoNft THEN [favorite |-> FALSE, owned |-> TRUE, named |-> isNamed]
              ELSE [old EXCEPT !.named = isNamed] BY DEF Entry
<1>6. /\ allNfts' = [allNfts EXCEPT ![call.pair][call.nft] = new]
      /\ added' = added \cup {<<call.pair, call.nft>>}
      /\ nftCall' = [nftCall EXCEPT ![c] = EndedNftCall] /\ nftMutex' = Tail(nftMutex)
  BY <1>2, <1>4, <1>5 DEF addIndividualNft, nftCallIs, mutexReleased
<1>7. /\ allNfts' \in [NftPairs -> NftLists]
      /\ \A p \in NftPairs, n \in Nfts : allNfts'[p][n] =
           IF p = call.pair /\ n = call.nft THEN new ELSE allNfts[p][n]
  BY <1>3, <1>6 DEF NftsInv, NftTypes, NftLists
<1>8. /\ added' \in SUBSET (NftPairs \X Nfts) /\ allNftContracts' \in [NftPairs -> SUBSET Contracts]
      /\ disturbed' \in BOOLEAN BY <1>1, <1>3, <1>6 DEF NftsInv, NftTypes
<1>9. ASSUME ~disturbed'
      PROVE  ~disturbed /\ AddedAreListed(allNfts', allNftContracts', added')
  <2>1. ~disturbed /\ AddedAreListed(allNfts, allNftContracts, added) BY <1>1, <1>9 DEF NftsInv
  <2>2. call.nft[1] \in allNftContracts[call.pair] BY <1>1, <1>2, <2>1 DEF NftsInv, ContractsAreRead
  <2>3. \A a \in added' : a[1] \in NftPairs /\ a[2] \in Nfts BY <1>8
  <2>4. \A a \in added' : allNfts'[a[1]][a[2]] # NoNft
    BY <1>6, <1>7, <2>1, <2>3 DEF AddedAreListed, NoNftAssumption
  <2>5. \A p \in NftPairs, n \in Nfts : allNfts'[p][n] # NoNft => n[1] \in allNftContracts'[p]
    BY <1>1, <1>7, <2>1, <2>2 DEF AddedAreListed
  <2> QED BY <2>1, <2>4, <2>5 DEF AddedAreListed
<1>10. ContractsAreRead(EndedNftCall, allNftContracts') BY EndedNftCallIsState DEF ContractsAreRead
<1> QED BY <1>1, <1>6, <1>7, <1>8, <1>9, <1>10, NftCallMoves, NftTypesKept, EndedNftCallIsState

\* The same NFTs are listed, with other attributes.
LEMMA SameListed ==
  ASSUME NftsInv, UNCHANGED <<allNftContracts, added>>, ~disturbed,
         \A p \in NftPairs, n \in Nfts : allNfts'[p][n] # NoNft <=> allNfts[p][n] # NoNft
  PROVE  AddedAreListed(allNfts', allNftContracts', added')
BY DEF NftsInv, NftTypes, AddedAreListed

\* A call ends, and writes attributes.
LEMMA NftsWritten ==
  ASSUME NftsInv, NEW c \in NftCalls, nftCallIs(c, EndedNftCall),
         UNCHANGED <<nftSelectionVars, allNftContracts, ignoredNfts, added, nftSteps>>,
         nftMutex' = nftMutex \/ (hasMutex(c) /\ nftMutex' = Tail(nftMutex)),
         allNfts' \in [NftPairs -> NftLists], disturbed' \in BOOLEAN,
         ~disturbed' => /\ ~disturbed
                        /\ \A p \in NftPairs, n \in Nfts : allNfts'[p][n] # NoNft <=> allNfts[p][n] # NoNft
  PROVE  NftsInv'
BY SameListed, EndedNftCallIsState, NftCallMoves, NftTypesKept DEF nftCallIs, ContractsAreRead, NftsInv,
   NftTypes

LEMMA MetadataAskedKeepsNfts ==
  ASSUME NftsInv, NEW c \in NftCalls, updateNftMetadata(c)
  PROVE  NftsInv'
<1>1. /\ nftCall[c].step = "update" /\ hasMutex(c)
      /\ nftCall' = [nftCall EXCEPT ![c].step = "updating", ![c].pair[1] = nftChain]
      /\ UNCHANGED <<nftSelectionVars, nftListVars, nftMutex, nftSteps>> BY DEF updateNftMetadata
<1>2. PICK call \in NftCallsMade : call = nftCall[c] BY <1>1, NftCallUnderWay DEF NftsInv
<1>3. PICK q \in NftChains \X NftAccounts : q = call.pair
  BY DEF NftCallsMade, NftCallRecords, NftPairs
<1>4. PICK p \in NftPairs : p = [q EXCEPT ![1] = nftChain]
  BY PairChanged DEF NftPairs, NftsInv, NftTypes
<1>5. /\ [[call EXCEPT !.step = "updating"] EXCEPT !.pair = p] \in NftCallRecords
      /\ [[call EXCEPT !.step = "updating"] EXCEPT !.pair = p].step = "updating"
  BY DEF NftCallsMade, NftCallRecords
<1>6. PICK r \in NftCallStates :
        r = [[call EXCEPT !.step = "updating"] EXCEPT !.pair = p] /\ r.step = "updating"
  BY <1>5 DEF NftCallStates, NftCallsMade
<1>7. nftCall \in [NftCalls -> NftCallStates] BY DEF NftsInv, NftTypes
<1>8. nftCall' = [nftCall EXCEPT ![c] = r]
  BY <1>3, <1>1, <1>2, <1>4, <1>6, <1>7 DEF NftCallsMade, NftCallRecords
<1>9. /\ UNCHANGED <<allNfts, allNftContracts, added, disturbed>>
      /\ allNfts' \in [NftPairs -> NftLists] /\ allNftContracts' \in [NftPairs -> SUBSET Contracts]
      /\ added' \in SUBSET (NftPairs \X Nfts) /\ disturbed' \in BOOLEAN
      /\ ignoredNfts' \in SUBSET Nfts BY <1>1 DEF nftListVars, NftsInv, NftTypes
<1>10. /\ nftChain' \in NftChains /\ nftAccount' \in NftAccounts /\ nftSteps' \in 0..MaxNftSteps
       /\ nftMutex' = nftMutex BY <1>1 DEF NftsInv, NftTypes, nftSelectionVars
<1>11. ~disturbed' => /\ ~disturbed /\ ContractsAreRead(r, allNftContracts')
                      /\ AddedAreListed(allNfts', allNftContracts', added')
  BY <1>6, <1>9 DEF NftsInv, ContractsAreRead
<1> QED BY <1>1, <1>6, <1>8, <1>9, <1>10, <1>11, NftCallMoves

LEMMA MetadataFoundKeepsNfts ==
  ASSUME NftsInv, NoNftAssumption, NEW c \in NftCalls, nftMetadataFound(c)
  PROVE  NftsInv'
<1>1. /\ nftCall[c].step = "updating"
      /\ nftCallIs(c, EndedNftCall) /\ nftMutex' = Tail(nftMutex)
      /\ UNCHANGED <<nftSelectionVars, allNftContracts, ignoredNfts, added, disturbed, nftSteps>>
  BY DEF nftMetadataFound, mutexReleased
<1>2. PICK call \in NftCallsMade : call = nftCall[c] BY <1>1, NftCallUnderWay DEF NftsInv
<1>3. hasMutex(c)
  <2>1. nftMutex \in Seq(NftCalls) /\ nftMutex # <<>> /\ nftMutex[1] = c
    BY <1>1 DEF NftsInv, NftTypes, NftMutexInTurn
  <2> QED BY <2>1 DEF hasMutex
<1>4. call.pair \in NftPairs /\ call.found \in NftLists BY DEF NftCallsMade, NftCallRecords
<1>5. PICK old \in NftLists : old = allNfts[call.pair] BY <1>4 DEF NftsInv, NftTypes
<1> DEFINE new == [n \in Nfts |-> IF old[n] = NoNft \/ call.found[n] = NoNft \/ old[n].named THEN old[n]
                                  ELSE [call.found[n] EXCEPT !.named = TRUE]]
<1>6. allNfts' = [allNfts EXCEPT ![call.pair] = new] BY <1>2, <1>5 DEF nftMetadataFound
<1>7. \A n \in Nfts : call.found[n] # NoNft => [call.found[n] EXCEPT !.named = TRUE] \in Entry
  BY <1>4 DEF NftLists, Entry
<1>8. new \in NftLists /\ \A n \in Nfts : new[n] # NoNft <=> old[n] # NoNft
  BY <1>7 DEF NftLists, NoNftAssumption
<1> HIDE DEF new
<1>9. /\ allNfts' \in [NftPairs -> NftLists]
      /\ \A p \in NftPairs, n \in Nfts : allNfts'[p][n] # NoNft <=> allNfts[p][n] # NoNft
  BY <1>4, <1>5, <1>6, <1>8 DEF NftsInv, NftTypes
<1>10. disturbed' \in BOOLEAN BY <1>1 DEF NftsInv, NftTypes
<1> QED BY <1>1, <1>3, <1>9, <1>10, NftsWritten

LEMMA OwnershipKeepsNfts ==
  ASSUME NftsInv, NoNftAssumption, NEW c \in NftCalls,
         \/ \E owned \in SUBSET Nfts : allOwnershipChecked(c, owned)
         \/ \E owned \in BOOLEAN : singleOwnershipChecked(c, owned)
  PROVE  NftsInv'
<1>1. ASSUME NEW owned \in SUBSET Nfts, allOwnershipChecked(c, owned)
      PROVE  NftsInv'
  <2>1. /\ nftCall[c].step = "checking" /\ nftCallIs(c, EndedNftCall)
        /\ UNCHANGED <<nftSelectionVars, allNftContracts, ignoredNfts, added, nftMutex, nftSteps>>
    BY <1>1 DEF allOwnershipChecked
  <2>2. PICK call \in NftCallsMade : call = nftCall[c] BY <2>1, NftCallUnderWay DEF NftsInv
  <2>3. call.pair \in NftPairs /\ call.found \in NftLists BY DEF NftCallsMade, NftCallRecords
  <2> DEFINE new == [n \in Nfts |-> IF call.found[n] = NoNft THEN NoNft
                                    ELSE [call.found[n] EXCEPT !.owned = n \in owned]]
  <2>4. /\ allNfts' = [allNfts EXCEPT ![call.pair] = new]
        /\ disturbed' = (disturbed \/ \E n \in Nfts :
                           (n \in listed(call.pair)) # (call.found[n] # NoNft))
    BY <1>1, <2>2 DEF allOwnershipChecked
  <2>5. \A n \in Nfts : call.found[n] # NoNft =>
          [call.found[n] EXCEPT !.owned = n \in owned] \in Entry
    <3>1. ASSUME NEW n \in Nfts, call.found[n] # NoNft
          PROVE  [call.found[n] EXCEPT !.owned = n \in owned] \in Entry
      <4>1. (n \in owned) \in BOOLEAN OBVIOUS
      <4>2. PICK b \in BOOLEAN : b = (n \in owned) BY <4>1
      <4>3. [call.found[n] EXCEPT !.owned = b] \in Entry BY <2>3, <3>1 DEF NftLists, Entry
      <4> QED BY <4>2, <4>3
    <3> QED BY <3>1
  <2>6. new \in NftLists /\ \A n \in Nfts : new[n] # NoNft <=> call.found[n] # NoNft
    BY <2>5 DEF NftLists, NoNftAssumption
  <2> HIDE DEF new
  <2>7. allNfts' \in [NftPairs -> NftLists] /\ disturbed' \in BOOLEAN
    BY <2>3, <2>4, <2>6 DEF NftsInv, NftTypes
  <2>8. ~disturbed' => /\ ~disturbed
                       /\ \A n \in Nfts : call.found[n] # NoNft <=> allNfts[call.pair][n] # NoNft
    BY <2>4 DEF listed
  <2>9. ~disturbed' => /\ ~disturbed
                       /\ \A p \in NftPairs, n \in Nfts : allNfts'[p][n] # NoNft <=> allNfts[p][n] # NoNft
    BY <2>3, <2>4, <2>6, <2>8 DEF NftsInv, NftTypes
  <2> QED BY <2>1, <2>7, <2>9, NftsWritten
<1>2. ASSUME NEW owned \in BOOLEAN, singleOwnershipChecked(c, owned)
      PROVE  NftsInv'
  <2>1. /\ nftCall[c].step = "checking one" /\ nftCallIs(c, EndedNftCall)
        /\ UNCHANGED <<nftSelectionVars, allNftContracts, ignoredNfts, added, disturbed, nftMutex, nftSteps>>
    BY <1>2 DEF singleOwnershipChecked
  <2>2. PICK call \in NftCallsMade : call = nftCall[c] BY <2>1, NftCallUnderWay DEF NftsInv
  <2>3. /\ call.pair \in NftPairs /\ call.found \in NftLists /\ call.nft \in Nfts
        /\ call.found[call.nft] # NoNft BY <2>1, <2>2 DEF NftCallsMade, NftCallRecords
  <2>4. [call.found[call.nft] EXCEPT !.owned = owned] \in Entry BY <2>3 DEF NftLists, Entry
  <2>5. PICK new \in Entry \cup {NoNft} :
          /\ new = IF allNfts[call.pair][call.nft] = NoNft THEN NoNft
                   ELSE [call.found[call.nft] EXCEPT !.owned = owned]
          /\ new # NoNft <=> allNfts[call.pair][call.nft] # NoNft BY <2>4 DEF NoNftAssumption
  <2>6. allNfts' = [allNfts EXCEPT ![call.pair][call.nft] = new]
    BY <1>2, <2>2, <2>5 DEF singleOwnershipChecked
  <2>7. /\ allNfts' \in [NftPairs -> NftLists] /\ disturbed' \in BOOLEAN /\ (~disturbed' => ~disturbed)
        /\ \A p \in NftPairs, n \in Nfts : allNfts'[p][n] # NoNft <=> allNfts[p][n] # NoNft
    BY <2>1, <2>3, <2>5, <2>6 DEF NftsInv, NftTypes, NftLists
  <2> QED BY <2>1, <2>7, NftsWritten
<1> QED BY <1>1, <1>2

-----------------------------------------------------------------------------

\* Removals ran into no call that is not finished, unless that is noted.
LEMMA RemovalKeepsNfts ==
  ASSUME NftsInv, NftsAssumption, NoNftAssumption, NEW p \in NftPairs, NEW nft \in Nfts,
         withoutNft(p, nft), ignoredNfts' \in SUBSET Nfts
  PROVE  NftsInv'
<1>1. /\ nftStep
      /\ allNfts' = [allNfts EXCEPT ![p][nft] = NoNft]
      /\ allNftContracts' = [allNftContracts EXCEPT ![p] =
           IF \E n \in listed(p) \ {nft} : n[1] = nft[1] THEN @ ELSE @ \ {nft[1]}]
      /\ added' = added \ {<<p, nft>>}
      /\ disturbed' = (disturbed \/ unfinished)
      /\ UNCHANGED <<nftChain, nftAccount, nftCall, nftMutex>> BY DEF withoutNft, nftSelectionVars
<1>2. nftSteps' \in 0..MaxNftSteps BY <1>1, NftStepCounted DEF NftsInv
<1>3. /\ allNfts' \in [NftPairs -> NftLists]
      /\ \A q \in NftPairs, n \in Nfts : allNfts'[q][n] =
           IF q = p /\ n = nft THEN NoNft ELSE allNfts[q][n] BY <1>1 DEF NftsInv, NftTypes, NftLists
<1>4. /\ allNftContracts' \in [NftPairs -> SUBSET Contracts]
      /\ \A q \in NftPairs : q # p => allNftContracts'[q] = allNftContracts[q]
      /\ \A k \in allNftContracts[p] :
           k \in allNftContracts'[p] \/ (k = nft[1] /\ \A n \in listed(p) \ {nft} : n[1] # k)
  BY <1>1 DEF NftsInv, NftTypes
<1>5. /\ added' \in SUBSET (NftPairs \X Nfts) /\ disturbed' \in BOOLEAN
      /\ \A a \in added' : a \in added /\ a[1] \in NftPairs /\ a[2] \in Nfts /\ ~(a[1] = p /\ a[2] = nft)
  BY <1>1 DEF NftsInv, NftTypes, unfinished
<1>6. NftTypes' /\ NftMutexInTurn'
  BY <1>1, <1>2, <1>3, <1>4, <1>5 DEF NftsInv, NftTypes, NftMutexInTurn
<1>7. ASSUME ~disturbed'
      PROVE  /\ \A c \in NftCalls : ContractsAreRead(nftCall'[c], allNftContracts')
             /\ AddedAreListed(allNfts', allNftContracts', added')
  <2>1. ~disturbed /\ ~unfinished /\ AddedAreListed(allNfts, allNftContracts, added)
    BY <1>1, <1>7 DEF NftsInv
  <2>2. \A c \in NftCalls : nftCall'[c].step \in {"idle", "ended"}
    BY <1>1, <2>1 DEF unfinished, IdleNftCall, EndedNftCall
  <2>3. \A a \in added' : allNfts'[a[1]][a[2]] # NoNft BY <1>3, <1>5, <2>1 DEF AddedAreListed
  <2>4. \A q \in NftPairs, n \in Nfts : allNfts'[q][n] # NoNft => n[1] \in allNftContracts'[q]
    BY <1>3, <1>4, <2>1 DEF AddedAreListed, listed
  <2> QED BY <2>2, <2>3, <2>4 DEF AddedAreListed, ContractsAreRead
<1> QED BY <1>6, <1>7 DEF NftsInv

LEMMA ChoicesKeepNfts ==
  ASSUME NftsInv, NftsAssumption, NoNftAssumption,
         \/ \E p \in NftPairs, nft \in Nfts : updateNftFavoriteStatus(p, nft)
         \/ clearIgnoredNfts
         \/ \E chain \in NftChains : nftNetworkDidChange(chain)
         \/ \E account \in NftAccounts : onSelectedAccountChange(account) /\ UNCHANGED <<nftCall, nftMutex>>
  PROVE  NftsInv'
<1>1. /\ nftStep /\ UNCHANGED <<allNftContracts, added, disturbed, nftCall, nftMutex>>
      /\ nftChain' \in NftChains /\ nftAccount' \in NftAccounts /\ ignoredNfts' \in SUBSET Nfts
  BY DEF updateNftFavoriteStatus, clearIgnoredNfts, nftNetworkDidChange, onSelectedAccountChange,
     nftSelectionVars, nftListVars, NftsInv, NftTypes
<1>2. nftSteps' \in 0..MaxNftSteps BY <1>1, NftStepCounted DEF NftsInv
<1>3. /\ allNfts' \in [NftPairs -> NftLists]
      /\ \A p \in NftPairs, n \in Nfts : allNfts'[p][n] # NoNft <=> allNfts[p][n] # NoNft
  <2>1. CASE UNCHANGED allNfts BY <2>1 DEF NftsInv, NftTypes
  <2>2. ASSUME NEW p \in NftPairs, NEW nft \in Nfts, updateNftFavoriteStatus(p, nft)
        PROVE  <1>3!1 /\ <1>3!2
    <3>1. PICK old \in Entry : old = allNfts[p][nft]
      BY <2>2 DEF updateNftFavoriteStatus, listed, NftsInv, NftTypes, NftLists
    <3>2. PICK new \in Entry : new = [old EXCEPT !.favorite = ~@] BY DEF Entry
    <3>3. allNfts' = [allNfts EXCEPT ![p][nft] = new]
      BY <2>2, <3>1, <3>2 DEF updateNftFavoriteStatus, NftsInv, NftTypes, NftLists
    <3> QED BY <3>1, <3>2, <3>3 DEF NftsInv, NftTypes, NftLists, NoNftAssumption
  <2> QED
    BY <2>1, <2>2 DEF clearIgnoredNfts, nftNetworkDidChange, onSelectedAccountChange, nftListVars
<1>4. NftTypes' /\ NftMutexInTurn' BY <1>1, <1>2, <1>3 DEF NftsInv, NftTypes, NftMutexInTurn
<1>5. ~disturbed' => /\ \A c \in NftCalls : ContractsAreRead(nftCall'[c], allNftContracts')
                     /\ AddedAreListed(allNfts', allNftContracts', added')
  BY <1>1, <1>3, SameListed DEF NftsInv
<1> QED BY <1>4, <1>5 DEF NftsInv

LEMMA AccountKeepsNfts ==
  ASSUME NftsInv, NftsAssumption, NoNftAssumption, NEW account \in NftAccounts, onSelectedAccountChange(account)
  PROVE  NftsInv'
<1>1. CASE UNCHANGED <<nftCall, nftMutex>> BY <1>1, ChoicesKeepNfts
<1>2. CASE ~UNCHANGED <<nftCall, nftMutex>>
  <2>1. PICK p \in NftPairs : p = <<nftChain, account>> BY DEF NftPairs, NftsInv, NftTypes
  <2>2. PICK S \in SUBSET Nfts : S = {n \in listed(p) : ~allNfts[p][n].named} BY DEF listed
  <2>3. PICK c \in NftCalls : updatesMetadata(c, account, S)
    BY <1>2, <2>1, <2>2 DEF onSelectedAccountChange
  <2>4. PICK copies \in NftLists : copies = [n \in Nfts |-> IF n \in S THEN allNfts[p][n] ELSE NoNft]
    BY DEF NftLists, NftsInv, NftTypes
  <2>5. PICK call \in NftCallRecords :
          call = NftCall("update", NoNft, p, FALSE, FALSE) /\ call.step = "update"
    <3>1. /\ NftCall("update", NoNft, p, FALSE, FALSE) \in NftCallRecords
          /\ NftCall("update", NoNft, p, FALSE, FALSE).step = "update"
      BY NoNftsAreLists DEF NftCall, NftCallRecords
    <3> QED BY <3>1
  <2>6. [call EXCEPT !.found = copies] \in NftCallRecords /\ [call EXCEPT !.found = copies].step = "update"
    BY <2>5 DEF NftCallRecords
  <2>7. PICK r \in NftCallStates : r = [call EXCEPT !.found = copies] /\ r.step = "update"
    BY <2>6 DEF NftCallStates, NftCallsMade
  <2>8. nftCall' = [nftCall EXCEPT ![c] = r] /\ nftMutex' = Append(nftMutex, c)
    BY <2>1, <2>3, <2>4, <2>5, <2>7 DEF updatesMetadata, nftCallIs, linesUp
  <2>9. /\ nftStep /\ nftChain' \in NftChains /\ nftAccount' \in NftAccounts /\ UNCHANGED nftListVars
    BY DEF onSelectedAccountChange, NftsInv, NftTypes
  <2>10. nftSteps' \in 0..MaxNftSteps BY <2>9, NftStepCounted DEF NftsInv
  <2> QED BY <2>7, <2>8, <2>9, <2>10, NftCallMovesOn
<1> QED BY <1>1, <1>2

-----------------------------------------------------------------------------

LEMMA NftsInitially == NftsAssumption /\ NftsInit => NftsInv
<1> SUFFICES ASSUME NftsAssumption, NftsInit PROVE NftsInv OBVIOUS
<1>1. /\ nftChain \in NftChains /\ nftAccount \in NftAccounts
      /\ allNfts = [p \in NftPairs |-> NoNfts] /\ allNftContracts = [p \in NftPairs |-> {}]
      /\ ignoredNfts = {} /\ nftCall = [c \in NftCalls |-> IdleNftCall]
      /\ nftMutex = <<>> /\ added = {} /\ disturbed = FALSE /\ nftSteps = 0 BY DEF NftsInit
<1>2. NoNfts \in NftLists /\ \A n \in Nfts : NoNfts[n] = NoNft BY DEF NoNfts, NftLists
<1>3. IdleNftCall \in NftCallStates /\ IdleNftCall.step = "idle" BY DEF NftCallStates, IdleNftCall
<1>4. NftTypes
  <2>1. allNfts \in [NftPairs -> NftLists] /\ allNftContracts \in [NftPairs -> SUBSET Contracts]
    BY <1>1, <1>2
  <2>2. nftCall \in [NftCalls -> NftCallStates] /\ nftMutex \in Seq(NftCalls) BY <1>1, <1>3
  <2>3. nftSteps \in 0..MaxNftSteps /\ disturbed \in BOOLEAN
    <3>1. 0 \in 0..MaxNftSteps BY DEF NftsAssumption
    <3> QED BY <1>1, <3>1
  <2>4. ignoredNfts \in SUBSET Nfts /\ added \in SUBSET (NftPairs \X Nfts) BY <1>1
  <2> QED BY <1>1, <2>1, <2>2, <2>3, <2>4 DEF NftTypes
<1>5. NftMutexInTurn /\ \A c \in NftCalls : ContractsAreRead(nftCall[c], allNftContracts)
  BY <1>1, <1>3 DEF NftMutexInTurn, ContractsAreRead
<1>6. AddedAreListed(allNfts, allNftContracts, added) BY <1>1, <1>2 DEF AddedAreListed
<1> QED BY <1>4, <1>5, <1>6 DEF NftsInv

LEMMA NftStepsKeepNfts ==
  ASSUME NftsInv, NftsAssumption, NoNftAssumption, NftsNext
  PROVE  NftsInv'
<1>1. ASSUME NEW p \in NftPairs, NEW nft \in Nfts, removeNft(p, nft) \/ removeAndIgnoreNft(p, nft)
      PROVE  NftsInv' BY <1>1, RemovalKeepsNfts DEF removeNft, removeAndIgnoreNft, NftsInv, NftTypes
<1> QED
  BY <1>1, StartsKeepNfts, QuestionsKeepNfts, ContractAddKeepsNfts, ContractFoundKeepsNfts, NftAddedKeepsNfts,
     MetadataAskedKeepsNfts, MetadataFoundKeepsNfts, OwnershipKeepsNfts, ChoicesKeepNfts, AccountKeepsNfts DEF
     NftsNext

LEMMA NftsIdle == NftsInv /\ UNCHANGED nftVars => NftsInv'
<1> SUFFICES ASSUME NftsInv, UNCHANGED nftVars PROVE NftsInv' OBVIOUS
<1>1. UNCHANGED <<nftChain, nftAccount, allNfts, allNftContracts, ignoredNfts, nftCall, nftMutex,
                  added, disturbed, nftSteps>> BY DEF nftVars, nftSelectionVars, nftListVars
<1> QED BY <1>1 DEF NftsInv, NftTypes, NftMutexInTurn

LEMMA NftsInvMeansKept == NftsInv => NftsAreKept
<1> SUFFICES ASSUME NftsInv PROVE NftsAreKept OBVIOUS
<1>1. NftsTypeOK BY DEF NftsInv, NftTypes, NftLists, NftsTypeOK
<1>2. ~disturbed => AddedAreListed(allNfts, allNftContracts, added) BY DEF NftsInv
<1>3. \A a \in added : a[2] \in Nfts BY DEF NftsInv, NftTypes
<1> QED BY <1>1, <1>2, <1>3 DEF AddedAreListed, NftsAreKept, listed

-----------------------------------------------------------------------------

\* AssetsAreKept: what users imported, of tokens and of NFTs, is what they find, unless what
\* they did crossed or disturbed calls that were not finished, for any chains, accounts,
\* tokens, contracts and calls.
THEOREM AssetsAlwaysKept == Spec => []AssetsAreKept
<1> USE TokensAssumption, NftsAssumption, NoNftAssumption
<1>1. Init => TokensInv /\ NftsInv BY TokensInitially, NftsInitially DEF Init
<1>2. TokensInv /\ NftsInv /\ [Next]_allVars => TokensInv' /\ NftsInv'
  <2> SUFFICES ASSUME TokensInv, NftsInv, [Next]_allVars
               PROVE  TokensInv' /\ NftsInv' OBVIOUS
  <2>1. CASE tokensSteps BY <2>1, TokenStepsKeepTokens, NftsIdle DEF tokensSteps
  <2>2. CASE nftsSteps BY <2>2, NftStepsKeepNfts, TokensIdle DEF nftsSteps
  <2>3. CASE UNCHANGED assetVars BY <2>3, TokensIdle, NftsIdle DEF assetVars
  <2> QED
    BY <2>1, <2>2, <2>3 DEF Next, assetSteps, networkSteps, answerSteps, editSteps, profileSteps, allVars
<1>3. TokensInv /\ NftsInv => AssetsAreKept
  BY TokensInvMeansKept, NftsInvMeansKept DEF AssetsAreKept
<1> QED BY <1>1, <1>2, <1>3, PTL DEF Spec

-----------------------------------------------------------------------------
(* Names                                                                   *)

Results == [proposes : BOOLEAN, delay : Nat]
Proposals == [names : BOOLEAN, lastRequestTime : Nat, updateDelay : Nat]
ProposalLists == UNION {[S -> Proposals] : S \in SUBSET (NameSources \cup DormantSources)}
NameEntries == [name : BOOLEAN, proposedNames : ProposalLists]
NameLists == UNION {[V -> NameEntries] : V \in SUBSET Named}
ResultLists == UNION {[S -> Results] : S \in SUBSET NameSources}
NameUpdates ==
  [value : Named, results : ResultLists, waits : SUBSET NameProviders, asked : SUBSET NameSources]

\* What was heard of an address from a source is what the list of names has, as long as it
\* has not expired.
HeardIsProposed(v, s, proposal, entries) ==
  nameClock - proposal.lastRequestTime < Expire =>
    /\ v \in DOMAIN entries /\ s \in DOMAIN entries[v].proposedNames
    /\ entries[v].proposedNames[s].lastRequestTime = proposal.lastRequestTime
    /\ entries[v].proposedNames[s].updateDelay = proposal.updateDelay

ProposalsInv ==
  /\ names \in NameLists
  /\ updating \in [NameCalls -> NameUpdates \cup {NoCall}]
  /\ nameClock \in Nat /\ nameClock >= Expire
  /\ answered \in [Named -> UNION {[S -> Proposals] : S \in SUBSET NameSources}]
  /\ \A v \in Named : \A s \in DOMAIN answered[v] : HeardIsProposed(v, s, answered[v][s], names)
  /\ SourcesAreSpared

\* Who is asked is the network that is selected, unless that has changed.
ResolvingAsksNetwork ==
  \A v \in Named : resolving[v] # NoCall /\ ~resolving[v].crossed => resolving[v].asked = ensNetwork

ResolvingCalls == [asked : EnsChains, named : BOOLEAN, crossed : BOOLEAN]

EnsInv ==
  /\ ensNetwork \in EnsChains
  /\ ethProvider \in {NoProvider, ensNetwork}
  /\ resolving \in [Named -> ResolvingCalls \cup {NoCall}]
  /\ ResolvingAsksNetwork
  /\ ResolutionsAreOfNetwork

-----------------------------------------------------------------------------

LEMMA NoProposalsAreLists ==
  /\ None \in ProposalLists /\ None \in ResultLists /\ DOMAIN None = {}
  /\ None \in UNION {[S -> Proposals] : S \in SUBSET NameSources}
BY DEF None, ProposalLists, ResultLists

LEMMA EntriesOfNames ==
  ASSUME names \in NameLists, NEW v \in Named
  PROVE  entryOf(v) \in NameEntries
BY NoProposalsAreLists DEF entryOf, NameLists, NameEntry, NameEntries

LEMMA EntriesUpdated ==
  ASSUME names \in NameLists, NEW v \in Named, NEW entry \in NameEntries
  PROVE  /\ updateEntry(v, entry) \in NameLists
         /\ DOMAIN updateEntry(v, entry) = DOMAIN names \cup {v}
         /\ updateEntry(v, entry)[v] = entry
         /\ \A w \in DOMAIN names : w # v => updateEntry(v, entry)[w] = names[w]
<1>1. PICK V \in SUBSET Named : names \in [V -> NameEntries] BY DEF NameLists
<1>2. updateEntry(v, entry) = [w \in V \cup {v} |-> IF w = v THEN entry ELSE names[w]]
  BY <1>1 DEF updateEntry
<1>3. updateEntry(v, entry) \in [V \cup {v} -> NameEntries] /\ V \cup {v} \in SUBSET Named
  BY <1>1, <1>2
<1> QED BY <1>1, <1>2, <1>3 DEF NameLists

LEMMA SetNameKeepsProposals ==
  ASSUME ProposalsInv, NEW v \in Named, NEW name \in BOOLEAN, NEW source, setName(v, name, source)
  PROVE  ProposalsInv'
<1>1. /\ names' = updateEntry(v, [entryOf(v) EXCEPT !.name = name])
      /\ UNCHANGED <<updating, nameClock, answered, askedEarly>> BY DEF setName
<1>2. names \in NameLists /\ entryOf(v) \in NameEntries BY EntriesOfNames DEF ProposalsInv
<1>3. PICK entry \in NameEntries :
        /\ entry = [entryOf(v) EXCEPT !.name = name]
        /\ entry.proposedNames = entryOf(v).proposedNames
  <2>1. PICK old \in NameEntries : old = entryOf(v) BY <1>2
  <2>2. /\ [old EXCEPT !.name = name] \in NameEntries
        /\ [old EXCEPT !.name = name].proposedNames = old.proposedNames BY DEF NameEntries
  <2> QED BY <2>1, <2>2
<1>4. /\ names' \in NameLists /\ DOMAIN names' = DOMAIN names \cup {v}
      /\ names'[v] = entry
      /\ \A w \in DOMAIN names : w # v => names'[w] = names[w] BY <1>1, <1>2, <1>3, EntriesUpdated
<1>5. ASSUME NEW w \in Named, NEW s \in DOMAIN answered[w]
      PROVE  HeardIsProposed(w, s, answered[w][s], names')
  <2>1. HeardIsProposed(w, s, answered[w][s], names) BY DEF ProposalsInv
  <2>2. w \in DOMAIN names => w \in DOMAIN names' /\ names'[w].proposedNames = names[w].proposedNames
    BY <1>3, <1>4 DEF entryOf
  <2> QED BY <2>1, <2>2 DEF HeardIsProposed
<1> QED BY <1>1, <1>4, <1>5 DEF ProposalsInv, SourcesAreSpared, HeardIsProposed

\* No fresh source is asked again by who asks after the delay.
LEMMA FreshAreNotAsked ==
  ASSUME ProposalsInv, NEW v \in Named, NEW requested,
         NEW s \in matchingSourceIds(v, Normal, requested, TRUE)
  PROVE  ~isFresh(v, s)
<1> SUFFICES ASSUME isFresh(v, s) PROVE FALSE OBVIOUS
<1> DEFINE p == answered[v][s]
<1>1. s \in DOMAIN answered[v] /\ p \in Proposals BY DEF isFresh, ProposalsInv
<1>2. /\ nameClock \in Nat /\ Expire \in Nat /\ UpdateDelay \in Nat
      /\ p.lastRequestTime \in Nat /\ p.updateDelay \in Nat
  BY <1>1, NamesAssumption DEF ProposalsInv, Proposals, NamesAssumption
<1>3. nameClock - p.lastRequestTime < (IF delayOf(p) < Expire THEN delayOf(p) ELSE Expire)
  BY DEF isFresh
<1>4. nameClock - p.lastRequestTime < delayOf(p) /\ nameClock - p.lastRequestTime < Expire
  <2> HIDE DEF p
  <2> QED BY <1>2, <1>3 DEF delayOf
<1>5. HeardIsProposed(v, s, p, names) BY <1>1 DEF ProposalsInv
<1>6. PICK q : q = proposalFound(v, Normal, s) OBVIOUS
<1> HIDE DEF p
<1>7. q.lastRequestTime = p.lastRequestTime /\ q.updateDelay = p.updateDelay
  BY <1>4, <1>5, <1>6 DEF HeardIsProposed, proposalFound
<1>8. nameClock - q.lastRequestTime >= delayOf(q) BY <1>6 DEF matchingSourceIds
<1>9. delayOf(q) = delayOf(p) /\ delayOf(p) \in Nat BY <1>2, <1>7 DEF delayOf
<1> QED BY <1>2, <1>4, <1>7, <1>8, <1>9

LEMMA NamesTimePasses ==
  ASSUME ProposalsInv, nameTimePasses
  PROVE  ProposalsInv'
BY NamesAssumption DEF nameTimePasses, ProposalsInv, NamesAssumption, Proposals, HeardIsProposed,
   SourcesAreSpared

LEMMA UpdateKeepsProposals ==
  ASSUME ProposalsInv, NEW c \in NameCalls, NEW v \in Named, NEW spelling \in ChainSpellings,
         NEW requested \in SUBSET NameSources, NEW late \in BOOLEAN,
         updateProposedNames(c, v, spelling, requested, late)
  PROVE  ProposalsInv'
<1> DEFINE asked == matchingSourceIds(v, spelling, requested, late)
<1>1. /\ updating' = [updating EXCEPT ![c] =
           [value |-> v, results |-> None,
            waits |-> {p \in NameProviders : p \cap asked # {}}, asked |-> asked]]
      /\ askedEarly' = (\/ askedEarly
                        \/ /\ late /\ spelling = Normal
                           /\ \E s \in asked : isFresh(v, s))
      /\ UNCHANGED <<names, nameClock, answered>> BY DEF updateProposedNames
<1>2. asked \in SUBSET NameSources BY DEF matchingSourceIds
<1>3. late /\ spelling = Normal => ~\E s \in asked : isFresh(v, s)
  <2>1. SUFFICES ASSUME late, spelling = Normal, NEW s \in asked PROVE ~isFresh(v, s) OBVIOUS
  <2>2. s \in matchingSourceIds(v, Normal, requested, TRUE) BY <2>1 DEF matchingSourceIds
  <2> QED BY <2>2, FreshAreNotAsked
<1> HIDE DEF asked
<1>4. updating' \in [NameCalls -> NameUpdates \cup {NoCall}]
  BY <1>2, NoProposalsAreLists, <1>1 DEF NameUpdates, ProposalsInv
<1>5. ~askedEarly' BY <1>1, <1>3 DEF ProposalsInv, SourcesAreSpared
<1> QED BY <1>1, <1>4, <1>5 DEF ProposalsInv, SourcesAreSpared, HeardIsProposed

LEMMA ResponseKeepsProposals ==
  ASSUME ProposalsInv, NEW c \in NameCalls, NEW p \in NameProviders, NEW proposes \in BOOLEAN,
         NEW delay \in {0, LongDelay}, providerResponds(c, p, proposes, delay)
  PROVE  ProposalsInv'
<1>1. updating[c] # NoCall /\ UNCHANGED <<names, nameClock, answered, askedEarly>>
  BY DEF providerResponds
<1>2. PICK call \in NameUpdates : call = updating[c] BY <1>1 DEF ProposalsInv
<1>3. PICK result \in Results : result = [proposes |-> proposes, delay |-> delay]
  <2>1. delay \in Nat BY NamesAssumption DEF NamesAssumption
  <2>2. [proposes |-> proposes, delay |-> delay] \in Results BY <2>1 DEF Results
  <2> QED BY <2>2
<1> DEFINE S == DOMAIN call.results \cup (p \cap call.asked)
           results == [s \in S |-> IF s \in DOMAIN call.results THEN call.results[s] ELSE result]
<1>4. updating' = [updating EXCEPT ![c] = [call EXCEPT !.waits = @ \ {p}, !.results = results]]
  BY <1>2, <1>3 DEF providerResponds
<1>5. PICK T \in SUBSET NameSources : call.results \in [T -> Results]
  BY DEF NameUpdates, ResultLists
<1>6. S \in SUBSET NameSources /\ results \in [S -> Results] BY <1>5 DEF NameUpdates
<1>7. results \in ResultLists BY <1>6 DEF ResultLists
<1> HIDE DEF results
<1>8. [call EXCEPT !.waits = @ \ {p}, !.results = results] \in NameUpdates BY <1>7 DEF NameUpdates
<1>9. updating' \in [NameCalls -> NameUpdates \cup {NoCall}] BY <1>4, <1>8 DEF ProposalsInv
<1> QED BY <1>1, <1>9 DEF ProposalsInv, SourcesAreSpared, HeardIsProposed

\* The results of a call are stored: sources that were not asked keep their proposals, and no
\* entry with a fresh one has expired.
LEMMA ResultsKeepProposals ==
  ASSUME ProposalsInv, NEW c \in NameCalls, updateProposedNameState(c)
  PROVE  ProposalsInv'
<1>1. /\ updating[c] # NoCall
      /\ updating' = [updating EXCEPT ![c] = NoCall]
      /\ UNCHANGED <<nameClock, askedEarly>> BY DEF updateProposedNameState
<1>2. PICK call \in NameUpdates : call = updating[c] BY <1>1 DEF ProposalsInv
<1>3. PICK v \in Named : v = call.value BY DEF NameUpdates
<1>4. PICK old \in NameEntries : old = entryOf(v) BY EntriesOfNames DEF ProposalsInv
<1> DEFINE after == proposalsAfter(call, old.proposedNames)
           heard == [s \in DOMAIN answered[v] \cup DOMAIN call.results |->
                       IF s \notin DOMAIN call.results THEN answered[v][s]
                       ELSE Proposal(FALSE, nameClock, call.results[s].delay)]
<1>5. /\ names' = removeExpiredEntries(updateEntry(v, [old EXCEPT !.proposedNames = after]))
      /\ answered' = [answered EXCEPT ![v] = heard] BY <1>2, <1>3, <1>4 DEF updateProposedNameState
<1>6. PICK T \in SUBSET NameSources : call.results \in [T -> Results]
  BY DEF NameUpdates, ResultLists
<1>7. PICK D \in SUBSET (NameSources \cup DormantSources) : old.proposedNames \in [D -> Proposals]
  BY DEF NameEntries, ProposalLists
<1>8. nameClock \in Nat BY DEF ProposalsInv
<1>9. after \in ProposalLists /\ DOMAIN after = (D \ DormantSources) \cup T
  <2>1. \A s \in T : call.results[s].proposes \in BOOLEAN /\ call.results[s].delay \in Nat
    BY <1>6 DEF Results
  <2>2. \A p \in Proposals, s \in T : proposalAfter(call, s, p) \in Proposals
    BY <1>8, <2>1 DEF proposalAfter, Proposal, Proposals
  <2>3. Proposal(FALSE, 0, 0) \in Proposals BY DEF Proposal, Proposals
  <2>4. after \in [(D \ DormantSources) \cup T -> Proposals]
    BY <1>6, <1>7, <2>2, <2>3 DEF proposalsAfter
  <2>5. (D \ DormantSources) \cup T \in SUBSET (NameSources \cup DormantSources) OBVIOUS
  <2> QED BY <2>4, <2>5 DEF ProposalLists
<1>10. /\ \A s \in T : /\ after[s].lastRequestTime = nameClock
                       /\ after[s].updateDelay = call.results[s].delay
       /\ \A s \in D \ DormantSources : s \notin T => after[s] = old.proposedNames[s]
  BY <1>6, <1>7 DEF proposalsAfter, proposalAfter, Proposal
<1>11. PICK H \in SUBSET NameSources : answered[v] \in [H -> Proposals] BY DEF ProposalsInv
<1>12. /\ heard \in [H \cup T -> Proposals] /\ H \cup T \in SUBSET NameSources
       /\ \A s \in T : /\ heard[s].lastRequestTime = nameClock
                       /\ heard[s].updateDelay = call.results[s].delay
       /\ \A s \in H : s \notin T => heard[s] = answered[v][s]
  BY <1>6, <1>8, <1>11 DEF Proposal, Proposals, Results
<1> HIDE DEF after, heard
<1>13. PICK entry \in NameEntries : entry = [old EXCEPT !.proposedNames = after] /\ entry.proposedNames = after
  <2>1. /\ [old EXCEPT !.proposedNames = after] \in NameEntries
        /\ [old EXCEPT !.proposedNames = after].proposedNames = after BY <1>9 DEF NameEntries
  <2> QED BY <2>1
<1>14. PICK entries \in NameLists :
         /\ entries = updateEntry(v, entry) /\ DOMAIN entries = DOMAIN names \cup {v}
         /\ entries[v] = entry
         /\ \A w \in DOMAIN names : w # v => entries[w] = names[w]
  BY EntriesUpdated DEF ProposalsInv
<1>15. names' = [w \in {w \in DOMAIN entries : ~isExpired(entries[w])} |-> entries[w]]
  BY <1>5, <1>13, <1>14 DEF removeExpiredEntries
<1>16. names' \in NameLists BY <1>15 DEF NameLists
<1>17. answered' \in [Named -> UNION {[S -> Proposals] : S \in SUBSET NameSources}]
  BY <1>5, <1>12 DEF ProposalsInv
<1>18. updating' \in [NameCalls -> NameUpdates \cup {NoCall}] BY <1>1 DEF ProposalsInv
<1>19. ASSUME NEW w \in Named, NEW s \in DOMAIN answered'[w]
       PROVE  HeardIsProposed(w, s, answered'[w][s], entries)
  <2>1. CASE w # v BY <1>5, <2>1, <1>14 DEF ProposalsInv, HeardIsProposed
  <2>2. CASE w = v
    <3>1. answered'[w] = heard /\ s \in H \cup T BY <1>5, <1>12, <2>2 DEF ProposalsInv
    <3>2. /\ w \in DOMAIN entries /\ entries[w].proposedNames = after
          /\ T \subseteq DOMAIN after BY <1>9, <1>13, <1>14, <2>2
    <3>3. CASE s \in T BY <1>10, <1>12, <3>2, <3>3, <3>1 DEF HeardIsProposed
    <3>4. CASE s \notin T
      <4>1. heard[s] = answered[v][s] /\ s \in H /\ s \notin DormantSources
        BY <1>12, <3>1, <3>4, NamesAssumption DEF NamesAssumption
      <4>2. HeardIsProposed(v, s, heard[s], names) BY <1>11, <4>1 DEF ProposalsInv
      <4>3. v \in DOMAIN names => old = names[v] BY <1>4 DEF entryOf
      <4>4. /\ nameClock - heard[s].lastRequestTime < Expire
            => /\ s \in D
               /\ old.proposedNames[s].lastRequestTime = heard[s].lastRequestTime
               /\ old.proposedNames[s].updateDelay = heard[s].updateDelay
        BY <1>7, <4>2, <4>3 DEF HeardIsProposed
      <4>5. s \in D => s \in DOMAIN after /\ after[s] = old.proposedNames[s]
        BY <1>9, <1>10, <3>4, <4>1
      <4> QED BY <3>1, <3>2, <4>4, <4>5 DEF HeardIsProposed
    <3> QED BY <3>3, <3>4
  <2> QED BY <2>1, <2>2
<1>20. ASSUME NEW w \in Named, NEW s \in DOMAIN answered'[w]
       PROVE  HeardIsProposed(w, s, answered[w][s], names)'
  <2>1. SUFFICES ASSUME nameClock - answered'[w][s].lastRequestTime < Expire
                 PROVE  /\ w \in DOMAIN names' /\ s \in DOMAIN names'[w].proposedNames
                        /\ names'[w].proposedNames[s].lastRequestTime = answered'[w][s].lastRequestTime
                        /\ names'[w].proposedNames[s].updateDelay = answered'[w][s].updateDelay
    BY <1>1 DEF HeardIsProposed
  <2>2. /\ w \in DOMAIN entries /\ s \in DOMAIN entries[w].proposedNames
        /\ entries[w].proposedNames[s].lastRequestTime = answered'[w][s].lastRequestTime
        /\ entries[w].proposedNames[s].updateDelay = answered'[w][s].updateDelay
    BY <1>19, <2>1 DEF HeardIsProposed
  <2>3. answered'[w][s].lastRequestTime \in Nat /\ Expire \in Nat
    BY <1>17, NamesAssumption DEF Proposals, NamesAssumption
  <2>4. ~(nameClock - entries[w].proposedNames[s].lastRequestTime >= Expire)
    BY <1>8, <2>1, <2>2, <2>3
  <2>5. ~isExpired(entries[w]) BY <2>2, <2>4 DEF isExpired
  <2>6. w \in DOMAIN names' /\ names'[w] = entries[w] BY <1>15, <2>2, <2>5
  <2> QED BY <2>2, <2>6
<1> QED BY <1>1, <1>16, <1>17, <1>18, <1>20 DEF ProposalsInv, SourcesAreSpared

LEMMA NamesStepsKeepProposals == ASSUME ProposalsInv, ProposalsNext PROVE ProposalsInv'
BY SetNameKeepsProposals, UpdateKeepsProposals, ResponseKeepsProposals, ResultsKeepProposals, NamesTimePasses
   DEF ProposalsNext

LEMMA ProposalsInitially == NamesInit => ProposalsInv
<1> SUFFICES ASSUME NamesInit PROVE ProposalsInv OBVIOUS
<1>1. PICK old \in SUBSET DormantSources :
        names = IF old = {} THEN [v \in {} |-> 0]
                ELSE [v \in Named |-> NameEntry(FALSE, [s \in old |-> Proposal(FALSE, Expire, 0)])]
  BY DEF NamesInit
<1>2. /\ updating = [c \in NameCalls |-> NoCall] /\ nameClock = Expire
      /\ answered = [v \in Named |-> None] /\ askedEarly = FALSE BY DEF NamesInit
<1>3. names \in NameLists
  <2>1. CASE old = {} BY <1>1, <2>1 DEF NameLists
  <2>2. CASE old # {}
    BY NamesAssumption, <1>1, <2>2 DEF Proposal, Proposals, NamesAssumption, ProposalLists, NameEntry,
       NameEntries, NameLists
  <2> QED BY <2>1, <2>2
<1>4. nameClock \in Nat /\ nameClock >= Expire BY <1>2, NamesAssumption DEF NamesAssumption
<1>5. answered \in [Named -> UNION {[S -> Proposals] : S \in SUBSET NameSources}]
  BY <1>2, NoProposalsAreLists
<1>6. \A v \in Named : DOMAIN answered[v] = {} BY <1>2, NoProposalsAreLists
<1>7. updating \in [NameCalls -> NameUpdates \cup {NoCall}] BY <1>2
<1> QED BY <1>2, <1>3, <1>4, <1>5, <1>6, <1>7 DEF ProposalsInv, SourcesAreSpared

LEMMA ProposalsIdle == ProposalsInv /\ UNCHANGED proposalVars => ProposalsInv'
<1> SUFFICES ASSUME ProposalsInv, UNCHANGED proposalVars PROVE ProposalsInv' OBVIOUS
<1>1. UNCHANGED <<names, updating, nameClock, answered, askedEarly>> BY DEF proposalVars
<1> QED BY <1>1 DEF ProposalsInv, SourcesAreSpared, HeardIsProposed

-----------------------------------------------------------------------------

LEMMA EnsStepsKeepNetwork == ASSUME EnsInv, EnsNext PROVE EnsInv'
<1>1. \A v \in Named : resolving[v] # NoCall => resolving[v] \in ResolvingCalls BY DEF EnsInv
<1>2. CASE \/ \E chain \in EnsChains : setEns(chain) \/ deleteEns(chain)
           \/ clearEns
  BY <1>2 DEF setEns, deleteEns, clearEns, EnsInv, ResolvingAsksNetwork, ResolutionsAreOfNetwork
<1>3. ASSUME NEW chain \in EnsChains, ensNetworkChanged(chain)
      PROVE  EnsInv'
  BY <1>3, <1>1 DEF ensNetworkChanged, resolutionsAfterSwitch, ResolvingCalls, ResolvingAsksNetwork, EnsInv,
     ResolutionsAreOfNetwork
<1>4. ASSUME NEW v \in Named, NEW r \in ResolvingCalls \cup {NoCall},
             resolving' = [resolving EXCEPT ![v] = r], UNCHANGED <<ethProvider, ensNetwork>>,
             r # NoCall /\ ~r.crossed => r.asked = ensNetwork,
             ResolutionsAreOfNetwork'
      PROVE  EnsInv' BY <1>4 DEF EnsInv, ResolvingAsksNetwork
<1>5. UNCHANGED <<resolutions, ensNetwork>> => ResolutionsAreOfNetwork'
  BY DEF EnsInv, ResolutionsAreOfNetwork
<1>6. ethProvider # NoProvider => ethProvider = ensNetwork /\ ethProvider \in EnsChains
  BY DEF EnsInv
<1>7. ASSUME NEW v \in Named, reverseResolveAddress(v)
      PROVE  EnsInv'
  <2>1. PICK r \in ResolvingCalls :
          /\ r = [asked |-> ethProvider, named |-> FALSE, crossed |-> FALSE]
          /\ r.asked = ensNetwork
    <3>1. [asked |-> ethProvider, named |-> FALSE, crossed |-> FALSE] \in ResolvingCalls
      BY <1>6, <1>7 DEF reverseResolveAddress, ResolvingCalls
    <3> QED BY <1>6, <1>7, <3>1 DEF reverseResolveAddress
  <2> QED BY <1>4, <1>5, <1>7, <2>1 DEF reverseResolveAddress
<1>8. ASSUME NEW v \in Named, domainFound(v)
      PROVE  EnsInv'
  <2>1. resolving[v] \in ResolvingCalls BY <1>1, <1>8 DEF domainFound
  <2>2. PICK r \in ResolvingCalls \cup {NoCall} :
          /\ r = IF ethProvider = NoProvider THEN NoCall
                 ELSE [resolving[v] EXCEPT !.named = TRUE, !.asked = ethProvider]
          /\ r # NoCall => r.asked = ensNetwork
    <3>1. CASE ethProvider = NoProvider BY <3>1
    <3>2. CASE ethProvider # NoProvider
      <4>1. /\ [resolving[v] EXCEPT !.named = TRUE, !.asked = ethProvider] \in ResolvingCalls
            /\ [resolving[v] EXCEPT !.named = TRUE, !.asked = ethProvider].asked = ensNetwork
        BY <1>6, <2>1, <3>2 DEF ResolvingCalls
      <4> QED BY <3>2, <4>1
    <3> QED BY <3>1, <3>2
  <2>3. resolving' = [resolving EXCEPT ![v] = r] /\ UNCHANGED <<ethProvider, ensNetwork, resolutions>>
    BY <1>8, <2>2 DEF domainFound, EnsInv
  <2> QED BY <1>4, <1>5, <2>2, <2>3
<1>9. ASSUME NEW v \in Named, nameResolved(v)
      PROVE  EnsInv'
  BY <1>9, <1>4 DEF nameResolved, EnsInv, ResolvingAsksNetwork, ResolutionsAreOfNetwork
<1>10. ASSUME NEW v \in Named, notResolved(v)
       PROVE  EnsInv' BY <1>4, <1>5, <1>10 DEF notResolved
<1> QED BY <1>2, <1>3, <1>7, <1>8, <1>9, <1>10 DEF EnsNext

LEMMA EnsInitially == NamesInit => EnsInv
BY DEF NamesInit, EnsInv, ResolvingAsksNetwork, ResolutionsAreOfNetwork

LEMMA EnsIdle == EnsInv /\ UNCHANGED ensVars => EnsInv'
<1> SUFFICES ASSUME EnsInv, UNCHANGED ensVars PROVE EnsInv' OBVIOUS
<1>1. UNCHANGED <<ensEntries, resolutions, ethProvider, ensNetwork, resolving>> BY DEF ensVars
<1> QED BY <1>1 DEF EnsInv, ResolvingAsksNetwork, ResolutionsAreOfNetwork


-----------------------------------------------------------------------------
(* The session of a profile                                                *)

SessionRecords ==
  [kind : {"none", "signIn", "token", "enable", "notify", "disable"},
   step : {"idle", "authenticating", "renewing", "creating", "reading", "clearing"}]

\* Who asks for a session was allowed to, while syncing is off nobody turns it on, and
\* notifications are only made by who turns them on.
CallsAreAllowed ==
  /\ \A c \in SessionCalls : sessionCall[c].step \in {"authenticating", "renewing"} => maySignIn
  /\ \A c \in SessionCalls : sessionCall[c].kind \in {"enable", "notify"} => ~turnedOff
  /\ \A c \in SessionCalls : sessionCall[c].step = "creating" => sessionCall[c].kind = "notify"

SessionInv ==
  /\ sessionCall \in [SessionCalls -> SessionRecords]
  /\ CallsAreAllowed /\ SessionsAreEnded

-----------------------------------------------------------------------------

LEMMA SessionCallsBegin ==
  ASSUME sessionCall \in [SessionCalls -> SessionRecords], NEW c \in SessionCalls,
         NEW kind \in {"signIn", "token", "enable", "notify", "disable"},
         NEW step \in {"authenticating", "creating", "reading"}, beginsCall(c, kind, step)
  PROVE  /\ sessionCall' \in [SessionCalls -> SessionRecords]
         /\ (sessionCall[c])' = [kind |-> kind, step |-> step]
         /\ \A d \in SessionCalls \ {c} : (sessionCall[d])' = sessionCall[d]
BY DEF beginsCall, SessionRecords

LEMMA SessionCallsGoOn ==
  ASSUME sessionCall \in [SessionCalls -> SessionRecords], NEW c \in SessionCalls,
         NEW step \in {"creating", "reading", "clearing", "renewing"}, goesTo(c, step)
  PROVE  /\ sessionCall' \in [SessionCalls -> SessionRecords]
         /\ (sessionCall[c])'.kind = sessionCall[c].kind
         /\ (sessionCall[c])'.step = step
         /\ \A d \in SessionCalls \ {c} : (sessionCall[d])' = sessionCall[d]
BY DEF goesTo, SessionRecords

LEMMA SessionCallsEnd ==
  ASSUME sessionCall \in [SessionCalls -> SessionRecords], NEW c \in SessionCalls, callOver(c)
  PROVE  /\ sessionCall' \in [SessionCalls -> SessionRecords]
         /\ (sessionCall[c])' = NoCallYet
         /\ \A d \in SessionCalls \ {c} : (sessionCall[d])' = sessionCall[d]
BY DEF callOver, SessionRecords, NoCallYet

\* Syncing is turned off, while nobody else is about to turn it on.
LEMMA DisabledKeepsSession ==
  ASSUME SessionInv, NEW c \in SessionCalls, NEW byUser \in BOOLEAN, disabled(c, byUser),
         sessionCall' \in [SessionCalls -> SessionRecords],
         \A d \in SessionCalls \ {c} : (sessionCall[d])' = sessionCall[d],
         (sessionCall[c])' = NoCallYet,
         notifying' => notifying,
         byUser => ~notifying'
  PROVE  SessionInv'
<1>1. /\ isSignedIn' => isSignedIn /\ maySignIn' = maySignIn
      /\ turnedOff' => ~isProfileSyncingEnabled' /\ ~notifying'
  BY DEF disabled, signsOut, SessionInv, SessionsAreEnded
<1>2. maySignIn' = maySignIn
      \/ maySignIn' = (\E d \in SessionCalls : sessionCall[d].step \in {"authenticating", "renewing"})
  BY DEF disabled, signsOut
<1>3. ASSUME NEW d \in SessionCalls, (sessionCall[d])'.step \in {"authenticating", "renewing"}
      PROVE  maySignIn'
  <2>1. d # c BY <1>3 DEF NoCallYet
  <2>2. sessionCall[d].step \in {"authenticating", "renewing"} BY <1>3, <2>1
  <2>3. maySignIn BY <2>2 DEF SessionInv, CallsAreAllowed
  <2> QED BY <1>2, <2>2, <2>3
<1>4. ASSUME NEW d \in SessionCalls, (sessionCall[d])'.kind \in {"enable", "notify"}
      PROVE  ~turnedOff'
  <2>1. d # c /\ sessionCall[d].kind \in {"enable", "notify"} BY <1>4 DEF NoCallYet
  <2> QED BY <2>1 DEF disabled, turningOn, SessionInv, CallsAreAllowed
<1>5. ASSUME NEW d \in SessionCalls, (sessionCall[d])'.step = "creating"
      PROVE  (sessionCall[d])'.kind = "notify" BY <1>5 DEF NoCallYet, SessionInv, CallsAreAllowed
<1>6. isSignedIn' => maySignIn' BY <1>1 DEF SessionInv, SessionsAreEnded
<1> QED BY <1>1, <1>3, <1>4, <1>5, <1>6 DEF SessionInv, CallsAreAllowed, SessionsAreEnded

LEMMA SessionsBegin ==
  ASSUME SessionInv, NEW c \in SessionCalls,
         \/ performSignIn(c) \/ getBearerToken(c)
         \/ \E kind \in {"enable", "notify"} : enableProfileSyncing(c, kind)
  PROVE  SessionInv'
<1>1. sessionCall \in [SessionCalls -> SessionRecords] BY DEF SessionInv
<1>2. CASE performSignIn(c)
  BY <1>1, <1>2, SessionCallsBegin DEF performSignIn, SessionInv, CallsAreAllowed, SessionsAreEnded
<1>3. CASE getBearerToken(c)
  BY <1>1, <1>3, SessionCallsBegin DEF getBearerToken, SessionInv, CallsAreAllowed, SessionsAreEnded
<1>4. ASSUME NEW kind \in {"enable", "notify"}, enableProfileSyncing(c, kind)
      PROVE  SessionInv'
  BY <1>4, <1>1, SessionCallsBegin DEF enableProfileSyncing, SessionInv, CallsAreAllowed, SessionsAreEnded
<1> QED BY <1>2, <1>3, <1>4

LEMMA SessionsGoOff ==
  ASSUME SessionInv, NEW c \in SessionCalls,
         \/ disableProfileSyncing(c) \/ storageReadToDisable(c) \/ notificationsDisabled(c)
  PROVE  SessionInv'
<1>1. sessionCall \in [SessionCalls -> SessionRecords] BY DEF SessionInv
<1>2. CASE disableProfileSyncing(c)
  <2>1. CASE waitsForNotifications
    BY <1>1, <1>2, <2>1, SessionCallsBegin DEF disableProfileSyncing, SessionInv, CallsAreAllowed,
       SessionsAreEnded
  <2>2. CASE ~waitsForNotifications
    BY <1>2, <2>2, <1>1, DisabledKeepsSession DEF disableProfileSyncing, waitsForNotifications
  <2> QED BY <2>1, <2>2
<1>3. CASE storageReadToDisable(c)
  BY <1>3, <1>1, SessionCallsEnd, SessionCallsGoOn DEF storageReadToDisable, SessionInv, CallsAreAllowed,
     SessionsAreEnded, NoCallYet
<1>4. CASE notificationsDisabled(c)
  <2>1. /\ sessionCall' \in [SessionCalls -> SessionRecords]
        /\ (sessionCall[c])' = NoCallYet
        /\ \A d \in SessionCalls \ {c} : (sessionCall[d])' = sessionCall[d]
    BY <1>1, <1>4, SessionCallsEnd DEF notificationsDisabled
  <2>2. CASE notifying' = FALSE /\ disabled(c, sessionCall[c].kind = "disable")
    BY <2>2, <2>1, DisabledKeepsSession
  <2>3. CASE UNCHANGED <<notifying, isSignedIn, session, isProfileSyncingEnabled, maySignIn, turnedOff>>
    BY <2>1, <2>3 DEF SessionInv, CallsAreAllowed, SessionsAreEnded, NoCallYet
  <2> QED BY <1>4, <2>2, <2>3 DEF notificationsDisabled
<1> QED BY <1>2, <1>3, <1>4

LEMMA SessionsAreAnswered ==
  ASSUME SessionInv, NEW c \in SessionCalls,
         notificationsEnabled(c) \/ authenticated(c) \/ authenticationFails(c)
  PROVE  SessionInv'
<1>1. sessionCall \in [SessionCalls -> SessionRecords] BY DEF SessionInv
<1>2. CASE notificationsEnabled(c)
  BY <1>1, <1>2, SessionCallsEnd DEF notificationsEnabled, SessionInv, CallsAreAllowed, SessionsAreEnded,
     NoCallYet
<1>3. CASE authenticated(c)
  BY <1>3, <1>1, SessionCallsEnd, SessionCallsGoOn DEF authenticated, SessionInv, CallsAreAllowed,
     SessionsAreEnded, NoCallYet
<1>4. CASE authenticationFails(c)
  <2>1. CASE waitsForNotifications
    BY <1>1, <1>4, <2>1, SessionCallsGoOn DEF authenticationFails, SessionInv, CallsAreAllowed,
       SessionsAreEnded
  <2>2. CASE ~waitsForNotifications
    <3>1. /\ sessionCall' \in [SessionCalls -> SessionRecords]
          /\ (sessionCall[c])' = NoCallYet
          /\ \A d \in SessionCalls \ {c} : (sessionCall[d])' = sessionCall[d]
          /\ UNCHANGED notifying BY <1>1, <1>4, <2>2, SessionCallsEnd DEF authenticationFails
    <3>2. CASE isProfileSyncingEnabled
      <4>1. disabled(c, FALSE) /\ FALSE \in BOOLEAN BY <1>4, <2>2, <3>2 DEF authenticationFails
      <4> QED BY <3>1, <4>1, DisabledKeepsSession
    <3>3. CASE ~isProfileSyncingEnabled
      BY <1>4, <2>2, <3>3, <3>1 DEF authenticationFails, SessionInv, CallsAreAllowed, SessionsAreEnded,
         NoCallYet
    <3> QED BY <3>2, <3>3
  <2> QED BY <2>1, <2>2
<1> QED BY <1>2, <1>3, <1>4

LEMMA SessionStepsKeepEnded == ASSUME SessionInv, SessionNext PROVE SessionInv'
<1>1. CASE performSignOut
  BY <1>1 DEF performSignOut, signsOut, SessionInv, CallsAreAllowed, SessionsAreEnded
<1>2. CASE sessionAges BY <1>2 DEF sessionAges, SessionInv, CallsAreAllowed, SessionsAreEnded
<1>3. CASE profileRestart
  BY <1>3 DEF profileRestart, SessionInv, CallsAreAllowed, SessionsAreEnded, SessionRecords, NoCallYet
<1>4. ASSUME NEW b \in BOOLEAN, setIsProfileSyncingEnabled(b)
      PROVE  SessionInv'
  BY <1>4 DEF setIsProfileSyncingEnabled, SessionInv, CallsAreAllowed, SessionsAreEnded
<1> QED BY <1>1, <1>2, <1>3, <1>4, SessionsBegin, SessionsGoOff, SessionsAreAnswered DEF SessionNext

LEMMA SessionInitially == SessionInit => SessionInv
BY DEF SessionInit, SessionInv, CallsAreAllowed, SessionsAreEnded, SessionRecords, NoCallYet

LEMMA SessionIdle == SessionInv /\ UNCHANGED profileVars => SessionInv'
BY DEF profileVars, SessionInv, CallsAreAllowed, SessionsAreEnded

-----------------------------------------------------------------------------
(* Pushed notifications                                                    *)

PushLists == SUBSET (Nat \cup {Device})
PushKinds == {"enable", "disable", "update"}
PushRecords ==
       [kind : PushKinds, step : {"asking"}]
  \cup [kind : PushKinds, step : {"reading"}, token : Nat]
  \cup [kind : {"enable", "update"}, step : {"registering"}, list : PushLists]
  \cup [kind : PushKinds, step : {"writing"}, list : PushLists, token : Nat]
  \cup [kind : {"disable"}, step : {"deleting"}]

IsLinked == links \ {Device} = {fcmToken} \ {0} /\ firebaseToken = fcmToken

\* What a call that is alone has read, and will write, of the token of this device.
StageIsLinked(r) ==
  /\ r.step \in {"asking", "reading", "registering"} => IsLinked
  /\ r.step = "reading" => r.token = fcmToken
  /\ r.step = "registering" =>
       r.list \ {Device} = links \ {Device} /\ (r.kind = "update" => fcmToken = 0)
  /\ r.step = "writing" /\ r.kind = "enable" =>
       r.token # 0 /\ r.list \ {Device} = {r.token} /\ firebaseToken = r.token
  /\ r.step = "writing" /\ r.kind = "update" /\ r.token # 0 =>
       r.list \ {Device} = {r.token} /\ firebaseToken = r.token
  /\ r.step = "writing" /\ r.kind = "update" /\ r.token = 0 =>
       r.list \ {Device} = {fcmToken} \ {0} /\ firebaseToken = fcmToken
  /\ r.step = "writing" /\ r.kind = "disable" => r.list \ {Device} = {}
  /\ r.step = "deleting" => links \ {Device} = {}

\* A list that was read has the token of the other device, if it has linked it.
StageKeepsDevice(r) ==
  r.step \in {"registering", "writing"} => (Device \in r.list <=> deviceLinked)

TokensAreNumbers ==
  links \in PushLists /\ firebaseToken \in Nat /\ tokensMade \in Nat /\ fcmToken \in Nat

UntroubledAreLinked ==
  /\ \A c, d \in pushing : c = d
  /\ pushing = {} => IsLinked
  /\ \A c \in pushing : StageIsLinked(pushCall[c])
  /\ fcmToken = 0 /\ ~relistened => listeners = {}

PushInv ==
  /\ TokensAreNumbers
  /\ pushCall \in [PushCalls -> PushRecords \cup {NoPush}]
  /\ ~pushTroubled => UntroubledAreLinked
  /\ ~relistened => listeners \subseteq {unsubscriber}
  /\ ~deviceCrossed => /\ Device \in links <=> deviceLinked
                       /\ \A c \in pushing : StageKeepsDevice(pushCall[c])

-----------------------------------------------------------------------------

LEMMA PushGoesOn ==
  ASSUME PushInv, NEW c \in PushCalls, c \in pushing, NEW r \in PushRecords \cup {NoPush},
         pushCall' = [pushCall EXCEPT ![c] = r],
         TokensAreNumbers', UNCHANGED <<deviceLinked, deviceCrossed>>,
         ~pushTroubled' => ~pushTroubled,
         ~pushTroubled' => IF r = NoPush THEN IsLinked' ELSE StageIsLinked(r)',
         ~pushTroubled' /\ fcmToken' = 0 /\ ~relistened' => listeners' = {},
         ~relistened' => listeners' \subseteq {unsubscriber'},
         ~deviceCrossed => /\ Device \in links' <=> deviceLinked
                           /\ r # NoPush => StageKeepsDevice(r)
  PROVE  PushInv'
<1>1. /\ pushCall' \in [PushCalls -> PushRecords \cup {NoPush}]
      /\ (pushCall[c])' = r
      /\ \A d \in PushCalls : d # c => (pushCall[d])' = pushCall[d] BY DEF PushInv
<1>2. \A d \in PushCalls : d # c => (d \in pushing' <=> d \in pushing) BY <1>1 DEF pushing
<1>3. c \in pushing' <=> r # NoPush BY <1>1 DEF pushing
<1>4. ~pushTroubled' => UntroubledAreLinked'
  <2> SUFFICES ASSUME ~pushTroubled' PROVE UntroubledAreLinked' OBVIOUS
  <2>1. \A d \in PushCalls : d \in pushing => d = c BY DEF PushInv, UntroubledAreLinked
  <2>2. \A d \in pushing' : d = c BY <1>2, <2>1 DEF pushing
  <2>3. pushing' = {} => IsLinked' BY <1>3
  <2>4. \A d \in pushing' : StageIsLinked(pushCall[d])' BY <1>1, <1>3, <2>2
  <2> QED BY <2>2, <2>3, <2>4 DEF UntroubledAreLinked
<1>5. ~deviceCrossed' => /\ (Device \in links)' <=> deviceLinked'
                         /\ \A d \in pushing' : StageKeepsDevice(pushCall[d])'
  <2> SUFFICES ASSUME ~deviceCrossed' PROVE \A d \in pushing' : StageKeepsDevice(pushCall[d])'
    OBVIOUS
  <2>1. ~deviceCrossed OBVIOUS
  <2>2. ASSUME NEW d \in PushCalls, d \in pushing', d # c PROVE StageKeepsDevice(pushCall[d])'
    BY <1>2, <2>1, <2>2, <1>1 DEF PushInv, StageKeepsDevice
  <2>3. ASSUME c \in pushing' PROVE StageKeepsDevice(pushCall[c])'
    BY <1>1, <1>3, <2>1, <2>3 DEF StageKeepsDevice
  <2> QED BY <2>2, <2>3 DEF pushing
<1> QED BY <1>1, <1>4, <1>5 DEF PushInv

LEMMA PushBegins ==
  ASSUME PushInv, NEW c \in PushCalls, NEW kind \in PushKinds, pushBegins(c, kind)
  PROVE  PushInv'
<1> DEFINE r == [kind |-> kind, step |-> "asking"]
<1>1. /\ c \notin pushing
      /\ pushCall' = [pushCall EXCEPT ![c] = r]
      /\ pushTroubled' = (pushTroubled \/ pushing # {})
      /\ UNCHANGED <<links, firebaseToken, tokensMade, fcmToken, listeners, unsubscriber,
                     deviceLinked, deviceCrossed, relistened>> BY DEF pushBegins, listening
<1>2. r \in PushRecords BY DEF PushRecords
<1>3. r # NoPush /\ r.step = "asking" BY DEF NoPush, PushKinds
<1> HIDE DEF r
<1>4. /\ pushCall' \in [PushCalls -> PushRecords \cup {NoPush}]
      /\ (pushCall[c])' = r
      /\ \A d \in PushCalls : d # c => (pushCall[d])' = pushCall[d] BY <1>1, <1>2 DEF PushInv
<1>5. ASSUME ~pushTroubled' PROVE UntroubledAreLinked'
  BY <1>1, <1>5, <1>4, <1>3 DEF PushInv, UntroubledAreLinked, IsLinked, pushing, StageIsLinked
<1>6. ASSUME ~deviceCrossed, NEW d \in PushCalls, d \in pushing'
      PROVE  StageKeepsDevice(pushCall[d])'
  BY <1>3, <1>4, <1>6, <1>1 DEF StageKeepsDevice, pushing, PushInv
<1>7. \A d \in pushing' : d \in PushCalls BY DEF pushing
<1> QED BY <1>1, <1>4, <1>5, <1>6, <1>7 DEF PushInv, TokensAreNumbers

LEMMA PushStagesAre ==
  ASSUME PushInv, NEW c \in PushCalls, c \in pushing
  PROVE  /\ pushCall[c] \in PushRecords
         /\ ~pushTroubled => StageIsLinked(pushCall[c])
         /\ ~deviceCrossed => StageKeepsDevice(pushCall[c])
BY DEF PushInv, pushing, UntroubledAreLinked

\* Turning pushing off removes the listener, which is the only one.
LEMMA PushedNoMore ==
  ASSUME PushInv, pushDisabled, UNCHANGED relistened
  PROVE  /\ fcmToken' = 0 /\ fcmToken' \in Nat
         /\ ~relistened' => listeners' = {} /\ listeners' \subseteq {unsubscriber'}
BY DEF PushInv, pushDisabled

LEMMA LinksAsked ==
  ASSUME PushInv, NEW c \in PushCalls, linksAsked(c)
  PROVE  PushInv'
<1>1. /\ c \in pushing /\ pushCall[c].kind \in PushKinds /\ pushCall[c].step = "asking"
      /\ UNCHANGED <<links, firebaseToken, tokensMade, pushTroubled, relistened, deviceLinked, deviceCrossed>>
  BY DEF linksAsked, pushIsAt, PushKinds, pushHistory
<1>2. ~pushTroubled => IsLinked BY <1>1, PushStagesAre DEF StageIsLinked
<1>3. CASE pushCall[c].kind = "disable" /\ fcmToken = 0
  BY <1>3, <1>1, PushedNoMore, <1>2, PushGoesOn DEF linksAsked, pushOver, IsLinked, PushInv, TokensAreNumbers
<1>4. CASE ~(pushCall[c].kind = "disable" /\ fcmToken = 0)
  <2>1. /\ pushCall' = [pushCall EXCEPT ![c] =
             [kind |-> pushCall[c].kind, step |-> "reading", token |-> fcmToken]]
        /\ UNCHANGED <<fcmToken, listeners, unsubscriber>> BY <1>4 DEF linksAsked, listening
  <2>2. PICK r \in PushRecords :
          /\ r = [kind |-> pushCall[c].kind, step |-> "reading", token |-> fcmToken]
          /\ r.step = "reading" /\ r.token = fcmToken /\ r # NoPush
    <3>1. [kind |-> pushCall[c].kind, step |-> "reading", token |-> fcmToken] \in PushRecords
      BY <1>1 DEF PushRecords, PushInv, TokensAreNumbers
    <3>2. [kind |-> pushCall[c].kind, step |-> "reading", token |-> fcmToken] # NoPush
      BY <1>1 DEF NoPush, PushKinds
    <3> QED BY <3>1, <3>2
  <2>3. IsLinked => IsLinked' BY <1>1, <2>1 DEF IsLinked
  <2>4. ~pushTroubled' => StageIsLinked(r)' BY <1>1, <1>2, <2>1, <2>2, <2>3 DEF StageIsLinked
  <2>5. TokensAreNumbers' BY <1>1, <2>1 DEF PushInv, TokensAreNumbers
  <2>6. ~deviceCrossed => (Device \in links' <=> deviceLinked) /\ StageKeepsDevice(r)
    BY <1>1, <2>2 DEF PushInv, StageKeepsDevice
  <2>7. /\ ~pushTroubled' /\ fcmToken' = 0 /\ ~relistened' => listeners' = {}
        /\ ~relistened' => listeners' \subseteq {unsubscriber'}
    BY <1>1, <2>1 DEF PushInv, UntroubledAreLinked
  <2> QED BY <1>1, <2>1, <2>2, <2>4, <2>5, <2>6, <2>7, PushGoesOn
<1> QED BY <1>3, <1>4

\* A record of a call that goes on, whose fields are known.
LEMMA WritesAre ==
  ASSUME NEW kind \in PushKinds, NEW list \in PushLists, NEW token \in Nat
  PROVE  \E r \in PushRecords :
           /\ r = [kind |-> kind, step |-> "writing", list |-> list, token |-> token]
           /\ r.kind = kind /\ r.step = "writing" /\ r.list = list /\ r.token = token /\ r # NoPush
<1>1. [kind |-> kind, step |-> "writing", list |-> list, token |-> token] \in PushRecords
  BY DEF PushRecords
<1>2. [kind |-> kind, step |-> "writing", list |-> list, token |-> token] # NoPush
  BY DEF NoPush, PushKinds
<1> QED BY <1>1, <1>2

LEMMA LinksRead ==
  ASSUME PushInv, NEW c \in PushCalls, linksRead(c)
  PROVE  PushInv'
<1>1. /\ c \in pushing /\ pushCall[c].kind \in PushKinds /\ pushCall[c].step = "reading"
      /\ UNCHANGED <<links, firebaseToken, tokensMade, fcmToken, listeners, unsubscriber,
                     pushTroubled, relistened, deviceLinked, deviceCrossed>>
  BY DEF linksRead, pushIsAt, PushKinds, pushHistory, listening
<1>2. PICK kind \in PushKinds : kind = pushCall[c].kind BY <1>1
<1>3. PICK token \in Nat : token = pushCall[c].token BY <1>1, PushStagesAre DEF PushRecords
<1>4. ~pushTroubled => IsLinked /\ token = fcmToken BY <1>1, <1>3, PushStagesAre DEF StageIsLinked
<1>5. Device \notin Nat /\ links \in PushLists
  BY ProfileServicesAssumption DEF ProfileServicesAssumption, PushInv, TokensAreNumbers
<1>6. ~deviceCrossed => (Device \in links <=> deviceLinked) BY DEF PushInv
<1>7. /\ ~pushTroubled' /\ fcmToken' = 0 /\ ~relistened' => listeners' = {}
      /\ ~relistened' => listeners' \subseteq {unsubscriber'}
      /\ TokensAreNumbers' BY <1>1 DEF PushInv, UntroubledAreLinked, TokensAreNumbers
<1>8. ASSUME NEW r \in PushRecords, r # NoPush, pushCall' = [pushCall EXCEPT ![c] = r],
             ~pushTroubled => StageIsLinked(r), ~deviceCrossed => StageKeepsDevice(r)
      PROVE  PushInv' BY <1>1, <1>6, <1>7, <1>8, PushGoesOn DEF StageIsLinked, IsLinked
<1>9. CASE kind = "disable"
  <2>1. PICK r \in PushRecords :
          /\ r = [kind |-> kind, step |-> "writing", list |-> links \ {token}, token |-> token]
          /\ r.kind = kind /\ r.step = "writing" /\ r.list = links \ {token} /\ r # NoPush
    <3>1. links \ {token} \in PushLists BY <1>5 DEF PushLists
    <3> QED BY <3>1, WritesAre
  <2>2. pushCall' = [pushCall EXCEPT ![c] = r] BY <1>2, <1>3, <1>9, <2>1 DEF linksRead, pushWrites
  <2>3. ~pushTroubled => StageIsLinked(r) BY <1>4, <1>9, <2>1 DEF StageIsLinked, IsLinked
  <2>4. ~deviceCrossed => StageKeepsDevice(r) BY <1>5, <1>6, <2>1 DEF StageKeepsDevice
  <2> QED BY <1>8, <2>1, <2>2, <2>3, <2>4
<1>10. CASE kind = "update" /\ token \in links
  BY <1>5, WritesAre, <1>2, <1>3, <1>10, <1>4, <1>6, <1>8 DEF linksRead, pushWrites, StageIsLinked, IsLinked,
     StageKeepsDevice
<1>11. CASE kind # "disable" /\ ~(kind = "update" /\ token \in links)
  <2>1. PICK r \in PushRecords :
          /\ r = [kind |-> kind, step |-> "registering", list |-> links]
          /\ r.kind = kind /\ r.step = "registering" /\ r.list = links /\ r # NoPush
    <3>1. [kind |-> kind, step |-> "registering", list |-> links] \in PushRecords
      BY <1>5, <1>11 DEF PushRecords, PushKinds
    <3>2. [kind |-> kind, step |-> "registering", list |-> links] # NoPush BY DEF NoPush, PushKinds
    <3> QED BY <3>1, <3>2
  <2>2. pushCall' = [pushCall EXCEPT ![c] = r] BY <1>2, <1>3, <1>11, <2>1 DEF linksRead
  <2>3. ~pushTroubled => (kind = "update" => fcmToken = 0) BY <1>4, <1>5, <1>11 DEF IsLinked
  <2>4. ~pushTroubled => StageIsLinked(r) BY <1>4, <2>1, <2>3 DEF StageIsLinked
  <2>5. ~deviceCrossed => StageKeepsDevice(r) BY <1>6, <2>1 DEF StageKeepsDevice
  <2> QED BY <1>8, <2>1, <2>2, <2>4, <2>5
<1> QED BY <1>9, <1>10, <1>11

\* A call that is alone registers the token that the wallet has, or a new one.
LEMMA Registered ==
  ASSUME PushInv, NEW c \in PushCalls, registered(c)
  PROVE  PushInv'
<1>1. /\ c \in pushing /\ pushCall[c].kind \in {"enable", "update"} /\ pushCall[c].step = "registering"
      /\ UNCHANGED <<links, fcmToken, listeners, unsubscriber,
                     pushTroubled, relistened, deviceLinked, deviceCrossed>>
  BY DEF registered, pushIsAt, pushHistory, listening
<1>2. PICK kind \in {"enable", "update"} : kind = pushCall[c].kind BY <1>1
<1>3. PICK list \in PushLists : list = pushCall[c].list BY <1>1, PushStagesAre DEF PushRecords
<1>4. /\ ~pushTroubled => IsLinked /\ list \ {Device} = links \ {Device} /\ (kind = "update" => fcmToken = 0)
      /\ ~deviceCrossed => (Device \in list <=> deviceLinked)
  BY <1>1, <1>2, <1>3, PushStagesAre DEF StageIsLinked, StageKeepsDevice
<1>5. /\ firebaseToken \in Nat /\ tokensMade \in Nat /\ Device \notin Nat
  BY ProfileServicesAssumption DEF ProfileServicesAssumption, PushInv, TokensAreNumbers
<1>6. PICK keeps \in BOOLEAN :
        /\ firebaseToken = 0 => ~keeps
        /\ firebaseToken # 0 /\ kind = "enable" => keeps
        /\ tokensMade' = tokensMade + (IF keeps THEN 0 ELSE 1)
        /\ firebaseToken' = IF keeps THEN firebaseToken ELSE tokensMade' BY <1>2 DEF registered
<1>7. /\ tokensMade' \in Nat /\ firebaseToken' \in Nat /\ firebaseToken' # 0
      /\ keeps => firebaseToken' = firebaseToken BY <1>5, <1>6
<1>8. PICK token \in Nat : token = firebaseToken' BY <1>7
<1>9. PICK r \in PushRecords :
        /\ r = [kind |-> kind, step |-> "writing", list |-> list \cup {token}, token |-> token]
        /\ r.kind = kind /\ r.step = "writing" /\ r.list = list \cup {token} /\ r.token = token
        /\ r # NoPush
  <2>1. list \cup {token} \in PushLists /\ kind \in PushKinds BY DEF PushLists, PushKinds
  <2> QED BY <2>1, WritesAre
<1>10. pushCall' = [pushCall EXCEPT ![c] = r] BY <1>2, <1>3, <1>8, <1>9 DEF registered, pushWrites
<1>11. ~pushTroubled => (list \cup {token}) \ {Device} = {token}
  <2> SUFFICES ASSUME ~pushTroubled PROVE (list \cup {token}) \ {Device} = {token} OBVIOUS
  <2>1. list \ {Device} = {fcmToken} \ {0} /\ firebaseToken = fcmToken BY <1>4 DEF IsLinked
  <2>2. fcmToken # 0 => token = fcmToken BY <1>4, <1>6, <1>7, <1>8, <2>1
  <2> QED BY <1>5, <2>1, <2>2
<1>12. ~pushTroubled' => StageIsLinked(r)' BY <1>1, <1>7, <1>8, <1>9, <1>11 DEF StageIsLinked
<1>13. ~deviceCrossed => (Device \in links' <=> deviceLinked) /\ StageKeepsDevice(r)
  BY <1>1, <1>4, <1>5, <1>9 DEF PushInv, StageKeepsDevice
<1>14. /\ ~pushTroubled' /\ fcmToken' = 0 /\ ~relistened' => listeners' = {}
       /\ ~relistened' => listeners' \subseteq {unsubscriber'}
       /\ TokensAreNumbers' BY <1>1, <1>7 DEF PushInv, UntroubledAreLinked, TokensAreNumbers
<1> QED BY <1>1, <1>9, <1>10, <1>12, <1>13, <1>14, PushGoesOn

LEMMA LinksWritten ==
  ASSUME PushInv, NEW c \in PushCalls, NEW heard \in BOOLEAN, linksWritten(c, heard)
  PROVE  PushInv'
<1>1. /\ c \in pushing /\ pushCall[c].kind \in PushKinds /\ pushCall[c].step = "writing"
      /\ pushTroubled' = (pushTroubled \/ ~heard)
      /\ UNCHANGED <<firebaseToken, tokensMade, deviceLinked, deviceCrossed>>
  BY DEF linksWritten, pushIsAt, PushKinds
<1>2. pushCall[c] \in PushRecords BY <1>1, PushStagesAre
<1>3. PICK kind \in PushKinds : kind = pushCall[c].kind BY <1>1
<1>4. PICK list \in PushLists : list = pushCall[c].list BY <1>1, <1>2 DEF PushRecords
<1>5. PICK token \in Nat : token = pushCall[c].token BY <1>1, <1>2 DEF PushRecords
<1>6. /\ ~pushTroubled =>
           /\ kind = "enable" =>
                token # 0 /\ list \ {Device} = {token} /\ firebaseToken = token
           /\ kind = "update" /\ token # 0 => list \ {Device} = {token} /\ firebaseToken = token
           /\ kind = "update" /\ token = 0 =>
                list \ {Device} = {fcmToken} \ {0} /\ firebaseToken = fcmToken
           /\ kind = "disable" => list \ {Device} = {}
      /\ ~deviceCrossed => (Device \in list <=> deviceLinked)
  BY <1>1, <1>3, <1>4, <1>5, PushStagesAre DEF StageIsLinked, StageKeepsDevice
<1>7. links' \in {links, list} /\ (heard => links' = list) BY <1>4 DEF linksWritten
<1>8. /\ fcmToken' \in {fcmToken, token}
      /\ kind = "enable" => fcmToken' = token
      /\ kind = "update" => fcmToken' = IF token = 0 THEN fcmToken ELSE token
      /\ kind = "disable" => fcmToken' = fcmToken BY <1>1, <1>3, <1>5 DEF linksWritten, PushKinds
<1>9. /\ kind # "enable" => UNCHANGED <<listeners, unsubscriber, relistened>>
      /\ kind = "enable" =>
           /\ relistened' = (relistened \/ listeners # {})
           /\ listeners' = listeners \cup {unsubscriber'}
  BY <1>1, <1>3 DEF linksWritten, listening, PushKinds
<1>10. TokensAreNumbers' BY <1>1, <1>7, <1>8 DEF PushInv, TokensAreNumbers
<1>11. ~deviceCrossed => (Device \in links' <=> deviceLinked) BY <1>6, <1>7 DEF PushInv
<1>12. ~relistened' => listeners' \subseteq {unsubscriber'}
  <2>1. CASE kind = "enable" BY <1>9, <2>1
  <2>2. CASE kind # "enable" BY <1>9, <2>2 DEF PushInv
  <2> QED BY <2>1, <2>2
<1>13. ~pushTroubled' /\ fcmToken' = 0 /\ ~relistened' => listeners' = {}
  <2> SUFFICES ASSUME ~pushTroubled', fcmToken' = 0, ~relistened' PROVE listeners' = {} OBVIOUS
  <2>1. ~pushTroubled /\ kind # "enable" BY <1>1, <1>6, <1>8
  <2>2. fcmToken = 0 BY <1>3, <1>8, <2>1 DEF PushKinds
  <2> QED BY <1>9, <2>1, <2>2 DEF PushInv, UntroubledAreLinked
<1>14. CASE kind = "disable" /\ heard
  <2>1. PICK r \in PushRecords :
          r = [kind |-> "disable", step |-> "deleting"] /\ r.step = "deleting" /\ r # NoPush
    <3>1. [kind |-> "disable", step |-> "deleting"] \in PushRecords BY DEF PushRecords
    <3> QED BY <3>1 DEF NoPush
  <2>2. pushCall' = [pushCall EXCEPT ![c] = r] BY <1>3, <1>14, <2>1 DEF linksWritten
  <2>3. ~pushTroubled' => StageIsLinked(r)' BY <1>1, <1>6, <1>7, <1>14, <2>1 DEF StageIsLinked
  <2>4. ~deviceCrossed => StageKeepsDevice(r) BY <2>1 DEF StageKeepsDevice
  <2> QED BY <1>1, <1>10, <1>11, <1>12, <1>13, <2>1, <2>2, <2>3, <2>4, PushGoesOn
<1>15. CASE ~(kind = "disable" /\ heard)
  <2>1. pushCall' = [pushCall EXCEPT ![c] = NoPush] /\ NoPush \in PushRecords \cup {NoPush}
    BY <1>3, <1>15 DEF linksWritten, pushOver
  <2>2. ~pushTroubled' => IsLinked'
    <3> SUFFICES ASSUME ~pushTroubled' PROVE IsLinked' OBVIOUS
    <3>1. ~pushTroubled /\ heard /\ kind # "disable" /\ links' = list BY <1>1, <1>7, <1>15
    <3>2. kind = "enable" \/ kind = "update" BY <3>1 DEF PushKinds
    <3>3. CASE token # 0 BY <1>1, <1>6, <1>8, <3>1, <3>2, <3>3 DEF IsLinked
    <3>4. CASE token = 0 BY <1>1, <1>6, <1>8, <3>1, <3>2, <3>4 DEF IsLinked
    <3> QED BY <3>3, <3>4
  <2> QED BY <1>1, <1>10, <1>11, <1>12, <1>13, <2>1, <2>2, PushGoesOn
<1> QED BY <1>14, <1>15

LEMMA PushEnds ==
  ASSUME PushInv, NEW c \in PushCalls, registrationDeleted(c) \/ pushFails(c)
  PROVE  PushInv'
<1>1. NoPush \in PushRecords \cup {NoPush} OBVIOUS
<1>2. CASE registrationDeleted(c)
  BY <1>2, PushedNoMore, PushStagesAre, <1>1, PushGoesOn DEF registrationDeleted, pushIsAt, pushOver,
     pushHistory, StageIsLinked, IsLinked, PushInv, TokensAreNumbers
<1>3. CASE pushFails(c)
  <2>1. /\ c \in pushing /\ pushCall' = [pushCall EXCEPT ![c] = NoPush]
        /\ pushTroubled' = TRUE
        /\ firebaseToken' \in {0, firebaseToken}
        /\ UNCHANGED <<links, tokensMade, fcmToken, listeners, unsubscriber, relistened,
                       deviceLinked, deviceCrossed>> BY <1>3 DEF pushFails, pushOver, listening
  <2>2. TokensAreNumbers' /\ (~relistened' => listeners' \subseteq {unsubscriber'})
    BY <2>1 DEF PushInv, TokensAreNumbers
  <2>3. ~deviceCrossed => (Device \in links' <=> deviceLinked) BY <2>1 DEF PushInv
  <2> QED BY <1>1, <2>1, <2>2, <2>3, PushGoesOn
<1> QED BY <1>2, <1>3

\* The other device changes its own token only.
LEMMA DeviceChanges == ASSUME PushInv, deviceChanges PROVE PushInv'
BY DEF deviceChanges, listening, PushInv, TokensAreNumbers, PushLists, pushing, IsLinked, StageIsLinked,
   UntroubledAreLinked, StageKeepsDevice

LEMMA PushRestarts == ASSUME PushInv, pushRestart PROVE PushInv'
BY DEF pushRestart, pushing, PushInv, UntroubledAreLinked, IsLinked, TokensAreNumbers

LEMMA PushStepsKeepLinked == ASSUME PushInv, PushNext PROVE PushInv'
BY PushBegins, LinksAsked, LinksRead, Registered, LinksWritten, PushEnds, DeviceChanges, PushRestarts DEF
   PushNext, PushKinds

LEMMA PushInitially == PushInit => PushInv
BY DEF PushInit, PushInv, pushing, UntroubledAreLinked, TokensAreNumbers, IsLinked, PushLists

LEMMA PushIdle == PushInv /\ UNCHANGED pushVars => PushInv'
<1> SUFFICES ASSUME PushInv, UNCHANGED pushVars PROVE PushInv' OBVIOUS
<1>1. UNCHANGED <<links, firebaseToken, tokensMade, fcmToken, listeners, unsubscriber, pushCall,
                  deviceLinked, deviceCrossed, pushTroubled, relistened>>
  BY DEF pushVars, pushHistory
<1>2. pushing' = pushing BY <1>1 DEF pushing
<1>3. UntroubledAreLinked => UntroubledAreLinked'
  BY <1>1, <1>2 DEF UntroubledAreLinked, IsLinked, StageIsLinked
<1> QED BY <1>1, <1>2, <1>3 DEF PushInv, TokensAreNumbers, StageKeepsDevice

LEMMA PushesLinked == PushInv => PushesAreLinked
BY DEF PushInv, PushesAreLinked, UntroubledAreLinked, IsLinked

-----------------------------------------------------------------------------
(* Notifications                                                           *)

TriggerRecords == [id : Nat, enabled : BOOLEAN]
TriggerLists == [Addresses -> TriggerRecords \cup {NoTrigger}]
ReadingJobs == [kind : Writers, step : {"reading"}, accounts : SUBSET Addresses]
WritingJobs ==
  [kind : Writers, step : {"writing ahead", "asking", "pushing", "writing"},
   accounts : SUBSET Addresses, triggers : TriggerLists]
OtherJobs ==
       [kind : {"list"}, listed : SUBSET Addresses]
  \cup [kind : {"enabling", "disabling"}]
  \cup [kind : {"fetch"}, step : {"news"}, news : BOOLEAN]
  \cup [kind : {"fetch"}, step : {"events"}, found : SUBSET Notes]
  \cup [kind : {"fetch"}, step : {"listing"}, found : SUBSET Notes, readThere : SUBSET Events]
  \cup [kind : {"mark"}, step : {"asking", "answered"}, notes : SUBSET Notes]
NoteJobRecords ==
       {Idle}
  \cup [kind : {"create"}, step : {"signing in"}]
  \cup [kind : {"create"}, step : {"listing"}, listed : SUBSET Addresses]
  \cup ReadingJobs \cup WritingJobs \cup OtherJobs

storedTriggers == IF userStorage = NoStorage THEN {} ELSE getAllUUIDs(userStorage)

\* What a writer that is alone will write has what the server has, wherever it ends.
WritesAreKnown(r) ==
  /\ r.step = "writing ahead" => storedTriggers \subseteq getAllUUIDs(r.triggers)
  /\ r.step = "asking" => r.triggers = userStorage
  /\ r.step \in {"pushing", "writing"} => serverTriggers \subseteq getAllUUIDs(r.triggers)

AloneAreKnown ==
  /\ \A j, k \in Jobs : noteJobs[j].kind \in Writers /\ noteJobs[k].kind \in Writers => j = k
  /\ \A j \in Jobs : noteJobs[j].kind \in Writers => WritesAreKnown(noteJobs[j])
  /\ serverTriggers \subseteq storedTriggers

NotesAreTyped ==
  /\ userStorage \in TriggerLists \cup {NoStorage}
  /\ lastTrigger \in Nat /\ servicesEnabled \in BOOLEAN
  /\ keyringAddresses \subseteq Addresses /\ accountsSeen \subseteq Addresses
  /\ readAtServer \subseteq Events

TriggersInv ==
  /\ NotesAreTyped
  /\ noteJobs \in [Jobs -> NoteJobRecords]
  /\ ~overlapped => AloneAreKnown

\* Who was said to be added has been seen.
AddedAreSeen ==
  /\ timesAdded \in [Addresses -> Nat]
  /\ \A a \in Addresses : timesAdded[a] <= 1
  /\ \A a \in Addresses : timesAdded[a] = 1 => a \in accountsSeen

ReadAreNews ==
  /\ readList \subseteq News
  /\ noteList \in [Notes -> {"absent", "read", "unread"}]
  /\ ReadStaysRead

NotesInv == TriggersInv /\ AddedAreSeen /\ ReadAreNews

-----------------------------------------------------------------------------

LEMMA TriggersOf ==
  ASSUME NEW t, NEW x
  PROVE  x \in getAllUUIDs(t) <=> \E a \in Addresses : t[a] # NoTrigger /\ x = t[a].id
BY DEF getAllUUIDs

LEMMA JobsAre ==
  ASSUME NEW r \in NoteJobRecords
  PROVE  /\ r.kind \in Writers /\ r.step = "reading" => r \in ReadingJobs
         /\ r.kind \in Writers /\ r.step \in {"writing ahead", "asking", "pushing", "writing"} =>
              r \in WritingJobs
         /\ r.kind = "list" => r.listed \in SUBSET Addresses
         /\ r.kind = "create" /\ r.step = "listing" => r.listed \in SUBSET Addresses
         /\ r.kind = "fetch" /\ r.step = "events" => r.found \in SUBSET Notes
         /\ r.kind = "mark" => r \in [kind : {"mark"}, step : {"asking", "answered"}, notes : SUBSET Notes]
<1>1. CASE r = Idle BY <1>1 DEF Idle, Writers
<1>2. CASE r \in [kind : {"create"}, step : {"signing in"}] BY <1>2 DEF Writers
<1>3. CASE r \in [kind : {"create"}, step : {"listing"}, listed : SUBSET Addresses]
  BY <1>3 DEF Writers
<1>4. CASE r \in ReadingJobs \cup WritingJobs BY <1>4 DEF ReadingJobs, WritingJobs, Writers
<1>5. CASE r \in OtherJobs BY <1>5 DEF OtherJobs, Writers
<1> QED BY <1>1, <1>2, <1>3, <1>4, <1>5 DEF NoteJobRecords

\* One call goes on: another writer has seen nothing of it.
LEMMA JobGoesOn ==
  ASSUME TriggersInv, NEW j \in Jobs, NEW r \in NoteJobRecords,
         noteJobs' = [noteJobs EXCEPT ![j] = r],
         NotesAreTyped',
         overlapped => overlapped',
         noteJobs[j].kind \in Writers \/ UNCHANGED <<userStorage, serverTriggers>>,
         \/ r.kind \notin Writers \/ noteJobs[j].kind \in Writers \/ overlapped'
         \/ \A k \in Jobs \ {j} : noteJobs[k].kind \notin Writers,
         ~overlapped' => (serverTriggers \subseteq storedTriggers)',
         ~overlapped' /\ r.kind \in Writers => WritesAreKnown(r)'
  PROVE  TriggersInv'
BY DEF TriggersInv, AloneAreKnown, WritesAreKnown, storedTriggers

\* A call that writes nothing, of the storage or at the server, goes on.
LEMMA JobGoesOnApart ==
  ASSUME TriggersInv, NEW j \in Jobs, NEW r \in NoteJobRecords, r.kind \notin Writers,
         noteJobs' = [noteJobs EXCEPT ![j] = r], NotesAreTyped',
         UNCHANGED <<overlapped, userStorage, serverTriggers>>
  PROVE  TriggersInv'
BY JobGoesOn DEF TriggersInv, AloneAreKnown, storedTriggers

LEMMA JobsAllIdle ==
  ASSUME TriggersInv, noteJobs' = [j \in Jobs |-> Idle], NotesAreTyped',
         UNCHANGED <<overlapped, userStorage, serverTriggers>>
  PROVE  TriggersInv'
BY DEF NoteJobRecords, Idle, Writers, TriggersInv, AloneAreKnown, storedTriggers

LEMMA JobsUnchanged ==
  ASSUME TriggersInv, NotesAreTyped', UNCHANGED <<noteJobs, overlapped, userStorage, serverTriggers>>
  PROVE  TriggersInv'
BY DEF TriggersInv, AloneAreKnown, storedTriggers, WritesAreKnown

\* Lists of accounts are checked against who was seen, and who is new is seen at once.
LEMMA ListedAreSeen ==
  ASSUME AddedAreSeen, NEW j \in Jobs, listAccounts(j)
  PROVE  AddedAreSeen'
<1> DEFINE added0 == noteJobs[j].listed \ accountsSeen
<1>1. /\ accountsSeen' = IF noteJobs[j].listed = {} THEN accountsSeen ELSE accountsSeen \cup added0
      /\ timesAdded' = [a \in Addresses |-> timesAdded[a] + (IF a \in added0 THEN 1 ELSE 0)]
  BY DEF listAccounts
<1>2. \A a \in Addresses : timesAdded[a] \in Nat /\ timesAdded[a] <= 1 /\ (timesAdded[a] = 1 => a \in accountsSeen)
  BY DEF AddedAreSeen
<1>3. accountsSeen \subseteq accountsSeen' /\ added0 \subseteq accountsSeen' BY <1>1
<1>4. \A a \in Addresses : a \in added0 => timesAdded[a] = 0 BY <1>2
<1> HIDE DEF added0
<1>5. timesAdded' \in [Addresses -> Nat] BY <1>1, <1>2
<1>6. ASSUME NEW a \in Addresses
      PROVE  (timesAdded[a])' <= 1 /\ ((timesAdded[a])' = 1 => a \in accountsSeen')
  BY <1>1, <1>2, <1>3, <1>4
<1> QED BY <1>5, <1>6 DEF AddedAreSeen

LEMMA OthersAre ==
  /\ Idle \in NoteJobRecords /\ Idle.kind \notin Writers
  /\ \A r \in OtherJobs : r \in NoteJobRecords /\ r.kind \notin Writers
  /\ NoStorage \notin TriggerLists /\ NoTrigger \notin TriggerRecords
BY NotificationsAssumption DEF NoteJobRecords, OtherJobs, Idle, Writers, NotificationsAssumption,
   TriggerLists, TriggerRecords

\* A writer begins, with others or alone.
LEMMA WriterBegins ==
  ASSUME TriggersInv, NEW j \in Jobs, NEW r \in NoteJobRecords, r.step \in {"reading", "signing in"},
         noteJobs' = [noteJobs EXCEPT ![j] = r], overlaps(j), NotesAreTyped',
         UNCHANGED <<userStorage, serverTriggers>>
  PROVE  TriggersInv'
BY JobGoesOn DEF overlaps, TriggersInv, AloneAreKnown, storedTriggers, WritesAreKnown

LEMMA ReadersAre ==
  ASSUME NEW kind \in Writers, NEW S \in SUBSET Addresses
  PROVE  \E r \in NoteJobRecords : r = begun(kind, S) /\ r.step = "reading"
<1>1. begun(kind, S) \in ReadingJobs BY DEF begun, ReadingJobs
<1>2. begun(kind, S).step = "reading" BY DEF begun
<1>3. begun(kind, S) \in NoteJobRecords BY <1>1 DEF NoteJobRecords
<1> QED BY <1>2, <1>3

LEMMA SeenAreAddresses ==
  ASSUME NotesAreTyped, NEW j \in Jobs, listAccounts(j), noteJobs[j].listed \subseteq Addresses
  PROVE  accountsSeen' \subseteq Addresses
BY DEF NotesAreTyped, listAccounts

-----------------------------------------------------------------------------

LEMMA KeyringsChangeKeepsKnown ==
  ASSUME TriggersInv, NEW j \in Jobs, NEW S \in SUBSET Addresses, keyringsChange(S, j)
  PROVE  TriggersInv'
BY OthersAre, JobGoesOnApart, JobsUnchanged DEF keyringsChange, TriggersInv, NotesAreTyped, triggerVars,
   noteVars, OtherJobs

LEMMA ListingKeepsKnown ==
  ASSUME TriggersInv, NEW j \in Jobs, accountsListed(j)
  PROVE  TriggersInv'
<1>1. /\ UNCHANGED <<userStorage, serverTriggers>> /\ noteJobs[j].kind = "list" /\ listAccounts(j)
      /\ UNCHANGED <<lastTrigger, servicesEnabled, keyringAddresses, readAtServer>>
  BY DEF accountsListed, triggerVars, noteVars
<1>2. noteJobs[j].listed \in SUBSET Addresses BY <1>1, JobsAre DEF TriggersInv
<1>3. NotesAreTyped' BY <1>1, <1>2, SeenAreAddresses DEF TriggersInv, NotesAreTyped
<1> DEFINE new == noteJobs[j].listed \ accountsSeen
           gone == IF noteJobs[j].listed = {} THEN {} ELSE accountsSeen \ noteJobs[j].listed
<1>4. new \in SUBSET Addresses /\ gone \in SUBSET Addresses BY <1>2 DEF TriggersInv, NotesAreTyped
<1>5. \/ noteJobs' = [noteJobs EXCEPT ![j] = begun("update", new)] /\ overlaps(j)
      \/ noteJobs' = [noteJobs EXCEPT ![j] = begun("delete", gone)] /\ overlaps(j)
      \/ noteJobs' = [noteJobs EXCEPT ![j] = Idle] /\ UNCHANGED overlapped
      \/ /\ overlapped' = TRUE
         /\ \E k \in Jobs \ {j} :
              noteJobs' = [noteJobs EXCEPT ![j] = begun("update", new), ![k] = begun("delete", gone)]
  BY DEF accountsListed, jobEnds
<1> HIDE DEF new, gone
<1>6. ASSUME NEW kind \in Writers, NEW S \in SUBSET Addresses,
             noteJobs' = [noteJobs EXCEPT ![j] = begun(kind, S)], overlaps(j)
      PROVE  TriggersInv' BY ReadersAre, <1>6, <1>1, <1>3, WriterBegins
<1>7. CASE noteJobs' = [noteJobs EXCEPT ![j] = Idle] /\ UNCHANGED overlapped
  BY <1>1, <1>3, <1>7, OthersAre, JobGoesOnApart
<1>8. CASE /\ overlapped' = TRUE
           /\ \E k \in Jobs \ {j} :
                noteJobs' = [noteJobs EXCEPT ![j] = begun("update", new), ![k] = begun("delete", gone)]
  <2>1. begun("update", new) \in NoteJobRecords /\ begun("delete", gone) \in NoteJobRecords
    BY <1>4 DEF begun, NoteJobRecords, ReadingJobs, Writers
  <2>2. noteJobs' \in [Jobs -> NoteJobRecords] BY <1>8, <2>1 DEF TriggersInv
  <2> QED BY <1>3, <1>8, <2>2 DEF TriggersInv
<1>9. "update" \in Writers /\ "delete" \in Writers BY DEF Writers
<1>10. PICK A \in SUBSET Addresses, B \in SUBSET Addresses : A = new /\ B = gone BY <1>4
<1> QED BY <1>5, <1>6, <1>7, <1>8, <1>9, <1>10

LEMMA BeginningsKeepKnown ==
  ASSUME TriggersInv, NEW j \in Jobs,
         \/ \E S \in SUBSET Addresses, kind \in {"update", "delete"} : triggersByAccount(kind, S, j)
         \/ createOnChainTriggers(j) \/ signedIn(j) \/ accountsOfCreate(j)
  PROVE  TriggersInv'
<1>1. ASSUME NEW S \in SUBSET Addresses, NEW kind \in {"update", "delete"}, triggersByAccount(kind, S, j)
      PROVE  TriggersInv'
  BY ReadersAre, <1>1, WriterBegins DEF Writers, triggersByAccount, TriggersInv, NotesAreTyped, triggerVars,
     noteVars, accountVars
<1>2. CASE createOnChainTriggers(j)
  <2>1. PICK r \in NoteJobRecords : r = [kind |-> "create", step |-> "signing in"] /\ r.step = "signing in"
    <3>1. [kind |-> "create", step |-> "signing in"] \in NoteJobRecords BY DEF NoteJobRecords
    <3> QED BY <3>1
  <2>2. /\ noteJobs' = [noteJobs EXCEPT ![j] = r] /\ overlaps(j)
        /\ UNCHANGED <<userStorage, serverTriggers>> /\ NotesAreTyped'
    BY <1>2, <2>1 DEF createOnChainTriggers, TriggersInv, NotesAreTyped, triggerVars, noteVars, accountVars
  <2> QED BY <2>1, <2>2, WriterBegins
<1>3. ASSUME NEW r \in NoteJobRecords, r.step \in {"listing", "reading"}, noteJobs[j].kind = "create",
             noteJobs' = [noteJobs EXCEPT ![j] = r], NotesAreTyped',
             UNCHANGED <<userStorage, serverTriggers, overlapped>>
      PROVE  TriggersInv'
  BY <1>3, JobGoesOn DEF Writers, TriggersInv, AloneAreKnown, storedTriggers, WritesAreKnown
<1>4. CASE signedIn(j)
  <2>1. PICK r \in NoteJobRecords :
          /\ r = [kind |-> "create", step |-> "listing", listed |-> keyringAddresses]
          /\ r.step = "listing"
    <3>1. [kind |-> "create", step |-> "listing", listed |-> keyringAddresses] \in NoteJobRecords
      BY DEF NoteJobRecords, TriggersInv, NotesAreTyped
    <3> QED BY <3>1
  <2>2. /\ noteJobs' = [noteJobs EXCEPT ![j] = r] /\ noteJobs[j].kind = "create"
        /\ UNCHANGED <<userStorage, serverTriggers, overlapped>> /\ NotesAreTyped'
    BY <1>4, <2>1 DEF signedIn, jobIsAt, TriggersInv, NotesAreTyped, triggerVars, noteVars, accountVars
  <2> QED BY <1>3, <2>1, <2>2
<1>5. CASE accountsOfCreate(j)
  BY <1>5, JobsAre, ReadersAre, SeenAreAddresses, <1>3 DEF accountsOfCreate, jobIsAt, TriggersInv, Writers,
     NotesAreTyped, triggerVars, noteVars
<1> QED BY <1>1, <1>2, <1>4, <1>5

-----------------------------------------------------------------------------

\* What is found in the storage stays, and triggers are made for who has none.
LEMMA UpsertKeeps ==
  ASSUME NEW found \in TriggerLists, NEW S \in SUBSET Addresses, NEW ids \in [S -> Nat]
  PROVE  /\ upsert(found, S, ids) \in TriggerLists
         /\ getAllUUIDs(found) \subseteq getAllUUIDs(upsert(found, S, ids))
         /\ S = {} => upsert(found, S, ids) = found
<1> DEFINE t == upsert(found, S, ids)
<1>1. \A a \in S : [id |-> ids[a], enabled |-> FALSE] \in TriggerRecords BY DEF TriggerRecords
<1>2. t \in TriggerLists BY <1>1 DEF upsert, TriggerLists
<1>3. \A a \in Addresses : found[a] # NoTrigger => t[a] = found[a] BY DEF upsert
<1>4. S = {} => t = found BY DEF upsert, TriggerLists
<1> HIDE DEF t
<1>5. getAllUUIDs(found) \subseteq getAllUUIDs(t) BY <1>3, TriggersOf
<1> QED BY <1>2, <1>4, <1>5 DEF t

LEMMA ReadingKeepsKnown ==
  ASSUME TriggersInv, NEW j \in Jobs, storageReadForTriggers(j)
  PROVE  TriggersInv'
<1>1. /\ noteJobs[j].kind \in {"update", "create"} /\ noteJobs[j].step = "reading"
      /\ UNCHANGED <<userStorage, serverTriggers, overlapped, servicesEnabled, keyringAddresses,
                     accountsSeen, readAtServer>>
  BY DEF storageReadForTriggers, jobIsAt, accountVars, noteVars
<1>2. noteJobs[j] \in ReadingJobs BY <1>1, JobsAre DEF TriggersInv, Writers
<1> DEFINE k0 == noteJobs[j].kind
           there == IF userStorage = NoStorage THEN [a \in Addresses |-> NoTrigger] ELSE userStorage
           lacking == IF k0 = "create" /\ userStorage # NoStorage THEN {}
                      ELSE {a \in noteJobs[j].accounts : there[a] = NoTrigger}
<1>3. /\ lastTrigger' = lastTrigger + Cardinality(lacking)
      /\ \E ids \in [lacking -> (lastTrigger + 1)..(lastTrigger + Cardinality(lacking))] :
           noteJobs' = [noteJobs EXCEPT ![j] =
             [kind |-> k0, step |-> nextOfRead(k0, upsert(there, lacking, ids)),
              accounts |-> noteJobs[j].accounts, triggers |-> upsert(there, lacking, ids)]]
  BY DEF storageReadForTriggers
<1>4. noteJobs[j].accounts \in SUBSET Addresses BY <1>2 DEF ReadingJobs
<1>5. PICK found \in TriggerLists : found = there /\ (userStorage # NoStorage => found = userStorage)
  <2>1. [a \in Addresses |-> NoTrigger] \in TriggerLists BY DEF TriggerLists
  <2> QED BY <2>1 DEF TriggersInv, NotesAreTyped
<1>6. PICK missing \in SUBSET Addresses :
        missing = lacking /\ (k0 = "create" /\ userStorage # NoStorage => missing = {}) BY <1>4
<1> HIDE DEF there, lacking
<1>7. Cardinality(missing) \in Nat /\ lastTrigger \in Nat
  BY NotificationsAssumption, FS_Subset, FS_CardinalityType DEF NotificationsAssumption, TriggersInv,
     NotesAreTyped
<1>8. PICK kind \in {"update", "create"}, accounts \in SUBSET Addresses :
        kind = k0 /\ accounts = noteJobs[j].accounts BY <1>1, <1>4
<1> HIDE DEF k0
<1>9. /\ lastTrigger' \in Nat
      /\ \E ids \in [missing -> Nat] :
           noteJobs' = [noteJobs EXCEPT ![j] =
             [kind |-> kind, step |-> nextOfRead(kind, upsert(found, missing, ids)),
              accounts |-> accounts, triggers |-> upsert(found, missing, ids)]]
  <2>1. PICK ids \in [missing -> (lastTrigger + 1)..(lastTrigger + Cardinality(missing))] :
          noteJobs' = [noteJobs EXCEPT ![j] =
            [kind |-> kind, step |-> nextOfRead(kind, upsert(found, missing, ids)),
             accounts |-> accounts, triggers |-> upsert(found, missing, ids)]]
    BY <1>3, <1>5, <1>6, <1>8
  <2>2. (lastTrigger + 1)..(lastTrigger + Cardinality(missing)) \subseteq Nat BY <1>7
  <2>3. ids \in [missing -> Nat] BY <2>1, <2>2
  <2>4. lastTrigger' \in Nat BY <1>3, <1>6, <1>7
  <2> QED BY <2>1, <2>3, <2>4
<1>10. PICK ids \in [missing -> Nat] :
        noteJobs' = [noteJobs EXCEPT ![j] =
          [kind |-> kind, step |-> nextOfRead(kind, upsert(found, missing, ids)),
           accounts |-> accounts, triggers |-> upsert(found, missing, ids)]] BY <1>9
<1>11. PICK triggers \in TriggerLists :
         /\ triggers = upsert(found, missing, ids)
         /\ getAllUUIDs(found) \subseteq getAllUUIDs(triggers)
         /\ missing = {} => triggers = found BY UpsertKeeps
<1>12. PICK step \in {"writing ahead", "asking", "pushing"} :
         /\ step = nextOfRead(kind, triggers)
         /\ step = "asking" => kind = "create" /\ userStorage # NoStorage BY DEF nextOfRead
<1>13. PICK r \in NoteJobRecords :
         /\ r = [kind |-> kind, step |-> step, accounts |-> accounts, triggers |-> triggers]
         /\ r.kind = kind /\ r.step = step /\ r.triggers = triggers
  <2>1. [kind |-> kind, step |-> step, accounts |-> accounts, triggers |-> triggers] \in WritingJobs
    BY DEF WritingJobs, Writers
  <2>2. [kind |-> kind, step |-> step, accounts |-> accounts, triggers |-> triggers] \in NoteJobRecords
    BY <2>1 DEF NoteJobRecords
  <2> QED BY <2>2
<1>14. noteJobs' = [noteJobs EXCEPT ![j] = r] BY <1>10, <1>11, <1>12, <1>13
<1>15. storedTriggers \subseteq getAllUUIDs(triggers) BY <1>5, <1>11 DEF storedTriggers
<1>16. ~overlapped => serverTriggers \subseteq storedTriggers BY DEF TriggersInv, AloneAreKnown
<1>17. /\ storedTriggers' = storedTriggers /\ serverTriggers' = serverTriggers
       /\ userStorage' = userStorage /\ overlapped' = overlapped BY <1>1 DEF storedTriggers
<1>18. ~overlapped' => WritesAreKnown(r)'
  BY <1>5, <1>6, <1>8, <1>11, <1>12, <1>13, <1>15, <1>16, <1>17 DEF WritesAreKnown
<1>19. NotesAreTyped' BY <1>1, <1>9 DEF TriggersInv, NotesAreTyped
<1>20. noteJobs[j].kind \in Writers BY <1>1 DEF Writers
<1> QED BY <1>14, <1>16, <1>17, <1>18, <1>19, <1>20, JobGoesOn

LEMMA DeletingKeepsKnown ==
  ASSUME TriggersInv, NEW j \in Jobs, storageReadForDelete(j)
  PROVE  TriggersInv'
<1>1. /\ noteJobs[j].kind = "delete" /\ noteJobs[j].step = "reading" /\ userStorage # NoStorage
      /\ UNCHANGED <<userStorage, serverTriggers, overlapped>>
  BY DEF storageReadForDelete, jobIsAt, triggerVars
<1>2. NotesAreTyped'
  BY DEF storageReadForDelete, TriggersInv, NotesAreTyped, accountVars, noteVars, triggerVars
<1>3. noteJobs[j].accounts \in SUBSET Addresses
  <2>1. noteJobs[j] \in NoteJobRecords /\ noteJobs[j].kind \in Writers
    BY <1>1 DEF TriggersInv, Writers
  <2>2. noteJobs[j] \in ReadingJobs BY <1>1, <2>1, JobsAre
  <2> QED BY <2>2 DEF ReadingJobs
<1>4. CASE jobEnds(j) BY <1>1, <1>2, <1>4, OthersAre, JobGoesOnApart DEF jobEnds
<1>5. CASE ~jobEnds(j)
  <2>1. PICK r \in NoteJobRecords :
          /\ r = [kind |-> "delete", accounts |-> noteJobs[j].accounts, triggers |-> userStorage,
                  step |-> "asking"]
          /\ r.step = "asking" /\ r.triggers = userStorage
    <3>1. [kind |-> "delete", accounts |-> noteJobs[j].accounts, triggers |-> userStorage,
           step |-> "asking"] \in WritingJobs
      BY <1>1, <1>3 DEF WritingJobs, Writers, TriggersInv, NotesAreTyped
    <3>2. [kind |-> "delete", accounts |-> noteJobs[j].accounts, triggers |-> userStorage,
           step |-> "asking"] \in NoteJobRecords BY <3>1 DEF NoteJobRecords
    <3> QED BY <3>2
  <2>2. noteJobs' = [noteJobs EXCEPT ![j] = r] BY <1>5, <2>1 DEF storageReadForDelete
  <2>3. WritesAreKnown(r)' BY <1>1, <2>1 DEF WritesAreKnown
  <2>4. ~overlapped' => (serverTriggers \subseteq storedTriggers)'
    BY <1>1 DEF TriggersInv, AloneAreKnown, storedTriggers
  <2>5. noteJobs[j].kind \in Writers BY <1>1 DEF Writers
  <2> QED BY <1>1, <1>2, <2>2, <2>3, <2>4, <2>5, JobGoesOn
<1> QED BY <1>4, <1>5

\* A writer of a stage, and what its record holds.
LEMMA WriterStages ==
  ASSUME TriggersInv, NEW j \in Jobs, noteJobs[j].kind \in Writers,
         noteJobs[j].step \in {"writing ahead", "asking", "pushing", "writing"}
  PROVE  /\ \E c \in WritingJobs : c = noteJobs[j]
         /\ ~overlapped => WritesAreKnown(noteJobs[j]) /\ serverTriggers \subseteq storedTriggers
BY JobsAre DEF TriggersInv, AloneAreKnown

\* What is written ahead has what was stored, and so what the server has.
LEMMA WrittenAheadKeepsKnown ==
  ASSUME TriggersInv, NEW j \in Jobs, writtenAhead(j)
  PROVE  TriggersInv'
<1>1. /\ noteJobs[j].kind \in Writers /\ noteJobs[j].step = "writing ahead"
      /\ userStorage' = noteJobs[j].triggers
      /\ noteJobs' = [noteJobs EXCEPT ![j] = [noteJobs[j] EXCEPT !.step = "asking"]]
      /\ UNCHANGED <<serverTriggers, overlapped, lastTrigger, servicesEnabled, keyringAddresses,
                     accountsSeen, readAtServer>>
  BY DEF writtenAhead, jobIsAt, jobGoesOn, Writers, accountVars, noteVars
<1>2. PICK c \in WritingJobs : c = noteJobs[j] BY <1>1, WriterStages
<1>3. c.triggers \in TriggerLists BY DEF WritingJobs
<1>4. PICK r \in NoteJobRecords :
        r = [c EXCEPT !.step = "asking"] /\ r.triggers = c.triggers /\ r.step = "asking"
  <2>1. [c EXCEPT !.step = "asking"] \in WritingJobs BY DEF WritingJobs
  <2>2. [c EXCEPT !.step = "asking"].triggers = c.triggers /\ [c EXCEPT !.step = "asking"].step = "asking"
    BY DEF WritingJobs
  <2>3. [c EXCEPT !.step = "asking"] \in NoteJobRecords BY <2>1 DEF NoteJobRecords
  <2> QED BY <2>2, <2>3
<1>5. noteJobs' = [noteJobs EXCEPT ![j] = r] /\ userStorage' = c.triggers BY <1>1, <1>2, <1>4
<1>6. ~overlapped => serverTriggers \subseteq getAllUUIDs(c.triggers)
  BY <1>1, <1>2, WriterStages DEF WritesAreKnown
<1>7. storedTriggers' = getAllUUIDs(c.triggers) BY <1>3, <1>5, OthersAre DEF storedTriggers
<1>8. WritesAreKnown(r)' BY <1>4, <1>5 DEF WritesAreKnown
<1>9. NotesAreTyped' BY <1>1, <1>3, <1>5 DEF TriggersInv, NotesAreTyped
<1>10. ~overlapped' => (serverTriggers \subseteq storedTriggers)' BY <1>1, <1>6, <1>7
<1> QED BY <1>1, <1>5, <1>8, <1>9, <1>10, JobGoesOn

LEMMA WrittenKeepsKnown ==
  ASSUME TriggersInv, NEW j \in Jobs, storageWritten(j)
  PROVE  TriggersInv'
<1>1. /\ noteJobs[j].kind \in Writers /\ noteJobs[j].step = "writing"
      /\ userStorage' = noteJobs[j].triggers
      /\ UNCHANGED <<serverTriggers, overlapped, lastTrigger, servicesEnabled, keyringAddresses,
                     accountsSeen, readAtServer>>
  BY DEF storageWritten, jobIsAt, accountVars, noteVars
<1>2. PICK c \in WritingJobs : c = noteJobs[j] BY <1>1, WriterStages
<1>3. c.triggers \in TriggerLists /\ userStorage' = c.triggers BY <1>1, <1>2 DEF WritingJobs
<1>4. PICK r \in NoteJobRecords :
        r = (IF c.kind = "create" THEN [kind |-> "enabling"] ELSE Idle) /\ r.kind \notin Writers
  BY OthersAre DEF OtherJobs
<1>5. noteJobs' = [noteJobs EXCEPT ![j] = r] BY <1>2, <1>4 DEF storageWritten
<1>6. ~overlapped => serverTriggers \subseteq getAllUUIDs(c.triggers)
  BY <1>1, <1>2, WriterStages DEF WritesAreKnown
<1>7. storedTriggers' = getAllUUIDs(c.triggers) BY <1>3, OthersAre DEF storedTriggers
<1>8. NotesAreTyped' BY <1>1, <1>3 DEF TriggersInv, NotesAreTyped
<1>9. ~overlapped' => (serverTriggers \subseteq storedTriggers)' BY <1>1, <1>6, <1>7
<1> QED BY <1>1, <1>4, <1>5, <1>8, <1>9, JobGoesOn

LEMMA PushUpdatedKeepsKnown ==
  ASSUME TriggersInv, NEW j \in Jobs, pushUpdated(j)
  PROVE  TriggersInv'
<1>1. /\ noteJobs[j].kind \in Writers /\ noteJobs[j].step = "pushing"
      /\ noteJobs' = [noteJobs EXCEPT ![j] = [noteJobs[j] EXCEPT !.step = "writing"]]
      /\ UNCHANGED <<userStorage, serverTriggers, overlapped>>
  BY DEF pushUpdated, jobIsAt, jobGoesOn, triggerVars
<1>2. PICK c \in WritingJobs : c = noteJobs[j] BY <1>1, WriterStages
<1>3. c.triggers \in TriggerLists BY DEF WritingJobs
<1>4. PICK r \in NoteJobRecords :
        r = [c EXCEPT !.step = "writing"] /\ r.triggers = c.triggers /\ r.step = "writing"
  <2>1. [c EXCEPT !.step = "writing"] \in WritingJobs BY DEF WritingJobs
  <2>2. [c EXCEPT !.step = "writing"].triggers = c.triggers /\ [c EXCEPT !.step = "writing"].step = "writing"
    BY DEF WritingJobs
  <2>3. [c EXCEPT !.step = "writing"] \in NoteJobRecords BY <2>1 DEF NoteJobRecords
  <2> QED BY <2>2, <2>3
<1>5. noteJobs' = [noteJobs EXCEPT ![j] = r] BY <1>1, <1>2, <1>4
<1>6. ~overlapped => serverTriggers \subseteq getAllUUIDs(c.triggers) /\ serverTriggers \subseteq storedTriggers
  BY <1>1, <1>2, WriterStages DEF WritesAreKnown
<1>7. ~overlapped' => WritesAreKnown(r)' /\ (serverTriggers \subseteq storedTriggers)'
  BY <1>1, <1>4, <1>6 DEF WritesAreKnown, storedTriggers
<1>8. NotesAreTyped'
  BY DEF pushUpdated, TriggersInv, NotesAreTyped, accountVars, noteVars, triggerVars
<1> QED BY <1>1, <1>5, <1>7, <1>8, JobGoesOn

\* The list that was read is the one that is stored, as the server is asked.
LEMMA AskedKeepsKnown ==
  ASSUME TriggersInv, NEW j \in Jobs, serverAsked(j)
  PROVE  TriggersInv'
<1>1. /\ noteJobs[j].kind \in Writers /\ noteJobs[j].step = "asking"
      /\ UNCHANGED <<userStorage, overlapped>> BY DEF serverAsked, jobIsAt
<1>2. PICK c \in WritingJobs : c = noteJobs[j] BY <1>1, WriterStages
<1>3. PICK t \in TriggerLists : t = c.triggers BY DEF WritingJobs
<1> DEFINE S == IF c.kind = "create" THEN {a \in Addresses : c.triggers[a] # NoTrigger} ELSE c.accounts
           ids == {c.triggers[a].id : a \in {a \in S : c.triggers[a] # NoTrigger}}
           after == [a \in Addresses |->
                       IF a \notin S \/ c.triggers[a] = NoTrigger THEN c.triggers[a]
                       ELSE IF c.kind = "delete" THEN NoTrigger
                       ELSE [c.triggers[a] EXCEPT !.enabled = TRUE]]
<1>4. /\ serverTriggers' = IF c.kind = "delete" THEN serverTriggers \ ids ELSE serverTriggers \cup ids
      /\ noteJobs' = [noteJobs EXCEPT ![j] = [c EXCEPT !.step = "pushing", !.triggers = after]]
  BY <1>2 DEF serverAsked
<1>5. S \subseteq Addresses BY DEF WritingJobs
<1>6. \A x : x \in ids <=> \E a \in S : t[a] # NoTrigger /\ x = t[a].id BY <1>3
<1>7. \A a \in Addresses :
        after[a] = IF a \notin S \/ t[a] = NoTrigger THEN t[a]
                   ELSE IF c.kind = "delete" THEN NoTrigger
                   ELSE [t[a] EXCEPT !.enabled = TRUE] BY <1>3
<1> HIDE DEF S, ids
<1>8. \A a \in Addresses : t[a] # NoTrigger =>
        /\ [t[a] EXCEPT !.enabled = TRUE] \in TriggerRecords
        /\ [t[a] EXCEPT !.enabled = TRUE].id = t[a].id BY DEF TriggerLists, TriggerRecords
<1>9. after \in TriggerLists BY <1>7, <1>8 DEF TriggerLists
<1>10. PICK u \in TriggerLists : u = after BY <1>9
<1> HIDE DEF after
<1>11. \A a \in Addresses : t[a] # NoTrigger /\ (a \notin S \/ c.kind # "delete") =>
         u[a] # NoTrigger /\ u[a].id = t[a].id
  <2> SUFFICES ASSUME NEW a \in Addresses, t[a] # NoTrigger, a \notin S \/ c.kind # "delete"
               PROVE  u[a] # NoTrigger /\ u[a].id = t[a].id OBVIOUS
  <2>1. CASE a \notin S BY <1>7, <1>10, <2>1
  <2>2. CASE a \in S BY <1>7, <1>10, <2>2, <1>8, OthersAre
  <2> QED BY <2>1, <2>2
<1>12. PICK r \in NoteJobRecords :
         /\ r = [c EXCEPT !.step = "pushing", !.triggers = u]
         /\ r.triggers = u /\ r.step = "pushing"
  <2>1. [c EXCEPT !.step = "pushing", !.triggers = u] \in WritingJobs BY DEF WritingJobs
  <2>2. /\ [c EXCEPT !.step = "pushing", !.triggers = u].triggers = u
        /\ [c EXCEPT !.step = "pushing", !.triggers = u].step = "pushing" BY DEF WritingJobs
  <2>3. [c EXCEPT !.step = "pushing", !.triggers = u] \in NoteJobRecords BY <2>1 DEF NoteJobRecords
  <2> QED BY <2>2, <2>3
<1>13. noteJobs' = [noteJobs EXCEPT ![j] = r] BY <1>4, <1>10, <1>12
<1>14. ~overlapped => storedTriggers = getAllUUIDs(t) /\ serverTriggers \subseteq getAllUUIDs(t)
  BY <1>1, <1>2, <1>3, WriterStages, OthersAre DEF WritesAreKnown, storedTriggers
<1>15. ~overlapped => serverTriggers' \subseteq getAllUUIDs(t) /\ serverTriggers' \subseteq getAllUUIDs(u)
  <2> SUFFICES ASSUME ~overlapped, NEW x \in serverTriggers'
               PROVE  x \in getAllUUIDs(t) /\ x \in getAllUUIDs(u) OBVIOUS
  <2>1. CASE c.kind = "delete" BY <1>4, <2>1, <1>14, TriggersOf, <1>6, <1>11
  <2>2. CASE c.kind # "delete" BY <1>4, <2>2, <1>5, <1>6, <1>14, TriggersOf, <1>11
  <2> QED BY <2>1, <2>2
<1>16. storedTriggers' = storedTriggers BY <1>1 DEF storedTriggers
<1>17. ~overlapped' => WritesAreKnown(r)' BY <1>1, <1>12, <1>15 DEF WritesAreKnown
<1>18. ~overlapped' => (serverTriggers \subseteq storedTriggers)' BY <1>1, <1>14, <1>15, <1>16
<1>19. NotesAreTyped' BY DEF serverAsked, TriggersInv, NotesAreTyped, accountVars, noteVars
<1> QED BY <1>1, <1>13, <1>17, <1>18, <1>19, JobGoesOn

-----------------------------------------------------------------------------
(* Calls that write no triggers                                            *)

LEMMA CallsEndApart ==
  ASSUME TriggersInv, NEW j \in Jobs,
         \/ noteCallFails(j) \/ servicesAreEnabled(j) \/ servicesAreDisabled(j)
         \/ notificationsListed(j) \/ markingEnds(j)
  PROVE  TriggersInv'
BY OthersAre, JobGoesOnApart DEF noteCallFails, servicesAreEnabled, servicesAreDisabled, notificationsListed,
   markingEnds, jobEnds, triggerVars, accountVars, noteVars, TriggersInv, NotesAreTyped

LEMMA OthersGoOnApart ==
  ASSUME TriggersInv, NEW j \in Jobs, NEW r \in OtherJobs, noteJobs' = [noteJobs EXCEPT ![j] = r],
         readAtServer' \subseteq Events,
         UNCHANGED <<userStorage, serverTriggers, overlapped, lastTrigger, keyringAddresses,
                     accountsSeen, servicesEnabled>>
  PROVE  TriggersInv'
BY OthersAre, JobGoesOnApart DEF TriggersInv, NotesAreTyped

LEMMA FetchingKeepsKnown ==
  ASSUME TriggersInv, NEW j \in Jobs,
         \/ fetchNotifications(j) \/ disableNotificationServices(j)
         \/ \E S \in SUBSET News : newsFetched(j, S)
         \/ \E S \in SUBSET Events : eventsFetched(j, S)
  PROVE  TriggersInv'
BY OthersGoOnApart, JobsAre DEF fetchNotifications, disableNotificationServices, newsFetched, eventsFetched,
   triggerVars, accountVars, noteVars, TriggersInv, NotesAreTyped, OtherJobs, Notes, jobIsAt

LEMMA MarkingKeepsKnown ==
  ASSUME TriggersInv, NEW j \in Jobs,
         \/ \E S \in SUBSET Notes : markMetamaskNotificationsAsRead(S, j)
         \/ markedAtServer(j)
  PROVE  TriggersInv'
<1>1. UNCHANGED <<userStorage, serverTriggers, overlapped, lastTrigger, keyringAddresses,
                  accountsSeen, servicesEnabled>>
  BY DEF markMetamaskNotificationsAsRead, markedAtServer, triggerVars, accountVars
<1>2. readAtServer \subseteq Events BY DEF TriggersInv, NotesAreTyped
<1>3. ASSUME NEW S \in SUBSET Notes, markMetamaskNotificationsAsRead(S, j)
      PROVE  TriggersInv'
  BY <1>3, <1>1, JobsUnchanged, <1>2, OthersGoOnApart DEF markMetamaskNotificationsAsRead, TriggersInv,
     NotesAreTyped, OtherJobs
<1>4. CASE markedAtServer(j)
  <2>1. /\ noteJobs[j].kind = "mark"
        /\ noteJobs' = [noteJobs EXCEPT ![j] = [noteJobs[j] EXCEPT !.step = "answered"]]
        /\ readAtServer' = readAtServer \cup (noteJobs[j].notes \cap Events)
    BY <1>4 DEF markedAtServer, jobIsAt, jobGoesOn
  <2>2. PICK c \in [kind : {"mark"}, step : {"asking", "answered"}, notes : SUBSET Notes] : c = noteJobs[j]
    BY <2>1, JobsAre DEF TriggersInv
  <2>3. PICK r \in OtherJobs : r = [c EXCEPT !.step = "answered"] BY DEF OtherJobs
  <2>4. noteJobs' = [noteJobs EXCEPT ![j] = r] /\ readAtServer' \subseteq Events
    BY <1>2, <2>1, <2>2, <2>3
  <2> QED BY <1>1, <2>4, OthersGoOnApart
<1> QED BY <1>3, <1>4

LEMMA NotesStepsKeepKnown ==
  ASSUME TriggersInv, TriggersNext \/ NotesNext
  PROVE  TriggersInv'
<1>1. CASE noteRestart
  BY <1>1, JobsAllIdle DEF noteRestart, TriggersInv, NotesAreTyped, triggerVars, noteVars
<1>2. ASSUME NEW n \in Events, updateMetamaskNotificationsList(n)
      PROVE  TriggersInv'
  BY <1>2, JobsUnchanged DEF updateMetamaskNotificationsList, TriggersInv, NotesAreTyped, triggerVars,
     accountVars
<1>3. ASSUME NEW j \in Jobs, triggerActions(j)
      PROVE  TriggersInv'
  BY <1>3, KeyringsChangeKeepsKnown, ListingKeepsKnown, BeginningsKeepKnown, ReadingKeepsKnown,
     DeletingKeepsKnown, WrittenAheadKeepsKnown, AskedKeepsKnown, PushUpdatedKeepsKnown, WrittenKeepsKnown,
     CallsEndApart DEF triggerActions
<1>4. ASSUME NEW j \in Jobs, noteActions(j)
      PROVE  TriggersInv'
  BY <1>4, FetchingKeepsKnown, MarkingKeepsKnown, CallsEndApart DEF noteActions
<1>5. ASSUME NEW j \in Jobs, otherActions(j)
      PROVE  TriggersInv' BY <1>5, FetchingKeepsKnown, CallsEndApart DEF otherActions
<1> QED BY <1>1, <1>2, <1>3, <1>4, <1>5 DEF TriggersNext, NotesNext

-----------------------------------------------------------------------------
(* Who was added, and what was read                                        *)

LEMMA AddedUnchanged == ASSUME AddedAreSeen, UNCHANGED <<accountsSeen, timesAdded>> PROVE AddedAreSeen'
BY DEF AddedAreSeen

LEMMA NotesStepsKeepSeen ==
  ASSUME AddedAreSeen, TriggersNext \/ NotesNext
  PROVE  AddedAreSeen'
<1>1. CASE noteRestart BY <1>1, AddedUnchanged DEF noteRestart
<1>2. ASSUME NEW n \in Events, updateMetamaskNotificationsList(n)
      PROVE  AddedAreSeen' BY <1>2, AddedUnchanged DEF updateMetamaskNotificationsList, accountVars
<1>3. ASSUME NEW j \in Jobs, accountsListed(j) \/ accountsOfCreate(j)
      PROVE  AddedAreSeen' BY <1>3, ListedAreSeen DEF accountsListed, accountsOfCreate
<1>4. ASSUME NEW j \in Jobs, triggerActions(j), ~accountsListed(j), ~accountsOfCreate(j)
      PROVE  AddedAreSeen'
  <2>1. UNCHANGED <<accountsSeen, timesAdded>>
    BY <1>4 DEF triggerActions, keyringsChange, triggersByAccount, createOnChainTriggers, signedIn,
       storageReadForTriggers, storageReadForDelete, writtenAhead, serverAsked, pushUpdated, storageWritten,
       servicesAreEnabled, accountVars
  <2> QED BY <2>1, AddedUnchanged
<1>5. ASSUME NEW j \in Jobs, noteActions(j) \/ otherActions(j)
      PROVE  AddedAreSeen'
  <2>1. UNCHANGED <<accountsSeen, timesAdded>>
    BY <1>5 DEF noteActions, otherActions, fetchNotifications, notificationsListed, newsFetched,
       eventsFetched, markMetamaskNotificationsAsRead, markedAtServer, markingEnds, noteCallFails,
       disableNotificationServices, servicesAreDisabled, accountVars
  <2> QED BY <2>1, AddedUnchanged
<1> QED BY <1>1, <1>2, <1>3, <1>4, <1>5 DEF TriggersNext, NotesNext

LEMMA ReadUnchanged == ASSUME ReadAreNews, UNCHANGED <<noteList, readList>> PROVE ReadAreNews'
BY DEF ReadAreNews, ReadStaysRead

\* What is marked is not unread any more, and what was read stays so.
LEMMA MarkedAreRead == ASSUME ReadAreNews, NEW S \in SUBSET Notes, marked(S) PROVE ReadAreNews'
BY DEF marked, ReadAreNews, Notes, ReadStaysRead

LEMMA NotesStepsKeepRead ==
  ASSUME TriggersInv, ReadAreNews, TriggersNext \/ NotesNext
  PROVE  ReadAreNews'
<1>1. CASE noteRestart BY <1>1, ReadUnchanged DEF noteRestart, noteVars
<1>2. ASSUME NEW n \in Events, updateMetamaskNotificationsList(n)
      PROVE  ReadAreNews'
  BY <1>2, NotificationsAssumption DEF updateMetamaskNotificationsList, NotificationsAssumption, ReadAreNews,
     ReadStaysRead, Notes
<1>3. ASSUME NEW j \in Jobs, triggerActions(j)
      PROVE  ReadAreNews'
  <2>1. UNCHANGED <<noteList, readList>>
    BY <1>3 DEF triggerActions, keyringsChange, triggersByAccount, accountsListed, createOnChainTriggers,
       signedIn, accountsOfCreate, storageReadForTriggers, storageReadForDelete, writtenAhead, serverAsked,
       pushUpdated, storageWritten, servicesAreEnabled, noteVars
  <2> QED BY <2>1, ReadUnchanged
<1>4. ASSUME NEW j \in Jobs,
             \/ fetchNotifications(j) \/ markedAtServer(j) \/ noteCallFails(j)
             \/ disableNotificationServices(j)
             \/ \E S \in SUBSET News : newsFetched(j, S)
             \/ \E S \in SUBSET Events : eventsFetched(j, S)
      PROVE  ReadAreNews'
  BY <1>4, ReadUnchanged DEF fetchNotifications, markedAtServer, noteCallFails, disableNotificationServices,
     newsFetched, eventsFetched, noteVars
<1>5. ASSUME NEW j \in Jobs, servicesAreDisabled(j)
      PROVE  ReadAreNews' BY <1>5 DEF servicesAreDisabled, ReadAreNews, ReadStaysRead, Notes
<1>6. ASSUME NEW j \in Jobs, notificationsListed(j)
      PROVE  ReadAreNews' BY <1>6 DEF notificationsListed, ReadAreNews, Notes, ReadStaysRead
<1>7. ASSUME NEW j \in Jobs, NEW S \in SUBSET Notes, markMetamaskNotificationsAsRead(S, j)
      PROVE  ReadAreNews' BY <1>7, MarkedAreRead, ReadUnchanged DEF markMetamaskNotificationsAsRead
<1>8. ASSUME NEW j \in Jobs, markingEnds(j)
      PROVE  ReadAreNews'
  <2>1. noteJobs[j].kind = "mark" /\ noteJobs[j] \in NoteJobRecords
    BY <1>8 DEF markingEnds, TriggersInv
  <2>2. noteJobs[j].notes \in SUBSET Notes BY <2>1, JobsAre
  <2>3. PICK S \in SUBSET Notes, N \in SUBSET Notes : S = noteJobs[j].notes /\ N = S \cap News
    BY <2>2
  <2>4. marked({}) \/ marked(N) \/ marked(S) BY <1>8, <2>3 DEF markingEnds
  <2>5. {} \in SUBSET Notes OBVIOUS
  <2> QED BY <2>4, <2>5, MarkedAreRead
<1> QED
  BY <1>1, <1>2, <1>3, <1>4, <1>5, <1>6, <1>7, <1>8 DEF TriggersNext, NotesNext, noteActions, otherActions

LEMMA NotesInitially == NotificationsInit => NotesInv
<1> SUFFICES ASSUME NotificationsInit PROVE NotesInv OBVIOUS
<1>1. /\ servicesEnabled \in BOOLEAN
      /\ keyringAddresses = IF servicesEnabled THEN {CHOOSE a \in Addresses : TRUE} ELSE {}
      /\ accountsSeen = keyringAddresses
      /\ timesAdded = [a \in Addresses |-> 0]
      /\ userStorage = IF ~servicesEnabled THEN NoStorage
                       ELSE [a \in Addresses |-> IF a \in accountsSeen THEN [id |-> 1, enabled |-> TRUE]
                                                 ELSE NoTrigger]
      /\ serverTriggers = IF servicesEnabled THEN {1} ELSE {}
      /\ lastTrigger = 1 /\ noteList = [n \in Notes |-> "absent"]
      /\ readList = {} /\ readAtServer = {}
      /\ noteJobs = [j \in Jobs |-> Idle] /\ overlapped = FALSE BY DEF NotificationsInit
<1>2. keyringAddresses \subseteq Addresses
  BY <1>1, NotificationsAssumption DEF NotificationsAssumption
<1>3. [id |-> 1, enabled |-> TRUE] \in TriggerRecords BY DEF TriggerRecords
<1>4. userStorage \in TriggerLists \cup {NoStorage} BY <1>1, <1>3 DEF TriggerLists
<1>5. serverTriggers \subseteq storedTriggers
  <2>1. CASE ~servicesEnabled BY <1>1, <2>1
  <2>2. CASE servicesEnabled
    <3>1. PICK a \in Addresses : keyringAddresses = {a}
      BY <1>1, <2>2, NotificationsAssumption DEF NotificationsAssumption
    <3>2. userStorage[a] = [id |-> 1, enabled |-> TRUE] BY <1>1, <2>2, <3>1
    <3>3. userStorage[a] # NoTrigger /\ userStorage[a].id = 1
      <4>1. NoTrigger \notin TriggerRecords BY OthersAre
      <4>2. userStorage[a] # NoTrigger BY <1>3, <3>2, <4>1
      <4>3. userStorage[a].id = 1 BY <3>2
      <4> QED BY <4>2, <4>3
    <3>4. 1 \in getAllUUIDs(userStorage) BY <3>3 DEF getAllUUIDs
    <3>5. userStorage # NoStorage BY <1>3, <1>1, <2>2, OthersAre DEF TriggerLists
    <3> QED BY <1>1, <2>2, <3>4, <3>5 DEF storedTriggers
  <2> QED BY <2>1, <2>2
<1>6. \A j \in Jobs : noteJobs[j] = Idle BY <1>1
<1>7. TriggersInv
  BY <1>1, <1>2, <1>4, <1>5, <1>6, OthersAre DEF TriggersInv, NotesAreTyped, AloneAreKnown
<1>8. AddedAreSeen /\ ReadAreNews BY <1>1 DEF AddedAreSeen, ReadAreNews, ReadStaysRead
<1> QED BY <1>7, <1>8 DEF NotesInv

LEMMA NotesStep == ASSUME NotesInv, TriggersNext \/ NotesNext PROVE NotesInv'
BY NotesStepsKeepKnown, NotesStepsKeepSeen, NotesStepsKeepRead DEF NotesInv

LEMMA NotesIdle == NotesInv /\ UNCHANGED notificationVars => NotesInv'
<1> SUFFICES ASSUME NotesInv, UNCHANGED notificationVars PROVE NotesInv' OBVIOUS
<1>1. UNCHANGED <<keyringAddresses, accountsSeen, timesAdded, userStorage, serverTriggers,
                  lastTrigger, servicesEnabled, noteList, readList, readAtServer, noteJobs,
                  overlapped>> BY DEF notificationVars, accountVars, triggerVars, noteVars
<1>2. NotesAreTyped' BY <1>1 DEF NotesInv, TriggersInv, NotesAreTyped
<1> QED BY <1>1, <1>2, JobsUnchanged, AddedUnchanged, ReadUnchanged DEF NotesInv

LEMMA NotesKept == NotesInv => ReadStaysRead /\ AccountsAreAddedOnce /\ TriggersAreKnown
BY DEF NotesInv, TriggersInv, AloneAreKnown, storedTriggers, AddedAreSeen, ReadAreNews, AccountsAreAddedOnce,
   TriggersAreKnown

-----------------------------------------------------------------------------
(* Events                                                                  *)

EventFrames ==
  [payload : Nat, next : Seq(Handlers), calling : Handlers \cup {NoHandler}, current : BOOLEAN]

AreDistinct(s) == \A i, j \in DOMAIN s : s[i] = s[j] => i = j

\* Handlers that an older publication still waits for are overtaken.
OldersAreOvertaken ==
  \A i \in DOMAIN frames : frames[i].payload # internalState =>
    \A k \in DOMAIN frames[i].next : frames[i].next[k] \in overtaken

\* Who is not overtaken has the newest state, or is waited for by its publication.
NewestComes ==
  \A h \in ToSet(subscribers) \ overtaken :
    \/ copy[h] = selected(h, internalState)
    \/ \E i \in DOMAIN frames :
         frames[i].payload = internalState /\ \E k \in DOMAIN frames[i].next : frames[i].next[k] = h

MessengerInv ==
  /\ internalState \in Nat
  /\ frames \in Seq(EventFrames)
  /\ \A i \in DOMAIN frames : frames[i].payload <= internalState
  /\ subscribers \in Seq(Handlers) /\ AreDistinct(subscribers)
  /\ copy = [h \in Handlers |-> copy[h]]
  /\ eventPayloadCache = [h \in Handlers |-> eventPayloadCache[h]]
  /\ \A h \in Selecting : copy[h] = eventPayloadCache[h]
  /\ OldersAreOvertaken /\ NewestComes

-----------------------------------------------------------------------------

LEMMA LastIsLeft ==
  ASSUME NEW S, NEW q \in Seq(S), q # <<>>
  PROVE  /\ Len(q) \in DOMAIN q /\ Head(q) \in S /\ Head(q) = q[1]
         /\ Tail(q) \in Seq(S)
         /\ \A i \in DOMAIN Tail(q) : i + 1 \in DOMAIN q /\ Tail(q)[i] = q[i + 1]
         /\ \A i \in DOMAIN q : i = 1 \/ (i - 1 \in DOMAIN Tail(q) /\ Tail(q)[i - 1] = q[i])
OBVIOUS

LEMMA FrontIs ==
  ASSUME NEW S, NEW q \in Seq(S), q # <<>>
  PROVE  /\ Front(q) \in Seq(S)
         /\ \A i \in DOMAIN Front(q) : i \in DOMAIN q /\ Front(q)[i] = q[i]
         /\ \A i \in DOMAIN q : i # Len(q) => i \in DOMAIN Front(q)
BY DEF Front

LEMMA AppendedIs ==
  ASSUME NEW S, NEW q \in Seq(S), NEW x \in S
  PROVE  /\ Append(q, x) \in Seq(S)
         /\ \A i \in DOMAIN q : i \in DOMAIN Append(q, x) /\ Append(q, x)[i] = q[i]
         /\ \A i \in DOMAIN Append(q, x) : i \in DOMAIN q \/ Append(q, x)[i] = x
         /\ \A i \in DOMAIN Append(q, x) : i \notin DOMAIN q => i = Len(q) + 1
         /\ Len(q) + 1 \in DOMAIN Append(q, x) /\ Append(q, x)[Len(q) + 1] = x
OBVIOUS

LEMMA MappedAre ==
  ASSUME NEW S, NEW q \in Seq(S), NEW f, f = [i \in DOMAIN q |-> f[i]],
         \A i \in DOMAIN q : f[i] \in S
  PROVE  f \in Seq(S) /\ DOMAIN f = DOMAIN q
OBVIOUS

\* Whoever else was in a list is left in it.
LEMMA WithoutIs ==
  ASSUME NEW S, NEW q \in Seq(S), NEW h \in S
  PROVE  /\ without(q, h) \in Seq(S)
         /\ \A i \in DOMAIN without(q, h) : \E k \in DOMAIN q : without(q, h)[i] = q[k]
         /\ \A k \in DOMAIN q : q[k] # h => \E i \in DOMAIN without(q, h) : without(q, h)[i] = q[k]
         /\ AreDistinct(q) => AreDistinct(without(q, h))
         /\ AreDistinct(q) => \A i \in DOMAIN without(q, h) : without(q, h)[i] # h
<1>1. CASE h \notin ToSet(q)
  <2>1. without(q, h) = q /\ \A i \in DOMAIN q : q[i] # h
    BY <1>1 DEF without, ToSet
  <2> QED BY <2>1
<1>2. CASE h \in ToSet(q)
  <2>1. PICK p \in DOMAIN q : q[p] = h /\ without(q, h) = RemoveAt(q, p)
    <3>1. \E i \in DOMAIN q : q[i] = h
      BY <1>2 DEF ToSet
    <3> QED BY <1>2, <3>1 DEF without
  <2>2. p \in 1..Len(q) /\ Len(q) \in Nat /\ DOMAIN q = 1..Len(q)
    OBVIOUS
  <2>3. PICK w : w = RemoveAt(q, p)
    OBVIOUS
  <2>4. /\ w \in Seq(S) /\ DOMAIN w = 1..(Len(q) - 1)
        /\ \A i \in 1..(Len(q) - 1) : w[i] = IF i < p THEN q[i] ELSE q[i + 1]
    <3>1. PICK a \in Seq(S) : a = SubSeq(q, 1, p - 1) /\ Len(a) = p - 1 /\ \A i \in 1..(p - 1) : a[i] = q[i]
      <4>1. SubSeq(q, 1, p - 1) \in Seq(S)
        BY <2>2
      <4>2. Len(SubSeq(q, 1, p - 1)) = p - 1
        BY <2>2
      <4>3. \A i \in 1..(p - 1) : SubSeq(q, 1, p - 1)[i] = q[i]
        BY <2>2
      <4> QED BY <4>1, <4>2, <4>3
    <3>2. PICK b \in Seq(S) : /\ b = SubSeq(q, p + 1, Len(q)) /\ Len(b) = Len(q) - p
                             /\ \A i \in 1..(Len(q) - p) : b[i] = q[p + i]
      <4>1. SubSeq(q, p + 1, Len(q)) \in Seq(S)
        BY <2>2
      <4>2. Len(SubSeq(q, p + 1, Len(q))) = Len(q) - p
        BY <2>2
      <4>3. \A i \in 1..(Len(q) - p) : SubSeq(q, p + 1, Len(q))[i] = q[p + i]
        BY <2>2
      <4> QED BY <4>1, <4>2, <4>3
    <3>3. w = a \o b
      BY <2>3, <3>1, <3>2 DEF RemoveAt
    <3>4. /\ w \in Seq(S) /\ Len(w) = Len(a) + Len(b) /\ DOMAIN w = 1..Len(w)
          /\ \A i \in 1..Len(w) : w[i] = IF i <= Len(a) THEN a[i] ELSE b[i - Len(a)]
      BY <3>3
    <3>5. Len(w) = Len(q) - 1
      BY <2>2, <3>1, <3>2, <3>4
    <3>6. ASSUME NEW i \in 1..(Len(q) - 1) PROVE w[i] = IF i < p THEN q[i] ELSE q[i + 1]
      <4>1. CASE i < p
        <5>1. i \in 1..Len(w) /\ i <= Len(a) /\ i \in 1..(p - 1)
          BY <2>2, <3>1, <3>5, <4>1
        <5>2. w[i] = a[i] /\ a[i] = q[i]
          BY <3>1, <3>4, <5>1
        <5> QED BY <4>1, <5>2
      <4>2. CASE i >= p
        <5>1. i - (p - 1) \in 1..(Len(q) - p) /\ p + (i - (p - 1)) = i + 1
          BY <2>2, <4>2
        <5>2. w[i] = b[i - (p - 1)]
          <6>1. i \in 1..Len(w) /\ ~(i <= Len(a)) /\ Len(a) = p - 1
            BY <2>2, <3>1, <3>5, <4>2
          <6> QED BY <3>4, <6>1
        <5>3. b[i - (p - 1)] = q[p + (i - (p - 1))]
          BY <3>2, <5>1
        <5> QED BY <2>2, <4>2, <5>1, <5>2, <5>3
      <4> QED BY <2>2, <4>1, <4>2
    <3> QED BY <3>4, <3>5, <3>6
  <2>5. \A i \in DOMAIN w : \E k \in DOMAIN q : w[i] = q[k] /\ k = (IF i < p THEN i ELSE i + 1) /\ k # p
    BY <2>2, <2>4
  <2>6. ASSUME NEW k \in DOMAIN q, q[k] # h PROVE \E i \in DOMAIN w : w[i] = q[k]
    <3>1. CASE k < p
      <4>1. k \in DOMAIN w /\ w[k] = q[k]
        BY <2>2, <2>4, <3>1
      <4> QED BY <4>1
    <3>2. CASE k > p
      <4>1. k - 1 \in DOMAIN w /\ w[k - 1] = q[k]
        BY <2>2, <2>4, <3>2
      <4> QED BY <4>1
    <3> QED BY <2>1, <2>2, <2>6, <3>1, <3>2
  <2>7. ASSUME AreDistinct(q) PROVE AreDistinct(w) /\ \A i \in DOMAIN w : w[i] # h
    <3>1. \A i \in DOMAIN w : w[i] # h
      BY <2>1, <2>5, <2>7 DEF AreDistinct
    <3>2. ASSUME NEW i \in DOMAIN w, NEW j \in DOMAIN w, w[i] = w[j] PROVE i = j
      <4>1. PICK k \in DOMAIN q : w[i] = q[k] /\ k = (IF i < p THEN i ELSE i + 1)
        BY <2>5
      <4>2. PICK l \in DOMAIN q : w[j] = q[l] /\ l = (IF j < p THEN j ELSE j + 1)
        BY <2>5
      <4>3. k = l
        BY <2>7, <3>2, <4>1, <4>2 DEF AreDistinct
      <4>4. i \in Nat /\ j \in Nat /\ p \in Nat
        BY <2>2, <2>4
      <4> QED BY <4>1, <4>2, <4>3, <4>4
    <3> QED BY <3>1, <3>2 DEF AreDistinct
  <2> QED BY <2>1, <2>3, <2>4, <2>5, <2>6, <2>7
<1> QED BY <1>1, <1>2

LEMMA TopIsFrame ==
  ASSUME MessengerInv, frames # <<>>
  PROVE  /\ Len(frames) \in DOMAIN frames /\ top \in EventFrames /\ top = frames[Len(frames)]
         /\ top.payload \in Nat /\ top.next \in Seq(Handlers)
<1>1. frames \in Seq(EventFrames) BY DEF MessengerInv
<1>2. Len(frames) \in DOMAIN frames /\ frames[Len(frames)] \in EventFrames BY <1>1
<1>3. top = frames[Len(frames)] BY DEF top
<1>4. \A f \in EventFrames : f.payload \in Nat /\ f.next \in Seq(Handlers) BY DEF EventFrames
<1> QED BY <1>2, <1>3, <1>4

\* The frame on top is replaced by one of the same publication.
LEMMA TopReplaced ==
  ASSUME MessengerInv, frames # <<>>, NEW f \in EventFrames, f.payload = top.payload,
         frames' = [frames EXCEPT ![Len(frames)] = f], UNCHANGED internalState
  PROVE  /\ frames' \in Seq(EventFrames) /\ DOMAIN frames' = DOMAIN frames
         /\ (frames[Len(frames)])' = f
         /\ \A i \in DOMAIN frames : i # Len(frames) => (frames[i])' = frames[i]
         /\ \A i \in DOMAIN frames : (frames[i].payload)' = frames[i].payload
         /\ \A i \in DOMAIN frames' : (frames[i].payload <= internalState)'
BY TopIsFrame DEF MessengerInv

LEMMA UpdateKeepsNewest == ASSUME MessengerInv, update PROVE MessengerInv'
<1> DEFINE f == [payload |-> internalState + 1, next |-> subscribers, calling |-> NoHandler,
                 current |-> TRUE]
<1>1. /\ internalState' = internalState + 1 /\ frames' = Append(frames, f)
      /\ overtaken' = UNION {ToSet(frames[i].next) : i \in DOMAIN frames}
      /\ UNCHANGED <<subscribers, eventPayloadCache, copy>> BY DEF update, subscriptionVars
<1>2. PICK new \in EventFrames : new = f /\ new.payload = internalState + 1 /\ new.next = subscribers
  <2>1. f \in EventFrames BY DEF EventFrames, MessengerInv
  <2> QED BY <2>1
<1> HIDE DEF f
<1>3. /\ frames' \in Seq(EventFrames)
      /\ \A i \in DOMAIN frames' : i \in DOMAIN frames \/ (frames[i])' = new
      /\ \A i \in DOMAIN frames : (frames[i])' = frames[i]
      /\ \E i \in DOMAIN frames' : (frames[i])' = new BY <1>1, <1>2, AppendedIs DEF MessengerInv
<1>4. internalState \in Nat /\ \A i \in DOMAIN frames : frames[i].payload <= internalState /\ frames[i].payload \in Nat
  <2>1. \A i \in DOMAIN frames : frames[i] \in EventFrames BY DEF MessengerInv
  <2>2. \A r \in EventFrames : r.payload \in Nat BY DEF EventFrames
  <2> QED BY <2>1, <2>2 DEF MessengerInv
<1>5. \A i \in DOMAIN frames' : (frames[i].payload <= internalState)' BY <1>1, <1>2, <1>3, <1>4
<1>6. OldersAreOvertaken'
  <2> SUFFICES ASSUME NEW i \in DOMAIN frames', (frames[i].payload # internalState)',
                      NEW k \in (DOMAIN frames[i].next)'
               PROVE  (frames[i].next[k] \in overtaken)' BY DEF OldersAreOvertaken
  <2>1. i \in DOMAIN frames /\ (frames[i])' = frames[i] BY <1>1, <1>2, <1>3
  <2> QED BY <1>1, <2>1 DEF ToSet
<1>7. NewestComes'
  <2> SUFFICES ASSUME NEW h \in ToSet(subscribers)' \ overtaken'
               PROVE  \E i \in DOMAIN frames' :
                        /\ (frames[i].payload = internalState)'
                        /\ \E k \in (DOMAIN frames[i].next)' : (frames[i].next[k] = h)'
    BY DEF NewestComes
  <2>1. PICK k \in DOMAIN subscribers : subscribers[k] = h BY <1>1 DEF ToSet
  <2> QED BY <1>1, <1>2, <1>3, <2>1
<1>8. internalState' \in Nat BY <1>1, <1>4
<1>9. /\ copy = [h \in Handlers |-> copy[h]]
      /\ eventPayloadCache = [h \in Handlers |-> eventPayloadCache[h]]
      /\ \A h \in Selecting : copy[h] = eventPayloadCache[h]
      /\ subscribers \in Seq(Handlers) /\ AreDistinct(subscribers) BY DEF MessengerInv
<1>10. /\ copy' = [h \in Handlers |-> (copy[h])']
       /\ eventPayloadCache' = [h \in Handlers |-> (eventPayloadCache[h])']
       /\ \A h \in Selecting : (copy[h])' = (eventPayloadCache[h])'
       /\ subscribers' \in Seq(Handlers) /\ AreDistinct(subscribers)' BY <1>1, <1>9
<1> QED BY <1>3, <1>5, <1>6, <1>7, <1>8, <1>10 DEF MessengerInv

LEMMA DeliverKeepsNewest == ASSUME MessengerInv, deliver PROVE MessengerInv'
<1>1. frames # <<>> /\ top.next # <<>> /\ UNCHANGED <<internalState, subscribers, overtaken>>
  BY DEF deliver
<1>2. /\ Len(frames) \in DOMAIN frames /\ top \in EventFrames /\ top = frames[Len(frames)]
      /\ top.payload \in Nat /\ top.next \in Seq(Handlers) BY <1>1, TopIsFrame
<1>3. PICK n \in Seq(Handlers) : n = top.next BY <1>2
<1>4. PICK g \in Handlers : g = Head(n) /\ g = n[1] /\ 1 \in DOMAIN n BY <1>1, <1>3
<1>5. PICK p \in Nat : p = top.payload BY <1>2
<1>6. PICK f \in EventFrames :
        /\ frames' = [frames EXCEPT ![Len(frames)] = f]
        /\ f.payload = p /\ f.next = Tail(n)
  <2>1. PICK who \in Handlers \cup {NoHandler} : who = IF isCalled(g) THEN g ELSE NoHandler OBVIOUS
  <2>2. frames' = [frames EXCEPT ![Len(frames)] = [top EXCEPT !.next = Tail(@), !.calling = who]]
    BY <1>3, <1>4, <2>1 DEF deliver
  <2>3. Tail(n) \in Seq(Handlers) BY <1>1, <1>3
  <2>4. PICK old \in EventFrames : old = top BY <1>2
  <2>5. /\ [old EXCEPT !.next = Tail(@), !.calling = who] \in EventFrames
        /\ [old EXCEPT !.next = Tail(@), !.calling = who].payload = old.payload
        /\ [old EXCEPT !.next = Tail(@), !.calling = who].next = Tail(old.next)
    BY <1>3, <2>3, <2>4 DEF EventFrames
  <2> QED BY <1>3, <1>5, <2>2, <2>4, <2>5
<1>7. /\ frames' \in Seq(EventFrames) /\ DOMAIN frames' = DOMAIN frames
      /\ (frames[Len(frames)])' = f
      /\ \A i \in DOMAIN frames : i # Len(frames) => (frames[i])' = frames[i]
      /\ \A i \in DOMAIN frames : (frames[i].payload)' = frames[i].payload
      /\ \A i \in DOMAIN frames' : (frames[i].payload <= internalState)'
  BY <1>1, <1>5, <1>6, TopReplaced
<1>8. /\ copy' = [copy EXCEPT ![g] = IF isCalled(g) THEN selected(g, p) ELSE @]
      /\ eventPayloadCache' =
           IF g \in Selecting THEN [eventPayloadCache EXCEPT ![g] = selected(g, p)]
           ELSE eventPayloadCache BY <1>3, <1>4, <1>5 DEF deliver
<1>9. /\ copy = [h \in Handlers |-> copy[h]]
      /\ eventPayloadCache = [h \in Handlers |-> eventPayloadCache[h]]
      /\ \A h \in Selecting : copy[h] = eventPayloadCache[h]
      /\ Selecting \subseteq Handlers BY MessengerAssumption DEF MessengerInv, MessengerAssumption
<1>10. /\ copy' = [h \in Handlers |-> (copy[h])']
       /\ eventPayloadCache' = [h \in Handlers |-> (eventPayloadCache[h])']
       /\ \A h \in Handlers : h # g => /\ (copy[h])' = copy[h]
                                       /\ (eventPayloadCache[h])' = eventPayloadCache[h]
  BY <1>8, <1>9
<1>11. /\ (copy[g])' = selected(g, p)
       /\ g \in Selecting => (eventPayloadCache[g])' = selected(g, p)
  BY <1>8, <1>9, <1>5 DEF isCalled
<1>12. \A h \in Selecting : (copy[h])' = (eventPayloadCache[h])' BY <1>9, <1>10, <1>11
<1>13. /\ \A i \in DOMAIN Tail(n) : i + 1 \in DOMAIN n /\ Tail(n)[i] = n[i + 1]
       /\ \A i \in DOMAIN n : i = 1 \/ (i - 1 \in DOMAIN Tail(n) /\ Tail(n)[i - 1] = n[i])
  BY <1>1, <1>3, LastIsLeft
<1>14. OldersAreOvertaken'
  <2> SUFFICES ASSUME NEW i \in DOMAIN frames, (frames[i].payload # internalState)',
                      NEW k \in (DOMAIN frames[i].next)'
               PROVE  (frames[i].next[k] \in overtaken)' BY <1>7 DEF OldersAreOvertaken
  <2>1. frames[i].payload # internalState BY <1>1, <1>7
  <2>2. CASE i = Len(frames)
    <3>1. k \in DOMAIN Tail(n) /\ (frames[i].next[k])' = Tail(n)[k] BY <1>6, <1>7, <2>2
    <3>2. n[k + 1] \in overtaken
      BY <1>2, <1>3, <1>13, <2>1, <2>2, <3>1 DEF MessengerInv, OldersAreOvertaken
    <3> QED BY <1>1, <1>13, <3>1, <3>2
  <2>3. CASE i # Len(frames) BY <1>1, <1>7, <2>1, <2>3 DEF MessengerInv, OldersAreOvertaken
  <2> QED BY <2>2, <2>3
<1>15. NewestComes'
  <2> SUFFICES ASSUME NEW h \in ToSet(subscribers) \ overtaken, (copy[h])' # selected(h, internalState)
               PROVE  \E i \in DOMAIN frames :
                        /\ (frames[i].payload)' = internalState
                        /\ \E k \in (DOMAIN frames[i].next)' : (frames[i].next[k])' = h
    BY <1>1, <1>7 DEF NewestComes, selected
  <2>1. h # g
    <3> SUFFICES ASSUME h = g PROVE FALSE OBVIOUS
    <3>1. p # internalState BY <1>11
    <3>2. g \in overtaken BY <1>2, <1>3, <1>4, <1>5, <3>1 DEF MessengerInv, OldersAreOvertaken
    <3> QED BY <3>2
  <2>2. h \in Handlers BY DEF MessengerInv, ToSet
  <2>3. copy[h] # selected(h, internalState) BY <1>10, <2>1, <2>2
  <2>4. PICK i \in DOMAIN frames :
          frames[i].payload = internalState /\ \E k \in DOMAIN frames[i].next : frames[i].next[k] = h
    BY <2>3 DEF MessengerInv, NewestComes
  <2>5. PICK k \in DOMAIN frames[i].next : frames[i].next[k] = h BY <2>4
  <2>6. CASE i = Len(frames)
    <3>1. k \in DOMAIN n /\ n[k] = h /\ k # 1 BY <1>2, <1>3, <1>4, <2>1, <2>5, <2>6
    <3>2. k - 1 \in DOMAIN Tail(n) /\ Tail(n)[k - 1] = h BY <1>13, <3>1
    <3>3. (frames[i].next)' = Tail(n) BY <1>6, <1>7, <2>6
    <3> QED BY <1>7, <2>4, <3>2, <3>3
  <2>7. CASE i # Len(frames) BY <1>7, <2>4, <2>7
  <2> QED BY <2>6, <2>7
<1> QED BY <1>1, <1>7, <1>10, <1>12, <1>14, <1>15 DEF MessengerInv

LEMMA CallKeepsNewest == ASSUME MessengerInv, handlerEnds \/ published PROVE MessengerInv'
<1>1. frames # <<>> /\ UNCHANGED <<internalState, subscribers, eventPayloadCache, copy, overtaken>>
  BY DEF handlerEnds, published, subscriptionVars
<1>2. /\ Len(frames) \in DOMAIN frames /\ top \in EventFrames /\ top = frames[Len(frames)]
      /\ top.payload \in Nat /\ top.next \in Seq(Handlers) BY <1>1, TopIsFrame
<1>3. /\ internalState \in Nat /\ subscribers \in Seq(Handlers) /\ AreDistinct(subscribers)
      /\ copy = [h \in Handlers |-> copy[h]]
      /\ eventPayloadCache = [h \in Handlers |-> eventPayloadCache[h]]
      /\ \A h \in Selecting : copy[h] = eventPayloadCache[h]
      /\ \A i \in DOMAIN frames : frames[i].payload <= internalState
      /\ OldersAreOvertaken /\ NewestComes BY DEF MessengerInv
<1>4. /\ internalState' \in Nat /\ subscribers' \in Seq(Handlers) /\ AreDistinct(subscribers)'
      /\ copy' = [h \in Handlers |-> (copy[h])']
      /\ eventPayloadCache' = [h \in Handlers |-> (eventPayloadCache[h])']
      /\ \A h \in Selecting : (copy[h])' = (eventPayloadCache[h])' BY <1>1, <1>3
<1>5. CASE handlerEnds
  <2>1. PICK f \in EventFrames :
          /\ frames' = [frames EXCEPT ![Len(frames)] = f]
          /\ f.payload = top.payload /\ f.next = top.next
    <3>1. PICK old \in EventFrames : old = top BY <1>2
    <3>2. /\ [old EXCEPT !.calling = NoHandler] \in EventFrames
          /\ [old EXCEPT !.calling = NoHandler].payload = old.payload
          /\ [old EXCEPT !.calling = NoHandler].next = old.next BY DEF EventFrames
    <3>3. frames' = [frames EXCEPT ![Len(frames)] = [old EXCEPT !.calling = NoHandler]]
      BY <1>5, <3>1 DEF handlerEnds, afterCall
    <3> QED BY <3>1, <3>2, <3>3
  <2>2. /\ frames' \in Seq(EventFrames) /\ DOMAIN frames' = DOMAIN frames
        /\ (frames[Len(frames)])' = f
        /\ \A i \in DOMAIN frames : i # Len(frames) => (frames[i])' = frames[i]
        /\ \A i \in DOMAIN frames : (frames[i].payload)' = frames[i].payload
        /\ \A i \in DOMAIN frames' : (frames[i].payload <= internalState)'
    BY <1>1, <2>1, TopReplaced
  <2>3. \A i \in DOMAIN frames : (frames[i].next)' = frames[i].next BY <1>2, <2>1, <2>2
  <2>4. OldersAreOvertaken' BY <1>1, <1>3, <2>2, <2>3 DEF OldersAreOvertaken
  <2>5. NewestComes'
    <3> SUFFICES ASSUME NEW h \in ToSet(subscribers) \ overtaken, copy[h] # selected(h, internalState)
                 PROVE  \E i \in DOMAIN frames :
                          /\ (frames[i].payload)' = internalState
                          /\ \E k \in (DOMAIN frames[i].next)' : (frames[i].next[k])' = h
      BY <1>1, <2>2 DEF NewestComes, selected, ToSet
    <3>1. PICK i \in DOMAIN frames :
            frames[i].payload = internalState /\ \E k \in DOMAIN frames[i].next : frames[i].next[k] = h
      BY <1>3 DEF NewestComes
    <3>2. (frames[i].next)' = frames[i].next /\ (frames[i].payload)' = frames[i].payload
      BY <2>2, <2>3
    <3> QED BY <3>1, <3>2
  <2> QED BY <1>4, <2>2, <2>4, <2>5 DEF MessengerInv
<1>6. CASE published
  <2>1. top.next = <<>> /\ frames' = Front(frames) BY <1>6 DEF published
  <2>2. /\ frames' \in Seq(EventFrames)
        /\ \A i \in DOMAIN frames' : i \in DOMAIN frames /\ (frames[i])' = frames[i]
        /\ \A i \in DOMAIN frames : i # Len(frames) => i \in DOMAIN frames'
    BY <1>1, <2>1, FrontIs DEF MessengerInv
  <2>3. OldersAreOvertaken' /\ \A i \in DOMAIN frames' : (frames[i].payload <= internalState)'
    BY <1>1, <1>3, <2>2 DEF OldersAreOvertaken
  <2>4. NewestComes'
    <3> SUFFICES ASSUME NEW h \in ToSet(subscribers) \ overtaken, copy[h] # selected(h, internalState)
                 PROVE  \E i \in DOMAIN frames' :
                          /\ (frames[i].payload)' = internalState
                          /\ \E k \in (DOMAIN frames[i].next)' : (frames[i].next[k])' = h
      BY <1>1 DEF NewestComes, selected, ToSet
    <3>1. PICK i \in DOMAIN frames :
            frames[i].payload = internalState /\ \E k \in DOMAIN frames[i].next : frames[i].next[k] = h
      BY <1>3 DEF NewestComes
    <3>2. i # Len(frames) BY <1>2, <2>1, <3>1
    <3> QED BY <2>2, <3>1, <3>2
  <2> QED BY <1>4, <2>2, <2>3, <2>4 DEF MessengerInv
<1> QED BY <1>5, <1>6

\* The lists of all publications change, but neither what they publish nor how many there are.
LEMMA FramesMapped ==
  ASSUME MessengerInv, frames' = [i \in DOMAIN frames |-> (frames[i])'],
         \A i \in DOMAIN frames : (frames[i])' \in EventFrames,
         \A i \in DOMAIN frames : (frames[i].payload)' = frames[i].payload, UNCHANGED internalState
  PROVE  /\ frames' \in Seq(EventFrames) /\ DOMAIN frames' = DOMAIN frames
         /\ \A i \in DOMAIN frames' : (frames[i].payload <= internalState)'
BY MappedAre DEF MessengerInv

LEMMA FramesChange ==
  ASSUME NEW r \in EventFrames, NEW h \in Handlers
  PROVE  /\ [r EXCEPT !.next = Append(@, h)] \in EventFrames
         /\ [r EXCEPT !.next = Append(@, h)].payload = r.payload
         /\ [r EXCEPT !.next = Append(@, h)].next = Append(r.next, h)
         /\ [r EXCEPT !.next = without(@, h)] \in EventFrames
         /\ [r EXCEPT !.next = without(@, h)].payload = r.payload
         /\ [r EXCEPT !.next = without(@, h)].next = without(r.next, h)
         /\ [r EXCEPT !.current = FALSE] \in EventFrames
         /\ [r EXCEPT !.current = FALSE].payload = r.payload
         /\ [r EXCEPT !.current = FALSE].next = r.next
BY AppendedIs, WithoutIs DEF EventFrames

LEMMA SubscribeKeepsNewest ==
  ASSUME MessengerInv, NEW g \in Handlers, subscribe(g)
  PROVE  MessengerInv'
<1>1. /\ g \notin ToSet(subscribers) /\ UNCHANGED internalState
      /\ subscribers' = Append(subscribers, g)
      /\ frames' = [i \in DOMAIN frames |->
           IF frames[i].current THEN [frames[i] EXCEPT !.next = Append(@, g)] ELSE frames[i]]
      /\ eventPayloadCache' =
           IF g \in Selecting THEN [eventPayloadCache EXCEPT ![g] = selected(g, internalState)]
           ELSE eventPayloadCache
      /\ copy' = [copy EXCEPT ![g] = selected(g, internalState)]
      /\ overtaken' = IF \E i \in DOMAIN frames : frames[i].payload # internalState
                      THEN overtaken \cup {g} ELSE overtaken \ {g}
  BY DEF subscribe
<1>2. /\ internalState \in Nat /\ subscribers \in Seq(Handlers) /\ AreDistinct(subscribers)
      /\ copy = [h \in Handlers |-> copy[h]]
      /\ eventPayloadCache = [h \in Handlers |-> eventPayloadCache[h]]
      /\ \A h \in Selecting : copy[h] = eventPayloadCache[h]
      /\ OldersAreOvertaken /\ NewestComes
      /\ Selecting \subseteq Handlers
      /\ \A i \in DOMAIN frames : frames[i] \in EventFrames
  <2>1. \A i \in DOMAIN frames : frames[i] \in EventFrames
    BY DEF MessengerInv
  <2>2. Selecting \subseteq Handlers
    BY MessengerAssumption DEF MessengerAssumption
  <2> QED BY <2>1, <2>2 DEF MessengerInv
<1>3. ASSUME NEW i \in DOMAIN frames
      PROVE  /\ (frames[i])' \in EventFrames /\ (frames[i].payload)' = frames[i].payload
             /\ (frames[i].next)' = frames[i].next \/ (frames[i].next)' = Append(frames[i].next, g)
  <2>1. PICK r \in EventFrames : r = frames[i]
    BY <1>2
  <2>2. (frames[i])' = IF r.current THEN [r EXCEPT !.next = Append(@, g)] ELSE r
    BY <1>1, <2>1
  <2>3. PICK n : n = [r EXCEPT !.next = Append(@, g)]
    OBVIOUS
  <2>4. n \in EventFrames /\ n.payload = r.payload /\ n.next = Append(r.next, g)
    BY <2>3, FramesChange
  <2>5. (frames[i])' = n \/ (frames[i])' = r
    BY <2>2, <2>3
  <2> QED BY <2>1, <2>4, <2>5
<1>4. /\ frames' \in Seq(EventFrames) /\ DOMAIN frames' = DOMAIN frames
      /\ \A i \in DOMAIN frames' : (frames[i].payload <= internalState)'
  <2>1. frames' = [i \in DOMAIN frames |-> (frames[i])']
    BY <1>1
  <2> QED BY <1>1, <1>3, <2>1, FramesMapped
<1>5. ASSUME NEW i \in DOMAIN frames
      PROVE  /\ \A k \in DOMAIN frames[i].next :
                  k \in (DOMAIN frames[i].next)' /\ (frames[i].next[k])' = frames[i].next[k]
             /\ \A k \in (DOMAIN frames[i].next)' :
                  (frames[i].next[k])' = g \/ (k \in DOMAIN frames[i].next
                                              /\ (frames[i].next[k])' = frames[i].next[k])
  <2>1. PICK n \in Seq(Handlers) : n = frames[i].next
    BY <1>2 DEF EventFrames
  <2>2. PICK m : m = (frames[i].next)'
    OBVIOUS
  <2>3. m = n \/ m = Append(n, g)
    BY <1>3, <2>1, <2>2
  <2>4. /\ \A k \in DOMAIN n : k \in DOMAIN m /\ m[k] = n[k]
        /\ \A k \in DOMAIN m : m[k] = g \/ (k \in DOMAIN n /\ m[k] = n[k])
    BY <2>3, AppendedIs
  <2> QED BY <2>1, <2>2, <2>4
<1>6. subscribers' \in Seq(Handlers) /\ AreDistinct(subscribers)'
  <2>1. PICK q \in Seq(Handlers) : q = subscribers
    BY <1>2
  <2>2. AreDistinct(q) /\ \A i \in DOMAIN q : q[i] # g
    BY <1>1, <1>2, <2>1 DEF ToSet
  <2>3. /\ Append(q, g) \in Seq(Handlers)
        /\ \A i \in DOMAIN q : i \in DOMAIN Append(q, g) /\ Append(q, g)[i] = q[i]
        /\ \A i \in DOMAIN Append(q, g) : i \in DOMAIN q \/ (Append(q, g)[i] = g /\ i = Len(q) + 1)
    BY AppendedIs
  <2>4. PICK w : w = Append(q, g)
    OBVIOUS
  <2>5. AreDistinct(w)
    BY <2>2, <2>3, <2>4 DEF AreDistinct
  <2> QED BY <1>1, <2>1, <2>3, <2>4, <2>5
<1>7. PICK v : v = selected(g, internalState)
  OBVIOUS
<1>8. /\ copy' = [h \in Handlers |-> (copy[h])']
      /\ eventPayloadCache' = [h \in Handlers |-> (eventPayloadCache[h])']
      /\ \A h \in Selecting : (copy[h])' = (eventPayloadCache[h])'
      /\ (copy[g])' = v /\ \A h \in Handlers : h # g => (copy[h])' = copy[h]
  BY <1>1, <1>2, <1>7
<1>9. OldersAreOvertaken'
  <2> SUFFICES ASSUME NEW i \in DOMAIN frames, frames[i].payload # internalState,
                      NEW k \in (DOMAIN frames[i].next)'
               PROVE  (frames[i].next[k] \in overtaken)'
    BY <1>1, <1>3, <1>4 DEF OldersAreOvertaken
  <2>1. overtaken' = overtaken \cup {g}
    BY <1>1
  <2> QED BY <1>2, <1>5, <2>1 DEF OldersAreOvertaken
<1>10. NewestComes'
  <2> SUFFICES ASSUME NEW h \in ToSet(subscribers)' \ overtaken', (copy[h])' # selected(h, internalState)
               PROVE  \E i \in DOMAIN frames :
                        /\ (frames[i].payload)' = internalState
                        /\ \E k \in (DOMAIN frames[i].next)' : (frames[i].next[k])' = h
    <3>1. /\ DOMAIN frames' = DOMAIN frames /\ internalState' = internalState
          /\ \A h : selected(h, internalState)' = selected(h, internalState)
      BY <1>1, <1>4 DEF selected
    <3> QED BY <3>1 DEF NewestComes
  <2>1. h # g
    BY <1>7, <1>8
  <2>2. h \in Handlers /\ h \in ToSet(subscribers)
    <3>1. PICK q \in Seq(Handlers) : q = subscribers
      BY <1>2
    <3>2. PICK i \in DOMAIN Append(q, g) : Append(q, g)[i] = h
      BY <1>1, <3>1 DEF ToSet
    <3>3. i \in DOMAIN q /\ q[i] = h
      BY <2>1, <3>2, AppendedIs
    <3> QED BY <3>1, <3>3 DEF ToSet
  <2>3. h \notin overtaken
    BY <1>1, <2>1
  <2>4. copy[h] # selected(h, internalState)
    BY <1>8, <2>1, <2>2
  <2>5. PICK i \in DOMAIN frames :
          frames[i].payload = internalState /\ \E k \in DOMAIN frames[i].next : frames[i].next[k] = h
    BY <1>2, <2>2, <2>3, <2>4 DEF NewestComes
  <2> QED BY <1>3, <1>5, <2>5
<1>11. internalState' \in Nat
  BY <1>1, <1>2
<1> QED BY <1>4, <1>6, <1>8, <1>9, <1>10, <1>11 DEF MessengerInv

LEMMA UnsubscribeKeepsNewest ==
  ASSUME MessengerInv, NEW g \in Handlers, unsubscribe(g)
  PROVE  MessengerInv'
<1>1. /\ subscribers' = without(subscribers, g)
      /\ frames' = [i \in DOMAIN frames |->
           IF frames[i].current THEN [frames[i] EXCEPT !.next = without(@, g)] ELSE frames[i]]
      /\ UNCHANGED <<internalState, eventPayloadCache, copy, overtaken>>
  BY DEF unsubscribe
<1>2. /\ internalState \in Nat /\ subscribers \in Seq(Handlers) /\ AreDistinct(subscribers)
      /\ copy = [h \in Handlers |-> copy[h]]
      /\ eventPayloadCache = [h \in Handlers |-> eventPayloadCache[h]]
      /\ \A h \in Selecting : copy[h] = eventPayloadCache[h]
      /\ OldersAreOvertaken /\ NewestComes
      /\ \A i \in DOMAIN frames : frames[i] \in EventFrames
  <2>1. \A i \in DOMAIN frames : frames[i] \in EventFrames
    BY DEF MessengerInv
  <2> QED BY <2>1 DEF MessengerInv
<1>3. ASSUME NEW i \in DOMAIN frames
      PROVE  /\ (frames[i])' \in EventFrames /\ (frames[i].payload)' = frames[i].payload
             /\ (frames[i].next)' = frames[i].next \/ (frames[i].next)' = without(frames[i].next, g)
  <2>1. PICK r \in EventFrames : r = frames[i]
    BY <1>2
  <2>2. (frames[i])' = IF r.current THEN [r EXCEPT !.next = without(@, g)] ELSE r
    BY <1>1, <2>1
  <2>3. PICK n : n = [r EXCEPT !.next = without(@, g)]
    OBVIOUS
  <2>4. n \in EventFrames /\ n.payload = r.payload /\ n.next = without(r.next, g)
    BY <2>3, FramesChange
  <2>5. (frames[i])' = n \/ (frames[i])' = r
    BY <2>2, <2>3
  <2> QED BY <2>1, <2>4, <2>5
<1>4. /\ frames' \in Seq(EventFrames) /\ DOMAIN frames' = DOMAIN frames
      /\ \A i \in DOMAIN frames' : (frames[i].payload <= internalState)'
  <2>1. frames' = [i \in DOMAIN frames |-> (frames[i])']
    BY <1>1
  <2> QED BY <1>1, <1>3, <2>1, FramesMapped
<1>5. ASSUME NEW i \in DOMAIN frames
      PROVE  /\ \A k \in DOMAIN frames[i].next : frames[i].next[k] # g =>
                  \E l \in (DOMAIN frames[i].next)' : (frames[i].next[l])' = frames[i].next[k]
             /\ \A l \in (DOMAIN frames[i].next)' :
                  \E k \in DOMAIN frames[i].next : (frames[i].next[l])' = frames[i].next[k]
  <2>1. PICK n \in Seq(Handlers) : n = frames[i].next
    BY <1>2 DEF EventFrames
  <2>2. PICK m : m = (frames[i].next)'
    OBVIOUS
  <2>3. m = n \/ m = without(n, g)
    BY <1>3, <2>1, <2>2
  <2>4. /\ \A k \in DOMAIN n : n[k] # g => \E l \in DOMAIN m : m[l] = n[k]
        /\ \A l \in DOMAIN m : \E k \in DOMAIN n : m[l] = n[k]
    BY <2>3, WithoutIs
  <2> QED BY <2>1, <2>2, <2>4
<1>6. PICK q \in Seq(Handlers), w \in Seq(Handlers) :
        /\ q = subscribers /\ w = subscribers' /\ AreDistinct(w)
        /\ \A l \in DOMAIN w : w[l] # g /\ \E k \in DOMAIN q : w[l] = q[k]
  <2>1. PICK q \in Seq(Handlers) : q = subscribers /\ AreDistinct(q)
    BY <1>2
  <2>2. PICK w : w = without(q, g)
    OBVIOUS
  <2>3. /\ w \in Seq(Handlers) /\ AreDistinct(w)
        /\ \A l \in DOMAIN w : w[l] # g /\ \E k \in DOMAIN q : w[l] = q[k]
    BY <2>1, <2>2, WithoutIs
  <2> QED BY <1>1, <2>1, <2>2, <2>3
<1>7. subscribers' \in Seq(Handlers) /\ AreDistinct(subscribers)'
  BY <1>6
<1>8. \A h \in ToSet(subscribers)' : h # g /\ h \in ToSet(subscribers)
  BY <1>6 DEF ToSet
<1>9. OldersAreOvertaken'
  <2> SUFFICES ASSUME NEW i \in DOMAIN frames, frames[i].payload # internalState,
                      NEW l \in (DOMAIN frames[i].next)'
               PROVE  (frames[i].next[l] \in overtaken)'
    BY <1>1, <1>3, <1>4 DEF OldersAreOvertaken
  <2>1. PICK k \in DOMAIN frames[i].next : (frames[i].next[l])' = frames[i].next[k]
    BY <1>5
  <2> QED BY <1>1, <1>2, <2>1 DEF OldersAreOvertaken
<1>10. NewestComes'
  <2> SUFFICES ASSUME NEW h \in ToSet(subscribers)' \ overtaken', copy[h] # selected(h, internalState)
               PROVE  \E i \in DOMAIN frames :
                        /\ (frames[i].payload)' = internalState
                        /\ \E k \in (DOMAIN frames[i].next)' : (frames[i].next[k])' = h
    BY <1>1, <1>4 DEF NewestComes, selected
  <2>1. h # g /\ h \in ToSet(subscribers) /\ h \notin overtaken
    BY <1>1, <1>8
  <2>2. PICK i \in DOMAIN frames :
          frames[i].payload = internalState /\ \E k \in DOMAIN frames[i].next : frames[i].next[k] = h
    BY <1>2, <2>1 DEF NewestComes
  <2>3. \E k \in (DOMAIN frames[i].next)' : (frames[i].next[k])' = h
    BY <1>5, <2>1, <2>2
  <2> QED BY <1>3, <2>2, <2>3
<1>11. /\ internalState' \in Nat
       /\ copy' = [h \in Handlers |-> (copy[h])']
       /\ eventPayloadCache' = [h \in Handlers |-> (eventPayloadCache[h])']
       /\ \A h \in Selecting : (copy[h])' = (eventPayloadCache[h])'
  BY <1>1, <1>2
<1> QED BY <1>4, <1>7, <1>9, <1>10, <1>11 DEF MessengerInv

LEMMA DestroyKeepsNewest == ASSUME MessengerInv, destroy PROVE MessengerInv'
<1>1. /\ subscribers' = <<>>
      /\ frames' = [i \in DOMAIN frames |-> [frames[i] EXCEPT !.current = FALSE]]
      /\ UNCHANGED <<internalState, eventPayloadCache, copy, overtaken>> BY DEF destroy
<1>2. \A i \in DOMAIN frames : frames[i] \in EventFrames BY DEF MessengerInv
<1>3. ASSUME NEW i \in DOMAIN frames
      PROVE  /\ (frames[i])' \in EventFrames /\ (frames[i].payload)' = frames[i].payload
             /\ (frames[i].next)' = frames[i].next BY <1>2, <1>1 DEF EventFrames
<1>4. /\ frames' \in Seq(EventFrames) /\ DOMAIN frames' = DOMAIN frames
      /\ \A i \in DOMAIN frames' : (frames[i].payload <= internalState)' BY <1>1, <1>3, FramesMapped
<1>5. OldersAreOvertaken' BY <1>1, <1>3, <1>4 DEF MessengerInv, OldersAreOvertaken
<1>6. ToSet(subscribers)' = {} /\ subscribers' \in Seq(Handlers) /\ AreDistinct(subscribers)'
  BY <1>1 DEF ToSet, AreDistinct
<1>7. NewestComes' BY <1>6 DEF NewestComes
<1>8. /\ internalState' \in Nat
      /\ copy' = [h \in Handlers |-> (copy[h])']
      /\ eventPayloadCache' = [h \in Handlers |-> (eventPayloadCache[h])']
      /\ \A h \in Selecting : (copy[h])' = (eventPayloadCache[h])' BY <1>1 DEF MessengerInv
<1> QED BY <1>4, <1>5, <1>6, <1>7, <1>8 DEF MessengerInv

LEMMA MessengerStepsKeepNewest == ASSUME MessengerInv, MessengerNext PROVE MessengerInv'
BY UpdateKeepsNewest, DeliverKeepsNewest, CallKeepsNewest, SubscribeKeepsNewest, UnsubscribeKeepsNewest,
   DestroyKeepsNewest DEF MessengerNext

LEMMA MessengerInitially == MessengerInit => MessengerInv
<1> SUFFICES ASSUME MessengerInit PROVE MessengerInv OBVIOUS
<1>1. /\ internalState = 0 /\ subscribers = <<>> /\ frames = <<>>
      /\ eventPayloadCache = [h \in Handlers |-> 0] /\ copy = [h \in Handlers |-> 0]
  BY DEF MessengerInit
<1>2. frames \in Seq(EventFrames) /\ subscribers \in Seq(Handlers) /\ DOMAIN frames = {} /\ DOMAIN subscribers = {}
  BY <1>1
<1>3. /\ copy = [h \in Handlers |-> copy[h]] /\ eventPayloadCache = [h \in Handlers |-> eventPayloadCache[h]]
      /\ \A h \in Selecting : copy[h] = eventPayloadCache[h]
  BY <1>1, MessengerAssumption DEF MessengerAssumption
<1>4. ToSet(subscribers) = {} BY <1>2 DEF ToSet
<1> QED BY <1>1, <1>2, <1>3, <1>4 DEF MessengerInv, OldersAreOvertaken, NewestComes, AreDistinct

LEMMA MessengerIdle == MessengerInv /\ UNCHANGED messengerVars => MessengerInv'
<1> SUFFICES ASSUME MessengerInv, UNCHANGED messengerVars PROVE MessengerInv' OBVIOUS
<1>1. UNCHANGED <<internalState, subscribers, eventPayloadCache, frames, copy, overtaken>>
  BY DEF messengerVars, subscriptionVars
<1>2. OldersAreOvertaken' = OldersAreOvertaken BY <1>1 DEF OldersAreOvertaken
<1>3. NewestComes' = NewestComes BY <1>1 DEF selected, ToSet, NewestComes
<1>4. AreDistinct(subscribers)' = AreDistinct(subscribers) BY <1>1 DEF AreDistinct
<1> QED BY <1>1, <1>2, <1>3, <1>4 DEF MessengerInv

LEMMA NewestSeen == MessengerInv => NewestIsSeen
BY DEF MessengerInv, NewestComes, NewestIsSeen

-----------------------------------------------------------------------------
(* All answers                                                             *)

AnswersInv == ProposalsInv /\ EnsInv /\ SessionInv /\ PushInv /\ NotesInv /\ MessengerInv

LEMMA AnswersInitially == Init => AnswersInv
BY ProposalsInitially, EnsInitially, SessionInitially, PushInitially, NotesInitially, MessengerInitially DEF
   Init, AnswersInv

\* One part goes on, and the others are as they were.
LEMMA AnswersSteps == ASSUME AnswersInv, [Next]_allVars PROVE AnswersInv'
<1>1. ProposalsInv /\ EnsInv /\ SessionInv /\ PushInv /\ NotesInv /\ MessengerInv BY DEF AnswersInv
<1>2. ProposalsInv' /\ EnsInv'
  BY <1>1, NamesStepsKeepProposals, EnsIdle, EnsStepsKeepNetwork, ProposalsIdle DEF Next, assetSteps,
     networkSteps, namesSteps, chainSteps, answerSteps, editSteps, profileSteps, chainVars, allVars, namesVars
<1>3. SessionInv' /\ PushInv'
  BY <1>1, SessionStepsKeepEnded, PushIdle, PushStepsKeepLinked, SessionIdle DEF Next, assetSteps,
     networkSteps, answerSteps, editSteps, profileSteps, allVars, sessionVars
<1>4. NotesInv' /\ MessengerInv'
  BY <1>1, NotesStep, MessengerIdle, MessengerStepsKeepNewest, NotesIdle DEF Next, assetSteps, networkSteps,
     answerSteps, eventSteps, notificationSteps, editSteps, profileSteps, allVars, answerVars
<1> QED BY <1>2, <1>3, <1>4 DEF AnswersInv

(***************************************************************************)
(* Whatever addresses, sources, calls, devices and handlers there are: an  *)
(* announcement that was read stays so, an account is added once, and the  *)
(* triggers that the server has are known; a subscriber that no older      *)
(* publication overtakes has the newest state once nothing is published;   *)
(* no source of names is asked again before the delay of its last answer   *)
(* is over, and resolutions are of the selected network; who signs out     *)
(* stays so; and the server pushes to the devices that are registered.     *)
(***************************************************************************)
THEOREM AnswersAlwaysKept == Spec => []AnswersAreKept
<1>1. ProposalsInv /\ EnsInv => NamesAreKept BY DEF ProposalsInv, EnsInv, NamesAreKept
<1>2. SessionInv => SessionsAreEnded BY DEF SessionInv
<1>3. AnswersInv => AnswersAreKept
  BY <1>1, <1>2, NotesKept, NewestSeen, PushesLinked DEF AnswersInv, AnswersAreKept
<1> QED BY <1>3, AnswersInitially, AnswersSteps, PTL DEF Spec
=============================================================================
