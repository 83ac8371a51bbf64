------------------------------- MODULE ChainPolls -------------------------------
(***************************************************************************)
(* Three controllers that ask again and again what holds of the selected   *)
(* network: gas fees (packages/gas-fee-controller), and the list of known  *)
(* tokens and the balances of tokens (packages/assets-controllers).  All   *)
(* have timers of their own beside the polling by network client, and      *)
(* start over when the network changes, while the answers to what they     *)
(* asked before are still on their way.                                    *)
(***************************************************************************)
EXTENDS Naturals, Sequences, FiniteSets

CONSTANTS
  FeeChains,       \* the networks that may be selected
  FeeTokens,       \* the tokens of those who want gas fees
  FeeCalls,        \* fetches of gas fees
  ListCalls,       \* fetches of token lists
  TokenSets,       \* what TokensController may list
  BalanceAccounts,
  NoFetch, NoFees, NoList,
  MaxFeeSteps, MaxListSteps, MaxBalanceSteps  \* how often users, networks and timers act

ASSUME ChainPollsAssumption == {MaxFeeSteps, MaxListSteps, MaxBalanceSteps} \subseteq Nat

\* What a fetch of gas fees knows of who awaits it, and of what it asks.
FeeFetches ==
  [for : {"first", "reset", "interval", "client"}, chain : FeeChains, rest : SUBSET FeeTokens,
   target : FeeChains, from : FeeChains, step : {"compatibility", "endpoint", "provider"},
   crossed : BOOLEAN]

ASSUME NoFetchAssumption == NoFetch \notin FeeFetches

VARIABLES
  pollTokens,      \* pollTokens
  feeInterval,     \* whether an interval is set
  feeChain,        \* currentChainId
  feeNetwork,      \* the network selected, which the provider forwards to
  gasFeeEstimates, \* the chain asked and the network that answered
  feesByChain,     \* state.gasFeeEstimatesByChainId
  apisDisabled,    \* state.nonRPCGasFeeApisDisabled
  feeFetches,      \* the calls of _fetchGasFeeEstimateData under way
  wanted,          \* history: the tokens that were taken and not given back
  mishaps,         \* history: what happened that nothing repairs before the next switch
  feeSteps

feeState == <<gasFeeEstimates, feesByChain, apisDisabled>>
feePolling == <<pollTokens, feeInterval>>
feeHistory == <<wanted, mishaps>>
feeVars == <<feeState, feePolling, feeChain, feeNetwork, feeFetches, feeHistory, feeSteps>>

VARIABLES
  listChain,       \* chainId
  tokenList,       \* state.tokenList: the chain of the list that is shown
  tokensChainsCache, \* the chains that have a list, and whether it is fresh
  preventPolling,  \* state.preventPollingOnNetworkRestart
  listTimers,      \* how many intervals are set, the last one of which may be cleared
  listTimer,       \* whether the last interval is set
  listQueue,       \* who waits for the mutex, and first who has it
  listFetches,     \* the calls of fetchTokenList
  kept,            \* history: the chains whose lists were fetched, and not cleared
  foreign,         \* history: the list shown last is not meant for the selected network
  listSteps

listState == <<tokenList, tokensChainsCache, preventPolling>>
listTiming == <<listTimers, listTimer>>
listCallVars == <<listQueue, listFetches>>
tokenListVars == <<listChain, listState, listTiming, listCallVars, kept, foreign, listSteps>>

VARIABLES
  balanceTokens,   \* #tokens
  balanceAccount,  \* PreferencesController's selected address
  balancesDisabled,\* #disabled
  contractBalances,\* the account and the tokens whose balances are listed
  balanceUpdates,  \* the calls of updateBalances under way
  balanceTimers,   \* how many timeouts are set
  balanceHandle,   \* whether the timeout that #handle names is one of them
  stale,           \* history: the balances listed are of an update that was late
  missed,          \* history: the tokens changed while updates were disabled, and none began since
  balanceSteps

balanceVars == <<balanceTokens, balanceAccount, balancesDisabled, contractBalances, balanceUpdates,
                 balanceTimers, balanceHandle, stale, missed, balanceSteps>>

chainPollsVars == <<feeVars, tokenListVars, balanceVars>>

\* updateBalances reads the account and the tokens when it begins; late if overtaken.
Update(poll) ==
  [account |-> balanceAccount, tokens |-> balanceTokens, poll |-> poll, late |-> FALSE]

ChainPollsInit ==
  /\ pollTokens = {} /\ feeInterval = FALSE /\ feeNetwork \in FeeChains /\ feeChain = feeNetwork
  /\ gasFeeEstimates = NoFees /\ feesByChain = [c \in {} |-> NoFees] /\ apisDisabled = FALSE
  /\ feeFetches = [f \in FeeCalls |-> NoFetch] /\ wanted = {} /\ mishaps = {} /\ feeSteps = 0
  /\ listChain \in FeeChains /\ tokenList = NoList /\ tokensChainsCache = [c \in {} |-> FALSE]
  /\ preventPolling \in BOOLEAN /\ listTimers = 0 /\ listTimer = FALSE
  /\ listQueue = <<>> /\ listFetches = [f \in ListCalls |-> NoFetch]
  /\ kept = {} /\ foreign = FALSE /\ listSteps = 0
  /\ balanceTokens = {} /\ balanceAccount \in BalanceAccounts /\ balancesDisabled \in BOOLEAN
  /\ contractBalances = [account |-> balanceAccount, tokens |-> {}]
  /\ IF balancesDisabled THEN balanceUpdates = <<>> /\ balanceTimers = 1
                         ELSE balanceUpdates = <<Update(TRUE)>> /\ balanceTimers = 0
  /\ balanceHandle = balancesDisabled /\ stale = FALSE /\ missed = FALSE
  /\ balanceSteps = 0

-----------------------------------------------------------------------------
(* GasFeeController *)

feeStep == feeSteps < MaxFeeSteps /\ feeSteps' = feeSteps + 1

\* What awaits a fetch: "first" and "reset" then set the interval, "reset" also ends a switch.
Fetch(for, chain, rest, target) ==
  [for |-> for, chain |-> chain, rest |-> rest, target |-> target,
   from |-> chain, step |-> "compatibility", crossed |-> feeChain # feeNetwork]

isPolling(f) == feeFetches[f] # NoFetch /\ feeFetches[f].for \in {"first", "reset"}
startsPolling == \E f \in FeeCalls : isPolling(f)

asks(f, fetch) == feeFetches[f] = NoFetch /\ feeFetches' = [feeFetches EXCEPT ![f] = fetch]

getGasFeeEstimatesAndStartPolling(f, t) ==
  /\ feeStep
  /\ pollTokens' = pollTokens \cup {t}
  /\ IF Cardinality(pollTokens') = 1 THEN asks(f, Fetch("first", feeChain, {}, feeChain))
                                     ELSE UNCHANGED feeFetches
  /\ wanted' = wanted \cup {t}
  /\ UNCHANGED <<feeState, feeInterval, feeChain, feeNetwork, mishaps>>

\* The default state: the switch that turns the interfaces of third parties off goes with it.
resetState ==
  /\ gasFeeEstimates' = NoFees /\ feesByChain' = [c \in {} |-> NoFees] /\ apisDisabled' = FALSE

\* stopPolling, also by the last token that is given back.
stopPolling(tokens) ==
  /\ pollTokens' = tokens
  /\ IF tokens = {} THEN feeInterval' = FALSE /\ resetState ELSE UNCHANGED <<feeInterval, feeState>>
  /\ mishaps' = IF startsPolling THEN mishaps \cup {"abandoned"} ELSE mishaps

\* A token that waits for a fetch of resetPolling is not among pollTokens, and comes back.
disconnectPoller(t) ==
  /\ feeStep
  /\ stopPolling(pollTokens \ {t})
  /\ wanted' = wanted \ {t}
  /\ UNCHANGED <<feeChain, feeNetwork, feeFetches>>

destroyFees ==
  /\ feeStep
  /\ stopPolling({})
  /\ wanted' = {}
  /\ UNCHANGED <<feeChain, feeNetwork, feeFetches>>

\* resetPolling: one of the tokens starts over, at the chain that was left; the others wait for it.
resetPolling(f, chain) ==
  IF pollTokens = {}
  THEN feeChain' = chain /\ UNCHANGED <<feePolling, feeFetches, feeState>>
  ELSE \E t \in pollTokens :
         /\ asks(f, [Fetch("reset", feeChain, pollTokens \ {t}, chain) EXCEPT !.crossed = TRUE])
         /\ pollTokens' = {t} /\ feeInterval' = FALSE /\ resetState
         /\ UNCHANGED feeChain

\* #onNetworkControllerDidChange compares with the chain of the last switch that was completed.
feeNetworkDidChange(f, chain) ==
  /\ feeStep
  /\ chain # feeNetwork /\ feeNetwork' = chain
  /\ IF chain # feeChain THEN resetPolling(f, chain)
                         ELSE UNCHANGED <<feeChain, feePolling, feeFetches, feeState>>
  /\ mishaps' = IF startsPolling THEN mishaps \cup {"switched"} ELSE mishaps
  /\ UNCHANGED wanted

feeIntervalFires(f) ==
  /\ feeInterval /\ feeStep
  /\ asks(f, Fetch("interval", feeChain, {}, feeChain))
  /\ UNCHANGED <<feeState, feePolling, feeChain, feeNetwork, feeHistory>>

\* _executePoll of a network client.
feeClientPolled(f, chain) ==
  /\ feeStep
  /\ asks(f, [Fetch("client", chain, {}, chain) EXCEPT !.crossed = FALSE])
  /\ UNCHANGED <<feeState, feePolling, feeChain, feeNetwork, feeHistory>>

switchApis ==
  /\ feeStep
  /\ apisDisabled' = ~apisDisabled
  /\ UNCHANGED <<gasFeeEstimates, feesByChain, feePolling, feeChain, feeNetwork, feeFetches,
                 feeHistory>>

\* An interface for the chain is asked if there is one, or the provider of now.
asking(fetch, compatible) ==
  IF compatible THEN [fetch EXCEPT !.step = "endpoint"]
  ELSE LET ofNetwork == fetch.for # "client" IN
       [fetch EXCEPT !.step = "provider", !.from = IF ofNetwork THEN feeNetwork ELSE @,
                     !.crossed = @ \/ (ofNetwork /\ fetch.chain # feeNetwork)]

\* determineGasFeeCalculations
sourceAsked(f, compatible) ==
  /\ feeFetches[f] # NoFetch /\ feeFetches[f].step \in {"compatibility", "endpoint"}
  /\ compatible => feeFetches[f].step = "compatibility" /\ ~apisDisabled
  /\ feeFetches' = [feeFetches EXCEPT ![f] = asking(@, compatible)]
  /\ UNCHANGED <<feeState, feePolling, feeChain, feeNetwork, feeHistory, feeSteps>>

\* getGasFeeEstimatesAndStartPolling then sets the interval, and resetPolling takes up the others.
feesFound(f) ==
  LET fetch == feeFetches[f]
      fees == [chain |-> fetch.chain, from |-> fetch.from, crossed |-> fetch.crossed] IN
  /\ fetch # NoFetch /\ fetch.step \in {"endpoint", "provider"}
  /\ gasFeeEstimates' = IF feeChain = fetch.chain THEN fees ELSE gasFeeEstimates
  /\ feesByChain' = [c \in DOMAIN feesByChain \cup {fetch.chain} |->
                       IF c = fetch.chain THEN fees ELSE feesByChain[c]]
  /\ feeInterval' = (feeInterval \/ isPolling(f))
  /\ pollTokens' = pollTokens \cup fetch.rest
  /\ feeChain' = IF fetch.for = "reset" THEN fetch.target ELSE feeChain
  /\ feeFetches' = [feeFetches EXCEPT ![f] = NoFetch]
  /\ UNCHANGED <<apisDisabled, feeNetwork, feeHistory, feeSteps>>

\* Every source failed: whoever awaits the fetch throws.
feesFailed(f) ==
  /\ feeFetches[f] # NoFetch /\ feeFetches[f].step = "provider"
  /\ mishaps' = IF isPolling(f) THEN mishaps \cup {"failed"} ELSE mishaps
  /\ UNCHANGED wanted
  /\ feeFetches' = [feeFetches EXCEPT ![f] = NoFetch]
  /\ UNCHANGED <<feeState, feePolling, feeChain, feeNetwork, feeSteps>>

FeesNext ==
  \/ \E f \in FeeCalls, t \in FeeTokens : getGasFeeEstimatesAndStartPolling(f, t)
  \/ \E t \in wanted : disconnectPoller(t)
  \/ destroyFees \/ switchApis
  \/ \E f \in FeeCalls, c \in FeeChains : feeNetworkDidChange(f, c) \/ feeClientPolled(f, c)
  \/ \E f \in FeeCalls : feeIntervalFires(f) \/ feesFound(f) \/ feesFailed(f)
  \/ \E f \in FeeCalls, compatible \in BOOLEAN : sourceAsked(f, compatible)

-----------------------------------------------------------------------------
(* TokenListController *)

listStep == listSteps < MaxListSteps /\ listSteps' = listSteps + 1

\* fetchTokenList waits for the mutex; "start" then sets an interval.
waits(f, for, chain) ==
  /\ listFetches[f] = NoFetch
  /\ listFetches' = [listFetches EXCEPT ![f] =
       [for |-> for, chain |-> chain, cache |-> tokensChainsCache, step |-> "waits",
        aborted |-> FALSE]]
  /\ listQueue' = Append(listQueue, f)

clearsLastTimer ==
  /\ listTimers' = IF listTimer THEN listTimers - 1 ELSE listTimers
  /\ listTimer' = FALSE

startList(f) ==
  /\ listStep
  /\ waits(f, "start", NoList)
  /\ UNCHANGED <<listChain, listState, listTiming, kept, foreign>>

stopList ==
  /\ listStep
  /\ clearsLastTimer
  /\ UNCHANGED <<listChain, listState, listCallVars, kept, foreign>>

restartList(f) ==
  /\ listStep
  /\ clearsLastTimer
  /\ waits(f, "start", NoList)
  /\ UNCHANGED <<listChain, listState, kept, foreign>>

listTimerFires(f) ==
  /\ listTimers > 0 /\ listStep
  /\ waits(f, "timer", NoList)
  /\ UNCHANGED <<listChain, listState, listTiming, kept, foreign>>

listClientPolled(f, chain) ==
  /\ listStep
  /\ waits(f, "client", chain)
  /\ UNCHANGED <<listChain, listState, listTiming, kept, foreign>>

\* The call that has the mutex is aborted if it fetches.
abort(fetches) ==
  [f \in ListCalls |-> IF fetches[f] # NoFetch /\ fetches[f].step = "fetches"
                       THEN [fetches[f] EXCEPT !.aborted = TRUE] ELSE fetches[f]]

clearingTokenListData ==
  /\ tokenList' = NoList /\ tokensChainsCache' = [c \in {} |-> FALSE] /\ kept' = {}

listNetworkDidChange(f, chain) ==
  /\ listStep
  /\ chain # listChain /\ listChain' = chain
  /\ listFetches[f] = NoFetch
  /\ IF preventPolling
     THEN /\ listFetches' = abort(listFetches)
          /\ clearingTokenListData
          /\ foreign' = (foreign \/ listQueue # <<>>)
          /\ UNCHANGED <<listTiming, listQueue>>
     ELSE /\ listFetches' = [abort(listFetches) EXCEPT ![f] =
               [for |-> "start", chain |-> NoList, cache |-> tokensChainsCache, step |-> "waits",
                aborted |-> FALSE]]
          /\ listQueue' = Append(listQueue, f)
          /\ tokenList' = IF chain \in DOMAIN tokensChainsCache THEN chain ELSE NoList
          /\ clearsLastTimer
          /\ UNCHANGED <<tokensChainsCache, kept, foreign>>
  /\ UNCHANGED preventPolling

updatePreventPollingOnNetworkRestart ==
  /\ listStep
  /\ preventPolling' = ~preventPolling
  /\ UNCHANGED <<listChain, tokenList, tokensChainsCache, listTiming, listCallVars, kept, foreign>>

cacheExpires(chain) ==
  /\ chain \in DOMAIN tokensChainsCache /\ tokensChainsCache[chain]
  /\ tokensChainsCache' = [tokensChainsCache EXCEPT ![chain] = FALSE]
  /\ UNCHANGED <<listChain, tokenList, preventPolling, listTiming, listCallVars, kept, foreign,
                 listSteps>>

\* Fault: calls do not wait for one another.
hasNoMutex(f) == \E i \in 1..Len(listQueue) : listQueue[i] = f

hasListMutex(f) == Len(listQueue) > 0 /\ Head(listQueue) = f

\* The mutex is released, and a call that starts polling sets an interval.
listSettled(f, shown, cache) ==
  LET call == listFetches[f] IN
  /\ tokenList' = shown /\ tokensChainsCache' = cache
  /\ listQueue' = Tail(listQueue)
  /\ IF call.for = "start" THEN listTimers' = listTimers + 1 /\ listTimer' = TRUE
                           ELSE UNCHANGED listTiming
  /\ UNCHANGED <<listChain, preventPolling, listSteps>>

withList(cache, chain) == [c \in DOMAIN cache \cup {chain} |-> IF c = chain THEN TRUE ELSE cache[c]]

\* The mutex is had: a fresh list is shown at once, another one is fetched.
fetchBegins(f) ==
  LET call == listFetches[f]
      chain == IF call.for = "client" THEN call.chain ELSE listChain IN
  /\ hasListMutex(f) /\ call # NoFetch /\ call.step = "waits"
  /\ IF chain \in DOMAIN tokensChainsCache /\ tokensChainsCache[chain]
     THEN /\ listFetches' = [listFetches EXCEPT ![f] = NoFetch]
          /\ listSettled(f, chain, withList(tokensChainsCache, chain))
          /\ foreign' = (chain # listChain)
          /\ kept' = kept \cup {chain}
     ELSE /\ listFetches' = [listFetches EXCEPT ![f] =
               [@ EXCEPT !.chain = chain, !.cache = tokensChainsCache, !.step = "fetches"]]
          /\ UNCHANGED <<listChain, listState, listTiming, listQueue, kept, foreign, listSteps>>

\* The answer, or none; the cache that is written is the one that was read before.
listFetched(f, answered) ==
  LET call == listFetches[f]
      chain == call.chain IN
  /\ call # NoFetch /\ call.step = "fetches"
  /\ answered => ~call.aborted
  /\ listFetches' = [listFetches EXCEPT ![f] = NoFetch]
  /\ IF answered
     THEN listSettled(f, chain, withList(call.cache, chain)) /\ kept' = kept \cup {chain}
     ELSE /\ listSettled(f, IF chain \in DOMAIN call.cache THEN chain ELSE NoList, call.cache)
          /\ UNCHANGED kept
  /\ foreign' = (chain # listChain)

\* getNetworkClientById throws, outside of the try: the mutex is kept for good.
clientIsGone(f) ==
  /\ hasListMutex(f) /\ listFetches[f] # NoFetch
  /\ listFetches[f].for = "client" /\ listFetches[f].step = "waits"
  /\ listFetches' = [listFetches EXCEPT ![f] = [@ EXCEPT !.step = "thrown"]]
  /\ UNCHANGED <<listChain, listState, listTiming, listQueue, kept, foreign, listSteps>>

ListsNext ==
  \/ \E f \in ListCalls : startList(f) \/ restartList(f) \/ listTimerFires(f)
                          \/ fetchBegins(f) \/ clientIsGone(f)
  \/ stopList \/ updatePreventPollingOnNetworkRestart
  \/ \E f \in ListCalls, c \in FeeChains : listClientPolled(f, c) \/ listNetworkDidChange(f, c)
  \/ \E c \in FeeChains : cacheExpires(c)
  \/ \E f \in ListCalls, answered \in BOOLEAN : listFetched(f, answered)
-----------------------------------------------------------------------------
(* TokenBalancesController *)

balanceStep == balanceSteps < MaxBalanceSteps /\ balanceSteps' = balanceSteps + 1

\* updateBalances does nothing while it is disabled, and a poll then sets its timeout.
updateBalances(poll, timers, update) ==
  IF balancesDisabled
  THEN /\ balanceTimers' = IF poll THEN timers + 1 ELSE timers
       /\ balanceHandle' = (balanceHandle \/ poll)
       /\ missed' = (missed \/ update.tokens # balanceTokens)
       /\ UNCHANGED balanceUpdates
  ELSE /\ balanceUpdates' = Append(balanceUpdates, update)
       /\ balanceTimers' = timers
       /\ balanceHandle' = (balanceHandle /\ ~poll)
       /\ missed' = FALSE

tokensStateChange(tokens) ==
  /\ balanceStep
  /\ balanceTokens' = tokens
  /\ updateBalances(FALSE, balanceTimers, [Update(FALSE) EXCEPT !.tokens = tokens])
  /\ UNCHANGED <<balanceAccount, balancesDisabled, contractBalances, stale>>

\* poll clears the timeout that #handle names.
pollBalances ==
  /\ balanceStep
  /\ updateBalances(TRUE, IF balanceHandle THEN balanceTimers - 1 ELSE balanceTimers, Update(TRUE))
  /\ UNCHANGED <<balanceTokens, balanceAccount, balancesDisabled, contractBalances, stale>>

\* A timeout fires, that of #handle or one that an overlapping poll left behind.
balanceTimerFires(ofHandle) ==
  /\ balanceTimers > 0 /\ balanceStep
  /\ IF ofHandle THEN balanceHandle ELSE balanceTimers > (IF balanceHandle THEN 1 ELSE 0)
  /\ updateBalances(TRUE, balanceTimers - (IF balanceHandle /\ ~ofHandle THEN 2 ELSE 1),
                    Update(TRUE))
  /\ UNCHANGED <<balanceTokens, balanceAccount, balancesDisabled, contractBalances, stale>>

\* Every balance was read, or stands for an error: the list is replaced.
balancesUpdated(i) ==
  LET update == balanceUpdates[i] IN
  /\ contractBalances' = [account |-> update.account, tokens |-> update.tokens]
  /\ stale' = update.late
  /\ balanceUpdates' = [j \in 1..(Len(balanceUpdates) - 1) |->
       IF j < i THEN [balanceUpdates[j] EXCEPT !.late = TRUE] ELSE balanceUpdates[j + 1]]
  /\ balanceTimers' = balanceTimers + (IF update.poll THEN 1 ELSE 0)
  /\ balanceHandle' = (balanceHandle \/ update.poll)
  /\ UNCHANGED <<balanceTokens, balanceAccount, balancesDisabled, missed, balanceSteps>>

balanceAccountChanges(account) ==
  /\ balanceStep
  /\ balanceAccount' = account
  /\ UNCHANGED <<balanceTokens, balancesDisabled, contractBalances, balanceUpdates, balanceTimers,
                 balanceHandle, stale, missed>>

switchBalances ==
  /\ balanceStep
  /\ balancesDisabled' = ~balancesDisabled
  /\ UNCHANGED <<balanceTokens, balanceAccount, contractBalances, balanceUpdates, balanceTimers,
                 balanceHandle, stale, missed>>

BalancesNext ==
  \/ \E tokens \in TokenSets : tokensStateChange(tokens)
  \/ pollBalances \/ switchBalances
  \/ \E ofHandle \in BOOLEAN : balanceTimerFires(ofHandle)
  \/ \E i \in 1..Len(balanceUpdates) : balancesUpdated(i)
  \/ \E account \in BalanceAccounts : balanceAccountChanges(account)

-----------------------------------------------------------------------------

(***************************************************************************)
(* Gas fees are polled as long as somebody holds a token, and no longer;   *)
(* the chain asked for is the network selected; and the fees kept for a    *)
(* chain are those of that chain: unless the first fetch of a poll failed, *)
(* the last token was given back during it, or the network changed during  *)
(* it.                                                                     *)
(***************************************************************************)
FeesFollowNetwork ==
  /\ mishaps = {} /\ ~startsPolling =>
       /\ pollTokens = wanted /\ feeInterval = (wanted # {})
       /\ feeChain = feeNetwork
  /\ \A c \in DOMAIN feesByChain : ~feesByChain[c].crossed => feesByChain[c].from = c

(***************************************************************************)
(* The list of a chain that was fetched is kept until the lists are        *)
(* cleared, although a fetch writes back the cache that it read before;    *)
(* and when no fetch is under way, the list that is shown is that of the   *)
(* selected network, unless a poll of another network was the last to end, *)
(* or one that was under way when the lists were cleared.                  *)
(***************************************************************************)
TokenListsAreKept ==
  /\ kept \subseteq DOMAIN tokensChainsCache
  /\ listQueue = <<>> /\ ~foreign => tokenList \in {listChain, NoList}

(***************************************************************************)
(* The balances listed are of the tokens told last, when no update is      *)
(* under way and none was late or left out; and somebody polls.            *)
(***************************************************************************)
BalancesFollowTokens ==
  /\ balanceUpdates = <<>> /\ ~stale /\ ~missed => contractBalances.tokens = balanceTokens
  /\ balanceTimers > 0 \/ \E i \in 1..Len(balanceUpdates) : balanceUpdates[i].poll

PollsFollowNetwork == FeesFollowNetwork /\ TokenListsAreKept /\ BalancesFollowTokens
=============================================================================
