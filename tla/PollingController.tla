-------------------------- MODULE PollingController --------------------------
(***************************************************************************)
(* Polling (packages/polling-controller): a controller polls a network for *)
(* as long as somebody holds a polling token for it.  A key, which is a    *)
(* network client with options, is polled in a loop of timers              *)
(* (StaticIntervalPollingController), or on each block of its client       *)
(* (BlockTrackerPollingController).  A poll may last until the token has   *)
(* been given back and another one taken.                                  *)
(***************************************************************************)
EXTENDS Naturals, FiniteSets, Sequences, SequencesExt

CONSTANTS
  TimedKeys,       \* keys of a controller that polls in intervals
  BlockKeys,       \* keys of a controller that polls on blocks
  Holders,         \* who asks for polling, each with a token of its own
  Timers,          \* identities of timers
  NoTimer, NoClient,
  MaxClients,      \* how often the client of a key is set up
  MaxPollSteps     \* how often tokens are taken and clients are removed

ASSUME PollingAssumption ==
  /\ TimedKeys \cap BlockKeys = {}
  /\ NoTimer \notin Timers /\ NoClient \notin 1..MaxClients
  /\ MaxClients \in Nat \ {0} /\ MaxPollSteps \in Nat

VARIABLES
  pollingTokenSets,  \* #pollingTokenSets
  intervalIds,       \* #intervalIds
  timers,            \* what each timer is doing
  activeListeners,   \* #activeListeners: the client on whose block tracker a key listens
  blockClient,       \* the client of each key, numbered as they are set up
  bereft,            \* history: the keys whose client was removed
  lost,              \* the tokens that nobody was given, as starting threw
  pollSteps

timedVars == <<intervalIds, timers>>
clientVars == <<blockClient, bereft>>
blockVars == <<activeListeners, clientVars, lost>>
pollingVars == <<pollingTokenSets, timedVars, blockVars, pollSteps>>

PollingKeys == TimedKeys \cup BlockKeys
FreeTimer == [step |-> "free"]

PollingTypeOK ==
  /\ pollingTokenSets \in [PollingKeys -> SUBSET Holders]
  /\ intervalIds \in [TimedKeys -> Timers \cup {NoTimer}]
  /\ timers \in [Timers -> {FreeTimer} \cup [step : {"set", "polling"}, key : TimedKeys]]
  /\ activeListeners \in [BlockKeys -> (1..MaxClients) \cup {NoClient}]
  /\ blockClient \in [BlockKeys -> (1..MaxClients) \cup {NoClient}]
  /\ bereft \in SUBSET BlockKeys /\ lost \in SUBSET (BlockKeys \X Holders)
  /\ pollSteps \in 0..MaxPollSteps

PollingInit ==
  /\ pollingTokenSets = [k \in PollingKeys |-> {}]
  /\ intervalIds = [k \in TimedKeys |-> NoTimer]
  /\ timers = [i \in Timers |-> FreeTimer]
  /\ activeListeners = [k \in BlockKeys |-> NoClient]
  /\ blockClient = [k \in BlockKeys |-> 1]
  /\ bereft = {} /\ lost = {}
  /\ pollSteps = 0

pollStep == pollSteps < MaxPollSteps /\ pollSteps' = pollSteps + 1

\* A timer whose identity nothing holds any more.
freeTimers ==
  {i \in Timers : timers[i] = FreeTimer /\ \A k \in TimedKeys : intervalIds[k] # i}

-----------------------------------------------------------------------------

\* StaticIntervalPollingController._startPollingByNetworkClientId, with no timer set.
startsTimer(k) ==
  \E i \in freeTimers :
    /\ intervalIds' = [intervalIds EXCEPT ![k] = i]
    /\ timers' = [timers EXCEPT ![i] = [step |-> "set", key |-> k]]

\* Fault: a poll that has begun is not told that it was stopped.
stopsSetTimer(k) ==
  LET i == intervalIds[k] IN
  IF timers[i] # FreeTimer /\ timers[i].step = "set"
  THEN /\ timers' = [timers EXCEPT ![i] = FreeTimer]
       /\ intervalIds' = [intervalIds EXCEPT ![k] = NoTimer]
  ELSE UNCHANGED timedVars

\* _stopPollingByPollingTokenSetId: clearTimeout does nothing to a poll that has begun.
stopsTimer(k) ==
  LET i == intervalIds[k] IN
  /\ intervalIds' = [intervalIds EXCEPT ![k] = NoTimer]
  /\ timers' = IF timers[i].step = "set" THEN [timers EXCEPT ![i] = FreeTimer] ELSE timers

\* BlockTrackerPollingController._startPollingByNetworkClientId throws without a client.
startsListening(k, h) ==
  /\ activeListeners' = IF activeListeners[k] = NoClient
                        THEN [activeListeners EXCEPT ![k] = blockClient[k]] ELSE activeListeners
  /\ lost' = IF activeListeners[k] = NoClient /\ blockClient[k] = NoClient
             THEN lost \cup {<<k, h>>} ELSE lost

\* _stopPollingByPollingTokenSetId cannot look up a client that was removed.
stopsListening(k) ==
  activeListeners' = IF blockClient[k] = NoClient THEN activeListeners
                     ELSE [activeListeners EXCEPT ![k] = NoClient]

\* The first token starts the polling, and the last one stops it.
startPollingByNetworkClientId(k, h) ==
  /\ h \notin pollingTokenSets[k] /\ pollStep
  /\ pollingTokenSets' = [pollingTokenSets EXCEPT ![k] = @ \cup {h}]
  /\ IF pollingTokenSets[k] # {} THEN UNCHANGED <<timedVars, activeListeners, lost>>
     ELSE \/ k \in TimedKeys /\ startsTimer(k) /\ UNCHANGED <<activeListeners, lost>>
          \/ k \in BlockKeys /\ startsListening(k, h) /\ UNCHANGED timedVars
  /\ UNCHANGED clientVars

stopPollingByPollingToken(k, h) ==
  /\ h \in pollingTokenSets[k] /\ <<k, h>> \notin lost
  /\ pollingTokenSets' = [pollingTokenSets EXCEPT ![k] = @ \ {h}]
  /\ IF pollingTokenSets[k] # {h} THEN UNCHANGED <<timedVars, activeListeners>>
     ELSE \/ k \in TimedKeys /\ stopsTimer(k) /\ UNCHANGED activeListeners
          \/ k \in BlockKeys /\ stopsListening(k) /\ UNCHANGED timedVars
  /\ UNCHANGED <<clientVars, lost, pollSteps>>

\* The timer fires, and the poll begins.
timerFires(i) ==
  /\ timers[i] # FreeTimer /\ timers[i].step = "set"
  /\ timers' = [timers EXCEPT ![i].step = "polling"]
  /\ UNCHANGED <<pollingTokenSets, intervalIds, blockVars, pollSteps>>

\* The poll ends, well or not; the next timer is set if no other has taken its place.
pollEnds(i) ==
  /\ timers[i] # FreeTimer /\ timers[i].step = "polling"
  /\ timers' = [timers EXCEPT ![i] = IF intervalIds[@.key] = i THEN [@ EXCEPT !.step = "set"]
                                     ELSE FreeTimer]
  /\ UNCHANGED <<pollingTokenSets, intervalIds, blockVars, pollSteps>>

clientRemoved(k) ==
  /\ blockClient[k] # NoClient /\ pollStep
  /\ blockClient' = [blockClient EXCEPT ![k] = NoClient]
  /\ bereft' = bereft \cup {k}
  /\ UNCHANGED <<pollingTokenSets, timedVars, activeListeners, lost>>

clientSetUp(k) ==
  /\ blockClient[k] = NoClient
  /\ blockClient' = [blockClient EXCEPT ![k] = MaxClients]
  /\ UNCHANGED <<pollingTokenSets, timedVars, activeListeners, bereft, lost, pollSteps>>

PollingNext ==
  \/ \E k \in PollingKeys, h \in Holders :
       startPollingByNetworkClientId(k, h) \/ stopPollingByPollingToken(k, h)
  \/ \E i \in Timers : timerFires(i) \/ pollEnds(i)
  \/ \E k \in BlockKeys : clientRemoved(k) \/ clientSetUp(k)

\* Timers fire, and polls end.
PollingFairness ==
  \A i \in Timers : WF_pollingVars(timerFires(i)) /\ WF_pollingVars(pollEnds(i))

-----------------------------------------------------------------------------

(***************************************************************************)
(* A key is polled exactly while somebody holds a token for it, by one     *)
(* loop and not by two, although a poll that was stopped may end after     *)
(* polling was started again; and blocks are listened to exactly then, on  *)
(* the client there is, unless the client was removed meanwhile.           *)
(***************************************************************************)
PolledWhileAsked ==
  /\ \A k \in TimedKeys :
       /\ (pollingTokenSets[k] # {}) = (intervalIds[k] # NoTimer)
       /\ intervalIds[k] # NoTimer =>
            timers[intervalIds[k]] # FreeTimer /\ timers[intervalIds[k]].key = k
       /\ \A i \in Timers :
            timers[i] = [step |-> "set", key |-> k] => intervalIds[k] = i
  /\ \A k \in BlockKeys \ bereft :
       activeListeners[k] = IF pollingTokenSets[k] # {} THEN blockClient[k] ELSE NoClient

(***************************************************************************)
(* A key for which tokens are held is polled again and again, if timers    *)
(* fire and polls end.                                                     *)
(***************************************************************************)
PollsGoOn ==
  \A k \in TimedKeys :
    []<>(\/ pollingTokenSets[k] = {}
         \/ \E i \in Timers : timers[i] = [step |-> "polling", key |-> k])

-----------------------------------------------------------------------------

(***************************************************************************)
(* The balances of the accounts in native currency                         *)
(* (packages/assets-controllers).  A refresh follows the accounts that     *)
(* there are, reads their balances from one network, and writes the list   *)
(* as a whole; refreshes wait for each other, but not the selection of     *)
(* accounts and networks, and the accounts themselves.                     *)
(*                                                                         *)
(* A balance is the network it was read from, or zero.                     *)
(***************************************************************************)

CONSTANTS
  Networks,
  Users,            \* accounts of AccountsController
  Refreshes,        \* calls of refresh
  NoBalance,        \* an account that is not in a list
  NoBalances,       \* a network that has no list
  MaxTrackerSteps   \* how often accounts and networks change, or a refresh is asked for

ASSUME TrackerAssumption ==
  /\ Networks # {} /\ Users # {} /\ Refreshes # {} /\ MaxTrackerSteps \in Nat
  /\ NoBalances \notin [Users -> Networks \cup {"zero", NoBalance}]

VARIABLES
  selectedNetwork, selectedUser, users,  \* network, account and accounts, as others have them
  balances,           \* state.accounts
  balancesByNetwork,  \* state.accountsByChainId
  multiAccount,       \* isMultiAccountBalancesEnabled
  refreshCall,        \* each call
  refreshMutex,       \* the call that holds #refreshMutex, and those that wait for it
  refreshTimer,       \* #handle is set; poll waits for its refresh otherwise
  trackerSteps

trackerSelectionVars == <<selectedNetwork, selectedUser, users, multiAccount>>
balanceVars == <<balances, balancesByNetwork>>
refreshVars == <<refreshCall, refreshMutex, refreshTimer>>
accountTrackerVars == <<trackerSelectionVars, balanceVars, refreshVars, trackerSteps>>

Balances == [Users -> Networks \cup {"zero", NoBalance}]
FreeCall == [step |-> "free"]
knownIn(B) == {u \in Users : B[u] # NoBalance}

BalancesTypeOK ==
  /\ selectedNetwork \in Networks /\ selectedUser \in users /\ users \in SUBSET Users
  /\ balances \in Balances
  /\ balancesByNetwork \in [Networks -> Balances \cup {NoBalances}]
  /\ refreshMutex \in Seq(Refreshes)
  /\ trackerSteps \in 0..MaxTrackerSteps

\* The constructor polls at once.
BalancesInit ==
  /\ selectedNetwork = CHOOSE n \in Networks : TRUE
  /\ users = Users /\ selectedUser = CHOOSE u \in Users : TRUE
  /\ multiAccount \in BOOLEAN
  /\ balances = [u \in Users |-> NoBalance]
  /\ balancesByNetwork = [n \in Networks |->
       IF n = selectedNetwork THEN [u \in Users |-> NoBalance] ELSE NoBalances]
  /\ refreshMutex = <<CHOOSE r \in Refreshes : TRUE>>
  /\ refreshCall = [r \in Refreshes |->
       IF r = Head(refreshMutex)
       THEN [step |-> "waiting", user |-> selectedUser, client |-> NoBalance, poll |-> TRUE]
       ELSE FreeCall]
  /\ refreshTimer = FALSE
  /\ trackerSteps = 0

trackerStep == trackerSteps < MaxTrackerSteps /\ trackerSteps' = trackerSteps + 1

-----------------------------------------------------------------------------

\* refresh reads the selected account before it waits for the mutex.
refresh(r, user, client, poll) ==
  /\ refreshCall[r] = FreeCall
  /\ refreshCall' = [refreshCall EXCEPT ![r] =
       [step |-> "waiting", user |-> user, client |-> client, poll |-> poll]]
  /\ refreshMutex' = Append(refreshMutex, r)

\* selectedEvmAccountChange.
userSelected(user) ==
  /\ user \in users \ {selectedUser} /\ trackerStep
  /\ selectedUser' = user
  /\ \E r \in Refreshes : refresh(r, user, NoBalance, FALSE)
  /\ UNCHANGED <<selectedNetwork, users, multiAccount, balanceVars, refreshTimer>>

usersChange(S) ==
  /\ S # users /\ selectedUser \in S /\ trackerStep
  /\ users' = S
  /\ UNCHANGED <<selectedNetwork, selectedUser, multiAccount, balanceVars, refreshVars>>

networkSelected(n) ==
  /\ n # selectedNetwork /\ trackerStep
  /\ selectedNetwork' = n
  /\ UNCHANGED <<selectedUser, users, multiAccount, balanceVars, refreshVars>>

\* _executePoll for a network client.
networkPolled(n) ==
  /\ trackerStep
  /\ \E r \in Refreshes : refresh(r, selectedUser, n, FALSE)
  /\ UNCHANGED <<trackerSelectionVars, balanceVars, refreshTimer>>

polled ==
  /\ refreshTimer
  /\ refreshTimer' = FALSE
  /\ \E r \in Refreshes : refresh(r, selectedUser, NoBalance, TRUE)
  /\ UNCHANGED <<trackerSelectionVars, balanceVars, trackerSteps>>

\* syncAccounts: what is old is what state.accounts has, and no account has any more.
synced(B, n) ==
  LET existing == knownIn(balances)
      listed == IF B[n] # NoBalances THEN B
                ELSE [B EXCEPT ![n] =
                        [u \in Users |-> IF u \in existing THEN "zero" ELSE NoBalance]] IN
  [m \in Networks |->
     IF listed[m] = NoBalances THEN NoBalances
     ELSE [u \in Users |-> IF u \in users \ existing THEN "zero"
                           ELSE IF u \in existing \ users THEN NoBalance ELSE listed[m][u]]]

\* The call gets the mutex, reads the network, and then asks for balances.
accountsSynced(r) ==
  LET call == refreshCall[r]
      n == IF call.client = NoBalance THEN selectedNetwork ELSE call.client
      B == synced(balancesByNetwork, n) IN
  /\ call # FreeCall /\ call.step = "waiting" /\ Head(refreshMutex) = r
  /\ balances' = [u \in Users |->
       CASE u \notin users -> NoBalance
         [] u \in users /\ balances[u] = NoBalance -> "zero"
         [] OTHER -> balances[u]]
  /\ balancesByNetwork' = B
  /\ refreshCall' = [refreshCall EXCEPT ![r] =
       [step |-> "reading", network |-> n, found |-> B[n], poll |-> call.poll,
        asked |-> IF multiAccount THEN users ELSE {call.user}]]
  /\ UNCHANGED <<trackerSelectionVars, refreshMutex, refreshTimer, trackerSteps>>

isShown(n) == n = selectedNetwork

\* Balances that cannot be read, in time, stay what they were.
refreshed(r, S) ==
  LET call == refreshCall[r]
      B == [u \in Users |-> IF u \in S THEN call.network ELSE call.found[u]] IN
  /\ call # FreeCall /\ call.step = "reading" /\ S \subseteq call.asked
  /\ balances' = IF isShown(call.network) THEN B ELSE balances
  /\ balancesByNetwork' = [balancesByNetwork EXCEPT ![call.network] = B]
  /\ refreshCall' = [refreshCall EXCEPT ![r] = FreeCall]
  /\ refreshMutex' = Tail(refreshMutex)
  /\ refreshTimer' = (refreshTimer \/ call.poll)
  /\ UNCHANGED <<trackerSelectionVars, trackerSteps>>

allRead(r) ==
  /\ refreshCall[r] # FreeCall /\ refreshCall[r].step = "reading"
  /\ refreshed(r, refreshCall[r].asked)

BalancesNext ==
  \/ \E user \in Users : userSelected(user)
  \/ \E S \in SUBSET Users : usersChange(S)
  \/ \E n \in Networks : networkSelected(n) \/ networkPolled(n)
  \/ polled
  \/ \E r \in Refreshes :
       accountsSynced(r) \/ \E S \in SUBSET Users : refreshed(r, S)

-----------------------------------------------------------------------------

(***************************************************************************)
(* The balance shown for the selected account comes to be the one it has   *)
(* on the selected network, as refreshes go on.                            *)
(***************************************************************************)
BalancesAreCurrent == balances[selectedUser] = selectedNetwork

-----------------------------------------------------------------------------

(***************************************************************************)
(* What money and tokens are worth (packages/assets-controllers):          *)
(* CurrencyRateController, in the currency that the user has chosen, for   *)
(* each native currency; RatesController, for cryptocurrencies; and        *)
(* TokenRatesController, for the tokens of the selected network.  All of   *)
(* them ask servers, while the currency, the network or the tokens change. *)
(*                                                                         *)
(* A rate is the currency it was asked for.                                *)
(***************************************************************************)

CONSTANTS
  Currencies,      \* the user's currencies
  Natives,         \* native currencies
  DefaultNative,   \* the one that the default state has a rate for
  RateFetches,     \* requests of RatesController at a time
  PriceChains,     \* networks that have prices of tokens
  PriceLoops,      \* timers of TokenRatesController, with what they do when they fire
  NoLoop, NoPrices,
  MaxJobs,         \* calls of CurrencyRateController that wait
  MaxRateSteps     \* how often somebody changes, starts or stops something

ASSUME RatesAssumption ==
  /\ Currencies # {} /\ PriceChains # {} /\ IsFiniteSet(Natives)
  /\ DefaultNative \in Natives /\ NoLoop \notin PriceLoops
  /\ MaxJobs \in Nat \ {0} /\ MaxRateSteps \in Nat

VARIABLES
  currentCurrency, currencyRates,  \* state of CurrencyRateController
  jobs,            \* the calls that wait for its mutex
  rateFetch,       \* the call that holds the mutex, and asks the server
  fiatCurrency, rates,             \* state of RatesController
  ratesStarted,    \* #intervalId is set
  callbacks,       \* callbacks of #withLock that run: the currency each asks for
  priceChain,      \* #chainId of TokenRatesController
  priceTokens,     \* how many tokens each network has
  marketData,      \* its state: the network, and how many tokens it has prices of
  inProcess,       \* #inProcessExchangeRateUpdates: the tokens that prices are asked of
  priceState,      \* #pollState and #disabled
  loops, priceHandle,   \* what each loop is at, and #handle
  rateSteps

currencyVars == <<currentCurrency, currencyRates, jobs, rateFetch>>
ratesVars == <<fiatCurrency, rates, ratesStarted, callbacks>>
priceVars == <<priceChain, priceTokens, marketData, inProcess, priceState, loops, priceHandle>>
exchangeVars == <<currencyVars, ratesVars, priceVars, rateSteps>>

None == "none"
Zero == "zero"
NoFetch == [native |-> None]

RatesTypeOK ==
  /\ currentCurrency \in Currencies
  /\ currencyRates \in [Natives -> Currencies \cup {None, Zero, "null"}]
  /\ jobs \in Seq([set : Currencies] \cup [update : Natives])
  /\ fiatCurrency \in Currencies /\ rates \in Currencies \cup {Zero}
  /\ callbacks \in [RateFetches -> Currencies \cup {None}]
  /\ priceChain \in PriceChains
  /\ priceTokens \in [PriceChains -> 0..1]
  /\ marketData \in {NoPrices} \cup [chain : PriceChains, tokens : 0..1]
  /\ inProcess \in [PriceChains -> {NoPrices} \cup 0..1]
  /\ priceState \in [active : BOOLEAN, disabled : BOOLEAN]
  /\ loops \in [PriceLoops -> {None, "timer"} \cup PriceChains]
  /\ priceHandle \in PriceLoops \cup {NoLoop}
  /\ rateSteps \in 0..MaxRateSteps

RatesInit ==
  /\ currentCurrency = CHOOSE currency \in Currencies : TRUE
  /\ currencyRates = [n \in Natives |-> IF n = DefaultNative THEN Zero ELSE None]
  /\ jobs = <<>>
  /\ rateFetch = NoFetch
  /\ fiatCurrency = currentCurrency /\ rates = Zero
  /\ ratesStarted = FALSE
  /\ callbacks = [f \in RateFetches |-> None]
  /\ priceChain = CHOOSE chain \in PriceChains : TRUE
  /\ priceTokens = [c \in PriceChains |-> 0]
  /\ marketData = NoPrices
  /\ inProcess = [c \in PriceChains |-> NoPrices]
  /\ priceState = [active |-> FALSE, disabled |-> FALSE]
  /\ loops = [l \in PriceLoops |-> None]
  /\ priceHandle = NoLoop
  /\ rateSteps = 0

rateStep == rateSteps < MaxRateSteps /\ rateSteps' = rateSteps + 1

-----------------------------------------------------------------------------

\* CurrencyRateController: a call, or a poll, takes its place in the line for the mutex.
rateAsked(job) ==
  /\ Len(jobs) < MaxJobs /\ rateStep
  /\ jobs' = Append(jobs, job)
  /\ UNCHANGED <<currentCurrency, currencyRates, rateFetch, ratesVars, priceVars>>

setCurrentCurrency(currency) == rateAsked([set |-> currency])
updateExchangeRate(native) == rateAsked([update |-> native])

isSetting(job) == "set" \in DOMAIN job

mayBegin == rateFetch = NoFetch

\* The state is the default one again, and the rates there were are asked for.
currencySet ==
  LET known == SetToSeq({n \in Natives : currencyRates[n] # None}) IN
  /\ jobs # <<>> /\ isSetting(Head(jobs)) /\ mayBegin
  /\ currentCurrency' = Head(jobs).set
  /\ currencyRates' = [n \in Natives |-> IF n = DefaultNative THEN Zero ELSE None]
  /\ jobs' = Tail(jobs) \o [i \in 1..Len(known) |-> [update |-> known[i]]]
  /\ UNCHANGED <<rateFetch, ratesVars, priceVars, rateSteps>>

rateFetched ==
  /\ jobs # <<>> /\ ~isSetting(Head(jobs)) /\ mayBegin
  /\ rateFetch' = [native |-> Head(jobs).update, currency |-> currentCurrency,
                   found |-> currencyRates]
  /\ jobs' = Tail(jobs)
  /\ UNCHANGED <<currentCurrency, currencyRates, ratesVars, priceVars, rateSteps>>

\* The whole state is written, a failure as null.
rateAnswered(found) ==
  /\ rateFetch # NoFetch
  /\ currentCurrency' = rateFetch.currency
  /\ currencyRates' = [rateFetch.found EXCEPT
       ![rateFetch.native] = IF found THEN rateFetch.currency ELSE "null"]
  /\ rateFetch' = NoFetch
  /\ UNCHANGED <<jobs, ratesVars, priceVars, rateSteps>>

-----------------------------------------------------------------------------

\* RatesController.#withLock returns the promise of its callback, and lets the lock go.
updatesRates(currency) ==
  \E f \in RateFetches :
    /\ callbacks[f] = None
    /\ callbacks' = [callbacks EXCEPT ![f] = currency]

ratesPolled ==
  /\ ratesStarted
  /\ updatesRates(fiatCurrency)
  /\ UNCHANGED <<currencyVars, fiatCurrency, rates, ratesStarted, priceVars, rateSteps>>

setFiatCurrency(currency) ==
  /\ currency # fiatCurrency /\ rateStep
  /\ fiatCurrency' = currency
  /\ rates' = Zero
  /\ updatesRates(currency)
  /\ UNCHANGED <<currencyVars, ratesStarted, priceVars>>

\* #updateRates: the values of the currency that was asked for, or nothing.
ratesAnswered(f, found) ==
  /\ callbacks[f] # None
  /\ callbacks' = [callbacks EXCEPT ![f] = None]
  /\ rates' = IF found THEN callbacks[f] ELSE rates
  /\ UNCHANGED <<currencyVars, fiatCurrency, ratesStarted, priceVars, rateSteps>>

ratesStartedOrStopped ==
  /\ rateStep
  /\ ratesStarted' = ~ratesStarted
  /\ UNCHANGED <<currencyVars, fiatCurrency, rates, callbacks, priceVars>>

-----------------------------------------------------------------------------

tokensHere == priceTokens[priceChain]

\* TokenRatesController.updateExchangeRatesByChainId: one request per network at a time.
pricesAsked(chain, P) ==
  inProcess' = IF priceState.disabled \/ inProcess[chain] # NoPrices THEN inProcess
               ELSE [inProcess EXCEPT ![chain] = P[chain]]

\* #poll: it waits for the update, or sets the next timer at once.
polls(l, freed) ==
  /\ pricesAsked(priceChain, priceTokens)
  /\ loops' = [freed EXCEPT ![l] = IF priceState.disabled THEN "timer" ELSE priceChain]
  /\ priceHandle' = IF priceState.disabled THEN l ELSE priceHandle

\* #stopPoll clears the timer set last.
withoutHandle ==
  [l \in PriceLoops |-> IF l = priceHandle /\ loops[l] = "timer" THEN None ELSE loops[l]]

startPrices ==
  /\ rateStep
  /\ \E l \in PriceLoops :
       /\ withoutHandle[l] = None
       /\ polls(l, withoutHandle)
  /\ priceState' = [priceState EXCEPT !.active = TRUE]
  /\ UNCHANGED <<currencyVars, ratesVars, priceChain, priceTokens, marketData>>

stopPrices ==
  /\ rateStep
  /\ loops' = withoutHandle
  /\ priceState' = [priceState EXCEPT !.active = FALSE]
  /\ UNCHANGED <<currencyVars, ratesVars, priceChain, priceTokens, marketData, inProcess,
                 priceHandle>>

disablePrices ==
  /\ rateStep
  /\ priceState' = [priceState EXCEPT !.disabled = ~@]
  /\ UNCHANGED <<currencyVars, ratesVars, priceChain, priceTokens, marketData, inProcess, loops,
                 priceHandle>>

priceTimerFires(l) ==
  /\ loops[l] = "timer"
  /\ polls(l, loops)
  /\ UNCHANGED <<currencyVars, ratesVars, priceChain, priceTokens, marketData, priceState,
                 rateSteps>>

\* A new token, or an account that has it, is told if the state is active.
tokensDidChange(chain) ==
  LET P == [priceTokens EXCEPT ![chain] = 1 - @] IN
  /\ rateStep
  /\ priceTokens' = P
  /\ IF chain = priceChain /\ priceState.active THEN pricesAsked(chain, P)
     ELSE UNCHANGED inProcess
  /\ UNCHANGED <<currencyVars, ratesVars, priceChain, marketData, priceState, loops, priceHandle>>

priceNetworkDidChange(chain) ==
  /\ chain # priceChain /\ rateStep
  /\ priceChain' = chain
  /\ marketData' = NoPrices
  /\ IF priceState.active THEN pricesAsked(chain, priceTokens) ELSE UNCHANGED inProcess
  /\ UNCHANGED <<currencyVars, ratesVars, priceTokens, priceState, loops, priceHandle>>

\* _executePoll for a network, selected or not.
networkPricesPolled(chain) ==
  /\ rateStep
  /\ pricesAsked(chain, priceTokens)
  /\ UNCHANGED <<currencyVars, ratesVars, priceChain, priceTokens, marketData, priceState, loops,
                 priceHandle>>

\* Fault: who waits for the update of another poll is not told of its end.
toldOfNone(chain) == loops

toldOf(chain) == [l \in PriceLoops |-> IF loops[l] = chain THEN "timer" ELSE loops[l]]

\* The answer replaces all market data; the polls that wait set their next timers.
pricesAnswered(chain, found) ==
  LET told == {l \in PriceLoops : loops[l] = chain} IN
  /\ inProcess[chain] # NoPrices
  /\ inProcess' = [inProcess EXCEPT ![chain] = NoPrices]
  /\ marketData' = IF found THEN [chain |-> chain, tokens |-> inProcess[chain]] ELSE marketData
  /\ loops' = toldOf(chain)
  /\ IF told = {} THEN UNCHANGED priceHandle ELSE priceHandle' \in told
  /\ UNCHANGED <<currencyVars, ratesVars, priceChain, priceTokens, priceState, rateSteps>>

currencySteps ==
  \/ \E currency \in Currencies : setCurrentCurrency(currency)
  \/ \E native \in Natives : updateExchangeRate(native)
  \/ currencySet \/ rateFetched
  \/ \E found \in BOOLEAN : rateAnswered(found)

ratesSteps ==
  \/ \E currency \in Currencies : setFiatCurrency(currency)
  \/ ratesPolled \/ ratesStartedOrStopped
  \/ \E f \in RateFetches, found \in BOOLEAN : ratesAnswered(f, found)

priceSteps ==
  \/ startPrices \/ stopPrices \/ disablePrices
  \/ \E l \in PriceLoops : priceTimerFires(l)
  \/ \E chain \in PriceChains :
       \/ tokensDidChange(chain) \/ priceNetworkDidChange(chain) \/ networkPricesPolled(chain)
       \/ \E found \in BOOLEAN : pricesAnswered(chain, found)

\* Servers answer, if only sometimes with what was asked for; timers fire.
RatesFairness ==
  /\ \A f \in RateFetches :
       /\ WF_exchangeVars(\E found \in BOOLEAN : ratesAnswered(f, found))
       /\ SF_exchangeVars(ratesAnswered(f, TRUE))
  /\ WF_exchangeVars(ratesPolled)
  /\ \A chain \in PriceChains :
       /\ WF_exchangeVars(\E found \in BOOLEAN : pricesAnswered(chain, found))
       /\ SF_exchangeVars(pricesAnswered(chain, TRUE))
  /\ \A l \in PriceLoops : WF_exchangeVars(priceTimerFires(l))

-----------------------------------------------------------------------------

(***************************************************************************)
(* The doc of the state: a conversion rate is the "Conversion rate from    *)
(* current base asset to the current currency".  So it is, or zero or      *)
(* null, although rates are asked for one after another, and the currency  *)
(* is set meanwhile: the mutex makes them wait for each other.             *)
(***************************************************************************)
RatesAreInCurrency ==
  \A n \in Natives : currencyRates[n] \in {None, Zero, "null", currentCurrency}

(***************************************************************************)
(* While RatesController polls, the rates come to be in the currency that  *)
(* is set; and while TokenRatesController polls, the market data come to   *)
(* be those of the tokens of the selected network, whatever was asked for  *)
(* before and is answered late: until then, what is shown may be of        *)
(* another currency, of another network, or without the newest token.      *)
(***************************************************************************)
RatesCatchUp ==
  /\ ratesStarted ~> ~ratesStarted \/ rates = fiatCurrency
  /\ priceState = [active |-> TRUE, disabled |-> FALSE] ~>
       \/ priceState # [active |-> TRUE, disabled |-> FALSE]
       \/ marketData = [chain |-> priceChain, tokens |-> tokensHere]
=============================================================================
