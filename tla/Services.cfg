SPECIFICATION ServicesSpec
CONSTANTS
  TimedKeys = {k1}
  BlockKeys = {k2}
  Holders = {u1, u2}
  Timers = {i1, i2, i3}
  NoTimer = NoTimer
  NoClient = NoClient
  MaxClients = 2
  MaxPollSteps = 4
  Currencies = {eur, usd}
  Natives = {eth, pol}
  DefaultNative = eth
  RateFetches = {f1, f2}
  PriceChains = {c1, c2}
  PriceLoops = {l1, l2}
  NoLoop = NoLoop
  NoPrices = NoPrices
  MaxJobs = 2
  MaxRateSteps = 3
  Networks = {c1, c2}
  Users = {a1, a2}
  Refreshes = {r1, r2}
  NoBalance = NoBalance
  NoBalances = NoBalances
  MaxTrackerSteps = 3
  Requests = {q1, q2}
  OwnId = OwnId
  NoRequest = NoRequest
  RetryLimit = 1
INVARIANT ServicesStayInStep
PROPERTIES ServicesGoOn RequestsAreAnswered
CHECK_DEADLOCK FALSE
