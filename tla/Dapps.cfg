CONSTANTS
  main = main
  x = x
  y = y
  chain1 = chain1
  chain2 = chain2
  dapp1 = dapp1
  snap = snap
  NoChain = NoChain
  NoClient = NoClient
  NoNetwork = NoNetwork
  NoProxy = NoProxy
  Global = Global
  Infura <- MCInfura
  Custom <- MCCustom
  Chains <- MCChains
  ChainOf <- MCChainOf
  InitialSelected = main
  InitialConfigurations <- MCConfigured
  MaxCreated = 2
  BackupMayBeLoaded = FALSE
  Domains <- MCDomains
  Internal <- MCInternal
  SelectedMayBeRemoved = FALSE
  ListKeys = {b1, b2}
  Published <- MCPublished
  Sites <- MCSites
  Alike <- MCAlike
  MaxDiffs = 3
  MaxPhishingSteps = 4
  Apis = {p1, p2}
  Origins = {d1, d2}
  RateLimitCount = 2
  MaxLimitSteps = 6
  Prices = {10, 20}
  GasEstimates = {4, 17}
  BlockGasLimit = 20
  MaxEvents = 3
  DetectionAccounts = {a1, a2}
  Holder = a1
  Detections = {x1, x2}
  SliceSize = 1
  NoDetection = NoDetection
  MaxDetectionSteps = 4
  Callers = {d1, d2}
  Versions <- MCVersions
  MethodCalls = {c1, c2}
  NoCaveats = NoCaveats
  MaxMethodSteps = 3
  MaxLogged = 3
  LogLimit = 2
  MaxSeen = 1
  NoSwap = NoSwap
  SwapAttempts = 3
  MaxSwapSteps = 4
  MessageIds = {m1, m2}
  MessageChains <- MCChains
  MaxMessageSteps = 4
SPECIFICATION DappsSpec
INVARIANTS
  RoutesAreKept
  DappsAreServed
  UsersAreInformed
  
CHECK_DEADLOCK FALSE
