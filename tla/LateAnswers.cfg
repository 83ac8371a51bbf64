SPECIFICATION Spec
CONSTANTS
  Chains = {c1, c2}
  Accounts = {a1, a2}
  Tokens = {k1, k2}
  TokenCalls = {x1, x2}
  MaxTokenSteps = 4
  NftChains = {c1, c2}
  NftAccounts = {a1, a2}
  Contracts = {k1, k2}
  TokenIds = {n1, n2}
  NoNft = NoNft
  NftCalls = {x1, x2}
  MaxNftSteps = 4
  Handlers = {h1, h2, h3}
  Selecting = {h1}
  NoHandler = NoHandler
  MaxFrames = 2
  MaxMessengerSteps = 7
  Addresses = {w1, w2}
  News = {r1}
  Events = {e1}
  Jobs = {x1, x2}
  NoTrigger = NoTrigger
  NoStorage = NoStorage
  MaxTriggers = 3
  MaxNoteSteps = 3
  Named = {w1}
  ChainSpellings = {lower, upper}
  Normal = lower
  NameProviders = {{k1}, {k2}}
  DormantSources = {s0}
  NameCalls = {x1, x2}
  NoCall = NoCall
  UpdateDelay = 1
  LongDelay = 3
  Expire = 2
  MaxTime = 3
  MaxNameSteps = 3
  EnsChains = {m1, m2}
  Registries = {m1}
  NoProvider = NoProvider
  MaxEnsSteps = 4
  FeeChains = {c1, c2}
  FeeTokens = {h1, h2}
  FeeCalls = {x1, x2}
  ListCalls = {x1, x2}
  TokenSets = {s1, s2}
  BalanceAccounts = {a1, a2}
  NoFetch = NoFetch
  NoFees = NoFees
  NoList = NoList
  MaxFeeSteps = 4
  MaxListSteps = 4
  MaxBalanceSteps = 4
  EditedTxs = {k1, k2}
  NoTxMeta = NoTxMeta
  Editors = {e2}
  Updates = {x1, x2}
  MaxEdits = 2
  SessionCalls = {x1, x2}
  MaxSessionSteps = 6
  PushCalls = {x1, x2}
  Device = Device
  MaxPushTokens = 3
  MaxPushSteps = 4
INVARIANTS PollsFollowNetwork AssetsAreKept EditsAreKept 
CHECK_DEADLOCK FALSE
SYMMETRY Symmetry
