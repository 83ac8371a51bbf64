SPECIFICATION Spec
CONSTANTS
  TxIds = {t1, r1}
  NoTx = NoTx
  NoNonce = NoNonce
  HistoryLimit = 2
  Polls = {1, 2}
  Replacements = {r1}
  MaxNonce = 0
  MaxRetries = 0
  DroppedBlockCount = 2
  MaxRetryDistance = 1
  MaxBlocks = 2
  MaxMishaps = 1
  Helpers = {h1, h2}
  Accounts = {a1, a2}
  MaxHeight = 2
  MaxSelections = 1
  ClientIds = {c1, c2}
  NoHelper = NoHelper
  NonceCalls = {n1, n2}
  MaxConfigured = 2
INVARIANTS OutcomesAreTrue 
PROPERTY SpentNoncesSettle
CHECK_DEADLOCK FALSE
