SPECIFICATION Spec
CONSTANTS
  r1 = r1
  r2 = r2
  dapp = dapp
  wallet = wallet
  action = action
  Requests <- MCRequests
  TxIds <- MCRequests
  ApprovalIds <- MCRequests
  ActionOf <- MCActionOf
  OriginOf <- MCOriginOf
  Origins <- MCOrigins
  Types <- MCTypes
  Unlimited <- MCNone
  SkipsApproval <- MCSkipsApproval
  NoAction = NoAction
  NoApproval = NoApproval
  NoTx = NoTx
  NoNonce = NoNonce
  HistoryLimit = 1
  MaxRestarts = 1
  MaxNetworkChanges = 1
  MaxWipes = 1
INVARIANTS PublishedWasAccepted  AwaitedIsAsked
PROPERTIES StatusesAdvance DecisionsAreAnswered
CHECK_DEADLOCK FALSE
