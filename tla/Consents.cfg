SPECIFICATION Spec
CONSTANTS
  ApprovalIds = {i1, i2}
  Origins = {o1, wallet}
  Wallet = wallet
  Types = {"permissions", "personal_sign", "eth_signTypedData", "transaction", "success", "error"}
  Unlimited = {"transaction"}
  NoApproval = NoApproval
  PermRequests = {i1, i2}
  Targets = {accounts, snap}
  Values = {v1}
  Restrictable = {accounts}
  NoPermission = {none}
  NoSubject = NoSubject
  Eventful = {snap}
  Typed = {snap}
  SubjectCacheLimit = 1
  MaxWalletSteps = 1
  Flows = {f1, f2}
  Pages = {i1, i2}
  Messages = {i1, i2}
  TypedMessages = {i2}
  UserOperations = {i1}
  MaxPolls = 2
INVARIANTS ShownIsOpen PermissionsAreConsented SignaturesAreConfirmed
  
PROPERTIES MetadataOfSubjectsIsKept WaitersAreTold
CHECK_DEADLOCK FALSE
