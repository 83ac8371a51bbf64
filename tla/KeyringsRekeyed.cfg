CONSTANTS
  Empty = Empty
  NoPassword = NoPassword
  QR = QR
  Foreign = Foreign
  NoVault = NoVault
  NoAccount = NoAccount
  NoAddress = NoAddress
  Passwords = {p1, p2}
  Seeds = {s1, s2}
  Keys = {k1}
  MaxSize = 2
  MaxCalls = 3
  MaxUpdates = 1
SPECIFICATION Spec
CHECK_DEADLOCK FALSE
INVARIANT PasswordOpensVault
