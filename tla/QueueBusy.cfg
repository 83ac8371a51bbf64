CONSTANTS
  a = a
  b = b
  c = c
  ra1 = ra1
  ra2 = ra2
  rb1 = rb1
  rb2 = rb2
  rc1 = rc1
  net1 = net1
  net2 = net2
  NoOrigin = NoOrigin
  NoNetwork = NoNetwork
  Requests <- MCFour
  Origins <- MCOrigins
  Networks <- MCNetworks
  OriginOf <- MCOriginOfFour
  SwitchRequests <- MCSwitchOne
  InitialDomains <- MCDomains
  InitialNetwork = net1
  SwitchMayFail = TRUE
  DomainsMayChange = TRUE
  UserMaySwitch = TRUE
SPECIFICATION Spec
CHECK_DEADLOCK FALSE
INVARIANTS
  TypeOK
  WaitersHeldOnce
  CountIsExact
