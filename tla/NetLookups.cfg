CONSTANTS
  main = main
  test = test
  x = x
  chain1 = chain1
  chain2 = chain2
  call1 = call1
  call2 = call2
  NoChain = NoChain
  NoClient = NoClient
  Infura <- MCOneInfura
  Custom <- MCOneCustom
  Chains <- MCTwoChains
  ChainOf <- MCChainOf
  InitialSelected = main
  InitialConfigurations <- MCConfigured
  MaxCreated = 0
  BackupMayBeLoaded = TRUE
  Calls <- MCTwoCalls
  Supports1559 <- MCSupports1559
  CompatMayBeAsked = TRUE
SPECIFICATION FairLookups
INVARIANTS
  LookupsInform
PROPERTIES
  LookupRecordsItsNetwork
  SelectionSettles
