SPECIFICATION MCFairSpec
CONSTANTS
  w1 = w1
  o1 = o1
  o2 = o2
  k1 = k1
  worker1 = worker1
  store1 = store1
  store2 = store2
  reader1 = reader1
  Wallets = {w1}
  PawWallets = {w1}
  Spellings = {w1}
  LowerCase <- MCLowerCase
  Owners = {o1}
  ClaimCalls = {k1}
  Blacklist = {}
  Names = {w1}
  Hashes = {0, 1, 2, 3, 4}
  Stamps = {1}
  Ops <- MCOps
  Calls = {worker1, store1}
  WorkerCall = worker1
  StoreCalls = {store1}
  ReaderCalls = {}
  Opening <- MCOpening
  Deposits <- MCMixed
  Own <- MCOwn
  Raw <- MCRaw
  NineDigits <- MCRaw
  PAW = 100
  HotMinimum = 300
  HotOpening = 100
  KeptPercent = 20
  Fractional = Fractional
  Faults = {}
  NodeFaults = {}
INVARIANTS
  DepositTypeOK
  OneOutcome
  CreditedOnce
PROPERTIES
  DepositsSettle
  DustIsReceived
CHECK_DEADLOCK FALSE
