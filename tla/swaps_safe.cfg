SPECIFICATION MCFairSpec
CONSTANTS
  w1 = w1
  w2 = w2
  worker1 = worker1
  store1 = store1
  reader1 = reader1
  Wallets = {w1, w2}
  Names = {w1, w2}
  Hashes = {0, 1, 2, 11}
  Stamps = {1}
  Ops <- MCOps
  Calls = {worker1, store1, reader1}
  WorkerCall = worker1
  StoreCalls = {store1}
  ReaderCalls = {reader1}
  Opening <- MCOpening
  Mints <- MCMints
  Claimed <- MCMints
  Burns <- MCBurns
  Faults = {"crash"}
  NodeFaults = {"refused"}
INVARIANTS
  SwapTypeOK
  ReceiptsCovered
  ReceiptsAreDebited
  BooksBalance
  EntriesAreBacked
PROPERTIES
  BurnsAreCredited
CHECK_DEADLOCK FALSE
