SPECIFICATION WithdrawalSpec
CONSTANTS
  w1 = w1
  worker1 = worker1
  store1 = store1
  store2 = store2
  reader1 = reader1
  Wallets = {w1}
  Names = {w1}
  Hashes = {0, 1, 2}
  Stamps = {1, 2}
  Ops <- MCOps
  Calls = {worker1, store1}
  WorkerCall = worker1
  StoreCalls = {store1}
  ReaderCalls = {}
  Opening <- MCOpening
  Requests <- MCOne
  Claimed = {}
  MaxPostpones = 2
  Hot = 4
  Refill = 4
  Faults = {}
  NodeFaults = {}
INVARIANTS
  OnlyClaimedPaid
CHECK_DEADLOCK FALSE
