SPECIFICATION WithdrawalSpec
CONSTANTS
  w1 = w1
  worker1 = worker1
  store1 = store1
  store2 = store2
  reader1 = reader1
  Wallets = {w1}
  Names = {w1}
  Hashes = {0, 1, 2}
  Stamps = {1, 2}
  Ops <- MCOps
  Calls = {worker1, store1, reader1}
  WorkerCall = worker1
  StoreCalls = {store1}
  ReaderCalls = {reader1}
  Opening <- MCOpening
  Requests <- MCOne
  Claimed <- MCOne
  MaxPostpones = 1
  Hot = 0
  Refill = 4
  Faults = {"lockTimeout", "redisError", "crash"}
  NodeFaults = {"refused", "lostReply"}
INVARIANTS
  DebitFollowsPayment
  BooksBalance
CHECK_DEADLOCK FALSE
