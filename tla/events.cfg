SPECIFICATION MCFairSpec
CONSTANTS
  w1 = w1
  w2 = w2
  job1 = job1
  Streams = {1, 2, 3}
  Ids = {w1, w2}
  NoStream = 0
  Jobs = {job1}
  WalletOf <- MCWalletOf
  MaxAdds = 2
INVARIANTS
  StreamTypeOK
  NoStreamLeaks
  LoneStreamRegistered
  ToldOnce
PROPERTIES
  LoneClientHears
CHECK_DEADLOCK FALSE
