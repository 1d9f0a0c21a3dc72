SPECIFICATION MCSpec
CONSTANTS
  w1 = w1
  w2 = w2
  W1 = W1
  h1 = h1
  h2 = h2
  h3 = h3
  h4 = h4
  h5 = h5
  Wallets = {w1, w2}
  Names = {w1, w2}
  Hashes = {h1, h2, h3, h4, h5}
  Stamps = {1}
  Ops <- MCAgreeingOps
  Calls = {c1, c2, c3}
  Opening <- MCOpening
  Faults = {"lockTimeout", "redisError", "crash"}
SYMMETRY MCCallsSymmetry
INVARIANTS
  StorageInv
PROPERTIES
  ImplementsLedger
CHECK_DEADLOCK FALSE
