SPECIFICATION ClaimSpec
CONSTANTS
  w1 = w1
  W1 = W1
  w2 = w2
  o1 = o1
  o2 = o2
  o3 = o3
  k1 = k1
  k2 = k2
  PawWallets = {w1, w2}
  Spellings = {w1, W1, w2}
  LowerCase <- MCLowerCase
  Owners = {o1, o2, o3}
  ClaimCalls = {k1, k2}
  Blacklist = {w1, w2}
INVARIANTS
  ClaimsWereAccepted
  PendingClaimsBounded
CHECK_DEADLOCK FALSE
