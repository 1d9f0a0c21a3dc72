SPECIFICATION MCFairSpec
CONSTANTS
  Slice = 2
  Window = 3
  StartFrom = 0
  FirstHeight = 3
  MaxHeight = 4
  Events <- MCBoth
  Malformed <- MCBad
  MaxJobs = 10
  Confirmations = 1
  MaxFaults = 3
  Calm = 4
  Faults = {"refused", "redisError", "crash"}
INVARIANTS
  ScanTypeOK
  NoBlockSkipped
  RangeIsSliced
  EventsAreHanded
PROPERTIES
  EventsAreQueued
CHECK_DEADLOCK FALSE
