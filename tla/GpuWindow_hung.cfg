SPECIFICATION Spec
CONSTANTS
  Arms = 2
  Rounds = 2
  Runs = 2
  Faults = {"rm_timeout"}
INVARIANT ServiceRestored
CHECK_DEADLOCK FALSE
