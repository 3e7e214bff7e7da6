SPECIFICATION Spec
CONSTANTS
  Arms = 2
  Rounds = 2
  Runs = 2
  Faults = {"rm_timeout", "rm_error", "late_signal"}
INVARIANTS OneOnGpu RestoredUnlessStruck RestoredIsTrue ComparedUndisturbed
PROPERTIES ProcessEnds
CHECK_DEADLOCK FALSE
