SPECIFICATION Spec
CONSTANTS
  Agents = {a1, a2}
  NoAgent = NoAgent
  Rounds = 1
  IdleMinutes = 1
INVARIANT OwnerHolds
CHECK_DEADLOCK FALSE
