SPECIFICATION Spec
CONSTANTS
  Agents = {a1, a2}
  NoAgent = NoAgent
  Rounds = 2
  IdleMinutes = 2
INVARIANTS Exclusive HeartbeatIsTheOwners
PROPERTIES ReleaseUnstolen DeadGoesQuiet
CHECK_DEADLOCK FALSE
