SPECIFICATION Spec
CONSTANTS
  Jobs = 2
  Plans = {p1, p2}
  Arms = {control, candidate}
  Dirs = {d1, d2, d3}
  Runners = {r1, r2}
  Versions = 2
  NoPlan = NoPlan
  NoArm = NoArm
SYMMETRY Interchangeable
INVARIANTS ReportsWholeRuns
PROPERTIES ReportedIsFixed
CHECK_DEADLOCK FALSE
