SPECIFICATION Spec
CONSTANTS
  None = None
  Runs = {r1, r2}
  Plans <- AllPlans
  OrderIds <- MCOrderIds
  NodeIds <- MCNodeIds
  EdgeIds <- MCEdgeIds
  ActionIds <- MCActionIds
  MapIds = {"m1", "m2"}
  Cancels = {c1}
  Requests = {}
  MaxCrashes = 1
SYMMETRY Symmetry
CONSTRAINT CrashOrCancel
INVARIANTS
  TypeOK
  NoDoubleClose
  SupersededSignalled
  OneLegAfterCancel
  RunningRowOwned
  QuiescentCleared
  SettledActionRows
  FinishedWentThroughOrder
CHECK_DEADLOCK FALSE
