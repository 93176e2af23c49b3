SPECIFICATION Spec
CONSTANTS
  None = None
  Runs = {r1, r2}
  Plans <- ShortPlans
  OrderIds <- MCOrderIds
  NodeIds <- MCNodeIds
  EdgeIds <- MCEdgeIds
  ActionIds <- MCActionIds
  MapIds = {"m1", "m2"}
  Cancels = {}
  Requests = {}
  MaxCrashes = 0
INVARIANTS
  FinishedOrderKept
CHECK_DEADLOCK FALSE
