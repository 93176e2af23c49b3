SPECIFICATION FairSpec
CONSTANTS
  None = None
  Runs = {r1, r2}
  Plans <- LivePlans
  OrderIds <- MCOrderIds
  NodeIds <- MCNodeIds
  EdgeIds <- MCEdgeIds
  ActionIds <- MCActionIds
  MapIds = {"m1", "m2"}
  Cancels = {c1}
  Requests = {q1}
  MaxCrashes = 1
CONSTRAINT TwoShortOrOne
PROPERTIES
  RunsSettle
  InstantStatesDrain
  LedgerSpec
CHECK_DEADLOCK FALSE
