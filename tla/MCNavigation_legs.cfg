SPECIFICATION FairSpec
CONSTANTS
  A = A
  Home = Home
  Charger = Charger
  Elsewhere = Elsewhere
  MaxRuns = 2
  Stations = {A}
  Counter = Home
  Dock = Charger
  Road = Elsewhere
  Scenarios <- MCScenarios
INVARIANTS
  TypeOK
  ArrivedAtGoal
  NoOrphanLeg
  LeavesChargerFirst
  ChargingAgrees
PROPERTIES
  PollsSuffice
  LegsAreStopped
CHECK_DEADLOCK FALSE
