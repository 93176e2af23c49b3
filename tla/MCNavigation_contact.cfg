SPECIFICATION Spec
CONSTANTS
  A = A
  Home = Home
  Charger = Charger
  Elsewhere = Elsewhere
  MaxRuns = 2
  Stations = {A}
  Counter = Home
  Dock = Charger
  Road = Elsewhere
  Scenarios <- CalmScenarios
INVARIANTS
  DockedMeansContact
CHECK_DEADLOCK FALSE
