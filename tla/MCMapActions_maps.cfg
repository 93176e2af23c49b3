SPECIFICATION FairSpec
CONSTANTS
  a1 = a1
  a2 = a2
  M1 = M1
  M2 = M2
  Nowhere = Nowhere
  NoMap = NoMap
  Actions = {a1, a2}
  Maps = {M1, M2}
  Missing = Nowhere
  None = NoMap
  Scenarios <- MCScenarios
  Width = 6
  Height = 4
  MinCluster = 3
  GridPx = 10
INVARIANTS
  TypeOK
  MapIDAgrees
  MapDataOfLabel
  SmallClustersGone
  WallsTrue
PROPERTIES
  ActionsDrain
CHECK_DEADLOCK FALSE
