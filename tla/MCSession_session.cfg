SPECIFICATION FairSpec
CONSTANTS
  Worlds <- MCWorlds
  MaxBreaks = 1
INVARIANTS
  TypeOK
  OfflineIsLast
  StaysDisconnected
  SocketClosed
  LateCommands
PROPERTIES
  StateShown
  LoopEnds
  StreamResumes
  Registers
  OnlineShown
  SilenceShown
CHECK_DEADLOCK FALSE
