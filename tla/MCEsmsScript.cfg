SPECIFICATION Spec
CHECK_DEADLOCK FALSE
CONSTANTS
  ByteRange = 32
  MaxDir = 4
  MaxPackets = 4
  Sources <- MCSources
  Editions <- MCEditions
  Analysis <- MCAnalysis
  Runs <- MCRuns
  NoScript <- MCNoScript
  MaxIncrement = 3
  MaxCommands = 3
  MaxEvents = 3
INVARIANTS
  TypeOK
  UsedIsFaithful
  MarkedIsWhole
  ReusedWhenUnchanged
PROPERTIES
  NotRewritten
  RunsEnd
