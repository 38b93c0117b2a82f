CONSTANTS
  none = none
  NoPeriod = none
  AccessUnits <- MCAccessUnits
  Tick90 = 2
  ClockTick = 3
  Bitrate = 2
  CpbSize = 12
  MinRemovalDelay = 2
  MaxFirstLength = 9
  MaxLength = 3
  MaxFirstSlices = 2
  MaxSlices = 1
  Width = 4096
  SliceWidth = 256
  MaxAUInCpb = 3
  MaxPicInDpb = 2
  Builds <- BothBuilds
  MaxAUs = 4
SPECIFICATION Spec
INVARIANTS CpbSound DpbExact
CHECK_DEADLOCK FALSE
