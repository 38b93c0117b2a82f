CONSTANTS
  Chain <- MCChain
  TpSize = 3
  TpHeader = 1
  FillingBitrate = 4
  Inputs <- MCInputs
  MaxTime = 15
SPECIFICATION Spec
CHECK_DEADLOCK FALSE
INVARIANTS CheckSound FramesAccounted RemovedOnTime
