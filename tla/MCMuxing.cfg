SPECIFICATION FairSpec
CONSTANTS
  video = video  audio = audio  pat = pat  pmt = pmt  sit = sit  pcr = pcr  none = none
  ES <- MCES
  System <- MCSystem
  Pcr = pcr
  Priority <- MCPriority
  TableSize <- MCTableSize
  Delay <- MCDelay
  RefPts <- MCRefPts
  Bitrate <- MCBitrate
  PesNb <- MCPesNb
  PesNbSec <- MCPesNbSec
  Alternative = {audio}
  MainClock = 240
  SubTicks = 4
  TpPayload = 4
  PacketShift = 3
  StdBufDelay = 40
  TpDuration = 7
  ClockScale = 2
  UnitSize = 8
  PcrFieldSize = 1
  Inputs <- MCInputs
  Managed <- MCManaged
INVARIANTS HeapHasTheRest RateKept DtsCoversDelay SystemInTime CompleteBeforeDts
PROPERTIES IsTransportStream Terminates
CHECK_DEADLOCK FALSE
