CONSTANTS
  video = video  audio = audio  pg = pg
  Types <- MCTypes
  BasePid <- MCBasePid
  Limit <- MCLimit
  SystemPids <- MCSystemPids
  Inputs <- MCTest
  Properties <- MCProperties
  PcrPids <- MCPcrPids
  MaxStreams = 32
  TpPayload = 184
  MuxingRate = 48000000
  Dtcp <- MCDtcp
  Crc32 <- MCCrc32
SPECIFICATION TablesSpec
INVARIANT LimitsUsable
CHECK_DEADLOCK FALSE
