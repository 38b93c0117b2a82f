SPECIFICATION Spec
CONSTANTS
  Ac3Inputs <- MCAc3Inputs
  Ac3Options <- MCAc3Options
  Ac3MaxPackets = 6
  LpcmInputs <- MCLpcmInputs
  LpcmOptions <- MCLpcmOptions
  HdmvInputs <- MCHdmvInputs
  HdmvOptions <- MCHdmvOptions
  H262Inputs <- MCH262Inputs
  H262Options <- MCH262Options
  DtsInputs <- MCDtsInputs
  DtsOptions <- MCDtsOptions
  H264Inputs <- MCH264Inputs
  H264Options <- MCH264Options
INVARIANTS
  SourceOnce
  Timed
  HeaderFaithful
  BuiltAsMeant
