CONSTANTS
  TpSize = 188
  TpHeaderSize = 4
  PcrSize = 6
  SizeRange = 65536
  Sizes = {1, 2, 175, 176, 177, 182, 183, 184, 185, 367, 368, 369}
  PcrOnEs = FALSE
SPECIFICATION Spec
INVARIANTS TypeOK PacketsLegal
PROPERTIES Reassembled CountersFollow
