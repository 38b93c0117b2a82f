CONSTANTS
  MaxLen = 16
  Frame <- Numbers
  Scripts <- Numbered
  MinScripts = 3
  IncScripts = 6
  MinPes = 2
  IncPes = 3
SPECIFICATION FairSpec
CHECK_DEADLOCK FALSE
INVARIANTS TypeOK InScriptOrder EndIsTheEnd NeverStarved ReadAheadBounded
PROPERTY AllBuilt
