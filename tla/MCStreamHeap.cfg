CONSTANTS
  s1 = s1
  s2 = s2
  s3 = s3
  s4 = s4
  s5 = s5
  Streams <- MCStreams
  Priority <- MCPriority
  Times = {0, 1, 2}
  DefaultSize = 2
SPECIFICATION Spec
SYMMETRY Symmetry
INVARIANTS HeapOrder
PROPERTY RefinesTimerQueue
