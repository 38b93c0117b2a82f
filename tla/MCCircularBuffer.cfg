CONSTANTS
  Entry = {e1, e2}
  Garbage = Garbage
  DefaultSize = 2
  SizeLimit = 16
SPECIFICATION RingSpec
INVARIANT NoGarbage
PROPERTY RefinesFifo
