SPECIFICATION Spec
CONSTANTS
  k1 = k1
  k2 = k2
  u1 = u1
  None = None
  Thread = {k1, k2, u1}
  KernelThreads = {k1, k2}
  Start = 2
  SegSize = 24
  HeadRoom = 2
  HeaderSize = 2
  SAFETY_BUFFER = 1
  SAFETY_CHAR = 5
  MINIMUM_PAYLOAD = 1
  ALIGN_VAL = 2
  Word = 64
  Requests = {2, 9, 62}
  LastFitBuilds = {TRUE, FALSE}
  MaxOverlap = 2
SYMMETRY Symmetry
INVARIANTS TypeOK Tiling UsedBytesExact NoFitMissed
PROPERTIES ImplementsAllocator
