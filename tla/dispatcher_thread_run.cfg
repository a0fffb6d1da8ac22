SPECIFICATION Spec
CONSTANTS
  u1 = u1
  u2 = u2
  u3 = u3
  w1 = w1
  w2 = w2
  s1 = s1
  None = None
  User = {u1, u2}
  WorkerSeq <- NoWorkers
  MainThread = u1
  ServiceThread = None
  IrqWorkers = {}
  MayStop = {}
  Priority <- Prio
  Period <- PeriodicU2
  Arrival <- AtOnce
  Delays = {1}
  Timeouts = {}
  Signals = {}
  JobPeriod = 2
  ARCH_DELAY = 0
  MaxTime = 4
  MAX_UINT8 = 99
  NestedInterrupts = FALSE
  CallersFollowContract = FALSE
PROPERTY NoEarlyRelease
CHECK_DEADLOCK FALSE
