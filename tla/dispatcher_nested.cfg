SPECIFICATION FairSpec
CONSTANTS
  u1 = u1
  u2 = u2
  u3 = u3
  w1 = w1
  w2 = w2
  s1 = s1
  None = None
  User = {u1, u2}
  WorkerSeq <- Service
  MainThread = u1
  ServiceThread = s1
  IrqWorkers = {}
  MayStop = {}
  Priority <- Prio
  Period <- NoPeriod
  Arrival <- AtOnce
  Delays = {1}
  Timeouts = {1}
  Signals = {}
  JobPeriod = 1
  ARCH_DELAY = 0
  MaxTime = 6
  MAX_UINT8 = 99
  NestedInterrupts = TRUE
  CallersFollowContract = TRUE
PROPERTY TimeoutWakes
CHECK_DEADLOCK FALSE
