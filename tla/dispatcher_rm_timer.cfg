SPECIFICATION Spec
CONSTANTS
  u1 = u1
  u2 = u2
  u3 = u3
  w1 = w1
  w2 = w2
  s1 = s1
  None = None
  User = {u1, u2}
  WorkerSeq <- TwoWorkers
  MainThread = u1
  ServiceThread = None
  IrqWorkers = {}
  MayStop = {}
  Priority <- Prio
  Period <- NoPeriod
  Arrival <- AtOnce
  Delays = {1, 2}
  Timeouts = {}
  Signals = {}
  JobPeriod = 2
  ARCH_DELAY = 0
  MaxTime = 4
  MAX_UINT8 = 99
  NestedInterrupts = FALSE
  CallersFollowContract = TRUE
PROPERTY NextTimerEventIsEarliest
CHECK_DEADLOCK FALSE
