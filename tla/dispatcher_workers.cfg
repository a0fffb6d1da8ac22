SPECIFICATION FairSpec
CONSTANTS
  u1 = u1
  u2 = u2
  u3 = u3
  w1 = w1
  w2 = w2
  s1 = s1
  None = None
  User = {u1, u2}
  WorkerSeq <- ServiceAndWorker
  MainThread = u1
  ServiceThread = s1
  IrqWorkers = {}
  MayStop = {u2}
  Priority <- Prio
  Period <- NoPeriod
  Arrival <- AtOnce
  Delays = {1, 2}
  Timeouts = {0, 1}
  Signals = {}
  JobPeriod = 1
  ARCH_DELAY = 1
  MaxTime = 4
  MAX_UINT8 = 99
  NestedInterrupts = FALSE
  CallersFollowContract = TRUE
INVARIANTS TypeOK OnePlace NoThreadLost Wakeable NoPriorityInversion NoSelfInsert
PROPERTIES TimeoutWakes
CHECK_DEADLOCK FALSE
