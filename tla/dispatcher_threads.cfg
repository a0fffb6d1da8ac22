SPECIFICATION FairSpec
CONSTANTS
  u1 = u1
  u2 = u2
  u3 = u3
  w1 = w1
  w2 = w2
  s1 = s1
  None = None
  User = {u1, u2, u3}
  WorkerSeq <- OneWorker
  MainThread = u1
  ServiceThread = None
  IrqWorkers = {w1}
  MayStop = {}
  Priority <- Prio
  Period <- PeriodicU2
  Arrival <- LateU2
  Delays = {1, 2}
  Timeouts = {0}
  Signals = {1}
  JobPeriod = 2
  ARCH_DELAY = 0
  MaxTime = 5
  MAX_UINT8 = 99
  NestedInterrupts = FALSE
  CallersFollowContract = TRUE
INVARIANTS OnePlace NoThreadLost Wakeable ReadySorted NoPriorityInversion TimerCoversSleepers NoSelfInsert
PROPERTIES NoEarlyRelease WaitEndsBySignal UrgentSleeperRuns
CHECK_DEADLOCK FALSE
