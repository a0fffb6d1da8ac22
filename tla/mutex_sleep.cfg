SPECIFICATION Spec
CONSTANTS
  t1 = t1
  t2 = t2
  t3 = t3
  None = None
  Thread = {t1, t2, t3}
  Mutex = {1, 2}
  Priority <- Rising
  MAX_PIP_PRIORITIES = 2
  KernelThreads = {}
  MayTry = {}
  MayNap = {t1}
  Releasers <- HoldersOnly
  MaxRobbed = 0
PROPERTY SleepLasts
