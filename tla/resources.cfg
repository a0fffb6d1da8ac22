SPECIFICATION FairSpec
CONSTANTS
  A = A
  B = B
  a1 = a1
  a2 = a2
  b1 = b1
  part = part
  file = file
  None = None
  Task = {A, B}
  Thread = {a1, a2, b1}
  Resource = {part, file}
  owner <- Owner
  Partition = {part}
  MayKill = {b1}
  MayEnd = {a1, b1}
  MAX_TASK_RESOURCES = 1
  SIZE = 2
INVARIANTS TypeOK TablesSound NoUseAfterFree LockedIsOwned ScheduledOnce
PROPERTIES DeletedWhenIdle
