SPECIFICATION Spec
CONSTANTS
  t1 = t1
  t2 = t2
  None = None
  Net = Net
  Thread = {t1, t2}
  SIZE = 2
  MaxMessages = 2
  Backlog = 1
  Long = {2}
PROPERTY HoldsSizeMessages
