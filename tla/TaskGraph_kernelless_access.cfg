SPECIFICATION FairSpec
CONSTANTS
  Task = {t1, t2}
  Buffer = {b1}
  Queue = {q1, q2}
  Host = {h1}
  Mode = {"read", "write"}
  KernelLess = {t1}
  Async = TRUE
  MaxAccessors = 1
  None = None
PROPERTY HostAccessesReturn
CHECK_DEADLOCK FALSE
