SPECIFICATION FairSpec
CONSTANTS
  Task = {t1, t2, t3}
  Buffer = {b1}
  Queue = {q1}
  Host = {h1}
  Mode = {"read", "write"}
  KernelLess = {}
  Async = TRUE
  MaxAccessors = 2
  None = None
INVARIANT NoWaitCycle
PROPERTIES
  KernelsComplete
  QueueWaitsReturn
  HostAccessesReturn
