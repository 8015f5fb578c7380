SPECIFICATION FairSpec
CONSTANTS
  Task = {t1, t2, t3}
  Buffer = {b1, b2}
  Queue = {q1}
  Host = {h1}
  Mode = {"read", "write"}
  KernelLess = {t3}
  Async = FALSE
  MaxAccessors = 2
  None = None
CHECK_DEADLOCK FALSE
INVARIANT ProducersReady
PROPERTIES
  KernelsComplete
  QueueWaitsReturn
