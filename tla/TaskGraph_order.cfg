SPECIFICATION Spec
CONSTANTS
  Task = {t1, t2, t3}
  Buffer = {b1, b2}
  Queue = {q1}
  Host = {h1, h2}
  Mode = {"read", "write"}
  KernelLess = {}
  Async = TRUE
  MaxAccessors = 2
  None = None
SYMMETRY Symmetry
INVARIANTS
  TypeOK
  ProducersFirst
  CountersExact
CHECK_DEADLOCK FALSE
PROPERTIES
  HostAccessAfterKernels
  QueueWaitAfterKernels
