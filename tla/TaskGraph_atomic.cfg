SPECIFICATION Spec
CONSTANTS
  Task = {t1, t2}
  Buffer = {b1}
  Queue = {q1}
  Host = {h1}
  Mode = {"read", "atomic"}
  KernelLess = {}
  Async = TRUE
  MaxAccessors = 1
  None = None
INVARIANT ProducersFirst
