SPECIFICATION Spec
CONSTANTS
  Task = {t1, t2}
  Buffer = {b1}
  Queue = {q1}
  Host = {h1, h2}
  Mode = {"read", "write"}
  KernelLess = {}
  Async = TRUE
  MaxAccessors = 2
  None = None
INVARIANT NoWaitCycle
