SPECIFICATION LTFairSpec
CONSTANTS
  Task = {t1, t2}
  Buffer = {b1}
  Queue = {q1}
  Host = {h1, h2}
  Mode = {"read", "write"}
  KernelLess = {}
  Async = TRUE
  MaxAccessors = 1
  None = None
  Kind = {"host", "const"}
  Owner = {h1}
  Direct = TRUE
CHECK_DEADLOCK FALSE
PROPERTY ConstMemoryKept
