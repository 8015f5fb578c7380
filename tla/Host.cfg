SPECIFICATION MCSpec
CONSTANTS
  Capacity = 4
  MaxReserve = 2
  MaxSent = 6
  MaxPending = 3
  Threads = {0, 1}
  Works = {"a", "b"}
  NoWork = "none"
  Needs <- MCNeeds
  Schedulers = {"round_robin", "shared_work", "work_stealing"}
  Suspend = TRUE
  MaxPainters = 2
  MaxFrames = 2
  CellCount = 3
  LastFrame = 3
  InStep = TRUE
  Devices = {d1, d2}
  Host = host
  MaxVersion = 4
  Callers = {t1, t2}
  Handles = {k1, k2}
  MaxObjects = 4
  Nothing = 0
  Opens = {a1, a2}
  MaxCopies = 2
  Items = {i1, i2}
  CommandGroups = 3
  Programs <- MCPrograms
  UserKernel = 100
  ScopedQueues = {q1, q2}
  MaxKernels = 1
  Ids = {1, 2, 3}
  Slots = {x1, x2}
  ReleasesGot = FALSE
  Views = {v1, v2}
  LastWrite = 3
  MaxBuffers = 2
  MinCapacity = 2
  MaxElements = 4
  ETasks = 3
  ImageTiles = {"t1", "t2"}
  MaxImages = 2
INVARIANTS
  PipeEndsSound
  FibersScheduled
  PicturesShown
  CoherentCopies
  ObjectsShared
  KernelsFound
  BufferContents
  FailuresShown
  KernelsCalledOnce
  VectorsAgree
  ArrayWired
  TileMemoryAgrees
  SystemAnswers
PROPERTIES
  IsFifo
  HostProgress
