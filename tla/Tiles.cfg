SPECIFICATION MCSpec
CONSTANTS
  User = {u1, u2}
  Waiter = {w1, w2}
  MaxUses = 2
  MaxSpurious = 1
  Locked = TRUE
  None = None
  N = 4
  Rounds = 3
  Reset = FALSE
  Sites = 2
  Modulus = 2
  Impls = {"aie", "rpc"}
  MaxCalls = 1
  MaxItems = 2
  LogThenMeet = FALSE
  Uses = 3
  HeapStart = 4
  HeapEnd = 64
  DeviceBase = 1000
  Requests = {3, 8, 16}
  Accessors = 1
  Routers = {"a", "b", "c", "d"}
  Receivers = {"rc", "rd"}
  Outputs <- MCOutputs
  Room <- MCRoom
  TileOf <- MCTileOf
  Writes <- MCWrites
  ByDMA = {"d"}
  Destroyed <- MCDestroyed
  LaunchTiles = 2
  MaxLaunches = 2
  ExecTiles = 2
  BufferSize = 2
  MaxTries = 2
  Accesses <- MCAccesses
INVARIANTS
  LocksSound
  ServedInTurn
  HeapSound
  StreamsSound
  LaunchSound
  ResultsSound
PROPERTIES
  Implements
  ImplementsBarrier
  TilesProgress
