SPECIFICATION TBSpec
CONSTANTS
  N = 2
  Rounds = 2
  Reset = TRUE
INVARIANT NoneLeavesEarly
