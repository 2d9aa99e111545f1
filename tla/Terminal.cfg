CONSTANTS
  Sessions = {i1, i2}
  Shells = {sh1, sh2}
  None = None
  Failed = Failed
SPECIFICATION Spec
SYMMETRY Symmetry
INVARIANTS TypeOK RunningIsWatched OnlyRacedStartsLeak
PROPERTY OnlyLateThreadsEndShells
CHECK_DEADLOCK FALSE
