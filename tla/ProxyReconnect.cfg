CONSTANTS
  Starts = {c1, c2}
  None = None
  LongSleep = 128
SPECIFICATION Spec
SYMMETRY Symmetry
INVARIANTS TypeOK BackoffBounds
