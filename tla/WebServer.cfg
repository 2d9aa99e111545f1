CONSTANTS
  Servers = {s1, s2}
  Workers = {w1}
  None = None
  RESUME_COUNT = 1
  MaxOpens = 1
SPECIFICATION FairSpec
INVARIANTS TypeOK OnlyLostCloseLeaks
PROPERTY ClosedServerEnds
CHECK_DEADLOCK FALSE
