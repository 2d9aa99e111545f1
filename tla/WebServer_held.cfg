CONSTANTS
  Servers = {s1, s2}
  Workers = {}
  None = None
  RESUME_COUNT = 1
  MaxOpens = 1
SPECIFICATION Spec
INVARIANT HeldServerRuns
CHECK_DEADLOCK FALSE
