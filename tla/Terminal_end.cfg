CONSTANTS
  Sessions = {i1, i2}
  Shells = {sh1}
  None = None
  Failed = Failed
SPECIFICATION FairSpec
CHECK_DEADLOCK FALSE
PROPERTIES ShellEndIsNoticed NoSessionOutlivesPages
