CONSTANTS
  Starts = {c1, c2}
  None = None
  LongSleep = 2
SPECIFICATION FairSpec
PROPERTIES TunnelComesBack StopEndsWithoutKey
