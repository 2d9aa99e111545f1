CONSTANTS
  Reals = {r1}
  Proxies = {p1, p2}
  Users = {u1, u2}
  None = None
  MaxPoolSize = 0
  MaxUp = 1
  MaxDown = 0
  FreshIds = TRUE
SPECIFICATION FairSpec
INVARIANT EstablishedIsMapped
PROPERTIES StrandedOnlyByBinding DataLossClosesReal CmdLossClosesMapped
