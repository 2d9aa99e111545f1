CONSTANTS
  Reals = {r1, r2}
  Proxies = {p1}
  Users = {u1, u2}
  None = None
  MaxPoolSize = 0
  MaxUp = 0
  MaxDown = 0
  FreshIds = TRUE
SPECIFICATION Spec
SYMMETRY Symmetry
INVARIANT NoHalfOpen
