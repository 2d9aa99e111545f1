CONSTANTS
  Reals = {r1, r2}
  Proxies = {p1, p2}
  Users = {u1}
  None = None
  MaxPoolSize = 0
  MaxUp = 0
  MaxDown = 0
  FreshIds = FALSE
SPECIFICATION Spec
SYMMETRY Symmetry
INVARIANTS PoolDetached DetachedRealIsClosing
