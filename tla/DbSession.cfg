CONSTANTS
  Threads = {t1, t2}
  Pages = {a, b}
  Dbs = {d1, d2}
  Prefs = Prefs
  None = None
SPECIFICATION Spec
SYMMETRY Symmetry
INVARIANTS WorksOnShownStore DataFromShownStore
