\* Two windows, one call at a time in each.
CONSTANTS
  c1 = c1
  c2 = c2
  w1 = w1
  w2 = w2
  Windows = {w1, w2}
  Paths = {p1, p2}
  Calls = {c1, c2}
  WindowOf <- MCOneEach
  None = None
  Reopens = FALSE
  MaxSources = 2
SPECIFICATION Spec
CHECK_DEADLOCK FALSE
INVARIANTS OneWindowPerFile EditsSurvive
