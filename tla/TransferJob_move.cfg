\* A cross-source move: it pauses between files, cleans up its sources, and
\* its walker may panic anywhere.
CONSTANTS
  folder = folder
  single = single
  N = 3
  Items = {folder, single}
  ItemOf <- MCItemOf
  RowOf <- MCOwnRows
  Parts = {s1}
  StreamPark = FALSE
  Move = TRUE
  MayPanic = TRUE
  MaxPauses = 2
  MaxRetries = 1
SPECIFICATION Spec
CHECK_DEADLOCK FALSE
INVARIANTS DeletedWasCopied
PROPERTIES SettleStands
