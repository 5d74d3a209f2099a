\* An upload or download whose part streams park mid-file, and its retry.
CONSTANTS
  folder = folder
  single = single
  N = 3
  Items = {folder, single}
  ItemOf <- MCItemOf
  RowOf <- MCOwnRows
  Parts = {s1, s2}
  StreamPark = TRUE
  Move = FALSE
  MayPanic = FALSE
  MaxPauses = 2
  MaxRetries = 1
SPECIFICATION FairSpec
CHECK_DEADLOCK FALSE
INVARIANTS DoneMeansAllThere CanceledKeepsUnfinished AtMostOneMore
PROPERTIES CancelSettles FlowingSettles
