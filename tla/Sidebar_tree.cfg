\* Two sources, every click and answer in any order.
CONSTANTS
  src = src
  dir = dir
  sub = sub
  bkt = bkt
  pre = pre
  Order <- MCOrder
  Parent <- MCParent
  Buckets = {bkt}
  MaxTurns = 4
  MaxFails = 1
SPECIFICATION FairSpec
CHECK_DEADLOCK FALSE
INVARIANTS ListedOnce OneWalk
PROPERTIES WalkEnds OpenFills
