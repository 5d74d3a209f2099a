\* The constants in the order they ship in: a demand is of several pages, the
\* last of them cut, and the window holds two demands of a refill.
CONSTANTS
  Rows = 10
  PageSize = 2
  FirstStep = 4
  WinStep = 3
  MaxHeld = 6
  Prefetch = 1
  Screen = 1
  Ring = 5
  Match = {2, 7}
  MaxTurns = 6
  MaxFaults = 1
SPECIFICATION GridFairSpec
CHECK_DEADLOCK FALSE
INVARIANTS NoDangling MirrorIsGrid
PROPERTIES ViewMovesByTheCut IsShown
