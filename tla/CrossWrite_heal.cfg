\* Two writers of one name on SFTP or WebDAV, one fed by another engine that
\* does not tell sizes, and a copy the other way.
CONSTANTS
  Jobs = {j1, j2}
  Skips = {j2}
  Sized = {j2}
  None = None
  Absent = Absent
  Pieces = 2
  Tries = 2
  CreateTries = 1
  Overwrites = TRUE
  MaxFaults = 2
  Src = 2
  Dst = 1
  Fed = {j1}
  Crossing = {x1}
SPECIFICATION CrossFairSpec
CHECK_DEADLOCK FALSE
INVARIANTS WholeOrNothing
PROPERTIES CopiedIsThere SkipReplacesNothing EveryCopyEnds
