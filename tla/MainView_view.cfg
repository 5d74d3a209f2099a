\* Folders of two sources, one of them deeper than a window, and two places that
\* answer in one piece; failures up to a flagged outage.
CONSTANTS
  Places <- MCPlaces
  Home <- small
  PagesOf <- MCPagesOf
  First = 2
  MaxLoads = 3
  MaxFails = 2
SPECIFICATION FairSpec
CHECK_DEADLOCK FALSE
INVARIANTS NoLeakedWalk OwnRows NoDeadArrow
PROPERTIES Answered
