CONSTANTS
  Places <- MCPlaces
  BucketOf <- MCBucketOf
  HomeDir <- MCHomeDir
  PagesOf <- MCPagesOf
  First = 2
  MaxLoads = 3
  MaxFails = 1
SPECIFICATION FairSpec
CHECK_DEADLOCK FALSE
INVARIANTS NoLeakedWalk S3RowsAreBound ActsOnShown
PROPERTIES Answered
