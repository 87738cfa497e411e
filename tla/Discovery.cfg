CONSTANTS
  Scans <- MCScans
  Addresses <- MCAddresses
  Workers = {w1, w2}
  Limit = 1
  Requests = {r1, r2}
  MaxContinues = 1
SPECIFICATION FairSpec
INVARIANTS PauseEarned
PROPERTIES DiscoverySafe ScanEnds
CHECK_DEADLOCK FALSE
