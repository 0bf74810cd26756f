SPECIFICATION FairSpec
CONSTANTS
  Nobody = Nobody
  Reviews = {r1, r2}
  Workflows = {a, b}
  PerRound = {"checkout"}
  Found <- FoundDirs
  MaxCacheAge = 0
  MaxClock = 1
INVARIANTS
  TypeOK
  InUseKept
PROPERTIES
  LeftoversReachable
  SweepsOnlyStale
  PrepareEnds
