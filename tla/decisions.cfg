SPECIFICATION MCSpec
CONSTANTS
  Sessions = {s1, s2}
  Operators = {o1}
  RouteMapSets <- MCRouteMapSets
  ShardIds <- MCShardIds
  ShardedTables <- MCTables
  Requests <- MCRequests
  RangeSets <- MCRangeSets
  ListSets <- MCListSets
  Keys <- KeysUsed
  Hash <- MCHash
  PreviewFiles <- MCPreviewFiles
  PreviewRequests <- MCPreviewRequests
  MaxPriority = 9
  MaxGeneration = 2
INVARIANTS
  PolicyDecides
  DrainingAccurate
  HintHonoured
  KeyBelongsOnce
  PreviewIsThePlan
  PoolsOwned
  TextsRead
PROPERTIES
  RemovalNeedsOverride
