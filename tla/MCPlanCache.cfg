SPECIFICATION FairCacheSpec
CONSTANTS
  Owners <- MCOwners
  HeirLists <- MCHeirLists
  Filters <- MCFilters
  NormalForm <- MCNormalForm
  Statistics = Statistics
  QueryMixes <- MCQueryMixes
  Requests = {r1, r2}
  MaxWrites = 2
  MaxFaults = 1
INVARIANTS
  OutdatedIsExplained
PROPERTIES
  OutdatedGoesAway
CHECK_DEADLOCK FALSE
