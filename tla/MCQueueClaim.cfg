SPECIFICATION Spec
CONSTANTS
  w1 = w1
  w2 = w2
  Agents = {1, 2}
  KindOf <- KindOfEach
  Workers = {w1, w2}
  Setups <- AllSetups
  BatchLimit = 2
  BufferSize = 2
  FetchLimit = 2
  MaxAborts = 1
  MaxReleases = 1
INVARIANTS
  ClaimsAreExclusive
  UnprefetchedClaimsMatch
  StrictOrder
PROPERTIES
  NewIsClaimed
