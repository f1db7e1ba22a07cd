SPECIFICATION FairSpec
CONSTANTS
  p2 = p2
  Providers = {p1}
  Streams = {s1, s2, s3}
  ProviderOf <- OneProviderOf
  Budget <- OneBudget
  Loops = {l1, l2, l3}
  HEADROOM_SLOTS = 1
  CONCURRENCY = 2
  BREAKER_TRIP_STREAK = 2
  MAX_STRIKES = 2
  MAX_WINDOWS = 1
INVARIANTS
  TypeOK
  ProbesArePolite
  OutageIsContained
PROPERTIES
  OneLoopGoesOn
