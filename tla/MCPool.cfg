SPECIFICATION Spec
CONSTANTS
  Requests = {r1, r2, r3}
  Questions = {a, b}
  Replies <- AllReplies
  CacheEnabled = TRUE
  PanicSites = {"leader", "refresh", "direct"}
  MaxTime = 3
  NoOne = NoOne
  MaxTtl = 2
  NegMaxTtl = 1
  StaleWindow = 1
  StaleServeTtl = 1
  PrefetchDivisor = 2
SYMMETRY Symmetry
INVARIANTS
  TypeOK
  RefreshExclusive
  SingleFlight
  FollowersConnected
  FollowersShareAnswer
  CachedNeverFails
  MetricsAgree
PROPERTIES
  ServesWithinLifetime
CHECK_DEADLOCK FALSE
