SPECIFICATION FairSpec
CONSTANTS
  Requests = {r1, r2, r3}
  Questions = {a}
  Replies <- MixedReplies
  CacheEnabled = TRUE
  PanicSites = {"refresh", "direct"}
  MaxTime = 2
  NoOne = NoOne
  MaxTtl = 2
  NegMaxTtl = 1
  StaleWindow = 1
  StaleServeTtl = 1
  PrefetchDivisor = 2
PROPERTIES
  ImplementsService
  EveryRequestAnswered
CHECK_DEADLOCK FALSE
