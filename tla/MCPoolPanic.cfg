SPECIFICATION FairSpec
CONSTANTS
  Requests = {r1, r2}
  Questions = {a}
  Replies <- GoodReplies
  CacheEnabled = TRUE
  PanicSites = {"leader"}
  MaxTime = 0
  NoOne = NoOne
  MaxTtl = 2
  NegMaxTtl = 1
  StaleWindow = 1
  StaleServeTtl = 1
  PrefetchDivisor = 2
PROPERTIES
  FollowersSurvivePanic
CHECK_DEADLOCK FALSE
