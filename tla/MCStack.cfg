SPECIFICATION MCSpec
CONSTANTS
  Requests = {r1, r2, r3}
  Questions = {a}
  Replies <- OneReply
  CacheEnabled = TRUE
  PanicSites = {"refresh", "direct"}
  MaxTime = 0
  NoOne = NoOne
  MaxTtl = 2
  NegMaxTtl = 1
  StaleWindow = 1
  StaleServeTtl = 1
  PrefetchDivisor = 1
  UpstreamCount = 1
  PlainOnes = {1}
INVARIANTS
  FailureIsEarned
PROPERTIES
  FetchesEnd
CHECK_DEADLOCK FALSE
