SPECIFICATION FairSpec
CONSTANTS
  Queries = {t1, t2}
  UpstreamCount = 2
  PlainOnes = {1}
  NoOne = NoOne
INVARIANTS
  DialingAlone
  RedialsOnlyTheLost
  RetriesOnAnother
  GivesUpOnlyAfterTwo
PROPERTIES
  EveryQueryEnds
CHECK_DEADLOCK FALSE
