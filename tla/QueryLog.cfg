SPECIFICATION FairSpec
CONSTANTS
  Requests = {q1, q2, q3, q4}
  Viewers = {v1}
  Cap = 2
  Capacity = 2
  MaxRows = 3
INVARIANTS
  RingHoldsTheLatest
  StreamsInOrder
  SkipsOnlyTheLost
  RowsAreAccountedFor
PROPERTIES
  ReachesLivePages
CHECK_DEADLOCK FALSE
