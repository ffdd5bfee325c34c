CONSTANTS
  Requests = {m1, m2}
  NumProcessors = 2
  CacheSize = 1
  MaxConnections = 3
  NoRequest = NoRequest
SPECIFICATION Spec
INVARIANTS TypeOK NotTwiceAtOnce CacheIsLive AnsweredUnlessLost
PROPERTY EventuallyAnswered
CHECK_DEADLOCK FALSE
