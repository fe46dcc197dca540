\* Three calls for three prefixes and a cache of two; requests that take all of their
\* timeout, one retry, and a backoff cap low enough to bite.  Or a batch of
\* five items with two permits, whose caller may go away.
SPECIFICATION ServiceSpec
CONSTANTS
  Calls = {"c1", "c2", "c3"}
  Keys = {"k1", "k2", "k3"}
  Suffixes = {"s1", "s2"}
  Capacity = 2
  MaxRetries = 1
  BackoffBase = 50
  BackoffMax = 40
  Timeout = 280
  Durations = {280}
  Horizon = 1000
  Items = 5
  Concurrency = 2
INVARIANTS
  CacheConsistent
  AnswersFit
  SpendingBounded
PROPERTIES
  CallsReturn
  BatchReturns
CHECK_DEADLOCK FALSE
