CONSTANTS
  Count = 4
  Limit = 2
  CompactAfter = 1
  Joins = {j1}
  Disposals = {d1}
SPECIFICATION FairSpec
INVARIANTS QueueIsServed NoTaskOutlivesTheScope
PROPERTIES FailureEndsTheScope EveryoneIsAnswered
CHECK_DEADLOCK FALSE
