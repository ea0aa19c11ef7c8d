CONSTANTS
  Count = 4
  Limits = {1, 2, 3}
SPECIFICATION FairSpec
INVARIANTS HandsOverInOrder EndsCleanly
PROPERTIES FirstFailureEndsIt EveryAskIsAnswered
CHECK_DEADLOCK FALSE
