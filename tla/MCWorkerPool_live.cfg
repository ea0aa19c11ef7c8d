SPECIFICATION FairSpec
CONSTANTS
  None = None
  r1 = r1
  r2 = r2
  r3 = r3
  Runs = {r1, r2, r3}
  Size = 1
  Count <- TwoOneNone
  Signalled = {r1}
  Streams = {r1}
  Platform = "node"
  Faults = {"load", "task", "dies"}
PROPERTIES
  EveryCallSettles
  ImplementsRunQueue
CHECK_DEADLOCK FALSE
