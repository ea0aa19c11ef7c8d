SPECIFICATION Spec
CONSTANTS
  None = None
  r1 = r1
  r2 = r2
  r3 = r3
  Runs = {r1, r2}
  Size = 2
  Count <- TwoEach
  Signalled = {r1}
  Streams = {r1}
  Platform = "node"
  Faults = {"load", "task", "dies", "postThrows", "exitsInStart"}
INVARIANTS
  SetsAreSound
  NoStrandedRun
  ResultsAreOwn
  CloseLeavesNoThread
PROPERTIES
  ClosedStartsNothing
CHECK_DEADLOCK FALSE
