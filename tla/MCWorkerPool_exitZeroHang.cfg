SPECIFICATION Spec
CONSTANTS
  None = None
  r1 = r1
  r2 = r2
  r3 = r3
  Runs = {r1, r2}
  Size = 1
  Count <- TwoEach
  Signalled = {}
  Streams = {r1}
  Platform = "node"
  Faults = {"exitsZero"}
INVARIANTS
  NoStrandedRun
CHECK_DEADLOCK FALSE
