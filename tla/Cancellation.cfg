CONSTANTS
  Count = 4
  Handlers = {h1, h2}
SPECIFICATION Spec
INVARIANTS NothingStranded HandlersHear ConstantDepth
CHECK_DEADLOCK FALSE
