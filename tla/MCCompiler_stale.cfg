CONSTANTS
  Rounds = 2
  LookedAt = {"host"}
  Shapes = {"straight", "if", "logical", "conditional", "while", "test", "branches", "nested", "for", "break", "forOf", "do", "switch", "cases", "return", "try", "finally", "function", "thrown", "returned", "labelled"}
  MAX_DEPTH = 3
  MAX_EXPLAINED = 2
  MAX_DESCRIBED = 2
  Depth = 2
  unwritten = unwritten
  MaxSteps = 3
SPECIFICATION MCSpec
INVARIANT TransformsTheCurrentContent
CHECK_DEADLOCK FALSE
