SPECIFICATION MCSpec
CONSTANTS
  null = null
  nothing = nothing
  several = several
  outOfRange = outOfRange
  duplicate = duplicate
  wrongType = wrongType
  tooFew = tooFew
  unknown = unknown
  stopped = stopped
  Holds <- HoldsValue
  Key <- KeyValue
  Number <- NumberValue
  Inner <- InnerValue
  Pipelines <- MCPipelines
  SourcesOf <- MCSourcesOf
  Continuations <- MCContinuations
  Items = {1, 2}
  MaxItems = 3
  Failing = {2}
  Traversers = {left, right}
CHECK_DEADLOCK FALSE
INVARIANTS YieldsWhatItMeans AbortIsHeard RepeatsTheSame
PROPERTY ReadsOnlyWhatItMust
