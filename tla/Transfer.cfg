SPECIFICATION FairHSpec
CONSTANTS
  d1 = d1
  d2 = d2
  Domain = {d1, d2}
  Local = Local
  Batch <- OneForBoth
  ConnTimeout = 0
  PollTimeout = 1
PROPERTIES
  FateSpec
  BatchEnds
  RunSpec
CHECK_DEADLOCK FALSE
