SPECIFICATION Spec
CONSTANTS
  d1 = d1
  d2 = d2
  d3 = d3
  Domain = {d1, d2}
  Batch <- OneMail
  ConnTimeout = 1
  PollTimeout = 1
INVARIANT
  DeletedMeansDelivered
CHECK_DEADLOCK FALSE
