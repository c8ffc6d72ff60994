SPECIFICATION Spec
CONSTANTS
  d1 = d1
  d2 = d2
  d3 = d3
  Domain = {d1, d2, d3}
  Batch <- Staggered
  ConnTimeout = 0
  PollTimeout = 1
CONSTRAINT ThirdRefuses
INVARIANTS
  TypeOK
  CommandsInOrder
  MessagesWhole
  DoneMeansAccepted
  SentMeansAccepted
  NoMutualWait
  ScanStaysInside
  IInv
PROPERTY
  NoRevival
CHECK_DEADLOCK FALSE
