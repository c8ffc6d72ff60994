SPECIFICATION Spec
CONSTANTS
  Local = Local
  Name = {d1, d2, Local}
  NoName = NoName
  BufSize = 4
  MaxPieces = 5
  Domain = {d1, d2}
  Host = {h1}
  NoHost = NoHost
  Prio <- TwoPrios
  Worst = 99
  MaxRecords = 1
  MaxAddresses = 1
  MaxFiles = 1
INVARIANT
  OneSocketPerMx
CHECK_DEADLOCK FALSE
