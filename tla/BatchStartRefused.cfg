SPECIFICATION Spec
CONSTANTS
  Local = Local
  Name = {d1, Local}
  NoName = NoName
  BufSize = 4
  MaxPieces = 4
  Domain = {d1}
  Host = {h1}
  NoHost = NoHost
  Prio <- TwoPrios
  Worst = 99
  MaxRecords = 1
  MaxAddresses = 2
  MaxFiles = 1
INVARIANT
  SocketMeansConnected
CHECK_DEADLOCK FALSE
