SPECIFICATION Spec
CONSTANTS
  Local = Local
  Name = {d1, d2, Local}
  NoName = NoName
  BufSize = 4
  MaxPieces = 5
  Domain = {d1, d2}
  Host = {h1, h2}
  NoHost = NoHost
  Prio <- TwoPrios
  Worst = 99
  MaxRecords = 2
  MaxAddresses = 2
  MaxFiles = 2
INVARIANTS
  TypeOK
  TextFits
  ReadsWellFormed
  BestIsFirst
  SocketsAccounted
  DomainsOfMails
  OthersOnly
  IInv
CHECK_DEADLOCK FALSE
