SPECIFICATION FairSpec
CONSTANTS
  SocketSize = 3
  Faults <- AnyFault
  Mortal <- AnyProcess
INVARIANTS
  TypeOK
  AllPrinted
  TerminalRestored
  IInv
PROPERTIES
  QuitEndsAll
  NoBlindRun
CHECK_DEADLOCK FALSE
