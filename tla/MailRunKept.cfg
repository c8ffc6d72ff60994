SPECIFICATION Spec
CONSTANTS
  mixed = mixed
  remote = remote
  local = local
  bad = bad
  d1 = d1
  d2 = d2
  Local = Local
  File = {mixed, remote, local, bad}
  Domain = {d1, d2}
  To <- Recipients
  Unreadable = {}
  Faults <- Fault
  MaxFailures = 2
  MaxDescriptors = 3
INVARIANTS
  TypeOK
  NoMailVanishes
  CopiesCostFailures
  IInv
CHECK_DEADLOCK FALSE
