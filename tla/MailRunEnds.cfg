SPECIFICATION FairSpec
CONSTANTS
  mixed = mixed
  remote = remote
  local = local
  bad = bad
  d1 = d1
  d2 = d2
  Local = Local
  File = {mixed, remote, local, bad}
  Domain = {d1, d2}
  To <- Recipients
  Unreadable = {remote}
  Faults <- ButLink
  MaxFailures = 2
  MaxDescriptors = 3
INVARIANT
  LocalMailKept
PROPERTIES
  QuitStops
  NewIsEmptied
CHECK_DEADLOCK FALSE
