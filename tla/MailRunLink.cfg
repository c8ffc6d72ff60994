SPECIFICATION Spec
CONSTANTS
  mixed = mixed
  remote = remote
  local = local
  bad = bad
  d1 = d1
  d2 = d2
  Local = Local
  File = {mixed, remote, local, bad}
  Domain = {d1, d2}
  To <- Recipients
  Unreadable = {}
  Faults <- LinkOnly
  MaxFailures = 1
  MaxDescriptors = 3
INVARIANT
  LocalMailKept
CHECK_DEADLOCK FALSE
