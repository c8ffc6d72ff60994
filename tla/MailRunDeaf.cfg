SPECIFICATION Spec
CONSTANTS
  mixed = mixed
  remote = remote
  local = local
  bad = bad
  d1 = d1
  d2 = d2
  Local = Local
  File = {mixed, remote, local, bad}
  Domain = {d1, d2}
  To <- Recipients
  Unreadable = {bad}
  Faults <- CrashOnly
  MaxFailures = 0
  MaxDescriptors = 3
PROPERTY
  SleepsWhenEmpty
CHECK_DEADLOCK FALSE
