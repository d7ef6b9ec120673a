\* A restart before the permission to run is there.
SPECIFICATION Spec
CONSTANTS
  Cmdline = {bar}
  Pid = {p1, p2, p3}
  NoPid = NoPid
  MaxEntries = 1
  MaxRestarts = 1
  StartsMayFail = FALSE
CHECK_DEADLOCK FALSE
INVARIANT
  TrackedMatchesConfig
