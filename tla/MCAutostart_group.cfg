\* A shell that ends at SIGTERM and its command that does not.
SPECIFICATION Spec
CONSTANTS
  Cmdline = {bar}
  Pid = {p1, p2}
  NoPid = NoPid
  MaxEntries = 1
  MaxRestarts = 0
  StartsMayFail = FALSE
CHECK_DEADLOCK FALSE
PROPERTY
  TerminatedGroupsEnd
