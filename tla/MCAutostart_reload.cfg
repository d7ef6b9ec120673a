\* Reloads with every list, a restart in place and starts that fail: two command
\* lines, three processes.
SPECIFICATION Spec
CONSTANTS
  Cmdline = {bar, wallpaper}
  Pid = {p1, p2, p3}
  NoPid = NoPid
  MaxEntries = 2
  MaxRestarts = 1
  StartsMayFail = TRUE
CHECK_DEADLOCK FALSE
INVARIANTS
  TypeOK
  TrackedWithinConfig
  NoStrayProcess
  ExitsAreNoticed
PROPERTIES
  OnlyDroppedAreTerminated
  ReloadBringsAllUp
  TerminatedProcessesEnd
