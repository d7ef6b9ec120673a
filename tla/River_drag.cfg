\* One window, two events before each manage sequence.
SPECIFICATION Spec
CONSTANTS
  WindowID = {w1}
  None = None
  MaxEvents = 2
  MaxMotion = 1
CHECK_DEADLOCK FALSE
INVARIANT
  DragFollowsPointer
