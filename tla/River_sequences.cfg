\* One window, up to three events before each manage sequence.
SPECIFICATION Spec
CONSTANTS
  WindowID = {w1}
  None = None
  MaxEvents = 3
  MaxMotion = 0
CHECK_DEADLOCK FALSE
INVARIANTS
  TypeOK
  RenderedAsPlaced
PROPERTIES
  RestingPointerKeepsFocus
