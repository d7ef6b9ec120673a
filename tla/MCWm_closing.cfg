\* A window in a column left of the focused one closes.
SPECIFICATION Spec
CONSTANTS
  WindowID = {w1, w2, w3}
  NoWindow = NoWindow
  Modes = {"default", "max"}
  ViewName = {1}
  OutputName = {o1}
  Screens <- MCScreens
  MaxSpecs = 1
  MaxColumns = 3
PROPERTY
  ClosingKeepsFocus
