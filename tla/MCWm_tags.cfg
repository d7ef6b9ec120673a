\* One window, three tags, two outputs: views created and destroyed, cycled and swapped.
SPECIFICATION Spec
CONSTANTS
  WindowID = {w1}
  NoWindow = NoWindow
  Modes = {"default"}
  ViewName = {1, 2, 3}
  OutputName = {o1, o2}
  Screens <- MCScreens
  MaxSpecs = 1
  MaxColumns = 1
SYMMETRY Symmetry
INVARIANTS
  CyclingReachesEveryView
PROPERTIES
  LeftEmptyViewsDestroyed
