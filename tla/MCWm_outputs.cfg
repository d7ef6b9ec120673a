\* Two outputs, two windows and two tags: what outputs, tags and views do to each other.
SPECIFICATION Spec
CONSTANTS
  WindowID = {w1, w2}
  NoWindow = NoWindow
  Modes = {"default"}
  ViewName = {1, 2}
  OutputName = {o1, o2}
  Screens <- MCScreens
  MaxSpecs = 1
  MaxColumns = 2
SYMMETRY Symmetry
INVARIANTS
  TypeOK
  WindowsMatchTags
  OutputsShowDistinctViews
  FocusFollowsMarkers
  EachWindowPlacedOnce
  FocusIsSeen
PROPERTIES
  ViewsKeepTheirFocus
  ImplementsTags
