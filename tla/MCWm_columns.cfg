\* Four windows on one view of one output: columns, selections, both layers.
SPECIFICATION Spec
CONSTANTS
  WindowID = {w1, w2, w3, w4}
  NoWindow = NoWindow
  Modes = {"default", "stack", "max"}
  ViewName = {1}
  OutputName = {o1}
  Screens <- MCScreens
  MaxSpecs = 2
  MaxColumns = 4
SYMMETRY Symmetry
INVARIANTS
  PlacedOnce
  MarkersInRange
  EveryWindowCanBeFocused
  FocusIsSeen
  ColumnsShowTheirSelection
  TilesFillTheArea
PROPERTIES
  ClosingKeepsSelections
  MovingGoesOneStep
