\* Two windows, one frame; an app may refuse to be shown, wimy may crash at any step.
SPECIFICATION Spec
CONSTANTS
  WindowID = {w1, w2}
  Frame = {f1}
  Centre = Centre
  Corner = Corner
  None = None
  Hidden = Hidden
  Out = Out
  MaxRetries = 1
  Refusals = {"show"}
INVARIANTS
  TypeOK
  CornerIsStored
  AtRestInPlace
PROPERTIES
  SavedBeforeMoved
  StartPutsBack
  PassesSettle
