---------------------------- MODULE WmRefinement ----------------------------
(***************************************************************************)
(* Wm implements WmTags: the windows found in the columns and floating     *)
(* layers of the views are those that carry the tags, and outputs, focus   *)
(* and tags move as WmTags says.                                           *)
(***************************************************************************)
EXTENDS Wm

outputNamed(o) == CHOOSE i \in DOMAIN wm.Outputs : wm.Outputs[i].Name = o

Promise == INSTANCE WmTags WITH
  tags     <- wm.Tags,
  arranged <- [n \in ViewName |-> WindowsOf(wm.Views[n])],
  shown    <- [o \in OutputNames |-> wm.Outputs[outputNamed(o)].View],
  active   <- IF wm.Outputs = <<>> THEN {} ELSE {wm.Outputs[wm.FocusOutput].Name},
  focus    <- wm.Focused

\* Every step of the model is a step of its promise, or changes nothing of it:
\* layouts hold exactly the windows tagged for them, no operation but a retag
\* of the focused window changes tags, selecting a view swaps and never takes,
\* a new window has the focus iff the active view shows it, and the focus is
\* on the active output's view.
ImplementsTags == Promise!Spec
=============================================================================
