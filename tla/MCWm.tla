-------------------------------- MODULE MCWm --------------------------------
(***************************************************************************)
(* Model checking of Wm: windows are interchangeable, and so are the names *)
(* of outputs, so permuting them is a symmetry of the specification and of *)
(* its properties.  The properties of the layout are checked here on small *)
(* screens, in every state the model reaches.                              *)
(***************************************************************************)
EXTENDS WmRefinement, WmPlacement

Symmetry == Permutations(WindowID) \cup Permutations(OutputName)

-----------------------------------------------------------------------------
(* The screens: areas too narrow and too low for columns and rows to come   *)
(* out even, without and with titlebars, columns of equal and of different  *)
(* width, a column of no width; and outputs without an area.  Every output  *)
(* may have every area, which keeps the screens symmetric.                  *)

screenOf(areas, factors, bar) ==
  [area |-> areas, factor |-> factors, float |-> Rect(3, 4, 6, 5), bar |-> bar, strip |-> 2]

tiled == Rect(5, 1, 7, 8)

MCScreens ==
  {screenOf([o \in OutputName |-> tiled], factors, bar) :
     factors \in {<<2, 2, 2, 2>>, <<2, 3, 1, 4>>}, bar \in {0, 1}}
  \cup {screenOf(areas, <<2, 2, 2, 2>>, 0) :
          areas \in [OutputName -> {tiled, Rect(5, 1, 0, 8)}]}
=============================================================================
