---------------------------- MODULE WmPlacement ----------------------------
(***************************************************************************)
(* What the backends render while the model changes: the layout of every   *)
(* state of Wm on every screen of a set of them.  The screens are no part  *)
(* of the state: whatever the geometry is when Layout runs, the properties *)
(* hold of what it returns.                                                *)
(***************************************************************************)
EXTENDS Wm, WmLayout

CONSTANT Screens  \* the geometries the layout is computed for

Box == [X : Int, Y : Int, W : Int, H : Int]

Screen == [area   : [OutputName -> Box],
           factor : Seq(Nat \ {0}),
           float  : Box,
           bar    : Nat,
           strip  : Nat]

ASSUME ScreensAssumption == Screens \subseteq Screen

\* The ids are numbers of 64 bits.
ASSUME WindowsAssumption == IsFiniteSet(WindowID)

areaOf(scr, i) == scr.area[wm.Outputs[i].Name]

viewOn(i) == wm.Views[wm.Outputs[i].View]

\* An output of no size has nothing on it.
HasArea(scr, i) == areaOf(scr, i).W > 0 /\ areaOf(scr, i).H > 0

-----------------------------------------------------------------------------
(* Invariants.                                                             *)

\* "A window appears at most once", and every managed window does: a window on
\* the views of two outputs is rendered on the first, and one that no output
\* renders is there as a hidden placement, so that a backend takes it off the
\* screen.
EachWindowPlacedOnce ==
  \A scr \in Screens :
    LET ps == Layout(wm, scr)
    IN \A id \in WindowID :
         Cardinality(PlacementsOf(ps, id)) = IF Managed(wm, id) THEN 1 ELSE 0

\* The focus is on something the user sees: when the active output renders the
\* focused window, it is neither hidden behind another of a max column, nor a
\* strip, nor out of the way of a fullscreen window, and it is the one
\* placement that is drawn as focused; when no output before the active one
\* shows it, the active output does render it, if it has any area.
FocusIsSeen ==
  wm.Focused # NoWindow =>
    \A scr \in Screens :
      LET ps == Layout(wm, scr)
          p  == placementOf(ps, wm.Focused)
      IN /\ p.Output = wm.FocusOutput => Hoverable(ps, wm.Focused)
         /\ {k \in DOMAIN ps : ps[k].Focused} \subseteq PlacementsOf(ps, wm.Focused)
         /\ /\ \A i \in 1..wm.FocusOutput - 1 : ~contains(viewOn(i), wm.Focused)
            /\ HasArea(scr, wm.FocusOutput)
            => p.Output = wm.FocusOutput /\ p.Focused

\* Wherever the focus is, a column shows what it selects: in stack and max mode
\* its own selection is the one window expanded ("Every column keeps its own,
\* so moving focus to another column leaves this one's arrangement untouched").
ColumnsShowTheirSelection ==
  \A scr \in Screens :
    LET ps == Layout(wm, scr)
    IN \A i \in DOMAIN wm.Outputs :
         ~(\E k \in DOMAIN ps : ps[k].Output = i /\ ps[k].Fullscreen) =>
           \A c \in {d \in ToSet(viewOn(i).Columns) : d.Mode # "default" /\ d.Windows # <<>>} :
             placementOf(ps, selected(c)).Output = i =>
               {id \in ToSet(c.Windows) : placementOf(ps, id).Output = i
                                          /\ Hoverable(ps, id)} = {selected(c)}

-----------------------------------------------------------------------------
(* The tiling area.                                                        *)

\* Output i renders the selection of every column of its view.
RendersSelections(ps, i) ==
  \A c \in ToSet(viewOn(i).Columns) :
    \E k \in PlacementsOf(ps, selected(c)) : ps[k].Output = i

\* Output i has a width factor for each column of its view, and is high enough
\* for a titlebar and a row of pixels of each window of a column.
HasRoom(scr, i) ==
  /\ Len(viewOn(i).Columns) <= Len(scr.factor)
  /\ \A c \in ToSet(viewOn(i).Columns) :
       Len(c.Windows) * (scr.bar + 1) <= areaOf(scr, i).H

\* The tiles of output i that show.
Tiles(ps, i) ==
  {k \in DOMAIN ps : /\ ps[k].Output = i /\ ~ps[k].Hidden
                     /\ ps[k].Layer = "tiled" \/ ps[k].Fullscreen}

\* Pixel <<x, y>> is in box r.
Covers(r, x, y) == x \in r.X..(r.X + r.W - 1) /\ y \in r.Y..(r.Y + r.H - 1)

\* No part of box a is outside b.
Inside(a, b) ==
  a.X >= b.X /\ a.Y >= b.Y /\ a.X + a.W <= b.X + b.W /\ a.Y + a.H <= b.Y + b.H

Pixels(r) == (r.X..(r.X + r.W - 1)) \X (r.Y..(r.Y + r.H - 1))

\* The tiles of an output fit together: columns of any widths and modes, strips,
\* titlebars and rounding remainders leave no pixel of the tiling area bare,
\* cover none twice and none outside it.
TilesFillTheArea ==
  \A scr \in Screens :
    LET ps == Layout(wm, scr)
        tile == [k \in DOMAIN ps |-> Extent(scr, ps[k])]
    IN \A i \in DOMAIN wm.Outputs :
         HasArea(scr, i) /\ HasRoom(scr, i) /\ RendersSelections(ps, i) =>
           /\ \A k \in Tiles(ps, i) : Inside(tile[k], areaOf(scr, i))
           /\ \A p \in Pixels(areaOf(scr, i)) :
                \E k \in Tiles(ps, i) :
                  \A l \in Tiles(ps, i) : Covers(tile[l], p[1], p[2]) <=> l = k
=============================================================================
