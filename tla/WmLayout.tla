------------------------------ MODULE WmLayout ------------------------------
(***************************************************************************)
(* The layout solver (internal/wm/layout.go): from a State and the         *)
(* geometry it does not hold here to the placements the backends render,   *)
(* in bottom-to-top order.  A screen scr is that geometry:                 *)
(*                                                                         *)
(*   area    the tiling area of each output, by its name                   *)
(*   factor  the width factor of each column, by its index, as integers    *)
(*           in a common unit                                              *)
(*   float   the floating rectangle of every window                        *)
(*   bar     TitlebarHeight                                                *)
(*   strip   StackStrip                                                    *)
(*                                                                         *)
(* Nothing here changes the State.                                         *)
(***************************************************************************)
EXTENDS WmState, Selection

\* The modes there are.
ASSUME ModesAssumption == Modes \subseteq {"default", "stack", "max"}

Rect(x, y, w, h) == [X |-> x, Y |-> y, W |-> w, H |-> h]

Lesser(a, b) == IF a < b THEN a ELSE b
Greater(a, b) == IF a > b THEN a ELSE b

\* The sums of the first 0, 1, 2, ... entries of q.
sums(q) ==
  LET sum[k \in 0..Len(q)] == IF k = 0 THEN 0 ELSE sum[k - 1] + q[k]
  IN sum

-----------------------------------------------------------------------------
(* Placements.                                                             *)

\* insetBar: the content box under the titlebar, at least one pixel high.
insetBar(scr, r) ==
  IF scr.bar = 0 THEN r
  ELSE [r EXCEPT !.Y = @ + scr.bar, !.H = Greater(@ - scr.bar, 1)]

\* An unmanaged, unplaced or unshown window.
hiddenPlacement(id) ==
  [ID |-> id, Rect |-> Rect(0, 0, 0, 0), Bar |-> FALSE, Strip |-> 0, Hidden |-> TRUE,
   Layer |-> "tiled", Focused |-> FALSE, Fullscreen |-> FALSE, Output |-> 0]

\* A window of output i in box r; strip > 0 when only that much of it shows.
put(s, scr, i, id, layer, r, strip, hidden) ==
  [ID |-> id, Rect |-> insetBar(scr, r), Bar |-> ~hidden /\ scr.bar > 0,
   Strip |-> strip, Hidden |-> hidden, Layer |-> layer, Focused |-> id = s.Focused,
   Fullscreen |-> FALSE, Output |-> i]

Collapsed(p) == p.Strip > 0

-----------------------------------------------------------------------------
(* One column.                                                             *)

\* Mutant of splitEvenly: the last window gets no more than the others.
splitWithoutRemainder(box, n) ==
  [k \in 1..n |-> Rect(box.X, box.Y + (k - 1) * (box.H \div n), box.W, box.H \div n)]

\* Default mode: equal heights, the remainder to the last.
splitEvenly(box, n) ==
  [k \in 1..n |->
     LET h == box.H \div n
     IN Rect(box.X, box.Y + (k - 1) * h, box.W,
             IF k = n THEN box.H - (n - 1) * h ELSE h)]

\* Stack mode, n > 1: the height of a collapsed strip, which leaves at least
\* half the box to the window that is expanded.
stripHeight(scr, box, n) ==
  LET wanted == Greater(IF scr.bar > 0 THEN scr.bar ELSE scr.strip, 1)
  IN Greater(1, Lesser(wanted, (box.H \div 2) \div (n - 1)))

\* Stack mode: window fi of n expanded, those above and below it in strips.
\* All have the height of the expanded one, of a collapsed one only a strip shows.
stackBoxes(box, n, fi, strip) ==
  LET focusH == box.H - (n - 1) * strip
  IN [k \in 1..n |-> Rect(box.X,
        box.Y + (IF k <= fi THEN (k - 1) * strip ELSE (k - 2) * strip + focusH),
        box.W, focusH)]

\* Mutant of expanded: the window the whole model has focused.
expandedByFocus(s, c) == s.Focused

\* Mutant of expanded: the top window of the column.
expandedTop(s, c) == IF c.Windows = <<>> THEN NoWindow ELSE c.Windows[1]

\* "The column's own selection decides what it expands/shows."
expanded(s, c) == selected(c)

layoutColumn(s, scr, i, c, box, placed) ==
  LET ids  == Selected(c.Windows, WindowID \ placed)
      n    == Len(ids)
      sel  == expanded(s, c)
      fi   == IF sel \in ToSet(ids) THEN IndexOf(ids, sel) ELSE 1
      mode == IF n = 1 THEN "default" ELSE c.Mode
      strip == stripHeight(scr, box, n)
  IN CASE n = 0 -> <<>>
       [] n > 0 /\ mode = "default" ->
            [k \in 1..n |-> put(s, scr, i, ids[k], "tiled", splitEvenly(box, n)[k], 0, FALSE)]
       [] n > 0 /\ mode = "stack" ->
            [k \in 1..n |-> put(s, scr, i, ids[k], "tiled", stackBoxes(box, n, fi, strip)[k],
                                IF k = fi THEN 0 ELSE strip, FALSE)]
       [] n > 0 /\ mode = "max" ->
            [k \in 1..n |-> put(s, scr, i, ids[k], "tiled", box, 0, ids[k] # sel)]

-----------------------------------------------------------------------------
(* One output and all of them.                                             *)

\* columnWidths: shares in proportion to the factors, rounded down ...
shares(scr, n, total) ==
  LET factors == SubSeq(scr.factor, 1, n)
  IN [ci \in 1..n |-> (total * factors[ci]) \div sums(factors)[n]]

\* ... and the rest to the last column.
columnBoxes(scr, n, area) ==
  LET share == shares(scr, n, area.W)
      acc   == sums(share)
  IN [ci \in 1..n |-> Rect(area.X + acc[ci - 1], area.Y,
                           IF ci < n THEN share[ci] ELSE area.W - acc[n - 1], area.H)]

\* Mutant of floatsOf: a window rendered on an earlier output is not skipped.
floatsAgain(v, placed) ==
  Selected(v.Float, WindowID \ {focusedWindow(v)})
  \o (IF v.FocusLayer = "floating" /\ v.Float # <<>> THEN <<focusedWindow(v)>> ELSE <<>>)

\* The floating windows to render, the focused one on top.
floatsOf(v, placed) ==
  Selected(v.Float, WindowID \ (placed \cup {focusedWindow(v)}))
  \o (IF v.FocusLayer = "floating" /\ focusedWindow(v) \notin placed \cup {NoWindow}
      THEN <<focusedWindow(v)>> ELSE <<>>)

\* Mutant of fullscreenOn: the fullscreen window need not have the focus.
fullscreenUnfocused(v, placed) == v.Fullscreen \notin placed \cup {NoWindow}

\* The fullscreen window fills the view "while it is the focused window".
fullscreenOn(v, placed) ==
  v.Fullscreen \notin placed \cup {NoWindow} /\ v.Fullscreen = focusedWindow(v)

\* The columns one after the other.
tiles(s, scr, i, v, boxes, placed) ==
  FlattenSeq([ci \in DOMAIN v.Columns |->
                layoutColumn(s, scr, i, v.Columns[ci], boxes[ci], placed)])

layoutOutput(s, scr, i, placed) ==
  LET v     == s.Views[s.Outputs[i].View]
      area  == scr.area[s.Outputs[i].Name]
      boxes == columnBoxes(scr, Len(v.Columns), area)
      floats == floatsOf(v, placed)
  IN IF ~exists(s, s.Outputs[i].View) \/ area.W <= 0 \/ area.H <= 0 THEN <<>>
     ELSE IF fullscreenOn(v, placed)
     THEN <<[put(s, scr, i, v.Fullscreen, v.FocusLayer, area, 0, FALSE) EXCEPT
               !.Rect = area, !.Bar = FALSE, !.Fullscreen = TRUE]>>
     ELSE tiles(s, scr, i, v, boxes, placed)
          \o [k \in DOMAIN floats |->
                put(s, scr, i, floats[k], "floating", scr.float, 0, FALSE)]

\* The ids of a sequence of placements.
IdsOf(ps) == {ps[k].ID : k \in DOMAIN ps}

\* The placements of the first n outputs, each window on the first that renders it.
shownUpTo(s, scr) ==
  LET shown[n \in 0..Len(s.Outputs)] ==
        IF n = 0 THEN <<>>
        ELSE shown[n - 1] \o layoutOutput(s, scr, n, IdsOf(shown[n - 1]))
  IN shown

\* Layout: the outputs in order, and the windows left over, hidden, in the order
\* of a Go map.
Layout(s, scr) ==
  LET shown == shownUpTo(s, scr)[Len(s.Outputs)]
      rest  == SetToSeq({id \in WindowID : Managed(s, id)} \ IdsOf(shown))
  IN shown \o [k \in DOMAIN rest |-> hiddenPlacement(rest[k])]

\* The placements of a window (one: see EachWindowPlacedOnce).
PlacementsOf(ps, id) == {k \in DOMAIN ps : ps[k].ID = id}

placementOf(ps, id) == ps[CHOOSE k \in PlacementsOf(ps, id) : TRUE]

\* Hoverable: neither hidden nor a strip of a stack column.
Hoverable(ps, id) ==
  \E k \in PlacementsOf(ps, id) : ~ps[k].Hidden /\ ~Collapsed(ps[k])

\* The part of the screen a tiled placement covers, its titlebar included.
Extent(scr, p) ==
  LET top  == IF p.Bar THEN scr.bar ELSE 0
      full == Rect(p.Rect.X, p.Rect.Y - top, p.Rect.W, p.Rect.H + top)
  IN IF Collapsed(p) THEN [full EXCEPT !.H = p.Strip] ELSE full
=============================================================================
