------------------------------- MODULE WmView -------------------------------
(***************************************************************************)
(* One tag view of the window-management model: its columns, its floating  *)
(* layer, its focus markers, and the methods that edit them               *)
(* (internal/wm/types.go).  Everything here is a pure operator on a view   *)
(* record; WmState builds the operations of the whole State from them.     *)
(*                                                                         *)
(* Indices are 1-based here and 0-based in the code.  The id 0, "none", is *)
(* NoWindow.  A column's width factor is left out: no operation modelled   *)
(* here reads it.                                                          *)
(***************************************************************************)
EXTENDS Integers, Sequences, FiniteSets, SequencesExt

CONSTANTS
  WindowID,  \* the ids windows may have
  NoWindow,  \* the id 0: no window
  Modes      \* the column modes in use, "default" among them

ASSUME ViewAssumption ==
  /\ NoWindow \notin WindowID
  /\ "default" \in Modes

Layer == {"tiled", "floating"}

Column == [Windows : Seq(WindowID), Mode : Modes, Sel : Nat]

View == [Columns    : Seq(Column),
         Float      : Seq(WindowID),
         FocusCol   : Nat,
         FocusFloat : Nat,
         FocusLayer : Layer,
         Fullscreen : WindowID \cup {NoWindow}]

NewColumn(ids) == [Windows |-> ids, Mode |-> "default", Sel |-> 1]

\* The view ensureView creates.
NewView == [Columns    |-> <<NewColumn(<<>>)>>,
            Float      |-> <<>>,
            FocusCol   |-> 1,
            FocusFloat |-> 1,
            FocusLayer |-> "tiled",
            Fullscreen |-> NoWindow]

-----------------------------------------------------------------------------
(* Reading a view.                                                         *)

InColumn(v, id) == \E ci \in DOMAIN v.Columns : id \in ToSet(v.Columns[ci].Windows)

FloatContains(v, id) == id \in ToSet(v.Float)

contains(v, id) == InColumn(v, id) \/ FloatContains(v, id)

\* The index of id in a sequence that holds it.
IndexOf(ids, id) == CHOOSE i \in DOMAIN ids : ids[i] = id

\* The column of a window that is in one (in at most one: see WindowsMatchTags).
ColumnOf(v, id) == CHOOSE ci \in DOMAIN v.Columns : id \in ToSet(v.Columns[ci].Windows)

empty(v) ==
  /\ \A ci \in DOMAIN v.Columns : v.Columns[ci].Windows = <<>>
  /\ v.Float = <<>>

selected(c) == IF c.Sel \in DOMAIN c.Windows THEN c.Windows[c.Sel] ELSE NoWindow

focusedWindow(v) ==
  IF v.FocusLayer = "floating"
  THEN IF v.FocusFloat \in DOMAIN v.Float THEN v.Float[v.FocusFloat] ELSE NoWindow
  ELSE IF v.FocusCol \in DOMAIN v.Columns THEN selected(v.Columns[v.FocusCol]) ELSE NoWindow

-----------------------------------------------------------------------------
(* Editing a view.                                                         *)

\* The index i brought within 1..n, or to 1 when there is nothing to index.
Clamped(i, n) == IF i > n /\ n > 0 THEN n ELSE IF i < 1 \/ n = 0 THEN 1 ELSE i

clampSel(c) == [c EXCEPT !.Sel = Clamped(@, Len(c.Windows))]

clampFocus(v) ==
  LET cols == IF v.Columns = <<>> THEN <<NewColumn(<<>>)>> ELSE v.Columns
  IN [v EXCEPT
        !.Columns    = [ci \in DOMAIN cols |-> clampSel(cols[ci])],
        !.FocusCol   = Clamped(@, Len(cols)),
        !.FocusFloat = Clamped(@, Len(v.Float)),
        !.FocusLayer = IF v.Float = <<>> THEN "tiled"
                       ELSE IF v.Columns = <<>> THEN "floating"
                       ELSE @]

\* The sequence of columns with column ci gone if nothing is left in it.
WithColumn(cols, ci, c) ==
  IF c.Windows = <<>> THEN RemoveAt(cols, ci) ELSE [cols EXCEPT ![ci] = c]

\* Mutant of WithoutRow: the selection keeps its number, not its window.
WithoutRowUnshifted(c, ri) == [c EXCEPT !.Windows = RemoveAt(@, ri)]

\* Column c without its window at row ri; the selection stays on its window.
WithoutRow(c, ri) ==
  [c EXCEPT !.Windows = RemoveAt(@, ri), !.Sel = IF @ > ri THEN @ - 1 ELSE @]

\* Mutant of removeFromView: the markers are left as they were.
removeFromViewUnclamped(v, id) ==
  IF InColumn(v, id)
  THEN LET ci == ColumnOf(v, id)
           c  == v.Columns[ci]
       IN [v EXCEPT !.Columns = WithColumn(@, ci, WithoutRow(c, IndexOf(c.Windows, id)))]
  ELSE [v EXCEPT !.Float = SelectSeq(@, LAMBDA w : w # id)]

removeFromView(v, id) ==
  IF InColumn(v, id)
  THEN LET ci == ColumnOf(v, id)
           c  == v.Columns[ci]
       IN clampFocus([v EXCEPT !.Columns =
            WithColumn(@, ci, WithoutRow(c, IndexOf(c.Windows, id)))])
  ELSE IF FloatContains(v, id)
  THEN clampFocus([v EXCEPT !.Float = RemoveAt(@, IndexOf(@, id))])
  ELSE v

\* The column addToView appends to; the markers of a view always hit one, the
\* other branches are the code's defence against a view without columns.
addToView(v, id, floating) ==
  IF contains(v, id) THEN v
  ELSE IF floating THEN [v EXCEPT !.Float = Append(@, id)]
  ELSE IF v.Columns = <<>>
  THEN [v EXCEPT !.Columns = <<NewColumn(<<id>>)>>, !.FocusCol = 1]
  ELSE LET fc == IF v.FocusCol \in DOMAIN v.Columns THEN v.FocusCol ELSE Len(v.Columns)
       IN [v EXCEPT !.FocusCol = fc, !.Columns[fc].Windows = Append(@, id)]

\* Mutant of focusWindow: a tiled window does not take the focus from the
\* floating layer.
focusWindowOnItsLayer(v, id) ==
  IF InColumn(v, id)
  THEN LET ci == ColumnOf(v, id)
       IN [v EXCEPT !.FocusCol = ci,
                    !.Columns[ci].Sel = IndexOf(v.Columns[ci].Windows, id)]
  ELSE IF FloatContains(v, id)
  THEN [v EXCEPT !.FocusFloat = IndexOf(v.Float, id), !.FocusLayer = "floating"]
  ELSE v

\* focusWindow moves the focus markers to a window of the view.
focusWindow(v, id) ==
  IF InColumn(v, id)
  THEN LET ci == ColumnOf(v, id)
       IN [v EXCEPT !.FocusCol = ci,
                    !.Columns[ci].Sel = IndexOf(v.Columns[ci].Windows, id),
                    !.FocusLayer = "tiled"]
  ELSE IF FloatContains(v, id)
  THEN [v EXCEPT !.FocusFloat = IndexOf(v.Float, id), !.FocusLayer = "floating"]
  ELSE v
=============================================================================
