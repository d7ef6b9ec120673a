------------------------------ MODULE WmLemmas -------------------------------
(***************************************************************************)
(* What the operators on one view (WmView) and the operations of WmState   *)
(* return and preserve.  First their types: the lemmas about numbers,      *)
(* sequences, views and states that TypeCorrect rests on.  Then what the   *)
(* edits of one view do to the windows on it and to its markers: no window *)
(* is placed twice, none is lost, the markers point into the view, and the *)
(* focus goes where the edit puts it.                                      *)
(***************************************************************************)
EXTENDS Wm, TLAPS, FiniteSetTheorems, SequenceTheorems, WellFoundedInduction

-----------------------------------------------------------------------------
(* Numbers and sequences.                                                  *)

\* A set of natural numbers that is not empty has a least element.
LEMMA LeastExists ==
  ASSUME NEW S, S \subseteq Nat, S # {}
  PROVE  \E n \in S : \A m \in S : n <= m
<1> DEFINE upTo(n) == 1..n
           R == StrictSubsetOrdering(Nat)
           T == {upTo(n) : n \in S}
<1>1. IsWellFoundedOn(R, FiniteSubsetsOf(Nat))
  BY FS_StrictSubsetOrderingWellFounded
<1>2. T \subseteq FiniteSubsetsOf(Nat) /\ T # {}
  <2>1. \A n \in S : upTo(n) \in SUBSET Nat /\ IsFiniteSet(upTo(n))
    BY FS_Interval
  <2> QED BY <2>1 DEF FiniteSubsetsOf
<1>3. PICK I \in T : \A J \in T : ~ (<<J, I>> \in R)
  BY <1>1, <1>2, WFMin
<1>4. PICK n \in S : I = upTo(n)
  OBVIOUS
<1>5. ASSUME NEW m \in S, m < n PROVE FALSE
  <2>1. upTo(m) \subseteq upTo(n) /\ n \in upTo(n) /\ n \notin upTo(m)
    BY <1>5
  <2>2. <<upTo(m), upTo(n)>> \in R
    BY <2>1 DEF StrictSubsetOrdering
  <2> QED BY <1>3, <1>4, <2>2
<1> QED BY <1>5

LEMMA LeastType ==
  ASSUME NEW S, S \subseteq Nat, S # {}
  PROVE  Least(S) \in S /\ \A m \in S : Least(S) <= m
BY LeastExists DEF Least

LEMMA ClampedType ==
  ASSUME NEW i \in Nat, NEW n \in Nat
  PROVE  /\ Clamped(i, n) \in Nat
         /\ n > 0 => Clamped(i, n) \in 1..n
         /\ n = 0 => Clamped(i, n) = 1
BY DEF Clamped

\* A sequence given element by element.
LEMMA MappedSeqType ==
  ASSUME NEW T, NEW n \in Nat, NEW q, q = [i \in 1..n |-> q[i]], \A i \in 1..n : q[i] \in T
  PROVE  q \in Seq(T)
OBVIOUS

\* A sequence with an element replaced, at an index it need not have.
LEMMA SeqExceptType ==
  ASSUME NEW T, NEW q \in Seq(T), NEW i, NEW e, i \in 1..Len(q) => e \in T
  PROVE  [q EXCEPT ![i] = e] \in Seq(T)
<1>1. CASE i \in 1..Len(q)
  BY <1>1, ExceptSeq
<1>2. CASE i \notin 1..Len(q)
  <2>1. q = [j \in 1..Len(q) |-> q[j]]
    OBVIOUS
  <2>2. [q EXCEPT ![i] = e] = [j \in 1..Len(q) |-> q[j]]
    BY <1>2
  <2> QED BY <2>1, <2>2
<1> QED BY <1>1, <1>2

\* Removing one element of a sequence.
LEMMA RemoveAtType ==
  ASSUME NEW T, NEW q \in Seq(T), NEW i \in 1..Len(q)
  PROVE  /\ RemoveAt(q, i) \in Seq(T)
         /\ Len(RemoveAt(q, i)) = Len(q) - 1
         /\ \A j \in 1..Len(q) - 1 :
              RemoveAt(q, i)[j] = IF j < i THEN q[j] ELSE q[j + 1]
<1> DEFINE l == SubSeq(q, 1, i - 1)
           r == SubSeq(q, i + 1, Len(q))
<1>1. /\ l \in Seq(T) /\ Len(l) = i - 1
      /\ \A j \in 1..i - 1 : l[j] = q[j]
  BY SubSeqProperties, ElementOfSeq, i - 1 \in Int
<1>2. /\ r \in Seq(T) /\ Len(r) = Len(q) - i
      /\ \A j \in 1..Len(q) - i : r[j] = q[i + j]
  BY SubSeqProperties, ElementOfSeq, i + 1 \in Int
<1> HIDE DEF l, r
<1>3. Len(q) \in Nat /\ Len(l) + Len(r) = Len(q) - 1
  BY <1>1, <1>2
<1>4. /\ l \o r \in Seq(T)
      /\ Len(l \o r) = Len(l) + Len(r)
      /\ \A j \in 1..Len(l) + Len(r) : (l \o r)[j] = IF j <= Len(l) THEN l[j] ELSE r[j - Len(l)]
  BY <1>1, <1>2, ConcatProperties
<1>5. ASSUME NEW j \in 1..Len(q) - 1
      PROVE  (l \o r)[j] = IF j < i THEN q[j] ELSE q[j + 1]
  <2>1. CASE j < i
    BY <1>1, <1>3, <1>4, <2>1
  <2>2. CASE ~(j < i)
    <3>1. j - Len(l) \in 1..Len(q) - i /\ i + (j - Len(l)) = j + 1 /\ ~(j <= Len(l))
      BY <1>1, <1>3, <2>2
    <3>2. r[j - Len(l)] = q[i + (j - Len(l))]
      BY <1>2, <3>1
    <3> QED BY <1>3, <1>4, <2>2, <3>1, <3>2
  <2> QED BY <2>1, <2>2
<1>6. RemoveAt(q, i) = l \o r
  BY DEF RemoveAt, l, r
<1> QED BY <1>3, <1>4, <1>5, <1>6

LEMMA IndexOfType ==
  ASSUME NEW T, NEW q \in Seq(T), NEW id \in ToSet(q)
  PROVE  IndexOf(q, id) \in 1..Len(q) /\ q[IndexOf(q, id)] = id
BY DEF IndexOf, ToSet
-----------------------------------------------------------------------------
(* The operators of WmView return views.                                   *)

LEMMA NewColumnType ==
  ASSUME NEW ids \in Seq(WindowID)
  PROVE  NewColumn(ids) \in Column
BY ViewAssumption DEF NewColumn, Column

\* The new column without windows, and the one with a single window.
LEMMA NewColumnTypes ==
  /\ NewColumn(<<>>) \in Column
  /\ \A id \in WindowID : NewColumn(<<id>>) \in Column
<1>1. <<>> \in Seq(WindowID) /\ \A id \in WindowID : <<id>> \in Seq(WindowID)
  OBVIOUS
<1> QED BY <1>1, NewColumnType

LEMMA NewViewType == NewView \in View
<1>1. NewColumn(<<>>) \in Column
  BY NewColumnTypes
<1> QED BY <1>1 DEF NewView, View, Layer

LEMMA FocusedWindowType ==
  ASSUME NEW v \in View
  PROVE  focusedWindow(v) \in WindowID \cup {NoWindow}
<1>1. v.Columns \in Seq(Column) /\ v.Float \in Seq(WindowID)
  BY DEF View
<1>2. ASSUME NEW c \in Column PROVE selected(c) \in WindowID \cup {NoWindow}
  BY DEF selected, Column
<1> QED BY <1>1, <1>2 DEF focusedWindow

\* A view with other columns and another column focused.
LEMMA ViewWithColumns ==
  ASSUME NEW v \in View, NEW cols \in Seq(Column), NEW fc \in Nat
  PROVE  /\ [v EXCEPT !.FocusCol = fc, !.Columns = cols] \in View
         /\ [v EXCEPT !.Columns = cols, !.FocusCol = fc] \in View
         /\ [v EXCEPT !.FocusCol = fc, !.Columns = cols, !.FocusLayer = "tiled"] \in View
BY DEF View, Layer

\* A sequence of columns with one replaced, or mapped column by column.
LEMMA WithColumnType ==
  ASSUME NEW cols \in Seq(Column), NEW ci \in 1..Len(cols), NEW c \in Column
  PROVE  WithColumn(cols, ci, c) \in Seq(Column)
<1>1. RemoveAt(cols, ci) \in Seq(Column)
  BY RemoveAtType
<1> QED BY <1>1 DEF WithColumn

LEMMA ClampSelType ==
  ASSUME NEW c \in Column
  PROVE  clampSel(c) \in Column
<1>1. c.Sel \in Nat /\ Len(c.Windows) \in Nat
  BY DEF Column
<1>2. Clamped(c.Sel, Len(c.Windows)) \in Nat
  BY <1>1, ClampedType
<1> QED BY <1>2 DEF clampSel, Column

LEMMA ClampFocusType ==
  ASSUME NEW v \in View
  PROVE  clampFocus(v) \in View
<1> DEFINE cols == IF v.Columns = <<>> THEN <<NewColumn(<<>>)>> ELSE v.Columns
<1>1. cols \in Seq(Column) /\ Len(cols) \in Nat
  <2>1. NewColumn(<<>>) \in Column
    BY NewColumnTypes
  <2> QED BY <2>1 DEF View
<1> HIDE DEF cols
<1>2. [ci \in DOMAIN cols |-> clampSel(cols[ci])] \in Seq(Column)
  BY <1>1, ClampSelType
<1>3. Clamped(v.FocusCol, Len(cols)) \in Nat
  BY <1>1, ClampedType DEF View
<1>4. Clamped(v.FocusFloat, Len(v.Float)) \in Nat
  BY ClampedType DEF View
<1>5. clampFocus(v) = [v EXCEPT
        !.Columns    = [ci \in DOMAIN cols |-> clampSel(cols[ci])],
        !.FocusCol   = Clamped(@, Len(cols)),
        !.FocusFloat = Clamped(@, Len(v.Float)),
        !.FocusLayer = IF v.Float = <<>> THEN "tiled"
                       ELSE IF v.Columns = <<>> THEN "floating"
                       ELSE @]
  BY DEF clampFocus, cols
<1> QED BY <1>2, <1>3, <1>4, <1>5 DEF View, Layer

\* The column and the row of a window that is tiled on a view.
LEMMA ColumnOfType ==
  ASSUME NEW v \in View, NEW id, InColumn(v, id)
  PROVE  /\ ColumnOf(v, id) \in 1..Len(v.Columns)
         /\ ColumnOf(v, id) \in Nat
         /\ v.Columns[ColumnOf(v, id)] \in Column
         /\ id \in ToSet(v.Columns[ColumnOf(v, id)].Windows)
BY DEF ColumnOf, InColumn, View

LEMMA WithoutRowType ==
  ASSUME NEW c \in Column, NEW ri \in 1..Len(c.Windows)
  PROVE  WithoutRow(c, ri) \in Column
<1>1. RemoveAt(c.Windows, ri) \in Seq(WindowID)
  BY RemoveAtType DEF Column
<1>2. (IF c.Sel > ri THEN c.Sel - 1 ELSE c.Sel) \in Nat
  BY DEF Column
<1> QED BY <1>1, <1>2 DEF WithoutRow, Column

LEMMA RemoveFromViewType ==
  ASSUME NEW v \in View, NEW id
  PROVE  removeFromView(v, id) \in View
<1>1. CASE InColumn(v, id)
  <2> DEFINE ci == ColumnOf(v, id)
             c == v.Columns[ci]
             cols == WithColumn(v.Columns, ci, WithoutRow(c, IndexOf(c.Windows, id)))
  <2>1. ci \in 1..Len(v.Columns) /\ c \in Column /\ id \in ToSet(c.Windows)
    BY <1>1, ColumnOfType
  <2>2. IndexOf(c.Windows, id) \in 1..Len(c.Windows)
    BY <2>1, IndexOfType DEF Column
  <2>3. WithoutRow(c, IndexOf(c.Windows, id)) \in Column
    BY <2>1, <2>2, WithoutRowType
  <2>4. cols \in Seq(Column)
    BY <2>1, <2>3, WithColumnType DEF View
  <2>5. [v EXCEPT !.Columns = cols] \in View
    BY <2>4 DEF View
  <2>6. removeFromView(v, id) = clampFocus([v EXCEPT !.Columns = cols])
    BY <1>1 DEF removeFromView
  <2> QED BY <2>5, <2>6, ClampFocusType
<1>2. CASE ~InColumn(v, id) /\ FloatContains(v, id)
  <2>1. IndexOf(v.Float, id) \in 1..Len(v.Float)
    BY <1>2, IndexOfType DEF FloatContains, View
  <2>2. RemoveAt(v.Float, IndexOf(v.Float, id)) \in Seq(WindowID)
    BY <2>1, RemoveAtType DEF View
  <2>3. [v EXCEPT !.Float = RemoveAt(@, IndexOf(@, id))] \in View
    BY <2>2 DEF View
  <2> QED BY <1>2, <2>3, ClampFocusType DEF removeFromView
<1> QED BY <1>1, <1>2 DEF removeFromView

LEMMA AddToViewType ==
  ASSUME NEW v \in View, NEW id \in WindowID, NEW floating \in BOOLEAN
  PROVE  addToView(v, id, floating) \in View
<1>1. CASE contains(v, id)
  BY <1>1 DEF addToView
<1>2. CASE ~contains(v, id) /\ floating
  BY <1>2 DEF addToView, View
<1>3. CASE ~contains(v, id) /\ ~floating /\ v.Columns = <<>>
  <2> DEFINE cols == <<NewColumn(<<id>>)>>
  <2>1. cols \in Seq(Column)
    BY NewColumnTypes
  <2>2. addToView(v, id, floating) = [v EXCEPT !.Columns = cols, !.FocusCol = 1]
    BY <1>3 DEF addToView
  <2>3. [v EXCEPT !.Columns = cols, !.FocusCol = 1] \in View
    BY <2>1 DEF View
  <2> QED BY <2>2, <2>3
<1>4. CASE ~contains(v, id) /\ ~floating /\ v.Columns # <<>>
  <2> DEFINE fc == IF v.FocusCol \in DOMAIN v.Columns THEN v.FocusCol ELSE Len(v.Columns)
             c == v.Columns[fc]
             cols == [v.Columns EXCEPT ![fc] = [c EXCEPT !.Windows = Append(@, id)]]
  <2>1. fc \in 1..Len(v.Columns) /\ fc \in Nat /\ c \in Column
    BY <1>4 DEF View
  <2>2. [c EXCEPT !.Windows = Append(@, id)] \in Column
    <3>1. c.Windows \in Seq(WindowID) /\ Append(c.Windows, id) \in Seq(WindowID)
      BY <2>1, AppendProperties DEF Column
    <3> QED BY <2>1, <3>1 DEF Column
  <2>3. cols \in Seq(Column)
    BY <2>1, <2>2, ExceptSeq DEF View
  <2>4. addToView(v, id, floating) = [v EXCEPT !.FocusCol = fc, !.Columns = cols]
    BY <1>4, <2>1 DEF addToView, View
  <2>5. [v EXCEPT !.FocusCol = fc, !.Columns = cols] \in View
    BY <2>1, <2>3, ViewWithColumns
  <2> QED BY <2>4, <2>5
<1> QED BY <1>1, <1>2, <1>3, <1>4

LEMMA FocusWindowType ==
  ASSUME NEW v \in View, NEW id
  PROVE  focusWindow(v, id) \in View
<1>1. CASE InColumn(v, id)
  <2> DEFINE ci == ColumnOf(v, id)
             c == v.Columns[ci]
             cols == [v.Columns EXCEPT ![ci] = [c EXCEPT !.Sel = IndexOf(c.Windows, id)]]
  <2>1. ci \in 1..Len(v.Columns) /\ ci \in Nat /\ c \in Column /\ id \in ToSet(c.Windows)
    BY <1>1, ColumnOfType
  <2>2. IndexOf(c.Windows, id) \in Nat
    BY <2>1, IndexOfType DEF Column
  <2>3. [c EXCEPT !.Sel = IndexOf(c.Windows, id)] \in Column
    BY <2>1, <2>2 DEF Column
  <2>4. cols \in Seq(Column)
    BY <2>1, <2>3, ExceptSeq DEF View
  <2>5. focusWindow(v, id) =
          [v EXCEPT !.FocusCol = ci, !.Columns = cols, !.FocusLayer = "tiled"]
    BY <1>1, <2>1 DEF focusWindow, View
  <2>6. [v EXCEPT !.FocusCol = ci, !.Columns = cols, !.FocusLayer = "tiled"] \in View
    BY <2>1, <2>4, ViewWithColumns
  <2> QED BY <2>5, <2>6
<1>2. CASE ~InColumn(v, id) /\ FloatContains(v, id)
  <2>1. IndexOf(v.Float, id) \in Nat
    BY <1>2, IndexOfType DEF FloatContains, View
  <2> QED BY <1>2, <2>1 DEF focusWindow, View, Layer
<1> QED BY <1>1, <1>2 DEF focusWindow

LEMMA ReplaceInViewType ==
  ASSUME NEW v \in View, NEW old \in WindowID, NEW nu \in WindowID
  PROVE  ReplaceInView(v, old, nu) \in View
<1> DEFINE cols == [ci \in DOMAIN v.Columns |->
                      [v.Columns[ci] EXCEPT !.Windows = Replaced(@, old, nu)]]
<1>1. ASSUME NEW ids \in Seq(WindowID) PROVE Replaced(ids, old, nu) \in Seq(WindowID)
  BY DEF Replaced
<1>2. ASSUME NEW c \in Column PROVE [c EXCEPT !.Windows = Replaced(@, old, nu)] \in Column
  BY <1>1 DEF Column
<1>3. cols \in Seq(Column)
  <2>1. v.Columns \in Seq(Column)
    BY DEF View
  <2>2. \A ci \in 1..Len(v.Columns) : cols[ci] \in Column
    BY <1>2, <2>1, ElementOfSeq
  <2> HIDE DEF cols
  <2>3. cols = [ci \in 1..Len(v.Columns) |-> cols[ci]]
    BY <2>1 DEF cols
  <2>4. Len(v.Columns) \in Nat
    BY <2>1
  <2> DEFINE n == Len(v.Columns)
  <2>5. n \in Nat /\ cols = [ci \in 1..n |-> cols[ci]] /\ \A ci \in 1..n : cols[ci] \in Column
    BY <2>2, <2>3, <2>4
  <2> HIDE DEF n
  <2> QED BY <2>5, MappedSeqType
<1>4. Replaced(v.Float, old, nu) \in Seq(WindowID)
  BY <1>1 DEF View
<1>5. ReplaceInView(v, old, nu) =
        [v EXCEPT !.Columns = cols,
                  !.Float = Replaced(@, old, nu),
                  !.Fullscreen = IF @ = old THEN nu ELSE @]
  BY DEF ReplaceInView
<1> HIDE DEF cols
<1> QED BY <1>3, <1>4, <1>5 DEF View

LEMMA WithSelectedType ==
  ASSUME NEW c \in Column, NEW id \in WindowID
  PROVE  withSelected(c, id) \in Column
<1>1. c.Windows \in Seq(WindowID) /\ Append(c.Windows, id) \in Seq(WindowID)
  BY AppendProperties DEF Column
<1>2. Len(c.Windows) + 1 \in Nat
  BY <1>1
<1> QED BY <1>1, <1>2 DEF withSelected, Column

LEMMA SwappedType ==
  ASSUME NEW T, NEW q \in Seq(T), NEW i \in DOMAIN q, NEW j \in DOMAIN q
  PROVE  Swapped(q, i, j) \in Seq(T)
<1> DEFINE r == [q EXCEPT ![i] = q[j]]
<1>1. q[i] \in T /\ q[j] \in T /\ DOMAIN q = 1..Len(q)
  OBVIOUS
<1>2. r \in Seq(T)
  BY <1>1, SeqExceptType
<1>3. [r EXCEPT ![j] = q[i]] \in Seq(T)
  BY <1>1, <1>2, SeqExceptType
<1>4. Swapped(q, i, j) = [r EXCEPT ![j] = q[i]]
  BY DEF Swapped
<1> QED BY <1>3, <1>4

LEMMA MoveWithinColumnType ==
  ASSUME NEW v \in View, v.FocusCol \in DOMAIN v.Columns, NEW delta \in {-1, 1},
         v.Columns[v.FocusCol].Sel \in DOMAIN v.Columns[v.FocusCol].Windows
  PROVE  moveWithinColumn(v, delta) \in View
<1> DEFINE c == v.Columns[v.FocusCol]
           row == c.Sel + delta
           moved == [c EXCEPT !.Windows = Swapped(@, c.Sel, row), !.Sel = row]
           cols == [v.Columns EXCEPT ![v.FocusCol] = moved]
<1>1. CASE row \notin DOMAIN c.Windows
  BY <1>1 DEF moveWithinColumn
<1>2. CASE row \in DOMAIN c.Windows
  <2>1. c \in Column /\ c.Windows \in Seq(WindowID) /\ row \in Nat
    <3>1. c \in Column
      BY DEF View
    <3>2. c.Windows \in Seq(WindowID)
      BY <3>1 DEF Column
    <3> QED BY <1>2, <3>1, <3>2
  <2>2. Swapped(c.Windows, c.Sel, row) \in Seq(WindowID)
    <3>1. c.Sel \in DOMAIN c.Windows
      OBVIOUS
    <3> QED BY <1>2, <2>1, <3>1, SwappedType
  <2>3. moved \in Column
    BY <2>1, <2>2 DEF Column
  <2>4. cols \in Seq(Column)
    BY <2>3, ExceptSeq DEF View
  <2>5. moveWithinColumn(v, delta) = [v EXCEPT !.Columns = cols]
    BY <1>2 DEF moveWithinColumn
  <2>6. [v EXCEPT !.Columns = cols] \in View
    BY <2>4 DEF View
  <2> QED BY <2>5, <2>6
<1> QED BY <1>1, <1>2

LEMMA MoveAcrossColumnsType ==
  ASSUME NEW v \in View, v.FocusCol \in DOMAIN v.Columns, NEW delta \in {-1, 1},
         v.Columns[v.FocusCol].Sel \in DOMAIN v.Columns[v.FocusCol].Windows
  PROVE  moveAcrossColumns(v, delta) \in View
<1> DEFINE col  == v.FocusCol
           c    == v.Columns[col]
           id   == c.Windows[c.Sel]
           rest == [c EXCEPT !.Windows = RemoveAt(@, c.Sel)]
           cols == WithColumn(v.Columns, col, rest)
           to   == IF rest.Windows = <<>> /\ delta > 0 THEN col ELSE col + delta
<1>1. v.Columns \in Seq(Column) /\ c \in Column /\ c.Windows \in Seq(WindowID) /\ id \in WindowID
  <2>1. v.Columns \in Seq(Column) /\ c \in Column
    BY DEF View
  <2>2. c.Windows \in Seq(WindowID)
    BY <2>1 DEF Column
  <2> QED BY <2>1, <2>2
<1>2. rest \in Column
  <2>1. c.Sel \in 1..Len(c.Windows)
    BY <1>1
  <2>2. RemoveAt(c.Windows, c.Sel) \in Seq(WindowID)
    BY <1>1, <2>1, RemoveAtType
  <2> QED BY <1>1, <2>2 DEF Column
<1>3. cols \in Seq(Column) /\ Len(cols) + 1 \in Nat
  <2>1. cols \in Seq(Column)
    <3>1. col \in 1..Len(v.Columns)
      BY <1>1
    <3> HIDE DEF rest
    <3> QED BY <1>1, <1>2, <3>1, WithColumnType
  <2> HIDE DEF cols
  <2> QED BY <2>1
<1>4. CASE to \in DOMAIN cols
  <2> DEFINE next == [cols EXCEPT ![to] = withSelected(@, id)]
  <2>1. next \in Seq(Column) /\ to \in Nat
    <3> HIDE DEF cols, to, id
    <3>1. to \in 1..Len(cols) /\ to \in Nat /\ cols[to] \in Column
      BY <1>3, <1>4
    <3>2. withSelected(cols[to], id) \in Column
      BY <1>1, <3>1, WithSelectedType
    <3> QED BY <1>3, <3>1, <3>2, ExceptSeq
  <2>2. moveAcrossColumns(v, delta) = [v EXCEPT !.Columns = next, !.FocusCol = to]
    BY <1>4 DEF moveAcrossColumns
  <2>3. [v EXCEPT !.Columns = next, !.FocusCol = to] \in View
    <3> HIDE DEF next, to, cols
    <3> QED BY <1>3, <2>1, ViewWithColumns
  <2> QED BY <2>2, <2>3
<1>5. CASE to \notin DOMAIN cols /\ delta < 0
  <2> DEFINE next == <<NewColumn(<<id>>)>> \o cols
  <2>1. next \in Seq(Column)
    <3> HIDE DEF cols, id
    <3>1. <<NewColumn(<<id>>)>> \in Seq(Column)
      BY <1>1, NewColumnTypes
    <3> QED BY <1>3, <3>1, ConcatProperties
  <2>2. moveAcrossColumns(v, delta) = [v EXCEPT !.Columns = next, !.FocusCol = 1]
    BY <1>5 DEF moveAcrossColumns
  <2>3. [v EXCEPT !.Columns = next, !.FocusCol = 1] \in View
    <3> HIDE DEF next, to, cols
    <3> QED BY <1>3, <2>1, ViewWithColumns
  <2> QED BY <2>2, <2>3
<1>6. CASE to \notin DOMAIN cols /\ ~(delta < 0)
  <2> DEFINE next == Append(cols, NewColumn(<<id>>))
  <2>1. next \in Seq(Column)
    <3> HIDE DEF cols, id
    <3>1. NewColumn(<<id>>) \in Column
      BY <1>1, NewColumnTypes
    <3> QED BY <1>3, <3>1, AppendProperties
  <2>2. moveAcrossColumns(v, delta) = [v EXCEPT !.Columns = next, !.FocusCol = Len(cols) + 1]
    BY <1>6 DEF moveAcrossColumns
  <2>3. [v EXCEPT !.Columns = next, !.FocusCol = Len(cols) + 1] \in View
    <3> HIDE DEF next, to, cols
    <3> QED BY <1>3, <2>1, ViewWithColumns
  <2> QED BY <2>2, <2>3
<1> QED BY <1>4, <1>5, <1>6

LEMMA ToTiledType ==
  ASSUME NEW v \in View, NEW id \in WindowID
  PROVE  toTiled(v, id) \in View
<1> DEFINE float == IF FloatContains(v, id) THEN RemoveAt(v.Float, IndexOf(v.Float, id)) ELSE v.Float
           w == clampFocus([v EXCEPT !.Float = float, !.FocusLayer = "tiled"])
           cols == [w.Columns EXCEPT ![w.FocusCol] = withSelected(@, id)]
<1>1. float \in Seq(WindowID)
  <2>1. CASE FloatContains(v, id)
    <3>1. IndexOf(v.Float, id) \in 1..Len(v.Float)
      BY <2>1, IndexOfType DEF FloatContains, View
    <3> QED BY <2>1, <3>1, RemoveAtType DEF View
  <2> QED BY <2>1 DEF View
<1>2. [v EXCEPT !.Float = float, !.FocusLayer = "tiled"] \in View
  <2> HIDE DEF float
  <2> QED BY <1>1 DEF View, Layer
<1>3. w \in View
  BY <1>2, ClampFocusType
<1>4. toTiled(v, id) = [w EXCEPT !.Columns = cols]
  BY DEF toTiled
<1> HIDE DEF w
<1>5. cols \in Seq(Column)
  <2>1. w.Columns \in Seq(Column)
    BY <1>3 DEF View
  <2> DEFINE e == withSelected(w.Columns[w.FocusCol], id)
  <2>2. w.FocusCol \in 1..Len(w.Columns) => e \in Column
    BY <2>1, WithSelectedType
  <2>3. cols = [w.Columns EXCEPT ![w.FocusCol] = e]
    OBVIOUS
  <2> HIDE DEF e, cols
  <2> QED BY <2>1, <2>2, <2>3, SeqExceptType
<1>6. [w EXCEPT !.Columns = cols] \in View
  BY <1>3, <1>5 DEF View
<1> QED BY <1>4, <1>6

LEMMA ToFloatingType ==
  ASSUME NEW v \in View, NEW id \in WindowID
  PROVE  toFloating(v, id) \in View
<1> DEFINE w == removeFromView(v, id)
<1>1. w \in View
  BY RemoveFromViewType
<1>2. toFloating(v, id) = [w EXCEPT !.Float = Append(@, id), !.FocusLayer = "floating",
                                    !.FocusFloat = Len(w.Float) + 1]
  BY DEF toFloating
<1> HIDE DEF w
<1>3. w.Float \in Seq(WindowID) /\ Append(w.Float, id) \in Seq(WindowID) /\ Len(w.Float) + 1 \in Nat
  BY <1>1, AppendProperties DEF View
<1> QED BY <1>1, <1>2, <1>3 DEF View, Layer

-----------------------------------------------------------------------------
(* One state.                                                              *)

\* A well-typed state in which the names without a view have no remains of one.
Clean(s) ==
  /\ s \in State
  /\ \A n \in ViewName : ~exists(s, n) => s.Views[n] = NewView

-----------------------------------------------------------------------------
(* Reading the state.                                                      *)

LEMMA StateFields ==
  ASSUME NEW s \in State
  PROVE  /\ s.viewIndex \in [ViewName -> Nat]
         /\ s.Views \in [ViewName -> View]
         /\ s.Outputs \in Seq(Output)
         /\ s.Tags \in [WindowID -> SUBSET ViewName]
         /\ s.Focused \in WindowID \cup {NoWindow}
         /\ s.FocusOutput \in Nat
BY DEF State

LEMMA ViewSetCardinality ==
  ASSUME NEW S \in SUBSET ViewName
  PROVE  /\ IsFiniteSet(S)
         /\ Cardinality(S) \in Nat
         /\ S # {} => Cardinality(S) > 0
<1>1. IsFiniteSet(S)
  BY StateAssumption, FS_Subset
<1>2. Cardinality(S) \in Nat
  BY <1>1, FS_CardinalityType
<1>3. Cardinality(S) = 0 <=> S = {}
  BY <1>1, FS_EmptySet
<1> QED BY <1>1, <1>2, <1>3

LEMMA ActiveOutputType ==
  ASSUME NEW s \in State, s.Outputs # <<>>
  PROVE  /\ activeOutput(s) \in 1..Len(s.Outputs)
         /\ s.Outputs[activeOutput(s)] \in Output
         /\ activeName(s) \in ViewName
<1>1. s.Outputs \in Seq(Output) /\ Len(s.Outputs) \in Nat /\ Len(s.Outputs) > 0
  BY DEF State
<1>2. activeOutput(s) \in 1..Len(s.Outputs)
  BY <1>1 DEF activeOutput
<1>3. s.Outputs[activeOutput(s)] \in Output
  BY <1>1, <1>2
<1> QED BY <1>2, <1>3 DEF activeName, Output

LEMMA ActiveViewType ==
  ASSUME NEW s \in State, hasActiveView(s)
  PROVE  /\ activeName(s) \in ViewName
         /\ exists(s, activeName(s))
         /\ activeView(s) \in View
<1>1. s.Outputs # <<>> /\ exists(s, activeName(s))
  BY DEF hasActiveView
<1>2. activeName(s) \in ViewName
  BY <1>1, ActiveOutputType
<1> QED BY <1>1, <1>2 DEF activeView, State

LEMMA OutputShowingType ==
  ASSUME NEW s \in State, NEW n, Showing(s, n) # {}
  PROVE  /\ outputShowing(s, n) \in 1..Len(s.Outputs)
         /\ outputShowing(s, n) \in Nat
         /\ s.Outputs[outputShowing(s, n)].View = n
         /\ \A i \in Showing(s, n) : outputShowing(s, n) <= i
<1>1. s.Outputs \in Seq(Output) /\ DOMAIN s.Outputs = 1..Len(s.Outputs) /\ Len(s.Outputs) \in Nat
  BY DEF State
<1>2. Showing(s, n) \subseteq 1..Len(s.Outputs) /\ Showing(s, n) \subseteq Nat
  BY <1>1 DEF Showing
<1>3. \E i \in Showing(s, n) : \A j \in Showing(s, n) : i <= j
  BY <1>2, LeastExists
<1>4. /\ outputShowing(s, n) \in Showing(s, n)
      /\ \A j \in Showing(s, n) : outputShowing(s, n) <= j
  BY <1>3 DEF outputShowing
<1> QED BY <1>2, <1>4 DEF Showing

-----------------------------------------------------------------------------
(* The helpers that change the state.                                      *)

LEMMA CleanNewState == Clean(NewState)
<1>1. <<>> \in Seq(Output)
  OBVIOUS
<1> QED BY <1>1, NewViewType DEF Clean, NewState, State

LEMMA EnsureViewType ==
  ASSUME NEW s, Clean(s), NEW n \in ViewName
  PROVE  /\ Clean(ensureView(s, n))
         /\ exists(ensureView(s, n), n)
         /\ \A m \in ViewName : exists(s, m) => exists(ensureView(s, n), m)
         /\ ensureView(s, n).Views = s.Views
         /\ ensureView(s, n).Outputs = s.Outputs
         /\ ensureView(s, n).Tags = s.Tags
         /\ ensureView(s, n).Focused = s.Focused
         /\ ensureView(s, n).FocusOutput = s.FocusOutput
<1> DEFINE i == Cardinality(ViewSet(s)) + 1
<1>1. s \in State /\ i \in Nat /\ i > 0
  <2>1. ViewSet(s) \in SUBSET ViewName
    BY DEF ViewSet
  <2> QED BY <2>1, ViewSetCardinality DEF Clean
<1>2. CASE exists(s, n)
  BY <1>2 DEF ensureView
<1>3. CASE ~exists(s, n)
  <2>1. ensureView(s, n) = [s EXCEPT !.viewIndex = [@ EXCEPT ![n] = i], !.Views = [@ EXCEPT ![n] = NewView]]
    BY <1>3 DEF ensureView
  <2>2. [s.Views EXCEPT ![n] = NewView] = s.Views
    <3>1. s.Views \in [ViewName -> View] /\ s.Views[n] = NewView
      BY <1>1, <1>3 DEF Clean, State
    <3> QED BY <3>1
  <2> HIDE DEF i
  <2>3. ensureView(s, n) = [s EXCEPT !.viewIndex = [@ EXCEPT ![n] = i]]
    BY <1>1, <2>1, <2>2 DEF State
  <2>4. ensureView(s, n) \in State
    <3> DEFINE vi == [s.viewIndex EXCEPT ![n] = i]
    <3>1. vi \in [ViewName -> Nat]
      BY <1>1 DEF State
    <3>2. ensureView(s, n) = [s EXCEPT !.viewIndex = vi]
      BY <2>3
    <3> HIDE DEF vi
    <3>3. [s EXCEPT !.viewIndex = vi] \in State
      BY <1>1, <3>1 DEF State
    <3> QED BY <3>2, <3>3
  <2>5. /\ ensureView(s, n).viewIndex = [s.viewIndex EXCEPT ![n] = i]
        /\ s.viewIndex \in [ViewName -> Nat]
    BY <1>1, <2>3 DEF State
  <2>6. /\ ensureView(s, n).Views = s.Views
        /\ ensureView(s, n).Outputs = s.Outputs
        /\ ensureView(s, n).Tags = s.Tags
        /\ ensureView(s, n).Focused = s.Focused
        /\ ensureView(s, n).FocusOutput = s.FocusOutput
    BY <1>1, <2>3 DEF State
  <2>7. \A m \in ViewName : exists(ensureView(s, n), m) <=> exists(s, m) \/ m = n
    BY <1>1, <2>5 DEF exists
  <2> QED BY <2>4, <2>6, <2>7 DEF Clean
<1> QED BY <1>2, <1>3

LEMMA RefocusType ==
  ASSUME NEW s, Clean(s)
  PROVE  Clean(refocus(s))
<1>1. CASE hasActiveView(s)
  <2> DEFINE v == clampFocus(activeView(s))
             a == activeName(s)
  <2>1. s \in State /\ a \in ViewName /\ exists(s, a) /\ v \in View
    BY <1>1, ActiveViewType, ClampFocusType DEF Clean
  <2>2. focusedWindow(v) \in WindowID \cup {NoWindow}
    BY <2>1, FocusedWindowType
  <2>3. activeOutput(s) \in Nat
    BY <1>1, <2>1, ActiveOutputType DEF hasActiveView
  <2> DEFINE views == [s.Views EXCEPT ![a] = v]
  <2>4. refocus(s) = [s EXCEPT !.Views = views,
                               !.Focused = focusedWindow(v),
                               !.FocusOutput = activeOutput(s)]
    BY <1>1 DEF refocus
  <2> HIDE DEF v, a
  <2>8. views \in [ViewName -> View]
    BY <2>1 DEF State
  <2> HIDE DEF views
  <2>5. refocus(s) \in State
    BY <2>1, <2>2, <2>3, <2>4, <2>8 DEF State
  <2>6. refocus(s).viewIndex = s.viewIndex /\ refocus(s).Views = views
    BY <2>1, <2>4 DEF State
  <2>7. s.Views \in [ViewName -> View] /\ \A m \in ViewName : m # a => views[m] = s.Views[m]
    BY <2>1 DEF State, views
  <2> QED BY <2>1, <2>5, <2>6, <2>7 DEF Clean, exists
<1>2. CASE ~hasActiveView(s)
  BY <1>2 DEF refocus, Clean, State, exists
<1> QED BY <1>1, <1>2

LEMMA GcViewsType ==
  ASSUME NEW s, Clean(s)
  PROVE  /\ Clean(gcViews(s))
         /\ \A n \in ViewName : exists(gcViews(s), n) <=>
              exists(s, n) /\ (~empty(s.Views[n]) \/ Showing(s, n) # {})
         /\ \A n \in ViewName : exists(gcViews(s), n) => gcViews(s).Views[n] = s.Views[n]
         /\ gcViews(s).Outputs = s.Outputs
         /\ gcViews(s).Tags = s.Tags
         /\ gcViews(s).Focused = s.Focused
         /\ gcViews(s).FocusOutput = s.FocusOutput
<1> DEFINE kept == {n \in ViewSet(s) : ~empty(s.Views[n]) \/ Showing(s, n) # {}}
           below(n) == {m \in kept : s.viewIndex[m] <= s.viewIndex[n]}
           index == [n \in ViewName |-> IF n \in kept THEN Cardinality(below(n)) ELSE 0]
           views == [n \in ViewName |-> IF n \in kept THEN s.Views[n] ELSE NewView]
<1>1. s \in State
  BY DEF Clean
<1>2. ASSUME NEW n \in kept PROVE Cardinality(below(n)) \in Nat /\ Cardinality(below(n)) > 0
  <2>1. below(n) \in SUBSET ViewName
    BY DEF ViewSet
  <2>2. n \in ViewName /\ s.viewIndex[n] \in Nat
    BY <1>1 DEF ViewSet, State
  <2>3. n \in below(n)
    BY <2>2
  <2> QED BY <2>1, <2>3, ViewSetCardinality
<1>3. index \in [ViewName -> Nat] /\ \A n \in ViewName : index[n] > 0 <=> n \in kept
  <2> HIDE DEF kept, below
  <2> QED BY <1>2
<1>4. views \in [ViewName -> View] /\ \A n \in ViewName : n \notin kept => views[n] = NewView
  BY <1>1, NewViewType DEF State
<1>5. gcViews(s) = [s EXCEPT !.viewIndex = index, !.Views = views]
  BY DEF gcViews
<1>6. \A n \in ViewName : n \in kept <=> exists(s, n) /\ (~empty(s.Views[n]) \/ Showing(s, n) # {})
  BY DEF ViewSet
<1>7. \A n \in ViewName : n \in kept => views[n] = s.Views[n]
  OBVIOUS
<1> HIDE DEF index, views, kept
<1> QED BY <1>1, <1>3, <1>4, <1>5, <1>6, <1>7 DEF Clean, State, exists

LEMMA SetViewType ==
  ASSUME NEW s, Clean(s), NEW n \in ViewName, exists(s, n), NEW v \in View
  PROVE  Clean([s EXCEPT !.Views[n] = v])
<1> DEFINE views == [s.Views EXCEPT ![n] = v]
           t == [s EXCEPT !.Views = views]
<1>1. s \in State /\ s.Views \in [ViewName -> View]
  BY DEF Clean, State
<1>2. views \in [ViewName -> View] /\ \A m \in ViewName : m # n => views[m] = s.Views[m]
  BY <1>1
<1>3. t \in State /\ t.Views = views /\ t.viewIndex = s.viewIndex
  <2> HIDE DEF views
  <2> QED BY <1>1, <1>2 DEF State
<1>4. Clean(t)
  <2> HIDE DEF views, t
  <2> QED BY <1>2, <1>3 DEF Clean, exists
<1> QED BY <1>4

LEMMA OnActiveViewType ==
  ASSUME NEW s, Clean(s), hasActiveView(s), NEW v \in View
  PROVE  Clean(OnActiveView(s, v))
<1>1. activeName(s) \in ViewName /\ exists(s, activeName(s))
  BY ActiveViewType DEF Clean
<1> QED BY <1>1, SetViewType DEF OnActiveView

\* Outputs, an active output and a focus put in the place of those of a state.
LEMMA SetOutputsType ==
  ASSUME NEW s, Clean(s), NEW outs \in Seq(Output), NEW i \in Nat
  PROVE  /\ Clean([s EXCEPT !.Outputs = outs])
         /\ Clean([s EXCEPT !.FocusOutput = i])
         /\ Clean([s EXCEPT !.Outputs = outs, !.FocusOutput = i])
<1>1. s \in State
  BY DEF Clean
<1>2. /\ [s EXCEPT !.Outputs = outs] \in State
      /\ [s EXCEPT !.FocusOutput = i] \in State
      /\ [s EXCEPT !.Outputs = outs, !.FocusOutput = i] \in State
  BY <1>1 DEF State
<1>3. /\ [s EXCEPT !.Outputs = outs].viewIndex = s.viewIndex
      /\ [s EXCEPT !.FocusOutput = i].viewIndex = s.viewIndex
      /\ [s EXCEPT !.Outputs = outs, !.FocusOutput = i].viewIndex = s.viewIndex
      /\ [s EXCEPT !.Outputs = outs].Views = s.Views
      /\ [s EXCEPT !.FocusOutput = i].Views = s.Views
      /\ [s EXCEPT !.Outputs = outs, !.FocusOutput = i].Views = s.Views
  BY <1>1 DEF State
<1> QED BY <1>2, <1>3 DEF Clean, exists

-----------------------------------------------------------------------------
(* Focus, and windows moved within the active view.                        *)

LEMMA FocusDirType ==
  ASSUME NEW s, Clean(s), NEW d
  PROVE  Clean(FocusDir(s, d))
<1>1. CASE ~hasActiveView(s)
  BY <1>1 DEF FocusDir
<1>2. CASE hasActiveView(s)
  <2> DEFINE v  == activeView(s)
             fc == v.FocusCol
             c  == v.Columns[fc]
             moved ==
               IF v.FocusLayer = "floating"
               THEN CASE d = "up" /\ v.FocusFloat > 1 ->
                           [v EXCEPT !.FocusFloat = @ - 1]
                      [] d = "down" /\ v.FocusFloat < Len(v.Float) ->
                           [v EXCEPT !.FocusFloat = @ + 1]
                      [] OTHER -> v
               ELSE CASE d = "left" /\ fc > 1 -> [v EXCEPT !.FocusCol = @ - 1]
                      [] d = "right" /\ fc < Len(v.Columns) -> [v EXCEPT !.FocusCol = @ + 1]
                      [] d = "up" /\ v.Columns[fc].Sel > 1 ->
                           [v EXCEPT !.Columns[fc].Sel = @ - 1]
                      [] d = "down" /\ v.Columns[fc].Sel < Len(v.Columns[fc].Windows) ->
                           [v EXCEPT !.Columns[fc].Sel = @ + 1]
                      [] OTHER -> v
  <2>1. v \in View
    BY <1>2, ActiveViewType DEF Clean
  <2>2. v.FocusFloat \in Nat /\ fc \in Nat /\ v.Columns \in Seq(Column)
    BY <2>1 DEF View
  <2>3. /\ v.FocusFloat > 1 => [v EXCEPT !.FocusFloat = @ - 1] \in View
        /\ [v EXCEPT !.FocusFloat = @ + 1] \in View
        /\ fc > 1 => [v EXCEPT !.FocusCol = @ - 1] \in View
        /\ [v EXCEPT !.FocusCol = @ + 1] \in View
    <3>1. ASSUME NEW i \in Nat
          PROVE  [v EXCEPT !.FocusFloat = i] \in View /\ [v EXCEPT !.FocusCol = i] \in View
      BY <2>1 DEF View
    <3>2. /\ v.FocusFloat > 1 => v.FocusFloat - 1 \in Nat
          /\ fc > 1 => fc - 1 \in Nat
          /\ v.FocusFloat + 1 \in Nat /\ fc + 1 \in Nat
      BY <2>2
    <3> QED BY <3>1, <3>2
  <2>4. /\ c.Sel > 1 => [v EXCEPT !.Columns[fc].Sel = @ - 1] \in View
        /\ [v EXCEPT !.Columns[fc].Sel = @ + 1] \in View
    <3>1. ASSUME NEW x \in Column
          PROVE  /\ [x EXCEPT !.Sel = @ + 1] \in Column
                 /\ x.Sel > 1 => [x EXCEPT !.Sel = @ - 1] \in Column
      BY DEF Column
    <3>2. /\ c.Sel > 1 => [v.Columns EXCEPT ![fc] = [c EXCEPT !.Sel = @ - 1]] \in Seq(Column)
          /\ [v.Columns EXCEPT ![fc] = [c EXCEPT !.Sel = @ + 1]] \in Seq(Column)
      <4>1. fc \in 1..Len(v.Columns) => c \in Column
        BY <2>2
      <4> HIDE DEF c
      <4> QED BY <2>2, <3>1, <4>1, SeqExceptType
    <3>3. /\ c.Sel > 1 => [v EXCEPT !.Columns = [v.Columns EXCEPT ![fc] = [c EXCEPT !.Sel = @ - 1]]] \in View
          /\ [v EXCEPT !.Columns = [v.Columns EXCEPT ![fc] = [c EXCEPT !.Sel = @ + 1]]] \in View
      BY <2>1, <3>2 DEF View
    <3> QED BY <3>3
  <2>5. moved \in View
    BY <2>1, <2>3, <2>4
  <2>6. FocusDir(s, d) = refocus(OnActiveView(s, moved))
    BY <1>2 DEF FocusDir
  <2> QED BY <1>2, <2>5, <2>6, OnActiveViewType, RefocusType
<1> QED BY <1>1, <1>2

LEMMA FocusToggleLayerType ==
  ASSUME NEW s, Clean(s)
  PROVE  Clean(FocusToggleLayer(s))
<1>1. CASE ~hasActiveView(s)
  BY <1>1 DEF FocusToggleLayer
<1>2. CASE hasActiveView(s)
  <2> DEFINE v == activeView(s)
             layer == IF v.FocusLayer = "tiled" /\ v.Float # <<>> THEN "floating" ELSE "tiled"
  <2>1. v \in View /\ layer \in Layer
    BY <1>2, ActiveViewType DEF Clean, Layer
  <2>2. [v EXCEPT !.FocusLayer = layer] \in View
    <3> HIDE DEF layer, v
    <3> QED BY <2>1 DEF View
  <2>3. FocusToggleLayer(s) = refocus(OnActiveView(s, [v EXCEPT !.FocusLayer = layer]))
    BY <1>2 DEF FocusToggleLayer
  <2> QED BY <1>2, <2>2, <2>3, OnActiveViewType, RefocusType
<1> QED BY <1>1, <1>2

LEMMA MoveDirType ==
  ASSUME NEW s, Clean(s), NEW d \in {"left", "right", "up", "down"}
  PROVE  Clean(MoveDir(s, d))
<1>1. CASE ~hasActiveView(s) \/ ~FocusedInColumn(s, activeView(s))
  BY <1>1 DEF MoveDir
<1>2. CASE hasActiveView(s) /\ FocusedInColumn(s, activeView(s))
  <2> DEFINE v == activeView(s)
             moved == CASE d = "up"    -> moveWithinColumn(v, -1)
                        [] d = "down"  -> moveWithinColumn(v, 1)
                        [] d = "left"  -> moveAcrossColumns(v, -1)
                        [] d = "right" -> moveAcrossColumns(v, 1)
  <2>1. v \in View
    BY <1>2, ActiveViewType DEF Clean
  <2>2. /\ v.FocusCol \in DOMAIN v.Columns
        /\ v.Columns[v.FocusCol].Sel \in DOMAIN v.Columns[v.FocusCol].Windows
    BY <1>2 DEF FocusedInColumn, selected
  <2>3. \A delta \in {-1, 1} :
          moveWithinColumn(v, delta) \in View /\ moveAcrossColumns(v, delta) \in View
    BY <2>1, <2>2, MoveWithinColumnType, MoveAcrossColumnsType
  <2>4. moved \in View
    BY <2>3
  <2>5. clampFocus(moved) \in View
    BY <2>4, ClampFocusType
  <2>6. MoveDir(s, d) = refocus(OnActiveView(s, clampFocus(moved)))
    BY <1>2 DEF MoveDir
  <2> HIDE DEF moved
  <2> QED BY <1>2, <2>5, <2>6, OnActiveViewType, RefocusType
<1> QED BY <1>1, <1>2

LEMMA ToggleFloatType ==
  ASSUME NEW s, Clean(s)
  PROVE  Clean(ToggleFloat(s))
<1>1. CASE ~hasActiveView(s) \/ s.Focused = NoWindow
  BY <1>1 DEF ToggleFloat
<1>2. CASE hasActiveView(s) /\ s.Focused # NoWindow
  <2> DEFINE v == activeView(s)
             w == IF v.FocusLayer = "floating" THEN toTiled(v, s.Focused)
                                               ELSE toFloating(v, s.Focused)
  <2>1. v \in View /\ s.Focused \in WindowID
    BY <1>2, ActiveViewType DEF Clean, State
  <2>2. clampFocus(w) \in View
    BY <2>1, ToTiledType, ToFloatingType, ClampFocusType
  <2>3. ToggleFloat(s) = refocus(OnActiveView(s, clampFocus(w)))
    BY <1>2 DEF ToggleFloat
  <2> HIDE DEF w
  <2> QED BY <1>2, <2>2, <2>3, OnActiveViewType, RefocusType
<1> QED BY <1>1, <1>2

LEMMA SetModeType ==
  ASSUME NEW s, Clean(s), NEW m \in Modes
  PROVE  Clean(SetMode(s, m))
<1> DEFINE v == activeView(s)
<1>1. CASE hasActiveView(s) /\ v.FocusLayer = "tiled" /\ v.FocusCol \in DOMAIN v.Columns
  <2> DEFINE c    == v.Columns[v.FocusCol]
             cols == [v.Columns EXCEPT ![v.FocusCol] = [c EXCEPT !.Mode = m]]
  <2>1. v \in View
    BY <1>1, ActiveViewType DEF Clean
  <2>2. v.Columns \in Seq(Column) /\ c \in Column /\ v.FocusCol \in 1..Len(v.Columns)
    BY <1>1, <2>1 DEF View
  <2>3. [c EXCEPT !.Mode = m] \in Column
    BY <2>2 DEF Column
  <2>4. cols \in Seq(Column)
    BY <2>2, <2>3, ExceptSeq
  <2>5. [v EXCEPT !.Columns = cols] \in View
    <3> HIDE DEF cols
    <3> QED BY <2>1, <2>4 DEF View
  <2>6. SetMode(s, m) = OnActiveView(s, [v EXCEPT !.Columns = cols])
    BY <1>1 DEF SetMode
  <2> QED BY <1>1, <2>5, <2>6, OnActiveViewType
<1> QED BY <1>1 DEF SetMode

LEMMA ToggleFullscreenType ==
  ASSUME NEW s, Clean(s)
  PROVE  Clean(ToggleFullscreen(s))
<1> DEFINE v == activeView(s)
           id == focusedWindow(v)
           w == [v EXCEPT !.Fullscreen = IF @ = id THEN NoWindow ELSE id]
<1>1. CASE hasActiveView(s) /\ id # NoWindow
  <2>1. v \in View
    BY <1>1, ActiveViewType DEF Clean
  <2>2. id \in WindowID
    BY <1>1, <2>1, FocusedWindowType
  <2>3. w \in View
    <3> HIDE DEF id
    <3> QED BY <2>1, <2>2 DEF View
  <2>4. ToggleFullscreen(s) = OnActiveView(s, w)
    BY <1>1 DEF ToggleFullscreen
  <2> QED BY <1>1, <2>3, <2>4, OnActiveViewType
<1> QED BY <1>1 DEF ToggleFullscreen

-----------------------------------------------------------------------------
(* Outputs.                                                                *)

\* The view AddOutput shows on a new output: a name of ViewName that no output
\* shows, given that a name is free or a view hidden.
AddedView(s) ==
  LET hidden == {n \in ViewSet(s) : Showing(s, n) = {}}
      first  == CHOOSE n \in hidden : \A m \in hidden : s.viewIndex[n] <= s.viewIndex[m]
  IN IF hidden # {} THEN first ELSE freeViewName(s)

CanAddOutput(s) == FreeNames(s) # {} \/ \E n \in ViewSet(s) : Showing(s, n) = {}

LEMMA FreeViewNameType ==
  ASSUME NEW s, FreeNames(s) # {}
  PROVE  freeViewName(s) \in ViewName /\ ~exists(s, freeViewName(s))
<1>1. FreeNames(s) \subseteq Nat
  BY StateAssumption DEF FreeNames
<1>2. freeViewName(s) \in FreeNames(s)
  BY <1>1, LeastType DEF freeViewName
<1> QED BY <1>2 DEF FreeNames, ViewSet

LEMMA AddedViewType ==
  ASSUME NEW s \in State, CanAddOutput(s)
  PROVE  /\ AddedView(s) \in ViewName
         /\ ~exists(s, AddedView(s)) \/ Showing(s, AddedView(s)) = {}
<1> DEFINE hidden == {n \in ViewSet(s) : Showing(s, n) = {}}
<1>1. CASE hidden # {}
  <2> DEFINE idx == {s.viewIndex[n] : n \in hidden}
  <2>1. idx \subseteq Nat /\ idx # {}
    <3>1. s.viewIndex \in [ViewName -> Nat]
      BY DEF State
    <3>2. hidden \subseteq ViewName
      BY DEF ViewSet
    <3> HIDE DEF hidden
    <3>3. \A n \in hidden : s.viewIndex[n] \in Nat
      BY <3>1, <3>2
    <3> QED BY <1>1, <3>3
  <2>2. \E i \in idx : \A j \in idx : i <= j
    BY <2>1, LeastExists
  <2>3. \E n \in hidden : \A m \in hidden : s.viewIndex[n] <= s.viewIndex[m]
    BY <2>2
  <2>4. AddedView(s) \in hidden
    BY <1>1, <2>3 DEF AddedView
  <2> QED BY <2>4 DEF ViewSet
<1>2. CASE hidden = {}
  <2>1. FreeNames(s) # {} /\ AddedView(s) = freeViewName(s)
    BY <1>2 DEF CanAddOutput, AddedView
  <2> QED BY <2>1, FreeViewNameType
<1> QED BY <1>1, <1>2

LEMMA AddOutputType ==
  ASSUME NEW s, Clean(s), CanAddOutput(s), NEW o \in OutputName
  PROVE  Clean(AddOutput(s, o))
<1>1. CASE \E i \in DOMAIN s.Outputs : s.Outputs[i].Name = o
  BY <1>1 DEF AddOutput
<1>2. CASE ~ \E i \in DOMAIN s.Outputs : s.Outputs[i].Name = o
  <2> DEFINE n    == AddedView(s)
             t    == ensureView(s, n)
             outs == Append(t.Outputs, [Name |-> o, View |-> n])
  <2>1. n \in ViewName
    BY AddedViewType DEF Clean
  <2>2. Clean(t)
    BY <2>1, EnsureViewType
  <2>3. outs \in Seq(Output)
    <3>1. [Name |-> o, View |-> n] \in Output
      BY <2>1 DEF Output
    <3>2. t.Outputs \in Seq(Output)
      BY <2>2 DEF Clean, State
    <3> QED BY <3>1, <3>2, AppendProperties
  <2>4. Clean([t EXCEPT !.Outputs = outs])
    <3> HIDE DEF t, outs
    <3> QED BY <2>2, <2>3, SetOutputsType
  <2>5. AddOutput(s, o) = refocus([t EXCEPT !.Outputs = outs])
    BY <1>2 DEF AddOutput, AddedView
  <2> QED BY <2>4, <2>5, RefocusType
<1> QED BY <1>1, <1>2

LEMMA RemoveOutputType ==
  ASSUME NEW s, Clean(s), NEW o
  PROVE  Clean(RemoveOutput(s, o))
<1> DEFINE at   == {i \in DOMAIN s.Outputs : s.Outputs[i].Name = o}
           outs == IF at = {} THEN s.Outputs ELSE RemoveAt(s.Outputs, Least(at))
           i    == Clamped(s.FocusOutput, Len(outs))
<1>1. s.Outputs \in Seq(Output) /\ s.FocusOutput \in Nat
  BY DEF Clean, State
<1>2. outs \in Seq(Output)
  <2>1. CASE at # {}
    <3>1. at \subseteq 1..Len(s.Outputs) /\ at \subseteq Nat
      BY <1>1
    <3>2. Least(at) \in 1..Len(s.Outputs)
      BY <2>1, <3>1, LeastType
    <3> QED BY <1>1, <2>1, <3>2, RemoveAtType
  <2> QED BY <1>1, <2>1
<1>3. i \in Nat
  <2> HIDE DEF outs
  <2>1. Len(outs) \in Nat
    BY <1>2
  <2> QED BY <1>1, <2>1, ClampedType
<1>4. RemoveOutput(s, o) = refocus(gcViews([s EXCEPT !.Outputs = outs, !.FocusOutput = i]))
  BY DEF RemoveOutput
<1> HIDE DEF outs, i
<1> QED BY <1>2, <1>3, <1>4, SetOutputsType, GcViewsType, RefocusType

LEMMA RenameOutputType ==
  ASSUME NEW s, Clean(s), NEW old, NEW new \in OutputName
  PROVE  Clean(RenameOutput(s, old, new))
<1> DEFINE at == {i \in DOMAIN s.Outputs : s.Outputs[i].Name = old}
<1>1. CASE at = {}
  BY <1>1 DEF RenameOutput
<1>2. CASE at # {}
  <2> DEFINE outs == [s.Outputs EXCEPT ![Least(at)] = [s.Outputs[Least(at)] EXCEPT !.Name = new]]
  <2>1. s.Outputs \in Seq(Output) /\ at \subseteq 1..Len(s.Outputs) /\ at \subseteq Nat
    BY DEF Clean, State
  <2>2. Least(at) \in 1..Len(s.Outputs)
    BY <1>2, <2>1, LeastType
  <2>3. outs \in Seq(Output)
    <3>1. s.Outputs[Least(at)] \in Output
      BY <2>1, <2>2, ElementOfSeq
    <3>2. [s.Outputs[Least(at)] EXCEPT !.Name = new] \in Output
      BY <3>1 DEF Output
    <3> QED BY <2>1, <2>2, <3>2, ExceptSeq
  <2>4. RenameOutput(s, old, new) = [s EXCEPT !.Outputs = outs]
    BY <1>2 DEF RenameOutput
  <2>5. Clean([s EXCEPT !.Outputs = outs])
    <3> HIDE DEF outs
    <3> QED BY <2>3, SetOutputsType, Zenon
  <2> QED BY <2>4, <2>5, Zenon
<1> QED BY <1>1, <1>2

LEMMA CycleOutputType ==
  ASSUME NEW s, Clean(s), NEW delta \in {-1, 1}
  PROVE  Clean(CycleOutput(s, delta))
<1>1. CASE s.Outputs = <<>>
  BY <1>1 DEF CycleOutput
<1>2. CASE s.Outputs # <<>>
  <2> DEFINE i == ((s.FocusOutput - 1 + delta) % Len(s.Outputs)) + 1
  <2>1. s.FocusOutput \in Nat /\ Len(s.Outputs) \in Nat /\ Len(s.Outputs) > 0
    BY <1>2 DEF Clean, State
  <2>2. i \in Nat
    BY <2>1
  <2>3. CycleOutput(s, delta) = refocus([s EXCEPT !.FocusOutput = i])
    BY <1>2 DEF CycleOutput
  <2> HIDE DEF i
  <2>4. Clean([s EXCEPT !.FocusOutput = i])
    <3>1. <<>> \in Seq(Output)
      OBVIOUS
    <3> QED BY <2>2, <3>1, SetOutputsType
  <2> QED BY <2>3, <2>4, RefocusType
<1> QED BY <1>1, <1>2

-----------------------------------------------------------------------------
(* Windows.                                                                *)

LEMMA EnsureViewsType ==
  ASSUME NEW s, Clean(s), NEW T \in SUBSET ViewName, NEW order \in CreationOrders(s, T)
  PROVE  /\ Clean(ensureViews(s, order))
         /\ \A n \in ViewName : exists(ensureViews(s, order), n) <=> exists(s, n) \/ n \in T
         /\ ensureViews(s, order).Views = s.Views
         /\ ensureViews(s, order).Outputs = s.Outputs
         /\ ensureViews(s, order).Tags = s.Tags
         /\ ensureViews(s, order).Focused = s.Focused
         /\ ensureViews(s, order).FocusOutput = s.FocusOutput
<1> DEFINE new   == T \ ViewSet(s)
           base  == Cardinality(ViewSet(s))
           index == [n \in ViewName |-> IF n \in ToSet(order) THEN base + IndexOf(order, n)
                                        ELSE s.viewIndex[n]]
           views == [n \in ViewName |-> IF n \in ToSet(order) THEN NewView ELSE s.Views[n]]
           t     == ensureViews(s, order)
<1>1. s \in State /\ new \in SUBSET ViewName /\ base \in Nat
  <2>1. ViewSet(s) \in SUBSET ViewName
    BY DEF ViewSet
  <2> QED BY <2>1, ViewSetCardinality DEF Clean
<1>2. ToSet(order) = new /\ order \in Seq(new)
  <2>1. order \in [1..Cardinality(new) -> new] /\ ToSet(order) = new
    BY DEF CreationOrders
  <2> DEFINE k == Cardinality(new)
  <2>2. k \in Nat
    BY <1>1, ViewSetCardinality
  <2> HIDE DEF new, k
  <2> QED BY <2>1, <2>2 DEF k
<1>3. \A n \in new : IndexOf(order, n) \in Nat /\ IndexOf(order, n) > 0
  <2> HIDE DEF new
  <2>1. \A n \in new : IndexOf(order, n) \in 1..Len(order)
    BY <1>2, IndexOfType
  <2> QED BY <1>2, <2>1
<1>4. \A n \in ViewName : n \in new <=> n \in T /\ ~exists(s, n)
  BY DEF ViewSet
<1>5. views = s.Views
  <2>1. s.Views \in [ViewName -> View] /\ \A n \in new : s.Views[n] = NewView
    BY <1>1, <1>4 DEF Clean, State
  <2> HIDE DEF new
  <2> QED BY <1>2, <2>1
<1>6. /\ index \in [ViewName -> Nat]
      /\ \A n \in ViewName : index[n] > 0 <=> exists(s, n) \/ n \in new
  <2>1. s.viewIndex \in [ViewName -> Nat]
    BY <1>1 DEF State
  <2> HIDE DEF new, base
  <2> QED BY <1>1, <1>2, <1>3, <2>1 DEF exists
<1>7. t = [s EXCEPT !.viewIndex = index, !.Views = views]
  BY DEF ensureViews
<1>8. t \in State /\ t.viewIndex = index
  <2> HIDE DEF index, views, t
  <2> QED BY <1>1, <1>5, <1>6, <1>7 DEF State
<1>9. /\ t.Views = s.Views /\ t.Outputs = s.Outputs /\ t.Tags = s.Tags
      /\ t.Focused = s.Focused /\ t.FocusOutput = s.FocusOutput
  <2> HIDE DEF index, views, t
  <2> QED BY <1>1, <1>5, <1>7 DEF State
<1>10. \A n \in ViewName : exists(t, n) <=> exists(s, n) \/ n \in T
  <2> HIDE DEF index, views, t, new
  <2> QED BY <1>4, <1>6, <1>8 DEF exists
<1>11. Clean(t)
  <2> HIDE DEF t
  <2>1. \A n \in ViewName : ~exists(t, n) => ~exists(s, n)
    BY <1>10
  <2> QED BY <1>8, <1>9, <2>1 DEF Clean
<1> QED BY <1>9, <1>10, <1>11

\* The views a map over them leaves are those of a clean state again.
LEMMA MapViewsType ==
  ASSUME NEW s, Clean(s), NEW tags \in [WindowID -> SUBSET ViewName],
         NEW views \in [ViewName -> View],
         \A n \in ViewName : ~exists(s, n) => views[n] = NewView
  PROVE  /\ Clean([s EXCEPT !.Tags = tags, !.Views = views])
         /\ Clean([s EXCEPT !.Views = views])
<1>1. s \in State
  BY DEF Clean
<1>2. /\ [s EXCEPT !.Tags = tags, !.Views = views] \in State
      /\ [s EXCEPT !.Views = views] \in State
  BY <1>1 DEF State
<1>3. /\ [s EXCEPT !.Tags = tags, !.Views = views].viewIndex = s.viewIndex
      /\ [s EXCEPT !.Tags = tags, !.Views = views].Views = views
      /\ [s EXCEPT !.Views = views].viewIndex = s.viewIndex
      /\ [s EXCEPT !.Views = views].Views = views
  BY <1>1 DEF State
<1> QED BY <1>2, <1>3 DEF Clean, exists

LEMMA SetFocusType ==
  ASSUME NEW s, Clean(s), NEW f \in WindowID \cup {NoWindow}, NEW i \in Nat
  PROVE  Clean([s EXCEPT !.Focused = f, !.FocusOutput = i])
<1> DEFINE t == [s EXCEPT !.Focused = f, !.FocusOutput = i]
<1>1. s \in State
  BY DEF Clean
<1>2. t \in State /\ t.viewIndex = s.viewIndex /\ t.Views = s.Views
  BY <1>1 DEF State
<1> QED BY <1>2 DEF Clean, exists

LEMMA AddWindowType ==
  ASSUME NEW s, Clean(s), NEW id \in WindowID, NEW floating \in BOOLEAN,
         NEW tags \in SUBSET ViewName, NEW order \in CreationOrders(s, tags)
  PROVE  Clean(AddWindow(s, id, floating, tags, order))
<1> DEFINE t     == ensureViews(s, order)
           views == [n \in ViewName |-> IF n \in tags THEN addToView(t.Views[n], id, floating)
                                        ELSE t.Views[n]]
           all   == [t.Tags EXCEPT ![id] = tags]
           u     == [t EXCEPT !.Tags = all, !.Views = views]
           w     == focusWindow(activeView(u), id)
<1>1. Clean(t) /\ t \in State /\ \A n \in ViewName : exists(t, n) <=> exists(s, n) \/ n \in tags
  BY EnsureViewsType DEF Clean
<1> HIDE DEF t
<1>2. views \in [ViewName -> View] /\ \A n \in ViewName : ~exists(t, n) => views[n] = NewView
  <2>1. t.Views \in [ViewName -> View] /\ \A n \in ViewName : ~exists(t, n) => t.Views[n] = NewView
    BY <1>1 DEF Clean, State
  <2>2. \A v \in View : addToView(v, id, floating) \in View
    BY AddToViewType
  <2> QED BY <1>1, <2>1, <2>2
<1>3. all \in [WindowID -> SUBSET ViewName]
  BY <1>1 DEF State
<1>4. Clean(u)
  <2> HIDE DEF views, all
  <2> QED BY <1>1, <1>2, <1>3, MapViewsType
<1>5. CASE hasActiveView(u) /\ contains(activeView(u), id)
  <2>1. AddWindow(s, id, floating, tags, order) =
          [OnActiveView(u, w) EXCEPT !.Focused = id, !.FocusOutput = activeOutput(u)]
    BY <1>5 DEF AddWindow, t
  <2> HIDE DEF u
  <2>2. Clean(OnActiveView(u, w))
    <3>1. activeView(u) \in View
      BY <1>4, <1>5, ActiveViewType DEF Clean
    <3> QED BY <1>4, <1>5, <3>1, FocusWindowType, OnActiveViewType
  <2>3. activeOutput(u) \in Nat
    <3>1. u \in State /\ u.Outputs # <<>>
      BY <1>4, <1>5 DEF Clean, hasActiveView
    <3> QED BY <3>1, ActiveOutputType
  <2> DEFINE x == OnActiveView(u, w)
  <2>4. Clean([x EXCEPT !.Focused = id, !.FocusOutput = activeOutput(u)])
    BY <2>2, <2>3, SetFocusType
  <2> QED BY <2>1, <2>4
<1>6. CASE ~(hasActiveView(u) /\ contains(activeView(u), id))
  <2>1. AddWindow(s, id, floating, tags, order) = u
    BY <1>6 DEF AddWindow, t
  <2> QED BY <1>4, <2>1
<1> QED BY <1>5, <1>6

LEMMA RemoveFromNewView ==
  ASSUME NEW id
  PROVE  /\ removeFromView(NewView, id) = NewView
         /\ ~contains(NewView, id)
         /\ empty(NewView)
<1>1. NewView.Columns = <<NewColumn(<<>>)>> /\ NewView.Float = <<>>
  BY DEF NewView
<1>2. NewColumn(<<>>).Windows = <<>>
  BY DEF NewColumn
<1>3. ~InColumn(NewView, id) /\ ~FloatContains(NewView, id)
  BY <1>1, <1>2 DEF InColumn, FloatContains, ToSet
<1> QED BY <1>1, <1>2, <1>3 DEF removeFromView, contains, empty

LEMMA RemoveWindowType ==
  ASSUME NEW s, Clean(s), NEW id \in WindowID
  PROVE  Clean(RemoveWindow(s, id))
<1> DEFINE tags  == [s.Tags EXCEPT ![id] = {}]
           views == [n \in ViewName |-> removeFromView(s.Views[n], id)]
           t     == [s EXCEPT !.Tags = tags, !.Views = views]
<1>1. /\ tags \in [WindowID -> SUBSET ViewName]
      /\ views \in [ViewName -> View]
      /\ \A n \in ViewName : ~exists(s, n) => views[n] = NewView
  BY RemoveFromViewType, RemoveFromNewView DEF Clean, State
<1>2. Clean(t)
  <2> HIDE DEF tags, views
  <2> QED BY <1>1, MapViewsType
<1>3. CASE ~Managed(s, id)
  BY <1>3 DEF RemoveWindow
<1>4. CASE Managed(s, id)
  <2>1. RemoveWindow(s, id) = refocus(gcViews(t))
    BY <1>4 DEF RemoveWindow
  <2> HIDE DEF t
  <2> QED BY <1>2, <2>1, GcViewsType, RefocusType
<1> QED BY <1>3, <1>4

LEMMA ReplaceInNewView ==
  ASSUME NEW old \in WindowID, NEW nu \in WindowID
  PROVE  ReplaceInView(NewView, old, nu) = NewView
<1> DEFINE c == NewColumn(<<>>)
           cols == [ci \in DOMAIN NewView.Columns |->
                      [NewView.Columns[ci] EXCEPT !.Windows = Replaced(@, old, nu)]]
<1>1. Replaced(<<>>, old, nu) = <<>>
  BY DEF Replaced
<1>2. c = [Windows |-> <<>>, Mode |-> "default", Sel |-> 1]
  BY DEF NewColumn
<1>3. [c EXCEPT !.Windows = Replaced(@, old, nu)] = c
  BY <1>1, <1>2
<1>4. NewView.Columns = <<c>> /\ NewView.Float = <<>> /\ NewView.Fullscreen = NoWindow
  BY DEF NewView
<1>5. cols = <<c>>
  <2> HIDE DEF c
  <2> QED BY <1>3, <1>4
<1>6. NoWindow # old
  BY ViewAssumption
<1>7. ReplaceInView(NewView, old, nu) =
        [NewView EXCEPT !.Columns = cols,
                        !.Float = Replaced(@, old, nu),
                        !.Fullscreen = IF @ = old THEN nu ELSE @]
  BY DEF ReplaceInView
<1> HIDE DEF cols, c
<1> QED BY <1>1, <1>4, <1>5, <1>6, <1>7 DEF NewView

LEMMA ReplaceWindowType ==
  ASSUME NEW s, Clean(s), NEW old \in WindowID, NEW nu \in WindowID
  PROVE  Clean(ReplaceWindow(s, old, nu))
<1> DEFINE views == [n \in ViewName |-> ReplaceInView(s.Views[n], old, nu)]
           tags  == [s.Tags EXCEPT ![nu] = s.Tags[old], ![old] = {}]
           f     == IF s.Focused = old THEN nu ELSE s.Focused
           t     == [s EXCEPT !.Tags = tags, !.Views = views]
<1>1. /\ tags \in [WindowID -> SUBSET ViewName]
      /\ views \in [ViewName -> View]
      /\ \A n \in ViewName : ~exists(s, n) => views[n] = NewView
  BY ReplaceInViewType, ReplaceInNewView DEF Clean, State
<1>2. s \in State /\ f \in WindowID \cup {NoWindow} /\ s.FocusOutput \in Nat
  BY DEF Clean, State
<1>3. CASE ~Managed(s, old) \/ old = nu \/ Managed(s, nu)
  BY <1>3 DEF ReplaceWindow
<1>4. CASE ~(~Managed(s, old) \/ old = nu \/ Managed(s, nu))
  <2>1. ReplaceWindow(s, old, nu) = [s EXCEPT !.Views = views, !.Tags = tags, !.Focused = f]
    BY <1>4 DEF ReplaceWindow
  <2> HIDE DEF views, tags, f
  <2>2. ReplaceWindow(s, old, nu) = [t EXCEPT !.Focused = f, !.FocusOutput = s.FocusOutput]
    BY <1>2, <2>1 DEF State
  <2>3. Clean(t)
    BY <1>1, MapViewsType
  <2> HIDE DEF t
  <2>4. Clean([t EXCEPT !.Focused = f, !.FocusOutput = s.FocusOutput])
    BY <1>2, <2>3, SetFocusType
  <2> QED BY <2>2, <2>4
<1> QED BY <1>3, <1>4

-----------------------------------------------------------------------------
(* Views and tags.                                                         *)

\* The outputs after the active one has taken view n.
SelectedOutputs(s, n) ==
  LET a == activeOutput(s)
  IN IF Showing(s, n) # {}
     THEN [s.Outputs EXCEPT ![outputShowing(s, n)].View = s.Outputs[a].View, ![a].View = n]
     ELSE [s.Outputs EXCEPT ![a].View = n]

LEMMA SelectedOutputsType ==
  ASSUME NEW s \in State, s.Outputs # <<>>, NEW n \in ViewName
  PROVE  SelectedOutputs(s, n) \in Seq(Output)
<1> DEFINE a == activeOutput(s)
           b == outputShowing(s, n)
           given == [s.Outputs EXCEPT ![b].View = s.Outputs[a].View]
<1>1. s.Outputs \in Seq(Output) /\ a \in 1..Len(s.Outputs) /\ s.Outputs[a].View \in ViewName
  BY ActiveOutputType DEF State, Output
<1>2. ASSUME NEW outs \in Seq(Output), NEW i \in 1..Len(outs), NEW m \in ViewName
      PROVE  [outs EXCEPT ![i].View = m] \in Seq(Output) /\ Len([outs EXCEPT ![i].View = m]) = Len(outs)
  <2> DEFINE o == [outs[i] EXCEPT !.View = m]
  <2>1. o \in Output
    <3>1. outs[i] \in Output
      BY ElementOfSeq
    <3> QED BY <3>1 DEF Output
  <2>2. [outs EXCEPT ![i] = o] \in Seq(Output) /\ Len([outs EXCEPT ![i] = o]) = Len(outs)
    <3> HIDE DEF o
    <3> QED BY <2>1, ExceptSeq
  <2> QED BY <2>2
<1>3. CASE Showing(s, n) # {}
  <2>1. b \in 1..Len(s.Outputs)
    BY <1>3, OutputShowingType
  <2>2. given \in Seq(Output) /\ Len(given) = Len(s.Outputs)
    <3> HIDE DEF b
    <3> QED BY <1>1, <1>2, <2>1
  <2>3. [given EXCEPT ![a].View = n] \in Seq(Output)
    <3> HIDE DEF given, a
    <3> QED BY <1>1, <1>2, <2>2
  <2>4. SelectedOutputs(s, n) = [given EXCEPT ![a].View = n]
    BY <1>3 DEF SelectedOutputs
  <2> QED BY <2>3, <2>4
<1>4. CASE Showing(s, n) = {}
  <2>1. SelectedOutputs(s, n) = [s.Outputs EXCEPT ![a].View = n]
    BY <1>4 DEF SelectedOutputs
  <2>2. [s.Outputs EXCEPT ![a].View = n] \in Seq(Output)
    <3> HIDE DEF a
    <3> QED BY <1>1, <1>2
  <2> QED BY <2>1, <2>2
<1> QED BY <1>3, <1>4

LEMMA SelectViewType ==
  ASSUME NEW s, Clean(s), NEW n \in ViewName
  PROVE  Clean(SelectView(s, n))
<1> DEFINE a    == activeOutput(s)
           outs == SelectedOutputs(s, n)
           t    == ensureView(s, n)
<1>1. CASE s.Outputs = <<>>
  BY <1>1 DEF SelectView
<1>2. CASE s.Outputs # <<>> /\ activeName(s) = n
  BY <1>2, RefocusType DEF SelectView
<1>3. CASE s.Outputs # <<>> /\ activeName(s) # n
  <2>1. s \in State
    BY DEF Clean
  <2>2. outs \in Seq(Output) /\ a \in Nat
    BY <1>3, <2>1, SelectedOutputsType, ActiveOutputType
  <2>3. Clean(t)
    BY EnsureViewType
  <2>4. Clean([t EXCEPT !.Outputs = outs, !.FocusOutput = a])
    <3> HIDE DEF t, outs, a
    <3> QED BY <2>2, <2>3, SetOutputsType
  <2>5. SelectView(s, n) = refocus(gcViews([t EXCEPT !.Outputs = outs, !.FocusOutput = a]))
    BY <1>3 DEF SelectView, SelectedOutputs
  <2> QED BY <2>4, <2>5, GcViewsType, RefocusType
<1> QED BY <1>1, <1>2, <1>3

LEMMA SelectViewNType ==
  ASSUME NEW s, Clean(s), NEW n \in ViewName
  PROVE  Clean(SelectViewN(s, n))
BY EnsureViewType, SelectViewType DEF SelectViewN

\* The stop CycleView takes is a view.
LEMMA CycleViewStops ==
  ASSUME NEW s \in State, NEW delta
  PROVE  \/ CycleView(s, delta) = s
         \/ \E n \in ViewName : CycleView(s, delta) = SelectView(s, n)
<1>1. CASE s.Outputs = <<>> \/ ViewSet(s) = {} \/ CycleStops(s, delta) = {}
  BY <1>1 DEF CycleView
<1>2. CASE ~(s.Outputs = <<>> \/ ViewSet(s) = {} \/ CycleStops(s, delta) = {})
  <2> DEFINE stops == CycleStops(s, delta)
             stop  == CHOOSE p \in stops : \A q \in stops : p[1] <= q[1]
             steps == {p[1] : p \in stops}
  <2>1. stops \subseteq Nat \X ViewName
    <3>1. Cardinality(ViewSet(s)) \in Nat /\ ViewSet(s) \subseteq ViewName
      BY ViewSetCardinality DEF ViewSet
    <3> QED BY <3>1 DEF CycleStops
  <2> HIDE DEF stops
  <2>2. steps \subseteq Nat /\ steps # {}
    BY <1>2, <2>1 DEF stops
  <2>3. \E i \in steps : \A j \in steps : i <= j
    BY <2>2, LeastExists
  <2>4. \E p \in stops : \A q \in stops : p[1] <= q[1]
    BY <2>3
  <2>5. stop \in stops
    BY <2>4
  <2>6. CycleView(s, delta) = SelectView(s, stop[2])
    BY <1>2 DEF CycleView, stops
  <2> QED BY <2>1, <2>5, <2>6
<1> QED BY <1>1, <1>2

LEMMA CycleViewType ==
  ASSUME NEW s, Clean(s), NEW delta
  PROVE  Clean(CycleView(s, delta))
<1>1. s \in State
  BY DEF Clean
<1>2. CASE \E n \in ViewName : CycleView(s, delta) = SelectView(s, n)
  BY <1>2, SelectViewType
<1> QED BY <1>1, <1>2, CycleViewStops

LEMMA RetagType ==
  ASSUME NEW s, Clean(s), s.Focused \in WindowID,
         NEW tags \in SUBSET ViewName, NEW order \in CreationOrders(s, tags)
  PROVE  Clean(Retag(s, tags, order))
<1> DEFINE id    == s.Focused
           fl    == vFocusFloating(s, id)
           e     == ensureViews(s, order)
           all   == [e.Tags EXCEPT ![id] = tags]
           t     == [e EXCEPT !.Tags = all]
           views == [n \in ViewName |->
                       IF ~exists(t, n) THEN t.Views[n]
                       ELSE IF n \in t.Tags[id] THEN addToView(t.Views[n], id, fl)
                       ELSE removeFromView(t.Views[n], id)]
<1>1. Clean(e) /\ e \in State
  BY EnsureViewsType DEF Clean
<1> HIDE DEF e
<1>2. all \in [WindowID -> SUBSET ViewName] /\ e.Views \in [ViewName -> View]
  BY <1>1 DEF State
<1>3. fl \in BOOLEAN
  BY DEF vFocusFloating, hasActiveView
<1>4. Clean(t) /\ t \in State
  <2> HIDE DEF all
  <2>1. t = [e EXCEPT !.Tags = all, !.Views = e.Views]
    BY <1>1 DEF State
  <2>2. \A n \in ViewName : ~exists(e, n) => e.Views[n] = NewView
    BY <1>1 DEF Clean
  <2>3. Clean([e EXCEPT !.Tags = all, !.Views = e.Views])
    BY <1>1, <1>2, <2>2, MapViewsType
  <2> QED BY <2>1, <2>3 DEF Clean
<1>5. views \in [ViewName -> View] /\ \A n \in ViewName : ~exists(t, n) => views[n] = NewView
  <2> HIDE DEF t, fl
  <2>1. t.Views \in [ViewName -> View] /\ \A n \in ViewName : ~exists(t, n) => t.Views[n] = NewView
    BY <1>4 DEF Clean, State
  <2>2. \A v \in View : addToView(v, id, fl) \in View /\ removeFromView(v, id) \in View
    BY <1>3, AddToViewType, RemoveFromViewType
  <2> QED BY <2>1, <2>2
<1>6. Clean([t EXCEPT !.Views = views])
  <2> HIDE DEF t, views
  <2> QED BY <1>2, <1>4, <1>5, MapViewsType
<1>7. Retag(s, tags, order) = refocus(gcViews([t EXCEPT !.Views = views]))
  BY DEF Retag, syncWindowViews, e
<1> QED BY <1>6, <1>7, GcViewsType, RefocusType

\* The single view MoveToView may have to create.
LEMMA CreateOneOrder ==
  ASSUME NEW s, NEW n \in ViewName
  PROVE  CreateOne(s, n) \in CreationOrders(s, {n})
<1>1. CASE exists(s, n)
  <2>1. {n} \ ViewSet(s) = {}
    BY <1>1 DEF ViewSet
  <2>2. <<>> \in [1..0 -> {}] /\ ToSet(<<>>) = {}
    BY DEF ToSet
  <2> QED BY <1>1, <2>1, <2>2, FS_EmptySet DEF CreateOne, CreationOrders
<1>2. CASE ~exists(s, n)
  <2>1. {n} \ ViewSet(s) = {n}
    BY <1>2 DEF ViewSet
  <2>2. <<n>> \in [1..1 -> {n}] /\ ToSet(<<n>>) = {n}
    BY DEF ToSet
  <2>3. Cardinality({n}) = 1
    BY FS_Singleton
  <2> QED BY <1>2, <2>1, <2>2, <2>3 DEF CreateOne, CreationOrders
<1> QED BY <1>1, <1>2

\* A window that has tags has the focus.
LEMMA FocusedTagsType ==
  ASSUME NEW s \in State, FocusedTags(s) # {}
  PROVE  s.Focused \in WindowID
BY DEF FocusedTags, State

LEMMA MoveToViewType ==
  ASSUME NEW s, Clean(s), NEW n \in ViewName
  PROVE  Clean(MoveToView(s, n)) /\ Clean(MoveToViewN(s, n))
<1>1. ASSUME NEW t, Clean(t) PROVE Clean(MoveToView(t, n))
  <2>1. CASE FocusedTags(t) = {}
    BY <1>1, <2>1 DEF MoveToView
  <2>2. CASE FocusedTags(t) # {}
    <3>1. t.Focused \in WindowID
      BY <1>1, <2>2, FocusedTagsType DEF Clean
    <3>2. Clean(Retag(t, {n}, CreateOne(t, n)))
      BY <1>1, <3>1, CreateOneOrder, RetagType
    <3> QED BY <2>2, <3>2 DEF MoveToView
  <2> QED BY <2>1, <2>2
<1> QED BY <1>1, EnsureViewType DEF MoveToViewN

LEMMA SpecTagsType ==
  ASSUME NEW s \in State, NEW specs
  PROVE  specTags(s, specs) \in SUBSET ViewName
<1>1. hasActiveView(s) => activeName(s) \in ViewName
  BY ActiveViewType
<1> QED BY <1>1 DEF specTags

LEMMA TagSpecType ==
  ASSUME NEW s, Clean(s), NEW specs, NEW order \in CreationOrders(s, specTags(s, specs))
  PROVE  Clean(TagSpec(s, specs, order))
<1>1. CASE FocusedTags(s) = {} \/ specs = <<>> \/ specTags(s, specs) = {}
  BY <1>1 DEF TagSpec
<1>2. CASE ~(FocusedTags(s) = {} \/ specs = <<>> \/ specTags(s, specs) = {})
  <2>1. s.Focused \in WindowID /\ specTags(s, specs) \in SUBSET ViewName
    BY <1>2, FocusedTagsType, SpecTagsType DEF Clean
  <2>2. Clean(Retag(s, specTags(s, specs), order))
    BY <2>1, RetagType
  <2> QED BY <1>2, <2>2 DEF TagSpec
<1> QED BY <1>1, <1>2

LEMMA FocusShownWindowType ==
  ASSUME NEW s, Clean(s), NEW id, NEW n \in ShownTags(s, id), NEW m \in ViewName, m = n
  PROVE  Clean(FocusShownWindow(s, id, n))
<1> DEFINE t == [s EXCEPT !.FocusOutput = outputShowing(s, n)]
           w == focusWindow(t.Views[n], id)
<1>1. outputShowing(s, n) \in Nat
  BY OutputShowingType DEF ShownTags, Clean
<1>2. Clean(t)
  <2>1. <<>> \in Seq(Output)
    OBVIOUS
  <2> QED BY <1>1, <2>1, SetOutputsType
<1>3. FocusShownWindow(s, id, n) =
        refocus(IF exists(s, n) THEN [t EXCEPT !.Views[n] = w] ELSE t)
  BY DEF FocusShownWindow
<1>4. exists(s, n) <=> exists(t, n)
  BY DEF exists, Clean, State
<1> HIDE DEF t
<1>5. w \in View
  BY <1>2, FocusWindowType DEF Clean, State
<1>6. exists(t, n) => Clean([t EXCEPT !.Views[n] = w])
  <2> HIDE DEF w
  <2> QED BY <1>2, <1>5, SetViewType
<1> QED BY <1>2, <1>3, <1>4, <1>6, RefocusType

LEMMA FocusHiddenWindowType ==
  ASSUME NEW s, Clean(s), NEW id \in WindowID, s.Tags[id] # {}
  PROVE  Clean(FocusHiddenWindow(s, id))
<1> DEFINE n == Least(s.Tags[id])
           t == SelectView(s, n)
           w == focusWindow(activeView(t), id)
<1>1. n \in ViewName
  <2>1. s.Tags[id] \subseteq ViewName /\ ViewName \subseteq Nat
    BY StateAssumption DEF Clean, State
  <2> QED BY <2>1, LeastType
<1>2. Clean(t)
  BY <1>1, SelectViewType
<1>3. FocusHiddenWindow(s, id) =
        refocus(IF hasActiveView(t) /\ contains(activeView(t), id)
                THEN OnActiveView(t, w) ELSE t)
  BY DEF FocusHiddenWindow
<1> HIDE DEF t
<1>4. hasActiveView(t) => Clean(OnActiveView(t, w))
  <2>1. hasActiveView(t) => w \in View
    BY <1>2, ActiveViewType, FocusWindowType DEF Clean
  <2> QED BY <1>2, <2>1, OnActiveViewType
<1> QED BY <1>2, <1>3, <1>4, RefocusType

-----------------------------------------------------------------------------
(* Spreading columns.                                                      *)

\* What rounding down a quotient gives, in the two directions used below.
LEMMA Quotient ==
  ASSUME NEW x \in Nat, NEW k \in Nat, k > 0
  PROVE  /\ x \div k \in Nat
         /\ k * (x \div k) <= x
         /\ x < k * (x \div k) + k
OBVIOUS

LEMMA QuotientBound ==
  ASSUME NEW x \in Nat, NEW y \in Nat, NEW k \in Nat, k > 0, x < k * y + k
  PROVE  x \div k <= y
<1> DEFINE q == x \div k
<1>1. q \in Nat /\ k * q <= x
  BY Quotient
<1> HIDE DEF q
<1> SUFFICES ASSUME q >= y + 1 PROVE FALSE
  BY <1>1
<1>2. PICK d \in Nat : q = y + 1 + d
  BY <1>1
<1>3. k * q = k * y + k + k * d /\ k * d >= 0 /\ k * y \in Nat /\ k * d \in Nat
  BY <1>2
<1> QED BY <1>1, <1>3

\* The columns SpreadColumns makes are within the windows it spreads.
LEMMA SpreadBound ==
  ASSUME NEW len \in Nat, NEW k \in Nat, k > 0, NEW j \in 0..k
  PROVE  /\ (j * len + k - 1) \div k \in Nat
         /\ (j * len + k - 1) \div k <= len
<1>1. j * len \in Nat /\ k * len \in Nat
  OBVIOUS
<1>2. j * len <= k * len
  <2>1. PICK d \in Nat : k = j + d
    OBVIOUS
  <2>2. k * len = j * len + d * len /\ d * len \in Nat
    BY <2>1
  <2> QED BY <1>1, <2>2
<1> DEFINE x == j * len + k - 1
<1>3. x \in Nat /\ x < k * len + k
  BY <1>1, <1>2
<1> HIDE DEF x
<1>4. x \div k \in Nat /\ x \div k <= len
  BY <1>3, Quotient, QuotientBound
<1> QED BY <1>4 DEF x

\* The tiled windows of a view are finitely many.
LEMMA TiledType ==
  ASSUME NEW v \in View
  PROVE  IsFiniteSet(Tiled(v)) /\ Tiled(v) \subseteq WindowID
<1>1. v.Columns \in Seq(Column)
  BY DEF View
<1>2. ASSUME NEW ids \in Seq(WindowID)
      PROVE  IsFiniteSet(ToSet(ids)) /\ ToSet(ids) \subseteq WindowID
  <2>1. IsFiniteSet(1..Len(ids))
    BY FS_Interval
  <2>2. ids \in Surjection(1..Len(ids), ToSet(ids))
    BY DEF ToSet, Surjection
  <2> QED BY <2>1, <2>2, FS_Surjection DEF ToSet
<1> DEFINE sets == {ToSet(v.Columns[ci].Windows) : ci \in 1..Len(v.Columns)}
           f    == [ci \in 1..Len(v.Columns) |-> ToSet(v.Columns[ci].Windows)]
<1>3. \A S \in sets : IsFiniteSet(S) /\ S \subseteq WindowID
  <2>1. ASSUME NEW ci \in 1..Len(v.Columns) PROVE v.Columns[ci].Windows \in Seq(WindowID)
    <3>1. v.Columns[ci] \in Column
      BY <1>1, ElementOfSeq
    <3> QED BY <3>1 DEF Column
  <2> QED BY <1>2, <2>1
<1>4. IsFiniteSet(sets)
  <2>1. IsFiniteSet(1..Len(v.Columns))
    BY <1>1, FS_Interval
  <2>2. f \in Surjection(1..Len(v.Columns), sets)
    BY DEF Surjection
  <2> QED BY <2>1, <2>2, FS_Surjection
<1>5. Tiled(v) = UNION sets
  BY <1>1 DEF Tiled
<1> HIDE DEF sets
<1> QED BY <1>3, <1>4, <1>5, FS_UNION

\* The windows of a view read in order are a sequence of windows.
LEMMA ReadingOrdersType ==
  ASSUME NEW v \in View, NEW q \in ReadingOrders(v)
  PROVE  q \in Seq(WindowID)
<1>1. IsFiniteSet(Tiled(v)) /\ Tiled(v) \subseteq WindowID
  BY TiledType
<1>2. Cardinality(Tiled(v)) \in Nat
  BY <1>1, FS_CardinalityType
<1>3. q \in [1..Cardinality(Tiled(v)) -> Tiled(v)]
  BY DEF ReadingOrders
<1> DEFINE k == Cardinality(Tiled(v))
<1> HIDE DEF k
<1>4. k \in Nat /\ q \in [1..k -> WindowID]
  BY <1>1, <1>2, <1>3 DEF k
<1> QED BY <1>4

LEMMA SpreadColumnsType ==
  ASSUME NEW s, Clean(s), NEW n \in ViewName, NEW tiled \in Seq(WindowID), NEW maxCols \in Nat
  PROVE  Clean(SpreadColumns(s, n, tiled, maxCols))
<1> DEFINE v   == s.Views[n]
           len == Len(tiled)
           k   == IF len < maxCols THEN len ELSE maxCols
           first(j) == ((j - 1) * len + k - 1) \div k + 1
           column(j) == NewColumn(SubSeq(tiled, first(j), first(j + 1) - 1))
           cols == [j \in 1..k |-> column(j)]
           spread == [v EXCEPT !.Columns = cols, !.FocusCol = 1]
           w == IF v.FocusLayer = "tiled" THEN focusWindow(spread, focusedWindow(v)) ELSE spread
<1>1. CASE ~exists(s, n) \/ k <= 1
  BY <1>1 DEF SpreadColumns
<1>2. CASE exists(s, n) /\ ~(k <= 1)
  <2>1. v \in View /\ len \in Nat /\ k \in Nat
    BY DEF Clean, State
  <2>2. cols \in Seq(Column)
    <3>1. ASSUME NEW j \in 1..k PROVE column(j) \in Column
      <4> DEFINE a == first(j)
                 b == first(j + 1) - 1
      <4>1. /\ ((j - 1) * len + k - 1) \div k \in Nat
            /\ (((j + 1) - 1) * len + k - 1) \div k \in Nat
            /\ (((j + 1) - 1) * len + k - 1) \div k <= len
        <5> HIDE DEF len, k
        <5>1. j - 1 \in 0..k /\ (j + 1) - 1 \in 0..k /\ k > 0
          BY <1>2, <2>1
        <5> QED BY <2>1, <5>1, SpreadBound
      <4>2. a \in Nat /\ a >= 1 /\ b \in Nat /\ b <= len
        <5> HIDE DEF len, k
        <5> QED BY <2>1, <4>1
      <4> HIDE DEF a, b
      <4>3. \A i \in a..b : tiled[i] \in WindowID
        BY <4>2, ElementOfSeq
      <4>4. SubSeq(tiled, a, b) \in Seq(WindowID)
        BY <4>2, <4>3, SubSeqProperties
      <4>5. NewColumn(SubSeq(tiled, a, b)) \in Column
        BY <4>4, NewColumnType
      <4> QED BY <4>5 DEF a, b
    <3> HIDE DEF column, k
    <3> QED BY <2>1, <3>1
  <2>3. spread \in View
    <3> HIDE DEF cols
    <3> QED BY <2>1, <2>2, ViewWithColumns
  <2>4. w \in View
    <3> HIDE DEF spread
    <3> QED BY <2>3, FocusWindowType
  <2>5. SpreadColumns(s, n, tiled, maxCols) = [s EXCEPT !.Views[n] = w]
    BY <1>2 DEF SpreadColumns
  <2>6. Clean([s EXCEPT !.Views[n] = w])
    <3> HIDE DEF w
    <3> QED BY <1>2, <2>4, SetViewType
  <2> QED BY <2>5, <2>6
<1> QED BY <1>1, <1>2

-----------------------------------------------------------------------------
(* Sequences as sets of what they hold.                                    *)

LEMMA ToSetOf ==
  ASSUME NEW T, NEW q \in Seq(T)
  PROVE  /\ ToSet(q) = {q[i] : i \in 1..Len(q)}
         /\ ToSet(q) \subseteq T
         /\ q = <<>> <=> ToSet(q) = {}
         /\ q = <<>> <=> Len(q) = 0
         /\ Len(q) \in Nat
<1>1. ToSet(q) = {q[i] : i \in 1..Len(q)}
  BY DEF ToSet
<1>2. Len(q) \in Nat /\ (q = <<>> <=> Len(q) = 0)
  BY EmptySeq
<1>3. q # <<>> => q[1] \in ToSet(q)
  BY <1>1, <1>2
<1>4. q = <<>> => ToSet(q) = {}
  BY <1>1, <1>2
<1> QED BY <1>1, <1>2, <1>3, <1>4

\* A sequence without repetitions loses exactly the element at the index.
LEMMA RemoveAtSet ==
  ASSUME NEW T, NEW q \in Seq(T), NEW i \in 1..Len(q), IsInjective(q)
  PROVE  /\ RemoveAt(q, i) \in Seq(T)
         /\ Len(RemoveAt(q, i)) = Len(q) - 1
         /\ IsInjective(RemoveAt(q, i))
         /\ ToSet(RemoveAt(q, i)) = ToSet(q) \ {q[i]}
<1> DEFINE r == RemoveAt(q, i)
<1>1. /\ r \in Seq(T)
      /\ Len(r) = Len(q) - 1
      /\ \A j \in 1..Len(q) - 1 : r[j] = IF j < i THEN q[j] ELSE q[j + 1]
  BY RemoveAtType
<1> HIDE DEF r
<1>2. DOMAIN r = 1..Len(q) - 1 /\ DOMAIN q = 1..Len(q) /\ Len(q) \in Nat
  BY <1>1
<1>3. \A a, b \in 1..Len(q) : q[a] = q[b] => a = b
  BY <1>2 DEF IsInjective
<1>4. IsInjective(r)
  <2> SUFFICES ASSUME NEW a \in 1..Len(q) - 1, NEW b \in 1..Len(q) - 1, r[a] = r[b]
               PROVE  a = b
    BY <1>2 DEF IsInjective
  <2> DEFINE x == IF a < i THEN a ELSE a + 1
             y == IF b < i THEN b ELSE b + 1
  <2>1. x \in 1..Len(q) /\ y \in 1..Len(q)
    BY <1>2
  <2>2. r[a] = q[x] /\ r[b] = q[y]
    BY <1>1
  <2>3. x = y
    BY <1>3, <2>1, <2>2
  <2> QED BY <1>2, <2>3
<1>5. ASSUME NEW e \in ToSet(r) PROVE e \in ToSet(q) /\ e # q[i]
  <2>1. PICK a \in 1..Len(q) - 1 : r[a] = e
    BY <1>1, ToSetOf
  <2> DEFINE x == IF a < i THEN a ELSE a + 1
  <2>2. x \in 1..Len(q) /\ x # i
    BY <1>2
  <2>3. q[x] = e
    BY <1>1, <2>1
  <2> HIDE DEF x
  <2> QED BY <1>3, <2>2, <2>3, ToSetOf
<1>6. ASSUME NEW e \in ToSet(q), e # q[i] PROVE e \in ToSet(r)
  <2>1. PICK x \in 1..Len(q) : q[x] = e
    BY ToSetOf
  <2>2. x # i
    BY <1>6, <2>1
  <2> DEFINE a == IF x < i THEN x ELSE x - 1
  <2>3. a \in 1..Len(q) - 1 /\ r[a] = q[x]
    BY <1>1, <1>2, <2>2
  <2> HIDE DEF a
  <2> QED BY <1>1, <2>1, <2>3, ToSetOf
<1> QED BY <1>1, <1>4, <1>5, <1>6 DEF r

LEMMA AppendSet ==
  ASSUME NEW T, NEW q \in Seq(T), NEW e \in T
  PROVE  /\ Append(q, e) \in Seq(T)
         /\ Len(Append(q, e)) = Len(q) + 1
         /\ \A j \in 1..Len(q) : Append(q, e)[j] = q[j]
         /\ Append(q, e)[Len(q) + 1] = e
         /\ ToSet(Append(q, e)) = ToSet(q) \cup {e}
         /\ IsInjective(q) /\ e \notin ToSet(q) => IsInjective(Append(q, e))
<1> DEFINE r == Append(q, e)
<1>1. /\ r \in Seq(T) /\ Len(r) = Len(q) + 1
      /\ \A j \in 1..Len(q) : r[j] = q[j]
      /\ r[Len(q) + 1] = e
  BY AppendProperties
<1> HIDE DEF r
<1>2. DOMAIN r = 1..Len(q) + 1 /\ DOMAIN q = 1..Len(q) /\ Len(q) \in Nat
  BY <1>1
<1>3. ToSet(r) = ToSet(q) \cup {e}
  <2>1. ASSUME NEW x \in ToSet(r) PROVE x \in ToSet(q) \cup {e}
    <3>1. PICK j \in 1..Len(q) + 1 : r[j] = x
      BY <1>1, <2>1, ToSetOf
    <3>2. j \in 1..Len(q) \/ j = Len(q) + 1
      BY <1>2
    <3> QED BY <1>1, <3>1, <3>2, ToSetOf
  <2>2. ASSUME NEW x \in ToSet(q) PROVE x \in ToSet(r)
    <3>1. PICK j \in 1..Len(q) : q[j] = x
      BY <2>2, ToSetOf
    <3>2. j \in 1..Len(r) /\ r[j] = x
      BY <1>1, <1>2, <3>1
    <3> QED BY <1>1, <3>2, ToSetOf
  <2>3. e \in ToSet(r)
    <3>1. Len(q) + 1 \in 1..Len(r)
      BY <1>1, <1>2
    <3> QED BY <1>1, <3>1, ToSetOf
  <2> QED BY <2>1, <2>2, <2>3
<1>4. ASSUME IsInjective(q), e \notin ToSet(q) PROVE IsInjective(r)
  <2>1. \A a \in 1..Len(q) : q[a] # e
    BY <1>4, ToSetOf
  <2>2. \A a, b \in 1..Len(q) : q[a] = q[b] => a = b
    BY <1>2, <1>4 DEF IsInjective
  <2>3. ASSUME NEW a \in 1..Len(q) + 1, NEW b \in 1..Len(q) + 1, r[a] = r[b] PROVE a = b
    <3>1. (a \in 1..Len(q) \/ a = Len(q) + 1) /\ (b \in 1..Len(q) \/ b = Len(q) + 1)
      BY <1>2
    <3> QED BY <1>1, <2>1, <2>2, <2>3, <3>1
  <2> QED BY <1>2, <2>3 DEF IsInjective
<1> QED BY <1>1, <1>3, <1>4 DEF r

LEMMA SwappedSet ==
  ASSUME NEW T, NEW q \in Seq(T), NEW i \in 1..Len(q), NEW j \in 1..Len(q), IsInjective(q)
  PROVE  /\ Swapped(q, i, j) \in Seq(T)
         /\ Len(Swapped(q, i, j)) = Len(q)
         /\ IsInjective(Swapped(q, i, j))
         /\ ToSet(Swapped(q, i, j)) = ToSet(q)
         /\ Swapped(q, i, j)[j] = q[i]
<1> DEFINE r == Swapped(q, i, j)
           p(a) == IF a = j THEN i ELSE IF a = i THEN j ELSE a
<1>1. r \in Seq(T)
  <2>1. i \in DOMAIN q /\ j \in DOMAIN q
    OBVIOUS
  <2> QED BY <2>1, SwappedType
<1>2. DOMAIN r = 1..Len(q) /\ \A a \in 1..Len(q) : r[a] = q[p(a)]
  BY DEF Swapped
<1>3. \A a \in 1..Len(q) : p(a) \in 1..Len(q) /\ p(p(a)) = a
  OBVIOUS
<1> HIDE DEF r, p
<1>4. Len(r) = Len(q)
  BY <1>1, <1>2
<1>5. \A a, b \in 1..Len(q) : q[a] = q[b] => a = b
  BY DEF IsInjective
<1>6. IsInjective(r)
  <2>1. ASSUME NEW a \in 1..Len(q), NEW b \in 1..Len(q), r[a] = r[b] PROVE a = b
    <3>1. p(a) = p(b)
      BY <1>2, <1>3, <1>5, <2>1
    <3>2. p(p(a)) = a /\ p(p(b)) = b
      BY <1>3
    <3> QED BY <3>1, <3>2
  <2> QED BY <1>2, <2>1 DEF IsInjective
<1>7. ToSet(r) = ToSet(q)
  <2>1. ASSUME NEW x \in ToSet(r) PROVE x \in ToSet(q)
    <3>1. PICK a \in 1..Len(q) : r[a] = x
      BY <1>2, <2>1 DEF ToSet
    <3>2. p(a) \in 1..Len(q) /\ q[p(a)] = x
      BY <1>2, <1>3, <3>1
    <3>3. DOMAIN q = 1..Len(q)
      OBVIOUS
    <3> QED BY <3>2, <3>3 DEF ToSet
  <2>2. ASSUME NEW x \in ToSet(q) PROVE x \in ToSet(r)
    <3>1. PICK a \in 1..Len(q) : q[a] = x
      BY <2>2, ToSetOf
    <3>2. p(a) \in 1..Len(q) /\ r[p(a)] = x
      BY <1>2, <1>3, <3>1
    <3> QED BY <1>1, <1>4, <3>2, ToSetOf
  <2> QED BY <2>1, <2>2
<1>8. r[j] = q[i]
  BY <1>2 DEF p
<1> QED BY <1>1, <1>4, <1>6, <1>7, <1>8 DEF r

Renamed(id, old, nu) == IF id = old THEN nu ELSE id

LEMMA ReplacedSet ==
  ASSUME NEW q \in Seq(WindowID), NEW old \in WindowID, NEW nu \in WindowID,
         nu \notin ToSet(q), IsInjective(q)
  PROVE  /\ Replaced(q, old, nu) \in Seq(WindowID)
         /\ Len(Replaced(q, old, nu)) = Len(q)
         /\ IsInjective(Replaced(q, old, nu))
         /\ \A j \in 1..Len(q) :
              Replaced(q, old, nu)[j] = Renamed(q[j], old, nu)
         /\ ToSet(Replaced(q, old, nu)) = {Renamed(id, old, nu) : id \in ToSet(q)}
<1> DEFINE r == Replaced(q, old, nu)
<1>1. /\ r \in Seq(WindowID) /\ Len(r) = Len(q) /\ DOMAIN r = 1..Len(q)
      /\ \A j \in 1..Len(q) : r[j] = Renamed(q[j], old, nu)
  BY DEF Replaced, Renamed
<1> HIDE DEF r
<1>2. \A a \in 1..Len(q) : q[a] # nu
  BY ToSetOf
<1>3. \A a, b \in 1..Len(q) : q[a] = q[b] => a = b
  BY DEF IsInjective
<1>4. IsInjective(r)
  BY <1>1, <1>2, <1>3 DEF IsInjective, Renamed
<1>5. ToSet(r) = {r[j] : j \in 1..Len(q)} /\ ToSet(q) = {q[j] : j \in 1..Len(q)}
  BY <1>1, ToSetOf
<1>6. ToSet(r) = {Renamed(id, old, nu) : id \in ToSet(q)}
  BY <1>1, <1>5
<1> QED BY <1>1, <1>4, <1>6 DEF r

\* The index of an element of a sequence without repetitions.
LEMMA IndexOfInjective ==
  ASSUME NEW T, NEW q \in Seq(T), IsInjective(q), NEW i \in 1..Len(q)
  PROVE  IndexOf(q, q[i]) = i
BY DEF IndexOf, IsInjective

-----------------------------------------------------------------------------
(* Columns.                                                                *)

\* The windows of a sequence of columns, and that none is in it twice.
Held(cols) == UNION {ToSet(cols[ci].Windows) : ci \in DOMAIN cols}

Apart(cols) ==
  /\ \A ci \in DOMAIN cols : IsInjective(cols[ci].Windows)
  /\ \A ci, cj \in DOMAIN cols :
       ci # cj => ToSet(cols[ci].Windows) \cap ToSet(cols[cj].Windows) = {}

LEMMA ColumnFields ==
  ASSUME NEW c \in Column
  PROVE  c.Windows \in Seq(WindowID) /\ c.Mode \in Modes /\ c.Sel \in Nat
BY DEF Column

\* A sequence of columns with one of them changed.
LEMMA ColumnChanged ==
  ASSUME NEW cols \in Seq(Column), Apart(cols), NEW ci \in 1..Len(cols), NEW d \in Column,
         IsInjective(d.Windows),
         ToSet(d.Windows) \cap (Held(cols) \ ToSet(cols[ci].Windows)) = {}
  PROVE  /\ [cols EXCEPT ![ci] = d] \in Seq(Column)
         /\ Len([cols EXCEPT ![ci] = d]) = Len(cols)
         /\ Apart([cols EXCEPT ![ci] = d])
         /\ Held([cols EXCEPT ![ci] = d]) =
              (Held(cols) \ ToSet(cols[ci].Windows)) \cup ToSet(d.Windows)
<1> DEFINE r == [cols EXCEPT ![ci] = d]
<1>1. r \in Seq(Column) /\ Len(r) = Len(cols)
  BY ExceptSeq
<1>2. /\ DOMAIN r = 1..Len(cols) /\ DOMAIN cols = 1..Len(cols) /\ r[ci] = d
      /\ \A j \in 1..Len(cols) : j # ci => r[j] = cols[j]
  OBVIOUS
<1> HIDE DEF r
<1>3. ASSUME NEW j \in 1..Len(cols), j # ci
      PROVE  /\ ToSet(cols[j].Windows) \cap ToSet(d.Windows) = {}
             /\ ToSet(cols[j].Windows) \cap ToSet(cols[ci].Windows) = {}
             /\ ToSet(cols[j].Windows) \subseteq Held(cols)
  <2>1. ToSet(cols[j].Windows) \subseteq Held(cols)
    BY <1>2 DEF Held
  <2>2. ToSet(cols[j].Windows) \cap ToSet(cols[ci].Windows) = {}
    BY <1>2, <1>3 DEF Apart
  <2> QED BY <2>1, <2>2
<1>4. Apart(r)
  <2>1. \A j \in DOMAIN r : IsInjective(r[j].Windows)
    BY <1>2 DEF Apart
  <2>2. ASSUME NEW a \in DOMAIN r, NEW b \in DOMAIN r, a # b
        PROVE  ToSet(r[a].Windows) \cap ToSet(r[b].Windows) = {}
    <3>1. CASE a = ci
      BY <1>2, <1>3, <2>2, <3>1
    <3>2. CASE b = ci
      BY <1>2, <1>3, <2>2, <3>2
    <3>3. CASE a # ci /\ b # ci
      BY <1>2, <2>2, <3>3 DEF Apart
    <3> QED BY <3>1, <3>2, <3>3
  <2> QED BY <2>1, <2>2 DEF Apart
<1>5. ASSUME NEW x
      PROVE  x \in Held(r) <=> x \in Held(cols) \ ToSet(cols[ci].Windows) \/ x \in ToSet(d.Windows)
  <2>1. x \in Held(r) <=> \E j \in 1..Len(cols) : x \in ToSet(r[j].Windows)
    BY <1>2 DEF Held
  <2>2. x \in Held(cols) <=> \E j \in 1..Len(cols) : x \in ToSet(cols[j].Windows)
    BY <1>2 DEF Held
  <2> QED BY <1>2, <1>3, <2>1, <2>2
<1> QED BY <1>1, <1>4, <1>5 DEF r

\* A sequence of columns that are those of another one, in some order, without
\* column gone and with the further column d, at the index i.
LEMMA ColumnGone ==
  ASSUME NEW cols \in Seq(Column), Apart(cols), NEW ci \in 1..Len(cols)
  PROVE  /\ RemoveAt(cols, ci) \in Seq(Column)
         /\ Len(RemoveAt(cols, ci)) = Len(cols) - 1
         /\ Apart(RemoveAt(cols, ci))
         /\ Held(RemoveAt(cols, ci)) = Held(cols) \ ToSet(cols[ci].Windows)
         /\ \A j \in 1..Len(cols) - 1 :
              RemoveAt(cols, ci)[j] = IF j < ci THEN cols[j] ELSE cols[j + 1]
<1> DEFINE r == RemoveAt(cols, ci)
           p(j) == IF j < ci THEN j ELSE j + 1
<1>1. /\ r \in Seq(Column) /\ Len(r) = Len(cols) - 1
      /\ \A j \in 1..Len(cols) - 1 : r[j] = IF j < ci THEN cols[j] ELSE cols[j + 1]
  BY RemoveAtType
<1>2. \A j \in 1..Len(cols) - 1 : r[j] = cols[p(j)]
  BY <1>1
<1> HIDE DEF r
<1>3. DOMAIN r = 1..Len(cols) - 1 /\ DOMAIN cols = 1..Len(cols) /\ Len(cols) \in Nat
  BY <1>1
<1>4. /\ \A j \in 1..Len(cols) - 1 : p(j) \in 1..Len(cols) /\ p(j) # ci
      /\ \A a, b \in 1..Len(cols) - 1 : a # b => p(a) # p(b)
  BY <1>3
<1>5. \A k \in 1..Len(cols) : k # ci => \E j \in 1..Len(cols) - 1 : p(j) = k
  <2> SUFFICES ASSUME NEW k \in 1..Len(cols), k # ci
               PROVE  \E j \in 1..Len(cols) - 1 : p(j) = k
    OBVIOUS
  <2>1. CASE k < ci
    <3>1. k \in 1..Len(cols) - 1 /\ p(k) = k
      BY <1>3, <2>1
    <3> QED BY <3>1
  <2>2. CASE k > ci
    <3>1. k - 1 \in 1..Len(cols) - 1 /\ p(k - 1) = k
      BY <1>3, <2>2
    <3> QED BY <3>1
  <2> QED BY <1>3, <2>1, <2>2
<1> HIDE DEF p
<1>6. Apart(r)
  <2>1. \A j \in DOMAIN r : IsInjective(r[j].Windows)
    BY <1>2, <1>3, <1>4 DEF Apart
  <2>2. ASSUME NEW a \in DOMAIN r, NEW b \in DOMAIN r, a # b
        PROVE  ToSet(r[a].Windows) \cap ToSet(r[b].Windows) = {}
    <3>1. p(a) \in DOMAIN cols /\ p(b) \in DOMAIN cols /\ p(a) # p(b)
      BY <1>3, <1>4, <2>2
    <3>2. r[a] = cols[p(a)] /\ r[b] = cols[p(b)]
      BY <1>2, <1>3
    <3> QED BY <3>1, <3>2 DEF Apart
  <2> QED BY <2>1, <2>2 DEF Apart
<1>7. ASSUME NEW x PROVE x \in Held(r) <=> x \in Held(cols) \ ToSet(cols[ci].Windows)
  <2>1. x \in Held(r) <=> \E j \in 1..Len(cols) - 1 : x \in ToSet(cols[p(j)].Windows)
    BY <1>2, <1>3 DEF Held
  <2>2. x \in Held(cols) <=> \E k \in 1..Len(cols) : x \in ToSet(cols[k].Windows)
    BY <1>3 DEF Held
  <2>3. \A k \in 1..Len(cols) : k # ci /\ x \in ToSet(cols[k].Windows) => x \notin ToSet(cols[ci].Windows)
    BY <1>3 DEF Apart
  <2> QED BY <1>4, <1>5, <2>1, <2>2, <2>3
<1> QED BY <1>1, <1>6, <1>7 DEF r

\* A column added at either end.
LEMMA ColumnAppended ==
  ASSUME NEW cols \in Seq(Column), Apart(cols), NEW d \in Column, IsInjective(d.Windows),
         ToSet(d.Windows) \cap Held(cols) = {}
  PROVE  /\ Append(cols, d) \in Seq(Column)
         /\ Len(Append(cols, d)) = Len(cols) + 1
         /\ \A j \in 1..Len(cols) : Append(cols, d)[j] = cols[j]
         /\ Append(cols, d)[Len(cols) + 1] = d
         /\ Apart(Append(cols, d))
         /\ Held(Append(cols, d)) = Held(cols) \cup ToSet(d.Windows)
<1> DEFINE r == Append(cols, d)
<1>1. /\ r \in Seq(Column) /\ Len(r) = Len(cols) + 1
      /\ \A j \in 1..Len(cols) : r[j] = cols[j]
      /\ r[Len(cols) + 1] = d
  BY AppendProperties
<1> HIDE DEF r
<1>2. /\ DOMAIN r = 1..Len(cols) + 1 /\ DOMAIN cols = 1..Len(cols) /\ Len(cols) \in Nat
      /\ \A j \in 1..Len(cols) + 1 : j \in 1..Len(cols) \/ j = Len(cols) + 1
  BY <1>1
<1>3. \A j \in 1..Len(cols) : ToSet(cols[j].Windows) \cap ToSet(d.Windows) = {}
  BY <1>2 DEF Held
<1>4. Apart(r)
  <2>1. \A j \in DOMAIN r : IsInjective(r[j].Windows)
    BY <1>1, <1>2 DEF Apart
  <2>2. ASSUME NEW a \in DOMAIN r, NEW b \in DOMAIN r, a # b
        PROVE  ToSet(r[a].Windows) \cap ToSet(r[b].Windows) = {}
    <3>1. CASE a \in 1..Len(cols) /\ b \in 1..Len(cols)
      BY <1>1, <1>2, <2>2, <3>1 DEF Apart
    <3>2. CASE a \in 1..Len(cols) /\ b = Len(cols) + 1
      BY <1>1, <1>3, <3>2
    <3>3. CASE b \in 1..Len(cols) /\ a = Len(cols) + 1
      BY <1>1, <1>3, <3>3
    <3> QED BY <1>2, <2>2, <3>1, <3>2, <3>3
  <2> QED BY <2>1, <2>2 DEF Apart
<1>5. ASSUME NEW x PROVE x \in Held(r) <=> x \in Held(cols) \/ x \in ToSet(d.Windows)
  <2>1. x \in Held(r) <=> \E j \in 1..Len(cols) + 1 : x \in ToSet(r[j].Windows)
    BY <1>2 DEF Held
  <2>2. x \in Held(cols) <=> \E j \in 1..Len(cols) : x \in ToSet(cols[j].Windows)
    BY <1>2 DEF Held
  <2>3. Len(cols) + 1 \in 1..Len(cols) + 1 /\ \A j \in 1..Len(cols) : j \in 1..Len(cols) + 1
    BY <1>2
  <2> QED BY <1>1, <1>2, <2>1, <2>2, <2>3
<1> QED BY <1>1, <1>4, <1>5 DEF r

LEMMA ColumnPrepended ==
  ASSUME NEW cols \in Seq(Column), Apart(cols), NEW d \in Column, IsInjective(d.Windows),
         ToSet(d.Windows) \cap Held(cols) = {}
  PROVE  /\ <<d>> \o cols \in Seq(Column)
         /\ Len(<<d>> \o cols) = Len(cols) + 1
         /\ \A j \in 1..Len(cols) : (<<d>> \o cols)[j + 1] = cols[j]
         /\ (<<d>> \o cols)[1] = d
         /\ Apart(<<d>> \o cols)
         /\ Held(<<d>> \o cols) = Held(cols) \cup ToSet(d.Windows)
<1> DEFINE r == <<d>> \o cols
<1>1. /\ r \in Seq(Column) /\ Len(r) = Len(cols) + 1
      /\ \A j \in 1..Len(cols) : r[j + 1] = cols[j]
      /\ r[1] = d
  <2>1. <<d>> \in Seq(Column) /\ Len(<<d>>) = 1 /\ <<d>>[1] = d /\ Len(cols) \in Nat
    OBVIOUS
  <2>2. /\ r \in Seq(Column) /\ Len(r) = 1 + Len(cols)
        /\ \A i \in 1..1 + Len(cols) : r[i] = IF i <= 1 THEN <<d>>[i] ELSE cols[i - 1]
    BY <2>1, ConcatProperties
  <2> HIDE DEF r
  <2>3. ASSUME NEW j \in 1..Len(cols) PROVE r[j + 1] = cols[j]
    <3>1. j + 1 \in 1..1 + Len(cols) /\ ~(j + 1 <= 1) /\ (j + 1) - 1 = j
      BY <2>1
    <3> QED BY <2>2, <3>1
  <2>4. r[1] = d
    BY <2>1, <2>2
  <2>5. 1 + Len(cols) = Len(cols) + 1
    BY <2>1
  <2> QED BY <2>2, <2>3, <2>4, <2>5
<1> HIDE DEF r
<1>2. /\ DOMAIN r = 1..Len(cols) + 1 /\ DOMAIN cols = 1..Len(cols) /\ Len(cols) \in Nat
  BY <1>1
<1>3. ASSUME NEW j \in 1..Len(cols) + 1 PROVE j = 1 \/ \E k \in 1..Len(cols) : j = k + 1
  <2>1. j # 1 => j - 1 \in 1..Len(cols) /\ j = (j - 1) + 1
    BY <1>2
  <2> QED BY <2>1
<1>4. \A j \in 1..Len(cols) : ToSet(cols[j].Windows) \cap ToSet(d.Windows) = {}
  BY <1>2 DEF Held
<1>5. Apart(r)
  <2>1. ASSUME NEW j \in DOMAIN r PROVE IsInjective(r[j].Windows)
    <3>1. CASE j = 1
      BY <1>1, <3>1
    <3>2. CASE j # 1
      <4>1. PICK k \in 1..Len(cols) : j = k + 1
        BY <1>2, <1>3, <3>2
      <4> QED BY <1>1, <1>2, <4>1 DEF Apart
    <3> QED BY <3>1, <3>2
  <2>2. ASSUME NEW a \in DOMAIN r, NEW b \in DOMAIN r, a # b
        PROVE  ToSet(r[a].Windows) \cap ToSet(r[b].Windows) = {}
    <3>1. CASE a = 1
      BY <1>1, <1>2, <1>3, <1>4, <2>2, <3>1
    <3>2. CASE b = 1
      BY <1>1, <1>2, <1>3, <1>4, <2>2, <3>2
    <3>3. CASE a # 1 /\ b # 1
      <4>1. PICK k \in 1..Len(cols) : a = k + 1
        BY <1>2, <1>3, <3>3
      <4>2. PICK l \in 1..Len(cols) : b = l + 1
        BY <1>2, <1>3, <3>3
      <4>3. k # l
        BY <2>2, <4>1, <4>2
      <4> QED BY <1>1, <1>2, <4>1, <4>2, <4>3 DEF Apart
    <3> QED BY <3>1, <3>2, <3>3
  <2> QED BY <2>1, <2>2 DEF Apart
<1>6. ASSUME NEW x PROVE x \in Held(r) <=> x \in Held(cols) \/ x \in ToSet(d.Windows)
  <2>1. x \in Held(r) <=> \E j \in 1..Len(cols) + 1 : x \in ToSet(r[j].Windows)
    BY <1>2 DEF Held
  <2>2. x \in Held(cols) <=> \E j \in 1..Len(cols) : x \in ToSet(cols[j].Windows)
    BY <1>2 DEF Held
  <2>3. 1 \in 1..Len(cols) + 1 /\ \A j \in 1..Len(cols) : j + 1 \in 1..Len(cols) + 1
    BY <1>2
  <2> QED BY <1>1, <1>3, <2>1, <2>2, <2>3
<1> QED BY <1>1, <1>5, <1>6 DEF r

-----------------------------------------------------------------------------
(* Views.                                                                  *)

\* No window is on the view twice.
Placed(v) ==
  /\ Apart(v.Columns)
  /\ IsInjective(v.Float)
  /\ Held(v.Columns) \cap ToSet(v.Float) = {}

\* The markers point into the view: MarkersInRange of one view.
ColumnInRange(c, alone) ==
  IF c.Windows = <<>> THEN c.Sel = 1 /\ alone ELSE c.Sel \in DOMAIN c.Windows

InRange(v) ==
  /\ v.FocusCol \in DOMAIN v.Columns
  /\ \A ci \in DOMAIN v.Columns : ColumnInRange(v.Columns[ci], Len(v.Columns) = 1)
  /\ IF v.Float = <<>> THEN v.FocusFloat = 1 /\ v.FocusLayer = "tiled"
     ELSE v.FocusFloat \in DOMAIN v.Float

Sound(v) == v \in View /\ Placed(v) /\ InRange(v)

LEMMA ViewFields ==
  ASSUME NEW v \in View
  PROVE  /\ v.Columns \in Seq(Column) /\ v.Float \in Seq(WindowID)
         /\ v.FocusCol \in Nat /\ v.FocusFloat \in Nat /\ v.FocusLayer \in Layer
         /\ v.Fullscreen \in WindowID \cup {NoWindow}
         /\ Len(v.Columns) \in Nat /\ DOMAIN v.Columns = 1..Len(v.Columns)
         /\ Len(v.Float) \in Nat /\ DOMAIN v.Float = 1..Len(v.Float)
BY DEF View

LEMMA ColumnsOfView ==
  ASSUME NEW cols \in Seq(Column), NEW ci \in 1..Len(cols)
  PROVE  /\ cols[ci] \in Column
         /\ cols[ci].Windows \in Seq(WindowID)
         /\ cols[ci].Sel \in Nat
         /\ ToSet(cols[ci].Windows) \subseteq Held(cols)
         /\ Apart(cols) => IsInjective(cols[ci].Windows)
<1>1. cols[ci] \in Column
  BY ElementOfSeq
<1> QED BY <1>1, ColumnFields DEF Held, Apart

LEMMA WindowsOfView ==
  ASSUME NEW v
  PROVE  /\ Tiled(v) = Held(v.Columns)
         /\ WindowsOf(v) = Held(v.Columns) \cup ToSet(v.Float)
         /\ \A id : InColumn(v, id) <=> id \in Held(v.Columns)
         /\ \A id : FloatContains(v, id) <=> id \in ToSet(v.Float)
         /\ \A id : contains(v, id) <=> id \in WindowsOf(v)
BY DEF Tiled, Held, WindowsOf, InColumn, FloatContains, contains

LEMMA NewViewSound == Sound(NewView) /\ WindowsOf(NewView) = {}
<1>1. NewView \in View
  BY NewViewType
<1>2. /\ NewView.Columns = <<NewColumn(<<>>)>> /\ NewView.Float = <<>> /\ NewView.FocusCol = 1
      /\ NewView.FocusFloat = 1 /\ NewView.FocusLayer = "tiled"
      /\ NewColumn(<<>>).Windows = <<>> /\ NewColumn(<<>>).Sel = 1
  BY DEF NewView, NewColumn
<1>3. ToSet(<<>>) = {} /\ IsInjective(<<>>)
  BY DEF ToSet, IsInjective
<1>4. /\ DOMAIN <<NewColumn(<<>>)>> = {1} /\ Len(<<NewColumn(<<>>)>>) = 1
      /\ <<NewColumn(<<>>)>>[1] = NewColumn(<<>>)
  OBVIOUS
<1>5. Held(NewView.Columns) = {} /\ Apart(NewView.Columns)
  BY <1>2, <1>3, <1>4 DEF Held, Apart
<1>6. Placed(NewView)
  BY <1>2, <1>3, <1>5 DEF Placed
<1>7. InRange(NewView)
  BY <1>2, <1>4 DEF InRange, ColumnInRange
<1> QED BY <1>1, <1>2, <1>3, <1>5, <1>6, <1>7, WindowsOfView DEF Sound

\* A view without windows is one empty column.
LEMMA EmptyView ==
  ASSUME NEW v, Sound(v)
  PROVE  empty(v) <=> WindowsOf(v) = {}
<1>1. /\ v.Columns \in Seq(Column) /\ v.Float \in Seq(WindowID)
      /\ DOMAIN v.Columns = 1..Len(v.Columns)
  BY ViewFields DEF Sound
<1>2. v.Float = <<>> <=> ToSet(v.Float) = {}
  BY <1>1, ToSetOf
<1>3. ASSUME NEW ci \in DOMAIN v.Columns
      PROVE  v.Columns[ci].Windows = <<>> <=> ToSet(v.Columns[ci].Windows) = {}
  <2>1. v.Columns[ci].Windows \in Seq(WindowID)
    BY <1>1, ColumnsOfView
  <2> QED BY <2>1, ToSetOf
<1>4. Held(v.Columns) = {} <=> \A ci \in DOMAIN v.Columns : ToSet(v.Columns[ci].Windows) = {}
  BY DEF Held
<1> QED BY <1>2, <1>3, <1>4, WindowsOfView DEF empty

\* Columns that differ in modes and selections only hold the same windows.
LEMMA SameWindows ==
  ASSUME NEW cols \in Seq(Column), NEW other \in Seq(Column), Len(other) = Len(cols),
         \A ci \in 1..Len(cols) : other[ci].Windows = cols[ci].Windows
  PROVE  Held(other) = Held(cols) /\ (Apart(cols) => Apart(other))
<1>1. DOMAIN cols = 1..Len(cols) /\ DOMAIN other = 1..Len(cols)
  OBVIOUS
<1>2. Held(other) = Held(cols)
  BY <1>1 DEF Held
<1>3. Apart(cols) => Apart(other)
  BY <1>1 DEF Apart
<1> QED BY <1>2, <1>3

LEMMA ClampedInRange ==
  ASSUME NEW i \in Nat, NEW n \in Nat
  PROVE  (i \in 1..n => Clamped(i, n) = i) /\ Clamped(1, 0) = 1
BY DEF Clamped

LEMMA ClampSelWindows ==
  ASSUME NEW c \in Column
  PROVE  /\ clampSel(c) \in Column
         /\ clampSel(c).Windows = c.Windows
         /\ clampSel(c).Mode = c.Mode
         /\ c.Windows = <<>> => clampSel(c).Sel = 1
         /\ c.Windows # <<>> => clampSel(c).Sel \in DOMAIN c.Windows
         /\ \A alone : ColumnInRange(c, alone) => clampSel(c) = c
<1>1. c.Windows \in Seq(WindowID) /\ c.Sel \in Nat
  BY ColumnFields
<1>2. /\ Len(c.Windows) \in Nat /\ DOMAIN c.Windows = 1..Len(c.Windows)
      /\ (c.Windows = <<>> <=> Len(c.Windows) = 0)
  BY <1>1, EmptySeq
<1>3. clampSel(c).Windows = c.Windows /\ clampSel(c).Mode = c.Mode
  BY DEF clampSel, Column
<1>4. clampSel(c).Sel = Clamped(c.Sel, Len(c.Windows))
  BY DEF clampSel, Column
<1>5. /\ c.Windows = <<>> => clampSel(c).Sel = 1
      /\ c.Windows # <<>> => clampSel(c).Sel \in DOMAIN c.Windows
  <2>1. Len(c.Windows) = 0 => Clamped(c.Sel, Len(c.Windows)) = 1
    BY <1>1, <1>2, ClampedType
  <2>2. Len(c.Windows) > 0 => Clamped(c.Sel, Len(c.Windows)) \in 1..Len(c.Windows)
    BY <1>1, <1>2, ClampedType
  <2> QED BY <1>2, <1>4, <2>1, <2>2
<1>6. ASSUME NEW alone, ColumnInRange(c, alone) PROVE clampSel(c) = c
  <2>1. Clamped(c.Sel, Len(c.Windows)) = c.Sel
    BY <1>1, <1>2, <1>6, ClampedInRange DEF ColumnInRange
  <2>2. c = [Windows |-> c.Windows, Mode |-> c.Mode, Sel |-> c.Sel]
    BY DEF Column
  <2>3. clampSel(c) = [c EXCEPT !.Sel = c.Sel]
    BY <2>1 DEF clampSel
  <2> QED BY <2>2, <2>3
<1> QED BY <1>3, <1>5, <1>6, ClampSelType

\* clampFocus moves markers only, and brings them into range.
LEMMA ClampFocusSound ==
  ASSUME NEW v \in View, Placed(v),
         (\A ci \in 1..Len(v.Columns) : v.Columns[ci].Windows # <<>>) \/ Len(v.Columns) = 1
  PROVE  /\ Sound(clampFocus(v))
         /\ Held(clampFocus(v).Columns) = Held(v.Columns)
         /\ clampFocus(v).Float = v.Float
         /\ clampFocus(v).Fullscreen = v.Fullscreen
<1> DEFINE cols == IF v.Columns = <<>> THEN <<NewColumn(<<>>)>> ELSE v.Columns
           m == [ci \in DOMAIN cols |-> clampSel(cols[ci])]
           w == clampFocus(v)
<1>1. /\ v.Columns \in Seq(Column) /\ v.Float \in Seq(WindowID)
      /\ v.FocusCol \in Nat /\ v.FocusFloat \in Nat /\ v.FocusLayer \in Layer
      /\ Len(v.Columns) \in Nat /\ DOMAIN v.Columns = 1..Len(v.Columns)
      /\ Len(v.Float) \in Nat /\ DOMAIN v.Float = 1..Len(v.Float)
  BY ViewFields
<1>2. /\ cols \in Seq(Column) /\ Len(cols) \in Nat /\ Len(cols) > 0
      /\ Apart(cols) /\ Held(cols) = Held(v.Columns)
      /\ (\A ci \in 1..Len(cols) : cols[ci].Windows # <<>>) \/ Len(cols) = 1
  <2>1. CASE v.Columns = <<>>
    <3>1. cols = NewView.Columns /\ Len(cols) = 1
      BY <2>1 DEF NewView
    <3>2. cols \in Seq(Column) /\ Apart(cols) /\ Held(cols) = {}
      BY <3>1, NewViewSound, ViewFields, WindowsOfView DEF Sound, Placed
    <3>3. Held(v.Columns) = {}
      BY <2>1 DEF Held
    <3> QED BY <3>1, <3>2, <3>3
  <2>2. CASE v.Columns # <<>>
    <3>1. cols = v.Columns /\ Len(cols) > 0
      BY <1>1, <2>2
    <3> QED BY <1>1, <3>1 DEF Placed
  <2> QED BY <2>1, <2>2
<1>3. /\ w.Columns = m
      /\ w.FocusCol = Clamped(v.FocusCol, Len(cols))
      /\ w.Float = v.Float
      /\ w.FocusFloat = Clamped(v.FocusFloat, Len(v.Float))
      /\ w.Fullscreen = v.Fullscreen
      /\ w.FocusLayer = IF v.Float = <<>> THEN "tiled"
                        ELSE IF v.Columns = <<>> THEN "floating" ELSE v.FocusLayer
  BY DEF clampFocus, View
<1>4. w \in View
  BY ClampFocusType
<1> HIDE DEF w, cols
<1>5. /\ DOMAIN cols = 1..Len(cols)
      /\ \A ci \in 1..Len(cols) : cols[ci] \in Column /\ m[ci] = clampSel(cols[ci])
  BY <1>2
<1>6. m \in Seq(Column) /\ Len(m) = Len(cols) /\ DOMAIN m = 1..Len(cols)
  BY <1>3, <1>4, <1>5, ViewFields
<1>7. \A ci \in 1..Len(cols) : m[ci].Windows = cols[ci].Windows
  BY <1>5, ClampSelWindows
<1>8. Held(m) = Held(cols) /\ Apart(m)
  BY <1>2, <1>6, <1>7, SameWindows
<1>9. Placed(w)
  BY <1>2, <1>3, <1>8 DEF Placed
<1>10. InRange(w)
  <2>1. w.FocusCol \in 1..Len(cols)
    BY <1>1, <1>2, <1>3, ClampedType
  <2>2. ASSUME NEW ci \in 1..Len(cols) PROVE ColumnInRange(m[ci], Len(cols) = 1)
    <3>1. cols[ci] \in Column /\ m[ci] = clampSel(cols[ci])
      BY <1>5
    <3> QED BY <1>2, <3>1, ClampSelWindows DEF ColumnInRange
  <2>3. IF v.Float = <<>> THEN w.FocusFloat = 1 /\ w.FocusLayer = "tiled"
        ELSE w.FocusFloat \in DOMAIN v.Float
    <3>1. v.Float = <<>> => Len(v.Float) = 0
      BY <1>1
    <3>2. v.Float # <<>> => Len(v.Float) > 0
      BY <1>1
    <3> QED BY <1>1, <1>3, <3>1, <3>2, ClampedType
  <2> HIDE DEF m
  <2> QED BY <1>3, <1>6, <2>1, <2>2, <2>3 DEF InRange
<1> QED BY <1>2, <1>3, <1>4, <1>8, <1>9, <1>10 DEF Sound, w

\* ... and leaves a view alone in which they are.
LEMMA ClampFocusIdle ==
  ASSUME NEW v, Sound(v)
  PROVE  clampFocus(v) = v
<1>1. /\ v \in View
      /\ v.Columns \in Seq(Column) /\ v.Float \in Seq(WindowID)
      /\ v.FocusCol \in Nat /\ v.FocusFloat \in Nat /\ v.FocusLayer \in Layer
      /\ Len(v.Columns) \in Nat /\ DOMAIN v.Columns = 1..Len(v.Columns)
      /\ Len(v.Float) \in Nat /\ DOMAIN v.Float = 1..Len(v.Float)
  BY ViewFields DEF Sound
<1>2. v.FocusCol \in 1..Len(v.Columns) /\ v.Columns # <<>>
  BY <1>1 DEF Sound, InRange
<1>3. [ci \in DOMAIN v.Columns |-> clampSel(v.Columns[ci])] = v.Columns
  <2>1. ASSUME NEW ci \in 1..Len(v.Columns) PROVE clampSel(v.Columns[ci]) = v.Columns[ci]
    <3>1. v.Columns[ci] \in Column /\ ColumnInRange(v.Columns[ci], Len(v.Columns) = 1)
      BY <1>1 DEF Sound, InRange
    <3> QED BY <3>1, ClampSelWindows
  <2> DEFINE m == [ci \in DOMAIN v.Columns |-> clampSel(v.Columns[ci])]
             c == v.Columns
  <2>2. DOMAIN m = 1..Len(c) /\ \A ci \in 1..Len(c) : m[ci] = c[ci]
    BY <1>1, <2>1
  <2>3. c \in Seq(Column) /\ m = [ci \in DOMAIN m |-> m[ci]]
    BY <1>1
  <2> HIDE DEF m, c
  <2>4. c = [ci \in 1..Len(c) |-> c[ci]]
    BY <2>3
  <2>5. m = c
    BY <2>2, <2>3, <2>4, Zenon
  <2> QED BY <2>5 DEF m, c
<1>4. Clamped(v.FocusCol, Len(v.Columns)) = v.FocusCol
  BY <1>1, <1>2, ClampedInRange
<1>5. Clamped(v.FocusFloat, Len(v.Float)) = v.FocusFloat
  <2>1. CASE v.Float = <<>>
    BY <2>1, <1>1, ClampedInRange DEF Sound, InRange
  <2>2. CASE v.Float # <<>>
    BY <2>2, <1>1, ClampedInRange DEF Sound, InRange
  <2> QED BY <2>1, <2>2
<1>6. (IF v.Float = <<>> THEN "tiled" ELSE IF v.Columns = <<>> THEN "floating" ELSE v.FocusLayer)
        = v.FocusLayer
  BY <1>2 DEF Sound, InRange
<1>7. clampFocus(v) = [v EXCEPT !.Columns = v.Columns, !.FocusCol = v.FocusCol,
                                !.FocusFloat = v.FocusFloat, !.FocusLayer = v.FocusLayer]
  BY <1>2, <1>3, <1>4, <1>5, <1>6 DEF clampFocus
<1> QED BY <1>1, <1>7 DEF View

-----------------------------------------------------------------------------
(* Removing, adding and focusing a window.                                 *)

\* What is left of a sequence of columns when one loses a row.
LEMMA RowGone ==
  ASSUME NEW cols \in Seq(Column), Apart(cols), NEW ci \in 1..Len(cols), NEW c \in Column,
         NEW id, id \in ToSet(cols[ci].Windows),
         IsInjective(c.Windows), ToSet(c.Windows) = ToSet(cols[ci].Windows) \ {id}
  PROVE  /\ WithColumn(cols, ci, c) \in Seq(Column)
         /\ Apart(WithColumn(cols, ci, c))
         /\ Held(WithColumn(cols, ci, c)) = Held(cols) \ {id}
         /\ (\A j \in 1..Len(cols) : j # ci => cols[j].Windows # <<>>)
            => \A j \in 1..Len(WithColumn(cols, ci, c)) :
                 WithColumn(cols, ci, c)[j].Windows # <<>>
<1>1. /\ cols[ci] \in Column /\ cols[ci].Windows \in Seq(WindowID)
      /\ ToSet(cols[ci].Windows) \subseteq Held(cols) /\ IsInjective(cols[ci].Windows)
      /\ DOMAIN cols = 1..Len(cols) /\ Len(cols) \in Nat
  BY ColumnsOfView
<1>2. c.Windows \in Seq(WindowID) /\ (c.Windows = <<>> <=> ToSet(c.Windows) = {})
  BY ColumnFields, ToSetOf
<1>3. \A j \in 1..Len(cols) : j # ci => id \notin ToSet(cols[j].Windows)
  BY <1>1 DEF Apart
<1>4. CASE c.Windows = <<>>
  <2>1. ToSet(cols[ci].Windows) = {id}
    BY <1>2, <1>4
  <2>2. WithColumn(cols, ci, c) = RemoveAt(cols, ci)
    BY <1>4 DEF WithColumn
  <2>3. /\ RemoveAt(cols, ci) \in Seq(Column)
        /\ Len(RemoveAt(cols, ci)) = Len(cols) - 1
        /\ Apart(RemoveAt(cols, ci))
        /\ Held(RemoveAt(cols, ci)) = Held(cols) \ {id}
        /\ \A j \in 1..Len(cols) - 1 :
             RemoveAt(cols, ci)[j] = IF j < ci THEN cols[j] ELSE cols[j + 1]
    BY <2>1, ColumnGone
  <2> DEFINE r == RemoveAt(cols, ci)
  <2> HIDE DEF r
  <2>4. ASSUME \A j \in 1..Len(cols) : j # ci => cols[j].Windows # <<>>,
               NEW j \in 1..Len(cols) - 1
        PROVE  r[j].Windows # <<>>
    <3>1. CASE j < ci
      <4>1. j \in 1..Len(cols) /\ j # ci /\ r[j] = cols[j]
        BY <1>1, <2>3, <3>1 DEF r
      <4> QED BY <2>4, <4>1
    <3>2. CASE ~(j < ci)
      <4>1. j + 1 \in 1..Len(cols) /\ j + 1 # ci /\ r[j] = cols[j + 1]
        BY <1>1, <2>3, <3>2 DEF r
      <4> QED BY <2>4, <4>1
    <3> QED BY <3>1, <3>2
  <2> QED BY <2>2, <2>3, <2>4 DEF r
<1>5. CASE c.Windows # <<>>
  <2> DEFINE r == [cols EXCEPT ![ci] = c]
  <2>1. WithColumn(cols, ci, c) = r
    BY <1>5 DEF WithColumn
  <2>2. ToSet(c.Windows) \cap (Held(cols) \ ToSet(cols[ci].Windows)) = {}
    OBVIOUS
  <2>3. /\ r \in Seq(Column) /\ Len(r) = Len(cols) /\ Apart(r)
        /\ Held(r) = (Held(cols) \ ToSet(cols[ci].Windows)) \cup ToSet(c.Windows)
    BY <2>2, ColumnChanged
  <2>4. Held(r) = Held(cols) \ {id}
    BY <1>1, <2>3
  <2>5. (\A j \in 1..Len(cols) : j # ci => cols[j].Windows # <<>>)
        => \A j \in 1..Len(cols) : r[j].Windows # <<>>
    BY <1>1, <1>5
  <2> HIDE DEF r
  <2> QED BY <2>1, <2>3, <2>4, <2>5
<1> QED BY <1>4, <1>5

\* A column without a row holds the other windows.
LEMMA WithoutRowSet ==
  ASSUME NEW c \in Column, IsInjective(c.Windows), NEW id \in ToSet(c.Windows)
  PROVE  LET d == WithoutRow(c, IndexOf(c.Windows, id))
         IN /\ d \in Column
            /\ IsInjective(d.Windows)
            /\ ToSet(d.Windows) = ToSet(c.Windows) \ {id}
<1>1. c.Windows \in Seq(WindowID)
  BY ColumnFields
<1> DEFINE ri == IndexOf(c.Windows, id)
           d == WithoutRow(c, ri)
<1>2. ri \in 1..Len(c.Windows) /\ c.Windows[ri] = id
  BY <1>1, IndexOfType
<1> HIDE DEF ri
<1>3. d \in Column
  BY <1>2, WithoutRowType
<1>4. d.Windows = RemoveAt(c.Windows, ri)
  BY DEF WithoutRow, Column
<1> HIDE DEF d
<1>5. IsInjective(d.Windows) /\ ToSet(d.Windows) = ToSet(c.Windows) \ {id}
  BY <1>1, <1>2, <1>4, RemoveAtSet
<1> QED BY <1>3, <1>5 DEF d, ri

\* The columns of a sound view: none of several is empty.
LEMMA FilledColumns ==
  ASSUME NEW v, Sound(v), NEW ci \in 1..Len(v.Columns), v.Columns[ci].Windows # <<>>
  PROVE  \A j \in 1..Len(v.Columns) : v.Columns[j].Windows # <<>>
<1>1. Len(v.Columns) \in Nat /\ DOMAIN v.Columns = 1..Len(v.Columns)
  BY ViewFields DEF Sound
<1> QED BY <1>1 DEF Sound, InRange, ColumnInRange

LEMMA RemoveFromViewSound ==
  ASSUME NEW v, Sound(v), NEW id
  PROVE  /\ Sound(removeFromView(v, id))
         /\ WindowsOf(removeFromView(v, id)) = WindowsOf(v) \ {id}
         /\ Held(removeFromView(v, id).Columns) = Held(v.Columns) \ {id}
         /\ ToSet(removeFromView(v, id).Float) = ToSet(v.Float) \ {id}
<1>1. /\ v \in View
      /\ v.Columns \in Seq(Column) /\ v.Float \in Seq(WindowID)
      /\ Len(v.Columns) \in Nat /\ DOMAIN v.Columns = 1..Len(v.Columns)
      /\ Apart(v.Columns) /\ IsInjective(v.Float)
      /\ Held(v.Columns) \cap ToSet(v.Float) = {}
  BY ViewFields DEF Sound, Placed
<1>2. CASE InColumn(v, id)
  <2> DEFINE ci == ColumnOf(v, id)
             c == v.Columns[ci]
             d == WithoutRow(c, IndexOf(c.Windows, id))
             cols == WithColumn(v.Columns, ci, d)
             w == [v EXCEPT !.Columns = cols]
  <2>1. ci \in 1..Len(v.Columns) /\ c \in Column /\ id \in ToSet(c.Windows)
    BY <1>1, <1>2, ColumnOfType
  <2>2. IsInjective(c.Windows) /\ c.Windows \in Seq(WindowID)
    BY <1>1, <2>1, ColumnsOfView
  <2>3. removeFromView(v, id) = clampFocus(w)
    BY <1>2 DEF removeFromView
  <2> HIDE DEF ci, c
  <2>4. d \in Column /\ IsInjective(d.Windows) /\ ToSet(d.Windows) = ToSet(c.Windows) \ {id}
    BY <2>1, <2>2, WithoutRowSet
  <2>5. \A j \in 1..Len(v.Columns) : v.Columns[j].Windows # <<>>
    <3>1. c.Windows # <<>>
      BY <2>1, <2>2, ToSetOf
    <3> QED BY <2>1, <3>1, FilledColumns DEF c
  <2> HIDE DEF d
  <2>6. /\ cols \in Seq(Column) /\ Apart(cols) /\ Held(cols) = Held(v.Columns) \ {id}
        /\ \A j \in 1..Len(cols) : cols[j].Windows # <<>>
    <3>1. /\ v.Columns[ci] = c /\ id \in ToSet(v.Columns[ci].Windows)
          /\ ToSet(d.Windows) = ToSet(v.Columns[ci].Windows) \ {id}
      BY <2>1, <2>4 DEF c
    <3>2. /\ cols \in Seq(Column) /\ Apart(cols) /\ Held(cols) = Held(v.Columns) \ {id}
          /\ (\A j \in 1..Len(v.Columns) : j # ci => v.Columns[j].Windows # <<>>)
             => \A j \in 1..Len(cols) : cols[j].Windows # <<>>
      <4>1. v.Columns \in Seq(Column) /\ Apart(v.Columns) /\ ci \in 1..Len(v.Columns)
        BY <1>1, <2>1
      <4>2. d \in Column /\ IsInjective(d.Windows)
        BY <2>4
      <4> QED BY <3>1, <4>1, <4>2, RowGone
    <3> QED BY <2>5, <3>2
  <2> HIDE DEF cols
  <2>7. w \in View /\ w.Columns = cols /\ w.Float = v.Float
    BY <1>1, <2>6 DEF View
  <2>8. Placed(w)
    BY <1>1, <2>6, <2>7 DEF Placed
  <2> HIDE DEF w
  <2>9. /\ Sound(clampFocus(w))
        /\ Held(clampFocus(w).Columns) = Held(v.Columns) \ {id}
        /\ clampFocus(w).Float = v.Float
    BY <2>6, <2>7, <2>8, ClampFocusSound
  <2>10. id \notin ToSet(v.Float)
    BY <1>1, <1>2, WindowsOfView
  <2> QED BY <2>3, <2>9, <2>10, WindowsOfView
<1>3. CASE ~InColumn(v, id) /\ FloatContains(v, id)
  <2> DEFINE i == IndexOf(v.Float, id)
             w == [v EXCEPT !.Float = RemoveAt(v.Float, i)]
  <2>1. i \in 1..Len(v.Float) /\ v.Float[i] = id
    BY <1>1, <1>3, IndexOfType DEF FloatContains
  <2>2. removeFromView(v, id) = clampFocus(w)
    BY <1>3 DEF removeFromView
  <2> HIDE DEF i
  <2>3. /\ RemoveAt(v.Float, i) \in Seq(WindowID) /\ IsInjective(RemoveAt(v.Float, i))
        /\ ToSet(RemoveAt(v.Float, i)) = ToSet(v.Float) \ {id}
    BY <1>1, <2>1, RemoveAtSet
  <2>4. w \in View /\ w.Columns = v.Columns /\ w.Float = RemoveAt(v.Float, i)
    BY <1>1, <2>3 DEF View
  <2>5. Placed(w)
    BY <1>1, <2>3, <2>4 DEF Placed
  <2> HIDE DEF w
  <2>6. (\A j \in 1..Len(w.Columns) : w.Columns[j].Windows # <<>>) \/ Len(w.Columns) = 1
    BY <1>1, <2>4 DEF Sound, InRange, ColumnInRange
  <2>7. /\ Sound(clampFocus(w))
        /\ Held(clampFocus(w).Columns) = Held(v.Columns)
        /\ clampFocus(w).Float = RemoveAt(v.Float, i)
    BY <2>4, <2>5, <2>6, ClampFocusSound
  <2>8. id \notin Held(v.Columns)
    BY <1>3, WindowsOfView
  <2> QED BY <2>2, <2>3, <2>7, <2>8, WindowsOfView
<1>4. CASE ~InColumn(v, id) /\ ~FloatContains(v, id)
  <2>1. removeFromView(v, id) = v
    BY <1>4 DEF removeFromView
  <2>2. id \notin Held(v.Columns) /\ id \notin ToSet(v.Float)
    BY <1>4, WindowsOfView
  <2> QED BY <2>1, <2>2, WindowsOfView
<1> QED BY <1>2, <1>3, <1>4

LEMMA AddToViewSound ==
  ASSUME NEW v, Sound(v), NEW id \in WindowID, NEW floating \in BOOLEAN
  PROVE  /\ Sound(addToView(v, id, floating))
         /\ WindowsOf(addToView(v, id, floating)) = WindowsOf(v) \cup {id}
<1>1. /\ v \in View
      /\ v.Columns \in Seq(Column) /\ v.Float \in Seq(WindowID)
      /\ Len(v.Columns) \in Nat /\ DOMAIN v.Columns = 1..Len(v.Columns)
      /\ Len(v.Float) \in Nat /\ DOMAIN v.Float = 1..Len(v.Float)
      /\ Apart(v.Columns) /\ IsInjective(v.Float)
      /\ Held(v.Columns) \cap ToSet(v.Float) = {}
      /\ v.FocusCol \in 1..Len(v.Columns)
  BY ViewFields DEF Sound, Placed, InRange
<1>2. CASE contains(v, id)
  <2>1. addToView(v, id, floating) = v
    BY <1>2 DEF addToView
  <2> QED BY <1>2, <2>1, WindowsOfView
<1>3. CASE ~contains(v, id) /\ floating
  <2> DEFINE w == [v EXCEPT !.Float = Append(v.Float, id)]
  <2>1. addToView(v, id, floating) = w
    BY <1>3 DEF addToView
  <2>2. id \notin Held(v.Columns) /\ id \notin ToSet(v.Float)
    BY <1>3, WindowsOfView
  <2>3. /\ Append(v.Float, id) \in Seq(WindowID) /\ Len(Append(v.Float, id)) = Len(v.Float) + 1
        /\ IsInjective(Append(v.Float, id)) /\ ToSet(Append(v.Float, id)) = ToSet(v.Float) \cup {id}
    BY <1>1, <2>2, AppendSet
  <2>4. /\ w \in View /\ w.Columns = v.Columns /\ w.Float = Append(v.Float, id)
        /\ w.FocusCol = v.FocusCol /\ w.FocusFloat = v.FocusFloat
    BY <1>1, <2>3 DEF View
  <2> HIDE DEF w
  <2>5. Placed(w)
    BY <1>1, <2>2, <2>3, <2>4 DEF Placed
  <2>6. w.Float # <<>> /\ w.FocusFloat \in DOMAIN w.Float
    <3>1. DOMAIN w.Float = 1..Len(v.Float) + 1 /\ Len(w.Float) > 0
      BY <1>1, <2>3, <2>4
    <3>2. v.FocusFloat = 1 \/ v.FocusFloat \in 1..Len(v.Float)
      BY <1>1 DEF Sound, InRange
    <3> QED BY <1>1, <2>4, <3>1, <3>2
  <2>7. InRange(w)
    BY <2>4, <2>6 DEF Sound, InRange
  <2> QED BY <2>1, <2>3, <2>4, <2>5, <2>7, WindowsOfView DEF Sound
<1>4. CASE ~contains(v, id) /\ ~floating
  <2> DEFINE fc == v.FocusCol
             c == v.Columns[fc]
             d == [c EXCEPT !.Windows = Append(c.Windows, id)]
             cols == [v.Columns EXCEPT ![fc] = d]
             w == [v EXCEPT !.FocusCol = fc, !.Columns = cols]
  <2>1. fc \in 1..Len(v.Columns) /\ v.Columns # <<>> /\ c \in Column
    BY <1>1
  <2>2. addToView(v, id, floating) = w
    BY <1>1, <1>4, <2>1 DEF addToView, View
  <2>3. id \notin Held(v.Columns) /\ id \notin ToSet(v.Float)
    BY <1>4, WindowsOfView
  <2>4. /\ c.Windows \in Seq(WindowID) /\ c.Sel \in Nat /\ IsInjective(c.Windows)
        /\ ToSet(c.Windows) \subseteq Held(v.Columns)
    BY <1>1, ColumnsOfView
  <2>5. v.Columns[fc] = c /\ (c.Windows = <<>> => c.Sel = 1) /\ (c.Windows # <<>> => c.Sel \in DOMAIN c.Windows)
    BY <1>1, <2>1 DEF Sound, InRange, ColumnInRange
  <2> HIDE DEF c, fc
  <2>6. /\ Append(c.Windows, id) \in Seq(WindowID)
        /\ Len(Append(c.Windows, id)) = Len(c.Windows) + 1
        /\ IsInjective(Append(c.Windows, id))
        /\ ToSet(Append(c.Windows, id)) = ToSet(c.Windows) \cup {id}
    BY <2>3, <2>4, AppendSet
  <2>7. d \in Column /\ d.Windows = Append(c.Windows, id) /\ d.Sel = c.Sel
    BY <2>1, <2>6 DEF Column
  <2>8. d.Windows # <<>> /\ d.Sel \in DOMAIN d.Windows
    <3>1. /\ DOMAIN d.Windows = 1..Len(c.Windows) + 1 /\ Len(c.Windows) \in Nat
          /\ DOMAIN c.Windows = 1..Len(c.Windows) /\ Len(d.Windows) > 0
      BY <2>4, <2>6, <2>7
    <3> QED BY <2>5, <2>7, <3>1
  <2> HIDE DEF d
  <2>9. /\ cols \in Seq(Column) /\ Len(cols) = Len(v.Columns) /\ Apart(cols)
        /\ Held(cols) = Held(v.Columns) \cup {id}
    <3>1. ToSet(d.Windows) \cap (Held(v.Columns) \ ToSet(v.Columns[fc].Windows)) = {}
      BY <2>3, <2>5, <2>6, <2>7
    <3>2. /\ cols \in Seq(Column) /\ Len(cols) = Len(v.Columns) /\ Apart(cols)
          /\ Held(cols) = (Held(v.Columns) \ ToSet(v.Columns[fc].Windows)) \cup ToSet(d.Windows)
      <4>1. v.Columns \in Seq(Column) /\ Apart(v.Columns) /\ fc \in 1..Len(v.Columns)
        BY <1>1, <2>1
      <4>2. d \in Column /\ IsInjective(d.Windows)
        BY <2>6, <2>7
      <4> QED BY <3>1, <4>1, <4>2, ColumnChanged
    <3> QED BY <2>4, <2>5, <2>6, <2>7, <3>2
  <2>10. \A j \in 1..Len(v.Columns) : cols[j] = IF j = fc THEN d ELSE v.Columns[j]
    BY <1>1
  <2> HIDE DEF cols
  <2>11. /\ w \in View /\ w.Columns = cols /\ w.Float = v.Float /\ w.FocusCol = fc
         /\ w.FocusFloat = v.FocusFloat /\ w.FocusLayer = v.FocusLayer
    BY <1>1, <2>1, <2>9 DEF View, fc
  <2> HIDE DEF w
  <2>12. Placed(w)
    BY <1>1, <2>3, <2>9, <2>11 DEF Placed
  <2>13. \A j \in 1..Len(cols) : ColumnInRange(cols[j], Len(cols) = 1)
    <3>1. \A j \in 1..Len(v.Columns) : ColumnInRange(v.Columns[j], Len(v.Columns) = 1)
      BY <1>1 DEF Sound, InRange
    <3>2. ColumnInRange(d, Len(cols) = 1)
      BY <2>8 DEF ColumnInRange
    <3> QED BY <2>9, <2>10, <3>1, <3>2
  <2>14. InRange(w)
    <3>1. DOMAIN cols = 1..Len(cols)
      BY <2>9
    <3>2. IF w.Float = <<>> THEN w.FocusFloat = 1 /\ w.FocusLayer = "tiled"
          ELSE w.FocusFloat \in DOMAIN w.Float
      BY <2>11 DEF Sound, InRange
    <3> QED BY <2>1, <2>9, <2>11, <2>13, <3>1, <3>2 DEF InRange
  <2> QED BY <2>2, <2>9, <2>11, <2>12, <2>14, WindowsOfView DEF Sound
<1> QED BY <1>2, <1>3, <1>4

\* focusWindow moves the markers to a window of the view, and does nothing for
\* any other.
LEMMA FocusWindowSound ==
  ASSUME NEW v, Sound(v), NEW id
  PROVE  /\ Sound(focusWindow(v, id))
         /\ Held(focusWindow(v, id).Columns) = Held(v.Columns)
         /\ focusWindow(v, id).Float = v.Float
         /\ WindowsOf(focusWindow(v, id)) = WindowsOf(v)
         /\ contains(v, id) => focusedWindow(focusWindow(v, id)) = id
         /\ ~contains(v, id) => focusWindow(v, id) = v
<1>1. /\ v \in View
      /\ v.Columns \in Seq(Column) /\ v.Float \in Seq(WindowID)
      /\ Len(v.Columns) \in Nat /\ DOMAIN v.Columns = 1..Len(v.Columns)
      /\ Len(v.Float) \in Nat /\ DOMAIN v.Float = 1..Len(v.Float)
      /\ Apart(v.Columns) /\ IsInjective(v.Float)
      /\ Held(v.Columns) \cap ToSet(v.Float) = {}
  BY ViewFields DEF Sound, Placed
<1>2. CASE InColumn(v, id)
  <2> DEFINE ci == ColumnOf(v, id)
             c == v.Columns[ci]
             d == [c EXCEPT !.Sel = IndexOf(c.Windows, id)]
             cols == [v.Columns EXCEPT ![ci] = d]
             w == [v EXCEPT !.FocusCol = ci, !.Columns = cols, !.FocusLayer = "tiled"]
  <2>1. ci \in 1..Len(v.Columns) /\ ci \in Nat /\ c \in Column /\ id \in ToSet(c.Windows)
    BY <1>1, <1>2, ColumnOfType
  <2>2. focusWindow(v, id) = w
    BY <1>1, <1>2, <2>1 DEF focusWindow, View
  <2>3. c.Windows \in Seq(WindowID) /\ v.Columns[ci] = c
    BY <1>1, <2>1, ColumnsOfView
  <2> HIDE DEF c, ci
  <2>4. IndexOf(c.Windows, id) \in 1..Len(c.Windows) /\ c.Windows[IndexOf(c.Windows, id)] = id
    BY <2>1, <2>3, IndexOfType
  <2>5. d \in Column /\ d.Windows = c.Windows /\ d.Sel = IndexOf(c.Windows, id)
    BY <2>1, <2>4 DEF Column
  <2> HIDE DEF d
  <2>6. d.Windows # <<>> /\ d.Sel \in DOMAIN d.Windows /\ selected(d) = id
    BY <2>3, <2>4, <2>5 DEF selected
  <2>7. cols \in Seq(Column) /\ Len(cols) = Len(v.Columns)
    BY <1>1, <2>1, <2>5, ExceptSeq
  <2>8. \A j \in 1..Len(v.Columns) : cols[j] = IF j = ci THEN d ELSE v.Columns[j]
    BY <1>1
  <2> HIDE DEF cols
  <2>9. Held(cols) = Held(v.Columns) /\ Apart(cols)
    <3>1. \A j \in 1..Len(v.Columns) : cols[j].Windows = v.Columns[j].Windows
      BY <2>3, <2>5, <2>8
    <3> QED BY <1>1, <2>7, <3>1, SameWindows
  <2>10. /\ w \in View /\ w.Columns = cols /\ w.Float = v.Float /\ w.FocusCol = ci
         /\ w.FocusFloat = v.FocusFloat /\ w.FocusLayer = "tiled"
    BY <1>1, <2>1, <2>7 DEF View, Layer
  <2> HIDE DEF w
  <2>11. Placed(w)
    BY <1>1, <2>9, <2>10 DEF Placed
  <2>12. \A j \in 1..Len(cols) : ColumnInRange(cols[j], Len(cols) = 1)
    <3>1. \A j \in 1..Len(v.Columns) : ColumnInRange(v.Columns[j], Len(v.Columns) = 1)
      BY <1>1 DEF Sound, InRange
    <3>2. ColumnInRange(d, Len(cols) = 1)
      BY <2>6 DEF ColumnInRange
    <3> QED BY <2>7, <2>8, <3>1, <3>2
  <2>13. InRange(w)
    <3>1. DOMAIN cols = 1..Len(cols)
      BY <2>7
    <3>2. IF w.Float = <<>> THEN w.FocusFloat = 1 /\ w.FocusLayer = "tiled"
          ELSE w.FocusFloat \in DOMAIN w.Float
      BY <2>10 DEF Sound, InRange
    <3> QED BY <2>1, <2>7, <2>10, <2>12, <3>1, <3>2 DEF InRange
  <2>14. focusedWindow(w) = id
    <3>1. w.FocusCol \in DOMAIN w.Columns /\ w.Columns[w.FocusCol] = d /\ w.FocusLayer = "tiled"
      BY <2>1, <2>7, <2>8, <2>10
    <3> QED BY <2>6, <3>1 DEF focusedWindow
  <2>15. contains(v, id)
    BY <1>2 DEF contains
  <2> QED BY <2>2, <2>9, <2>10, <2>11, <2>13, <2>14, <2>15, WindowsOfView DEF Sound
<1>3. CASE ~InColumn(v, id) /\ FloatContains(v, id)
  <2> DEFINE i == IndexOf(v.Float, id)
             w == [v EXCEPT !.FocusFloat = i, !.FocusLayer = "floating"]
  <2>1. focusWindow(v, id) = w
    BY <1>3 DEF focusWindow
  <2>2. i \in 1..Len(v.Float) /\ v.Float[i] = id
    BY <1>1, <1>3, IndexOfType DEF FloatContains
  <2> HIDE DEF i
  <2>3. /\ w \in View /\ w.Columns = v.Columns /\ w.Float = v.Float /\ w.FocusCol = v.FocusCol
        /\ w.FocusFloat = i /\ w.FocusLayer = "floating"
    <3>1. i \in Nat /\ "floating" \in Layer
      BY <2>2 DEF Layer
    <3> HIDE DEF Layer
    <3> QED BY <1>1, <3>1 DEF View
  <2> HIDE DEF w
  <2>4. Placed(w)
    BY <1>1, <2>3 DEF Placed
  <2>5. v.Float # <<>>
    BY <1>1, <2>2
  <2>6. InRange(w)
    BY <1>1, <2>2, <2>3, <2>5 DEF Sound, InRange
  <2>7. focusedWindow(w) = id
    BY <1>1, <2>2, <2>3 DEF focusedWindow
  <2>8. contains(v, id)
    BY <1>3 DEF contains
  <2> QED BY <2>1, <2>3, <2>4, <2>6, <2>7, <2>8, WindowsOfView DEF Sound
<1>4. CASE ~contains(v, id)
  <2>1. focusWindow(v, id) = v
    BY <1>4 DEF focusWindow, contains
  <2> QED BY <1>4, <2>1
<1> QED BY <1>2, <1>3, <1>4 DEF contains

\* The focus of a view is on one of its windows, and on none only when the
\* focused column is empty, and so the whole tiled layer.
LEMMA FocusedIsThere ==
  ASSUME NEW v, Sound(v)
  PROVE  /\ v.FocusLayer = "floating" => focusedWindow(v) \in ToSet(v.Float)
         /\ v.FocusLayer = "tiled" /\ focusedWindow(v) # NoWindow
              => /\ focusedWindow(v) \in Held(v.Columns)
                 /\ v.Columns[v.FocusCol].Sel \in DOMAIN v.Columns[v.FocusCol].Windows
         /\ v.FocusLayer = "tiled" /\ focusedWindow(v) = NoWindow => Held(v.Columns) = {}
         /\ focusedWindow(v) # NoWindow => focusedWindow(v) \in WindowsOf(v)
         /\ v.FocusLayer = "tiled" => focusedWindow(v) = selected(v.Columns[v.FocusCol])
<1>1. /\ v \in View
      /\ v.Columns \in Seq(Column) /\ v.Float \in Seq(WindowID)
      /\ Len(v.Columns) \in Nat /\ DOMAIN v.Columns = 1..Len(v.Columns)
      /\ Len(v.Float) \in Nat /\ DOMAIN v.Float = 1..Len(v.Float)
      /\ v.FocusCol \in 1..Len(v.Columns) /\ v.FocusLayer \in Layer
  BY ViewFields DEF Sound, InRange
<1>2. CASE v.FocusLayer = "floating"
  <2>1. v.FocusFloat \in 1..Len(v.Float)
    BY <1>1, <1>2 DEF Sound, InRange
  <2>2. focusedWindow(v) = v.Float[v.FocusFloat]
    BY <1>1, <1>2, <2>1 DEF focusedWindow
  <2>3. focusedWindow(v) \in ToSet(v.Float)
    BY <1>1, <2>1, <2>2, ToSetOf
  <2> QED BY <1>2, <2>3, WindowsOfView
<1>3. CASE v.FocusLayer = "tiled"
  <2> DEFINE c == v.Columns[v.FocusCol]
  <2>1. /\ c.Windows \in Seq(WindowID) /\ ToSet(c.Windows) \subseteq Held(v.Columns)
        /\ ColumnInRange(c, Len(v.Columns) = 1)
    BY <1>1, ColumnsOfView DEF Sound, InRange
  <2>2. focusedWindow(v) = selected(c)
    BY <1>1, <1>3 DEF focusedWindow
  <2>3. CASE c.Windows = <<>>
    <3>1. Len(v.Columns) = 1 /\ v.FocusCol = 1
      BY <1>1, <2>1, <2>3 DEF ColumnInRange
    <3>2. Held(v.Columns) = {}
      <4>1. ToSet(c.Windows) = {}
        BY <2>1, <2>3, ToSetOf
      <4>2. \A ci \in DOMAIN v.Columns : ci = v.FocusCol
        BY <1>1, <3>1
      <4> QED BY <4>1, <4>2 DEF Held
    <3>3. selected(c) = NoWindow
      BY <2>3 DEF selected
    <3> QED BY <1>3, <2>2, <3>2, <3>3
  <2>4. CASE c.Windows # <<>>
    <3>1. c.Sel \in DOMAIN c.Windows /\ selected(c) = c.Windows[c.Sel]
      BY <2>1, <2>4 DEF ColumnInRange, selected
    <3>2. selected(c) \in ToSet(c.Windows)
      BY <2>1, <3>1, ToSetOf
    <3>3. selected(c) # NoWindow
      BY <2>1, <3>2, ToSetOf, ViewAssumption
    <3> QED BY <1>3, <2>1, <2>2, <3>1, <3>2, <3>3, WindowsOfView
  <2> QED BY <2>3, <2>4
<1> QED BY <1>1, <1>2, <1>3 DEF Layer

-----------------------------------------------------------------------------
(* Replacing a window (a tab that takes the place of another).             *)

LEMMA ReplaceInViewSound ==
  ASSUME NEW v, Sound(v), NEW old \in WindowID, NEW nu \in WindowID, nu \notin WindowsOf(v)
  PROVE  /\ Sound(ReplaceInView(v, old, nu))
         /\ WindowsOf(ReplaceInView(v, old, nu)) =
              {Renamed(id, old, nu) : id \in WindowsOf(v)}
         /\ focusedWindow(ReplaceInView(v, old, nu)) =
              Renamed(focusedWindow(v), old, nu)
<1>1. /\ v \in View
      /\ v.Columns \in Seq(Column) /\ v.Float \in Seq(WindowID)
      /\ Len(v.Columns) \in Nat /\ DOMAIN v.Columns = 1..Len(v.Columns)
      /\ Len(v.Float) \in Nat /\ DOMAIN v.Float = 1..Len(v.Float)
      /\ Apart(v.Columns) /\ IsInjective(v.Float)
      /\ Held(v.Columns) \cap ToSet(v.Float) = {}
      /\ v.FocusCol \in 1..Len(v.Columns)
  BY ViewFields DEF Sound, Placed, InRange
<1>2. nu \notin Held(v.Columns) /\ nu \notin ToSet(v.Float)
  BY WindowsOfView
<1> DEFINE cols == [ci \in DOMAIN v.Columns |->
                      [v.Columns[ci] EXCEPT !.Windows = Replaced(@, old, nu)]]
           float == Replaced(v.Float, old, nu)
           w == ReplaceInView(v, old, nu)
           now(id) == Renamed(id, old, nu)
<1>3. /\ float \in Seq(WindowID) /\ Len(float) = Len(v.Float) /\ IsInjective(float)
      /\ \A j \in 1..Len(v.Float) : float[j] = now(v.Float[j])
      /\ ToSet(float) = {now(id) : id \in ToSet(v.Float)}
  <2> DEFINE q == v.Float
  <2>1. q \in Seq(WindowID) /\ IsInjective(q) /\ nu \notin ToSet(q)
    BY <1>1, <1>2
  <2> HIDE DEF q
  <2>2. /\ Replaced(q, old, nu) \in Seq(WindowID)
        /\ Len(Replaced(q, old, nu)) = Len(q)
        /\ IsInjective(Replaced(q, old, nu))
        /\ \A j \in 1..Len(q) : Replaced(q, old, nu)[j] = Renamed(q[j], old, nu)
        /\ ToSet(Replaced(q, old, nu)) = {Renamed(id, old, nu) : id \in ToSet(q)}
    BY <2>1, ReplacedSet
  <2> QED BY <2>2, Zenon DEF q
<1>4. w \in View
  BY <1>1, ReplaceInViewType
<1>5. /\ w.Columns = cols /\ w.Float = float /\ w.FocusCol = v.FocusCol
      /\ w.FocusFloat = v.FocusFloat /\ w.FocusLayer = v.FocusLayer
  BY <1>1 DEF ReplaceInView, View
<1> HIDE DEF w, float
<1>6. ASSUME NEW ci \in 1..Len(v.Columns)
      PROVE  /\ IsInjective(cols[ci].Windows)
             /\ Len(cols[ci].Windows) = Len(v.Columns[ci].Windows)
             /\ cols[ci].Windows \in Seq(WindowID)
             /\ cols[ci].Sel = v.Columns[ci].Sel
             /\ v.Columns[ci].Windows \in Seq(WindowID)
             /\ \A j \in 1..Len(v.Columns[ci].Windows) :
                  cols[ci].Windows[j] = now(v.Columns[ci].Windows[j])
             /\ ToSet(cols[ci].Windows) = {now(id) : id \in ToSet(v.Columns[ci].Windows)}
  <2> DEFINE c == v.Columns[ci]
  <2>1. /\ c \in Column /\ c.Windows \in Seq(WindowID) /\ IsInjective(c.Windows)
        /\ ToSet(c.Windows) \subseteq Held(v.Columns)
    BY <1>1, ColumnsOfView
  <2>2. cols[ci] = [c EXCEPT !.Windows = Replaced(@, old, nu)]
    BY <1>1
  <2> HIDE DEF c, cols
  <2>3. cols[ci].Windows = Replaced(c.Windows, old, nu) /\ cols[ci].Sel = c.Sel
    BY <2>1, <2>2 DEF Column
  <2>4. nu \notin ToSet(c.Windows)
    BY <1>2, <2>1
  <2>5. /\ Replaced(c.Windows, old, nu) \in Seq(WindowID)
        /\ Len(Replaced(c.Windows, old, nu)) = Len(c.Windows)
        /\ IsInjective(Replaced(c.Windows, old, nu))
        /\ \A j \in 1..Len(c.Windows) : Replaced(c.Windows, old, nu)[j] = now(c.Windows[j])
        /\ ToSet(Replaced(c.Windows, old, nu)) = {now(id) : id \in ToSet(c.Windows)}
    BY <2>1, <2>4, ReplacedSet
  <2> QED BY <2>1, <2>3, <2>5 DEF c
<1>7. DOMAIN cols = 1..Len(v.Columns) /\ Len(cols) = Len(v.Columns)
  <2>1. cols \in Seq(Column)
    BY <1>4, <1>5, ViewFields
  <2> QED BY <1>1, <2>1
<1> HIDE DEF cols
<1>8. \A a, b \in WindowID \ {nu} : now(a) = now(b) => a = b
  BY DEF Renamed
<1>9. \A ci \in 1..Len(v.Columns) : ToSet(v.Columns[ci].Windows) \subseteq WindowID \ {nu}
  BY <1>1, <1>2, <1>6, ColumnsOfView, ToSetOf
<1>10. Apart(cols)
  <2>1. ASSUME NEW a \in 1..Len(v.Columns), NEW b \in 1..Len(v.Columns), a # b
        PROVE  ToSet(cols[a].Windows) \cap ToSet(cols[b].Windows) = {}
    <3>1. ToSet(v.Columns[a].Windows) \cap ToSet(v.Columns[b].Windows) = {}
      BY <1>1, <2>1 DEF Apart
    <3>2. /\ ToSet(cols[a].Windows) = {now(id) : id \in ToSet(v.Columns[a].Windows)}
          /\ ToSet(cols[b].Windows) = {now(id) : id \in ToSet(v.Columns[b].Windows)}
      BY <1>6
    <3>3. /\ ToSet(v.Columns[a].Windows) \subseteq WindowID \ {nu}
          /\ ToSet(v.Columns[b].Windows) \subseteq WindowID \ {nu}
      BY <1>9
    <3> QED BY <1>8, <3>1, <3>2, <3>3
  <2>2. \A ci \in 1..Len(v.Columns) : IsInjective(cols[ci].Windows)
    BY <1>6
  <2> QED BY <1>7, <2>1, <2>2 DEF Apart
<1>11. Held(cols) = {now(id) : id \in Held(v.Columns)}
  <2>1. ASSUME NEW x PROVE x \in Held(cols) <=> x \in {now(id) : id \in Held(v.Columns)}
    <3>1. x \in Held(cols) <=> \E ci \in 1..Len(v.Columns) : x \in ToSet(cols[ci].Windows)
      BY <1>7 DEF Held
    <3>2. \A id : id \in Held(v.Columns) <=> \E ci \in 1..Len(v.Columns) : id \in ToSet(v.Columns[ci].Windows)
      BY <1>1 DEF Held
    <3>3. ASSUME NEW ci \in 1..Len(v.Columns)
          PROVE  x \in ToSet(cols[ci].Windows) <=> \E id \in ToSet(v.Columns[ci].Windows) : x = now(id)
      <4>1. ToSet(cols[ci].Windows) = {now(id) : id \in ToSet(v.Columns[ci].Windows)}
        BY <1>6
      <4> QED BY <4>1
    <3> QED BY <3>1, <3>2, <3>3
  <2> QED BY <2>1
<1>12. Held(cols) \cap ToSet(float) = {}
  <2>1. Held(v.Columns) \subseteq WindowID \ {nu}
    BY <1>1, <1>9 DEF Held
  <2>2. ToSet(v.Float) \subseteq WindowID \ {nu}
    BY <1>1, <1>2, ToSetOf
  <2> QED BY <1>1, <1>3, <1>8, <1>11, <2>1, <2>2
<1>13. Placed(w)
  BY <1>3, <1>5, <1>10, <1>12 DEF Placed
<1>14. InRange(w)
  <2>1. ASSUME NEW ci \in 1..Len(v.Columns) PROVE ColumnInRange(cols[ci], Len(cols) = 1)
    <3>1. ColumnInRange(v.Columns[ci], Len(v.Columns) = 1)
      BY <1>1 DEF Sound, InRange
    <3>2. /\ cols[ci].Windows = <<>> <=> v.Columns[ci].Windows = <<>>
          /\ DOMAIN cols[ci].Windows = DOMAIN v.Columns[ci].Windows
      BY <1>6
    <3> QED BY <1>6, <1>7, <3>1, <3>2 DEF ColumnInRange
  <2>2. IF w.Float = <<>> THEN w.FocusFloat = 1 /\ w.FocusLayer = "tiled"
        ELSE w.FocusFloat \in DOMAIN w.Float
    <3>1. (w.Float = <<>> <=> v.Float = <<>>) /\ DOMAIN w.Float = DOMAIN v.Float
      BY <1>1, <1>3, <1>5
    <3>2. IF v.Float = <<>> THEN v.FocusFloat = 1 /\ v.FocusLayer = "tiled"
          ELSE v.FocusFloat \in DOMAIN v.Float
      BY DEF Sound, InRange
    <3> QED BY <1>5, <3>1, <3>2
  <2> QED BY <1>1, <1>5, <1>7, <2>1, <2>2 DEF InRange
<1>15. WindowsOf(w) = {now(id) : id \in WindowsOf(v)}
  <2>1. WindowsOf(w) = Held(cols) \cup ToSet(float) /\ WindowsOf(v) = Held(v.Columns) \cup ToSet(v.Float)
    BY <1>5, WindowsOfView
  <2> QED BY <1>3, <1>11, <2>1
<1>16. focusedWindow(w) = now(focusedWindow(v))
  <2>1. now(NoWindow) = NoWindow
    BY ViewAssumption DEF Renamed
  <2>2. CASE v.FocusLayer = "floating"
    <3>1. DOMAIN float = DOMAIN v.Float
      BY <1>1, <1>3
    <3> QED BY <1>1, <1>3, <1>5, <2>1, <2>2, <3>1 DEF focusedWindow
  <2>3. CASE v.FocusLayer # "floating"
    <3> DEFINE ci == v.FocusCol
    <3>1. focusedWindow(w) = selected(cols[ci]) /\ focusedWindow(v) = selected(v.Columns[ci])
      BY <1>1, <1>5, <1>7, <2>3 DEF focusedWindow
    <3>2. /\ cols[ci].Sel = v.Columns[ci].Sel
          /\ DOMAIN cols[ci].Windows = 1..Len(v.Columns[ci].Windows)
          /\ DOMAIN v.Columns[ci].Windows = 1..Len(v.Columns[ci].Windows)
          /\ \A j \in 1..Len(v.Columns[ci].Windows) :
               cols[ci].Windows[j] = now(v.Columns[ci].Windows[j])
      <4>1. ci \in 1..Len(v.Columns)
        BY <1>1
      <4> HIDE DEF ci, cols, now
      <4>2. /\ cols[ci].Windows \in Seq(WindowID) /\ v.Columns[ci].Windows \in Seq(WindowID)
            /\ Len(cols[ci].Windows) = Len(v.Columns[ci].Windows)
            /\ cols[ci].Sel = v.Columns[ci].Sel
        BY <1>6, <4>1, Zenon
      <4>3. \A j \in 1..Len(v.Columns[ci].Windows) :
              cols[ci].Windows[j] = now(v.Columns[ci].Windows[j])
        BY <1>6, <4>1, Zenon
      <4>4. DOMAIN cols[ci].Windows = 1..Len(v.Columns[ci].Windows)
        BY <4>2
      <4>5. DOMAIN v.Columns[ci].Windows = 1..Len(v.Columns[ci].Windows)
        BY <4>2
      <4> QED BY <4>2, <4>3, <4>4, <4>5, Zenon
    <3>3. selected(cols[ci]) = now(selected(v.Columns[ci]))
      <4> HIDE DEF now, cols
      <4> QED BY <2>1, <3>2, Zenon DEF selected
    <3> QED BY <3>1, <3>3
  <2> QED BY <2>2, <2>3
<1> QED BY <1>4, <1>13, <1>14, <1>15, <1>16 DEF Sound, w

-----------------------------------------------------------------------------
(* Moving the focus and the focused window within a view.                  *)

\* A view with one column replaced: by one with the same windows, or with some
\* that are nowhere else on the view.
LEMMA ColumnReplaced ==
  ASSUME NEW v, Sound(v), NEW ci \in 1..Len(v.Columns), NEW d \in Column,
         IsInjective(d.Windows), ColumnInRange(d, Len(v.Columns) = 1),
         ToSet(d.Windows) \cap (WindowsOf(v) \ ToSet(v.Columns[ci].Windows)) = {}
  PROVE  /\ Sound([v EXCEPT !.Columns = [v.Columns EXCEPT ![ci] = d]])
         /\ WindowsOf([v EXCEPT !.Columns = [v.Columns EXCEPT ![ci] = d]]) =
              (WindowsOf(v) \ ToSet(v.Columns[ci].Windows)) \cup ToSet(d.Windows)
<1> DEFINE cols == [v.Columns EXCEPT ![ci] = d]
           w == [v EXCEPT !.Columns = cols]
<1>1. /\ v \in View
      /\ v.Columns \in Seq(Column) /\ v.Float \in Seq(WindowID)
      /\ Len(v.Columns) \in Nat /\ DOMAIN v.Columns = 1..Len(v.Columns)
      /\ Apart(v.Columns) /\ IsInjective(v.Float)
      /\ Held(v.Columns) \cap ToSet(v.Float) = {}
      /\ v.FocusCol \in 1..Len(v.Columns)
      /\ WindowsOf(v) = Held(v.Columns) \cup ToSet(v.Float)
      /\ ToSet(v.Columns[ci].Windows) \subseteq Held(v.Columns)
  BY ViewFields, ColumnsOfView, WindowsOfView DEF Sound, Placed, InRange
<1>2. /\ cols \in Seq(Column) /\ Len(cols) = Len(v.Columns) /\ Apart(cols)
      /\ Held(cols) = (Held(v.Columns) \ ToSet(v.Columns[ci].Windows)) \cup ToSet(d.Windows)
  <2>1. ToSet(d.Windows) \cap (Held(v.Columns) \ ToSet(v.Columns[ci].Windows)) = {}
    BY <1>1
  <2>2. v.Columns \in Seq(Column) /\ Apart(v.Columns)
    BY <1>1
  <2> QED BY <2>1, <2>2, ColumnChanged
<1>3. \A j \in 1..Len(v.Columns) : cols[j] = IF j = ci THEN d ELSE v.Columns[j]
  BY <1>1
<1> HIDE DEF cols
<1>4. /\ w \in View /\ w.Columns = cols /\ w.Float = v.Float /\ w.FocusCol = v.FocusCol
      /\ w.FocusFloat = v.FocusFloat /\ w.FocusLayer = v.FocusLayer
  BY <1>1, <1>2 DEF View
<1> HIDE DEF w
<1>5. Placed(w)
  <2>1. Held(cols) \cap ToSet(v.Float) = {}
    BY <1>1, <1>2
  <2> QED BY <1>1, <1>2, <1>4, <2>1 DEF Placed
<1>6. InRange(w)
  <2>1. \A j \in 1..Len(v.Columns) : ColumnInRange(cols[j], Len(cols) = 1)
    BY <1>1, <1>2, <1>3 DEF Sound, InRange
  <2>2. DOMAIN cols = 1..Len(v.Columns)
    BY <1>2
  <2>3. IF v.Float = <<>> THEN v.FocusFloat = 1 /\ v.FocusLayer = "tiled"
        ELSE v.FocusFloat \in DOMAIN v.Float
    BY DEF Sound, InRange
  <2> QED BY <1>1, <1>4, <2>1, <2>2, <2>3 DEF InRange
<1>7. WindowsOf(w) = (WindowsOf(v) \ ToSet(v.Columns[ci].Windows)) \cup ToSet(d.Windows)
  <2>1. WindowsOf(w) = Held(cols) \cup ToSet(v.Float)
    BY <1>4, WindowsOfView
  <2> QED BY <1>1, <1>2, <2>1
<1> QED BY <1>4, <1>5, <1>6, <1>7 DEF Sound, w, cols

Recolumned(v, ci, d) == [v EXCEPT !.Columns = [v.Columns EXCEPT ![ci] = d]]

LEMMA RecolumnedSound ==
  ASSUME NEW v, Sound(v), NEW ci \in 1..Len(v.Columns), NEW d \in Column,
         IsInjective(d.Windows), ColumnInRange(d, Len(v.Columns) = 1),
         ToSet(d.Windows) \cap (WindowsOf(v) \ ToSet(v.Columns[ci].Windows)) = {}
  PROVE  /\ Sound(Recolumned(v, ci, d))
         /\ WindowsOf(Recolumned(v, ci, d)) =
              (WindowsOf(v) \ ToSet(v.Columns[ci].Windows)) \cup ToSet(d.Windows)
BY ColumnReplaced DEF Recolumned

\* A column with another selection or mode.
LEMMA ColumnRetouched ==
  ASSUME NEW v, Sound(v), NEW ci \in 1..Len(v.Columns), NEW d \in Column,
         d.Windows = v.Columns[ci].Windows, ColumnInRange(d, Len(v.Columns) = 1)
  PROVE  /\ Sound([v EXCEPT !.Columns = [v.Columns EXCEPT ![ci] = d]])
         /\ WindowsOf([v EXCEPT !.Columns = [v.Columns EXCEPT ![ci] = d]]) = WindowsOf(v)
<1>1. v.Columns \in Seq(Column) /\ Apart(v.Columns)
  BY ViewFields DEF Sound, Placed
<1>2. /\ IsInjective(d.Windows)
      /\ ToSet(v.Columns[ci].Windows) \subseteq WindowsOf(v)
  BY <1>1, ColumnsOfView, WindowsOfView
<1>3. ToSet(d.Windows) \cap (WindowsOf(v) \ ToSet(v.Columns[ci].Windows)) = {}
  OBVIOUS
<1> DEFINE w == [v EXCEPT !.Columns = [v.Columns EXCEPT ![ci] = d]]
<1>4. /\ Sound(w)
      /\ WindowsOf(w) = (WindowsOf(v) \ ToSet(v.Columns[ci].Windows)) \cup ToSet(d.Windows)
  <2> DEFINE c == d
  <2>1. /\ Sound(v) /\ ci \in 1..Len(v.Columns) /\ c \in Column /\ IsInjective(c.Windows)
        /\ ColumnInRange(c, Len(v.Columns) = 1)
        /\ ToSet(c.Windows) \cap (WindowsOf(v) \ ToSet(v.Columns[ci].Windows)) = {}
    BY <1>2, <1>3
  <2> HIDE DEF c
  <2>2. /\ Sound(Recolumned(v, ci, c))
        /\ WindowsOf(Recolumned(v, ci, c)) =
             (WindowsOf(v) \ ToSet(v.Columns[ci].Windows)) \cup ToSet(c.Windows)
    BY <2>1, RecolumnedSound
  <2>3. w = Recolumned(v, ci, c)
    BY DEF c, Recolumned
  <2> QED BY <2>2, <2>3, Zenon DEF c
<1> HIDE DEF w
<1>5. WindowsOf(w) = WindowsOf(v)
  BY <1>2, <1>4
<1> QED BY <1>4, <1>5 DEF w

\* A column of a sound view that holds something has a selection.
LEMMA SelectionOf ==
  ASSUME NEW v, Sound(v), NEW ci \in 1..Len(v.Columns)
  PROVE  /\ v.Columns[ci] \in Column
         /\ v.Columns[ci].Windows \in Seq(WindowID)
         /\ IsInjective(v.Columns[ci].Windows)
         /\ ToSet(v.Columns[ci].Windows) \subseteq WindowsOf(v)
         /\ ColumnInRange(v.Columns[ci], Len(v.Columns) = 1)
<1>1. v.Columns \in Seq(Column) /\ DOMAIN v.Columns = 1..Len(v.Columns) /\ Apart(v.Columns)
  BY ViewFields DEF Sound, Placed
<1>2. ColumnInRange(v.Columns[ci], Len(v.Columns) = 1)
  BY <1>1 DEF Sound, InRange
<1> QED BY <1>1, <1>2, ColumnsOfView, WindowsOfView

LEMMA MoveWithinColumnSound ==
  ASSUME NEW v, Sound(v), NEW delta \in {-1, 1},
         v.Columns[v.FocusCol].Sel \in DOMAIN v.Columns[v.FocusCol].Windows
  PROVE  /\ Sound(moveWithinColumn(v, delta))
         /\ WindowsOf(moveWithinColumn(v, delta)) = WindowsOf(v)
<1> DEFINE c == v.Columns[v.FocusCol]
           row == c.Sel + delta
           d == [c EXCEPT !.Windows = Swapped(@, c.Sel, row), !.Sel = row]
           cols == [v.Columns EXCEPT ![v.FocusCol] = d]
<1>1. v.FocusCol \in 1..Len(v.Columns)
  BY ViewFields DEF Sound, InRange
<1>2. /\ c \in Column /\ c.Windows \in Seq(WindowID) /\ IsInjective(c.Windows)
      /\ ToSet(c.Windows) \subseteq WindowsOf(v)
  BY <1>1, SelectionOf
<1>3. CASE row \notin DOMAIN c.Windows
  BY <1>3 DEF moveWithinColumn
<1>4. CASE row \in DOMAIN c.Windows
  <2>1. row \in 1..Len(c.Windows) /\ c.Sel \in 1..Len(c.Windows) /\ row \in Nat
    <3>1. DOMAIN c.Windows = 1..Len(c.Windows) /\ Len(c.Windows) \in Nat
      BY <1>2
    <3>2. c.Windows # <<>>
      BY <1>4, <3>1
    <3>3. ColumnInRange(c, Len(v.Columns) = 1)
      BY <1>1 DEF Sound, InRange
    <3>4. c.Sel \in DOMAIN c.Windows
      BY <3>2, <3>3, Zenon DEF ColumnInRange
    <3> HIDE DEF c, row
    <3> QED BY <1>4, <3>1, <3>4
  <2>2. moveWithinColumn(v, delta) = [v EXCEPT !.Columns = cols]
    BY <1>4 DEF moveWithinColumn
  <2>3. v.Columns[v.FocusCol] = c
    OBVIOUS
  <2> HIDE DEF c, row
  <2>4. /\ Swapped(c.Windows, c.Sel, row) \in Seq(WindowID)
        /\ Len(Swapped(c.Windows, c.Sel, row)) = Len(c.Windows)
        /\ IsInjective(Swapped(c.Windows, c.Sel, row))
        /\ ToSet(Swapped(c.Windows, c.Sel, row)) = ToSet(c.Windows)
    BY <1>2, <2>1, SwappedSet
  <2>5. d \in Column /\ d.Windows = Swapped(c.Windows, c.Sel, row) /\ d.Sel = row
    BY <1>2, <2>1, <2>4 DEF Column
  <2> HIDE DEF d
  <2>6. ColumnInRange(d, Len(v.Columns) = 1)
    <3>1. DOMAIN d.Windows = 1..Len(c.Windows) /\ d.Windows # <<>>
      BY <2>1, <2>4, <2>5
    <3> QED BY <2>1, <2>5, <3>1 DEF ColumnInRange
  <2>7. ToSet(d.Windows) = ToSet(c.Windows) /\ IsInjective(d.Windows)
    BY <2>4, <2>5
  <2>8. ToSet(d.Windows) \cap (WindowsOf(v) \ ToSet(v.Columns[v.FocusCol].Windows)) = {}
    BY <2>3, <2>7
  <2>9. /\ Sound([v EXCEPT !.Columns = [v.Columns EXCEPT ![v.FocusCol] = d]])
        /\ WindowsOf([v EXCEPT !.Columns = [v.Columns EXCEPT ![v.FocusCol] = d]]) =
             (WindowsOf(v) \ ToSet(v.Columns[v.FocusCol].Windows)) \cup ToSet(d.Windows)
    <3> DEFINE col == v.FocusCol
    <3>1. /\ Sound(v) /\ col \in 1..Len(v.Columns) /\ d \in Column /\ IsInjective(d.Windows)
          /\ ColumnInRange(d, Len(v.Columns) = 1)
          /\ ToSet(d.Windows) \cap (WindowsOf(v) \ ToSet(v.Columns[col].Windows)) = {}
      BY <1>1, <2>5, <2>6, <2>7, <2>8
    <3> HIDE DEF col, cols
    <3>2. /\ Sound([v EXCEPT !.Columns = [v.Columns EXCEPT ![col] = d]])
          /\ WindowsOf([v EXCEPT !.Columns = [v.Columns EXCEPT ![col] = d]]) =
               (WindowsOf(v) \ ToSet(v.Columns[col].Windows)) \cup ToSet(d.Windows)
      BY <3>1, ColumnReplaced
    <3> QED BY <3>2 DEF col
  <2> HIDE DEF cols
  <2>10. (WindowsOf(v) \ ToSet(v.Columns[v.FocusCol].Windows)) \cup ToSet(d.Windows) = WindowsOf(v)
    BY <1>2, <2>3, <2>7
  <2> QED BY <2>2, <2>9, <2>10 DEF cols
<1> QED BY <1>3, <1>4

\* The column a window moves into.
LEMMA WithSelectedSet ==
  ASSUME NEW c \in Column, IsInjective(c.Windows), NEW id \in WindowID, id \notin ToSet(c.Windows)
  PROVE  /\ withSelected(c, id) \in Column
         /\ IsInjective(withSelected(c, id).Windows)
         /\ ToSet(withSelected(c, id).Windows) = ToSet(c.Windows) \cup {id}
         /\ withSelected(c, id).Windows # <<>>
         /\ withSelected(c, id).Sel \in DOMAIN withSelected(c, id).Windows
<1> DEFINE d == withSelected(c, id)
<1>1. c.Windows \in Seq(WindowID) /\ Len(c.Windows) \in Nat
  BY ColumnFields
<1>2. d \in Column /\ d.Windows = Append(c.Windows, id) /\ d.Sel = Len(c.Windows) + 1
  BY WithSelectedType DEF withSelected, Column
<1> HIDE DEF d
<1>3. /\ Append(c.Windows, id) \in Seq(WindowID)
      /\ Len(Append(c.Windows, id)) = Len(c.Windows) + 1
      /\ ToSet(Append(c.Windows, id)) = ToSet(c.Windows) \cup {id}
      /\ IsInjective(Append(c.Windows, id))
  BY <1>1, AppendSet
<1>4. d.Windows # <<>> /\ d.Sel \in DOMAIN d.Windows
  BY <1>1, <1>2, <1>3
<1> QED BY <1>2, <1>3, <1>4 DEF d

LEMMA NewColumnSet ==
  ASSUME NEW id \in WindowID
  PROVE  /\ NewColumn(<<id>>) \in Column
         /\ NewColumn(<<id>>).Windows = <<id>>
         /\ IsInjective(<<id>>) /\ ToSet(<<id>>) = {id} /\ <<id>> # <<>>
<1>1. NewColumn(<<id>>) \in Column /\ NewColumn(<<id>>).Windows = <<id>>
  BY NewColumnTypes DEF NewColumn
<1>2. DOMAIN <<id>> = {1} /\ <<id>>[1] = id
  OBVIOUS
<1> QED BY <1>1, <1>2 DEF IsInjective, ToSet

\* Moving a window left or right takes it out of its column, which may vanish,
\* and into the next one, which may have to be created.
LEMMA MoveAcrossColumnsSound ==
  ASSUME NEW v, Sound(v), NEW delta \in {-1, 1},
         v.Columns[v.FocusCol].Sel \in DOMAIN v.Columns[v.FocusCol].Windows
  PROVE  /\ Sound(clampFocus(moveAcrossColumns(v, delta)))
         /\ WindowsOf(clampFocus(moveAcrossColumns(v, delta))) = WindowsOf(v)
<1> DEFINE col  == v.FocusCol
           c    == v.Columns[col]
           id   == c.Windows[c.Sel]
           rest == [c EXCEPT !.Windows = RemoveAt(@, c.Sel)]
           cols == WithColumn(v.Columns, col, rest)
           to   == IF rest.Windows = <<>> /\ delta > 0 THEN col ELSE col + delta
           w    == moveAcrossColumns(v, delta)
<1>1. /\ v \in View
      /\ v.Columns \in Seq(Column) /\ v.Float \in Seq(WindowID)
      /\ Len(v.Columns) \in Nat /\ DOMAIN v.Columns = 1..Len(v.Columns)
      /\ Apart(v.Columns) /\ IsInjective(v.Float)
      /\ Held(v.Columns) \cap ToSet(v.Float) = {}
      /\ col \in 1..Len(v.Columns)
  BY ViewFields DEF Sound, Placed, InRange
<1>2. /\ c \in Column /\ c.Windows \in Seq(WindowID) /\ IsInjective(c.Windows)
      /\ c.Sel \in 1..Len(c.Windows)
  BY <1>1, SelectionOf
<1>3. id \in ToSet(c.Windows) /\ id \in WindowID /\ id \in Held(v.Columns) /\ id \notin ToSet(v.Float)
  <2>1. id \in ToSet(c.Windows)
    BY <1>2, ToSetOf
  <2>2. ToSet(c.Windows) \subseteq Held(v.Columns) /\ ToSet(c.Windows) \subseteq WindowID
    BY <1>1, <1>2, ColumnsOfView, ToSetOf
  <2> QED BY <1>1, <2>1, <2>2
<1>4. /\ w = IF to \in DOMAIN cols
             THEN [v EXCEPT !.Columns = [cols EXCEPT ![to] = withSelected(@, id)], !.FocusCol = to]
             ELSE IF delta < 0
             THEN [v EXCEPT !.Columns = <<NewColumn(<<id>>)>> \o cols, !.FocusCol = 1]
             ELSE [v EXCEPT !.Columns = Append(cols, NewColumn(<<id>>)), !.FocusCol = Len(cols) + 1]
      /\ w \in View
  <2>1. w \in View
    BY <1>1, MoveAcrossColumnsType
  <2> QED BY <2>1 DEF moveAcrossColumns
<1>5. v.Columns[col] = c
  OBVIOUS
<1> HIDE DEF w, c, id, col
<1>6. rest \in Column /\ IsInjective(rest.Windows) /\ ToSet(rest.Windows) = ToSet(c.Windows) \ {id}
  <2>1. /\ RemoveAt(c.Windows, c.Sel) \in Seq(WindowID) /\ IsInjective(RemoveAt(c.Windows, c.Sel))
        /\ ToSet(RemoveAt(c.Windows, c.Sel)) = ToSet(c.Windows) \ {id}
    BY <1>2, RemoveAtSet DEF id
  <2>2. rest \in Column /\ rest.Windows = RemoveAt(c.Windows, c.Sel)
    BY <1>2, <2>1 DEF Column
  <2> QED BY <2>1, <2>2
<1> HIDE DEF rest, to
<1>7. \A j \in 1..Len(v.Columns) : v.Columns[j].Windows # <<>>
  <2>1. c.Windows # <<>>
    BY <1>2, <1>3, ToSetOf
  <2> QED BY <1>1, <1>5, <2>1, FilledColumns
<1>8. /\ cols \in Seq(Column) /\ Apart(cols) /\ Held(cols) = Held(v.Columns) \ {id}
      /\ \A j \in 1..Len(cols) : cols[j].Windows # <<>>
  <2>1. v.Columns \in Seq(Column) /\ Apart(v.Columns) /\ col \in 1..Len(v.Columns)
    BY <1>1
  <2>2. id \in ToSet(v.Columns[col].Windows) /\ ToSet(rest.Windows) = ToSet(v.Columns[col].Windows) \ {id}
    BY <1>3, <1>5, <1>6
  <2> DEFINE all == v.Columns
  <2>3. /\ all \in Seq(Column) /\ Apart(all) /\ col \in 1..Len(all) /\ rest \in Column
        /\ id \in ToSet(all[col].Windows) /\ IsInjective(rest.Windows)
        /\ ToSet(rest.Windows) = ToSet(all[col].Windows) \ {id}
    BY <1>6, <2>1, <2>2
  <2>4. \A j \in 1..Len(all) : all[j].Windows # <<>>
    BY <1>7
  <2>5. cols = WithColumn(all, col, rest)
    OBVIOUS
  <2> HIDE DEF all, cols
  <2>6. /\ cols \in Seq(Column) /\ Apart(cols) /\ Held(cols) = Held(all) \ {id}
        /\ \A j \in 1..Len(cols) : cols[j].Windows # <<>>
    BY <2>3, <2>4, <2>5, RowGone
  <2> QED BY <2>6 DEF all
<1> HIDE DEF cols
<1>9. Len(cols) \in Nat /\ DOMAIN cols = 1..Len(cols)
  BY <1>8
<1>10. /\ NewColumn(<<id>>) \in Column /\ IsInjective(NewColumn(<<id>>).Windows)
       /\ ToSet(NewColumn(<<id>>).Windows) = {id} /\ NewColumn(<<id>>).Windows # <<>>
  BY <1>3, NewColumnSet
<1> DEFINE e == NewColumn(<<id>>)
<1>11. /\ w.Columns \in Seq(Column) /\ w.Float = v.Float
       /\ Apart(w.Columns) /\ Held(w.Columns) = Held(cols) \cup {id}
       /\ \A j \in 1..Len(w.Columns) : w.Columns[j].Windows # <<>>
  <2>1. CASE to \in DOMAIN cols
    <3> DEFINE d == withSelected(cols[to], id)
    <3>1. to \in 1..Len(cols)
      BY <1>9, <2>1
    <3>2. /\ cols[to] \in Column /\ IsInjective(cols[to].Windows)
          /\ ToSet(cols[to].Windows) \subseteq Held(cols)
      BY <1>8, <3>1, ColumnsOfView
    <3>3. id \notin ToSet(cols[to].Windows)
      BY <1>8, <3>2
    <3>4. /\ d \in Column /\ IsInjective(d.Windows) /\ d.Windows # <<>>
          /\ ToSet(d.Windows) = ToSet(cols[to].Windows) \cup {id}
      BY <1>3, <3>2, <3>3, WithSelectedSet
    <3> HIDE DEF d
    <3> DEFINE r == [cols EXCEPT ![to] = d]
    <3>5. ToSet(d.Windows) \cap (Held(cols) \ ToSet(cols[to].Windows)) = {}
      BY <1>8, <3>4
    <3>6. /\ r \in Seq(Column) /\ Len(r) = Len(cols) /\ Apart(r)
          /\ Held(r) = (Held(cols) \ ToSet(cols[to].Windows)) \cup ToSet(d.Windows)
      BY <1>8, <3>1, <3>4, <3>5, ColumnChanged
    <3>7. \A j \in 1..Len(cols) : r[j].Windows # <<>>
      BY <1>8, <1>9, <3>4
    <3> HIDE DEF r
    <3>8. w.Columns = r /\ w.Float = v.Float
      BY <1>1, <1>4, <2>1 DEF View, r, d
    <3> QED BY <3>2, <3>4, <3>6, <3>7, <3>8
  <2>2. CASE to \notin DOMAIN cols /\ delta < 0
    <3> DEFINE r == <<e>> \o cols
    <3>1. ToSet(e.Windows) \cap Held(cols) = {}
      BY <1>8, <1>10
    <3>2. /\ r \in Seq(Column) /\ Len(r) = Len(cols) + 1 /\ r[1] = e
          /\ \A j \in 1..Len(cols) : r[j + 1] = cols[j]
          /\ Apart(r) /\ Held(r) = Held(cols) \cup ToSet(e.Windows)
      BY <1>8, <1>10, <3>1, ColumnPrepended
    <3>3. w.Columns = r /\ w.Float = v.Float
      BY <1>1, <1>4, <2>2 DEF View
    <3> HIDE DEF r, e
    <3>4. ASSUME NEW j \in 1..Len(cols) + 1 PROVE r[j].Windows # <<>>
      <4>1. CASE j = 1
        BY <1>10, <3>2, <4>1 DEF e
      <4>2. CASE j # 1
        <5>1. j - 1 \in 1..Len(cols) /\ (j - 1) + 1 = j
          BY <1>9, <4>2
        <5>2. r[j] = cols[j - 1]
          BY <3>2, <5>1
        <5> QED BY <1>8, <5>1, <5>2
      <4> QED BY <4>1, <4>2
    <3> QED BY <1>10, <3>2, <3>3, <3>4 DEF e
  <2>3. CASE to \notin DOMAIN cols /\ ~(delta < 0)
    <3> DEFINE r == Append(cols, e)
    <3>1. ToSet(e.Windows) \cap Held(cols) = {}
      BY <1>8, <1>10
    <3>2. /\ r \in Seq(Column) /\ Len(r) = Len(cols) + 1 /\ r[Len(cols) + 1] = e
          /\ \A j \in 1..Len(cols) : r[j] = cols[j]
          /\ Apart(r) /\ Held(r) = Held(cols) \cup ToSet(e.Windows)
      BY <1>8, <1>10, <3>1, ColumnAppended
    <3>3. w.Columns = r /\ w.Float = v.Float
      BY <1>1, <1>4, <2>3 DEF View
    <3> HIDE DEF r, e
    <3>4. ASSUME NEW j \in 1..Len(cols) + 1 PROVE r[j].Windows # <<>>
      <4>1. j \in 1..Len(cols) \/ j = Len(cols) + 1
        BY <1>9
      <4> QED BY <1>8, <1>10, <3>2, <4>1 DEF e
    <3> QED BY <1>10, <3>2, <3>3, <3>4 DEF e
  <2> QED BY <2>1, <2>2, <2>3
<1>12. Placed(w) /\ Held(w.Columns) = Held(v.Columns)
  <2>1. Held(w.Columns) = Held(v.Columns)
    BY <1>3, <1>8, <1>11
  <2> QED BY <1>1, <1>11, <2>1 DEF Placed
<1>13. /\ Sound(clampFocus(w)) /\ Held(clampFocus(w).Columns) = Held(w.Columns)
       /\ clampFocus(w).Float = w.Float
  BY <1>4, <1>11, <1>12, ClampFocusSound
<1> QED BY <1>11, <1>12, <1>13, WindowsOfView DEF w

\* A view with the same windows in the same places and its markers elsewhere,
\* but within it.
LEMMA MarkersMoved ==
  ASSUME NEW v, Sound(v), NEW w \in View, w.Columns = v.Columns, w.Float = v.Float,
         w.FocusCol \in 1..Len(v.Columns),
         IF v.Float = <<>> THEN w.FocusFloat = 1 /\ w.FocusLayer = "tiled"
         ELSE w.FocusFloat \in DOMAIN v.Float
  PROVE  Sound(w) /\ WindowsOf(w) = WindowsOf(v)
<1>1. DOMAIN v.Columns = 1..Len(v.Columns)
  BY ViewFields DEF Sound
<1>2. Placed(w)
  BY DEF Sound, Placed
<1>3. InRange(w)
  BY <1>1 DEF Sound, InRange
<1> QED BY <1>2, <1>3, WindowsOfView DEF Sound

\* ToggleFloat takes a floating window into the focused column.
LEMMA ToTiledSound ==
  ASSUME NEW v, Sound(v), NEW id \in ToSet(v.Float)
  PROVE  Sound(toTiled(v, id)) /\ WindowsOf(toTiled(v, id)) = WindowsOf(v)
<1> DEFINE i == IndexOf(v.Float, id)
           x == [v EXCEPT !.Float = RemoveAt(v.Float, i), !.FocusLayer = "tiled"]
           w == clampFocus(x)
           c == w.Columns[w.FocusCol]
           d == withSelected(c, id)
<1>1. /\ v \in View
      /\ v.Columns \in Seq(Column) /\ v.Float \in Seq(WindowID)
      /\ Len(v.Columns) \in Nat /\ DOMAIN v.Columns = 1..Len(v.Columns)
      /\ Apart(v.Columns) /\ IsInjective(v.Float)
      /\ Held(v.Columns) \cap ToSet(v.Float) = {}
  BY ViewFields DEF Sound, Placed
<1>2. i \in 1..Len(v.Float) /\ v.Float[i] = id /\ id \in WindowID
  BY <1>1, IndexOfType, ToSetOf
<1>3. toTiled(v, id) = [w EXCEPT !.Columns = [w.Columns EXCEPT ![w.FocusCol] = d]]
  BY DEF toTiled, FloatContains
<1> HIDE DEF i
<1>4. /\ RemoveAt(v.Float, i) \in Seq(WindowID) /\ IsInjective(RemoveAt(v.Float, i))
      /\ ToSet(RemoveAt(v.Float, i)) = ToSet(v.Float) \ {id}
  BY <1>1, <1>2, RemoveAtSet
<1>5. x \in View /\ x.Columns = v.Columns /\ x.Float = RemoveAt(v.Float, i)
  BY <1>1, <1>4 DEF View, Layer
<1>6. Placed(x)
  BY <1>1, <1>4, <1>5 DEF Placed
<1>7. (\A j \in 1..Len(x.Columns) : x.Columns[j].Windows # <<>>) \/ Len(x.Columns) = 1
  BY <1>1, <1>5 DEF Sound, InRange, ColumnInRange
<1> HIDE DEF x
<1>8. /\ Sound(w) /\ Held(w.Columns) = Held(v.Columns) /\ w.Float = RemoveAt(v.Float, i)
  BY <1>5, <1>6, <1>7, ClampFocusSound
<1> HIDE DEF w
<1>9. WindowsOf(w) = WindowsOf(v) \ {id} /\ id \in WindowsOf(v)
  <2>1. id \notin Held(v.Columns)
    BY <1>1
  <2> QED BY <1>4, <1>8, <2>1, WindowsOfView
<1> DEFINE col == w.FocusCol
<1>10. col \in 1..Len(w.Columns)
  BY <1>8, ViewFields DEF Sound, InRange
<1>11. /\ c \in Column /\ IsInjective(c.Windows) /\ ToSet(c.Windows) \subseteq WindowsOf(w)
  BY <1>8, <1>10, SelectionOf
<1>12. id \notin ToSet(c.Windows)
  BY <1>9, <1>11
<1>13. c = w.Columns[col]
  OBVIOUS
<1> HIDE DEF c, col
<1>14. /\ d \in Column /\ IsInjective(d.Windows) /\ ToSet(d.Windows) = ToSet(c.Windows) \cup {id}
       /\ d.Windows # <<>> /\ d.Sel \in DOMAIN d.Windows
  BY <1>2, <1>11, <1>12, WithSelectedSet
<1> HIDE DEF d
<1>15. /\ Sound([w EXCEPT !.Columns = [w.Columns EXCEPT ![col] = d]])
       /\ WindowsOf([w EXCEPT !.Columns = [w.Columns EXCEPT ![col] = d]]) =
            (WindowsOf(w) \ ToSet(w.Columns[col].Windows)) \cup ToSet(d.Windows)
  <2>1. ColumnInRange(d, Len(w.Columns) = 1)
    BY <1>14 DEF ColumnInRange
  <2>2. ToSet(d.Windows) \cap (WindowsOf(w) \ ToSet(w.Columns[col].Windows)) = {}
    BY <1>9, <1>13, <1>14
  <2>3. Sound(w) /\ d \in Column /\ IsInjective(d.Windows)
    BY <1>8, <1>14
  <2> QED BY <1>10, <2>1, <2>2, <2>3, ColumnReplaced
<1>16. (WindowsOf(w) \ ToSet(w.Columns[col].Windows)) \cup ToSet(d.Windows) = WindowsOf(v)
  BY <1>9, <1>11, <1>13, <1>14
<1> QED BY <1>3, <1>15, <1>16 DEF col

\* ... and a tiled one onto the floating layer.
LEMMA ToFloatingSound ==
  ASSUME NEW v, Sound(v), NEW id \in WindowsOf(v)
  PROVE  Sound(toFloating(v, id)) /\ WindowsOf(toFloating(v, id)) = WindowsOf(v)
<1> DEFINE w == removeFromView(v, id)
           f == Append(w.Float, id)
           n == Len(w.Float) + 1
           x == [w EXCEPT !.Float = f, !.FocusLayer = "floating", !.FocusFloat = n]
<1>1. /\ Sound(w) /\ WindowsOf(w) = WindowsOf(v) \ {id}
  BY RemoveFromViewSound
<1>2. id \in WindowID
  <2>1. /\ v.Columns \in Seq(Column) /\ v.Float \in Seq(WindowID)
        /\ DOMAIN v.Columns = 1..Len(v.Columns)
    BY ViewFields DEF Sound
  <2>2. CASE id \in ToSet(v.Float)
    BY <2>1, <2>2, ToSetOf
  <2>3. CASE id \in Held(v.Columns)
    <3>1. PICK ci \in 1..Len(v.Columns) : id \in ToSet(v.Columns[ci].Windows)
      BY <2>1, <2>3 DEF Held
    <3>2. v.Columns[ci].Windows \in Seq(WindowID)
      BY <2>1, ColumnsOfView
    <3> QED BY <3>1, <3>2, ToSetOf
  <2> QED BY <2>2, <2>3, WindowsOfView
<1>3. toFloating(v, id) = x
  BY DEF toFloating
<1> HIDE DEF w
<1>4. /\ w \in View
      /\ w.Columns \in Seq(Column) /\ w.Float \in Seq(WindowID)
      /\ Apart(w.Columns) /\ IsInjective(w.Float)
      /\ Held(w.Columns) \cap ToSet(w.Float) = {}
      /\ Len(w.Float) \in Nat
      /\ id \notin Held(w.Columns) /\ id \notin ToSet(w.Float)
  BY <1>1, ViewFields, WindowsOfView DEF Sound, Placed
<1>5. /\ f \in Seq(WindowID) /\ Len(f) = Len(w.Float) + 1 /\ IsInjective(f)
      /\ ToSet(f) = ToSet(w.Float) \cup {id}
  BY <1>2, <1>4, AppendSet
<1> HIDE DEF f
<1>6. /\ x \in View /\ x.Columns = w.Columns /\ x.Float = f /\ x.FocusCol = w.FocusCol
      /\ x.FocusFloat = Len(w.Float) + 1
  <2>1. n \in Nat
    BY <1>4
  <2> HIDE DEF n
  <2>2. /\ x \in View /\ x.Columns = w.Columns /\ x.Float = f /\ x.FocusCol = w.FocusCol
        /\ x.FocusFloat = n
    BY <1>4, <1>5, <2>1 DEF View, Layer
  <2> QED BY <2>2 DEF n
<1> HIDE DEF x
<1>7. Placed(x)
  BY <1>4, <1>5, <1>6 DEF Placed
<1>8. InRange(x)
  <2>1. f # <<>> /\ x.FocusFloat \in DOMAIN f
    BY <1>4, <1>5, <1>6
  <2> QED BY <1>1, <1>6, <2>1 DEF Sound, InRange
<1>9. WindowsOf(x) = WindowsOf(v)
  <2>1. /\ WindowsOf(x) = Held(x.Columns) \cup ToSet(x.Float)
        /\ WindowsOf(w) = Held(w.Columns) \cup ToSet(w.Float)
    BY WindowsOfView
  <2>2. WindowsOf(x) = WindowsOf(w) \cup {id}
    BY <1>5, <1>6, <2>1
  <2> QED BY <1>1, <2>2
<1> QED BY <1>3, <1>6, <1>7, <1>8, <1>9 DEF Sound

-----------------------------------------------------------------------------
(* Spreading the tiled windows over columns.                               *)

LEMMA QuotientAtLeast ==
  ASSUME NEW x \in Nat, NEW y \in Nat, NEW k \in Nat, k > 0, k * y <= x
  PROVE  y <= x \div k
<1> DEFINE q == x \div k
<1>1. q \in Nat /\ x < k * q + k
  BY Quotient
<1> HIDE DEF q
<1> SUFFICES ASSUME y >= q + 1 PROVE FALSE
  BY <1>1 DEF q
<1>2. PICK d \in Nat : y = q + 1 + d
  BY <1>1
<1>3. k * y = k * q + k + k * d /\ k * d >= 0 /\ k * q \in Nat /\ k * d \in Nat
  BY <1>1, <1>2
<1> QED BY <1>1, <1>3

LEMMA ProductMonotone ==
  ASSUME NEW a \in Nat, NEW b \in Nat, NEW c \in Nat, a <= b
  PROVE  a * c <= b * c
<1>1. PICK d \in Nat : b = a + d
  OBVIOUS
<1>2. b * c = a * c + d * c /\ d * c \in Nat /\ a * c \in Nat
  BY <1>1
<1> QED BY <1>2

\* The first of the len windows that goes to column j of k.
Cut(len, k, j) == ((j - 1) * len + k - 1) \div k + 1

LEMMA CutStep ==
  ASSUME NEW len \in Nat, NEW k \in Nat, k > 0, k <= len, NEW j \in 1..k
  PROVE  Cut(len, k, j) < Cut(len, k, j + 1)
<1> DEFINE x == (j - 1) * len + k - 1
           y == ((j + 1) - 1) * len + k - 1
           q == x \div k
<1>1. (j - 1) * len \in Nat /\ j * len = (j - 1) * len + len
  OBVIOUS
<1>2. (j + 1) - 1 = j
  OBVIOUS
<1>3. x \in Nat /\ y \in Nat /\ y = x + len
  BY <1>1, <1>2
<1> HIDE DEF x, y
<1>4. q \in Nat /\ k * q <= x
  BY <1>3, Quotient
<1> HIDE DEF q
<1>5. k * (q + 1) = k * q + k /\ k * q \in Nat
  BY <1>4
<1>6. k * (q + 1) <= y
  BY <1>3, <1>4, <1>5
<1>7. q + 1 <= y \div k
  BY <1>3, <1>4, <1>6, QuotientAtLeast
<1>8. y \div k \in Nat
  BY <1>3, Quotient
<1> QED BY <1>4, <1>7, <1>8 DEF Cut, x, y, q

LEMMA CutMonotone ==
  ASSUME NEW len \in Nat, NEW k \in Nat, k > 0, NEW i \in 1..k + 1, NEW j \in 1..k + 1, i <= j
  PROVE  Cut(len, k, i) <= Cut(len, k, j)
<1> DEFINE x == (i - 1) * len + k - 1
           y == (j - 1) * len + k - 1
           q == x \div k
<1>1. /\ (i - 1) * len \in Nat /\ (j - 1) * len \in Nat
      /\ (i - 1) * len <= (j - 1) * len
  <2>1. i - 1 \in Nat /\ j - 1 \in Nat /\ i - 1 <= j - 1
    OBVIOUS
  <2>2. (i - 1) * len <= (j - 1) * len
    BY <2>1, ProductMonotone
  <2> QED BY <2>1, <2>2
<1>2. x \in Nat /\ y \in Nat /\ x <= y
  BY <1>1
<1> HIDE DEF x, y
<1>3. q \in Nat /\ k * q <= x
  BY <1>2, Quotient
<1> HIDE DEF q
<1>4. k * q <= y
  BY <1>2, <1>3
<1>5. q <= y \div k /\ y \div k \in Nat
  BY <1>2, <1>3, <1>4, Quotient, QuotientAtLeast
<1> QED BY <1>3, <1>5 DEF Cut, x, y, q

LEMMA CutEnds ==
  ASSUME NEW len \in Nat, NEW k \in Nat, k > 0, k <= len
  PROVE  /\ Cut(len, k, 1) = 1
         /\ Cut(len, k, k + 1) = len + 1
         /\ \A j \in 1..k + 1 : Cut(len, k, j) \in 1..len + 1
<1>1. Cut(len, k, 1) = 1
  <2>1. (1 - 1) * len + k - 1 = k - 1 /\ k - 1 \in Nat /\ k - 1 < k * 0 + k
    OBVIOUS
  <2>2. (k - 1) \div k <= 0 /\ (k - 1) \div k \in Nat
    BY <2>1, Quotient, QuotientBound
  <2> QED BY <2>1, <2>2 DEF Cut
<1>2. Cut(len, k, k + 1) = len + 1
  <2> DEFINE x == ((k + 1) - 1) * len + k - 1
  <2>1. (k + 1) - 1 = k /\ k * len \in Nat
    OBVIOUS
  <2>2. x \in Nat /\ k * len <= x /\ x < k * len + k
    BY <2>1
  <2> HIDE DEF x
  <2>3. x \div k <= len /\ len <= x \div k /\ x \div k \in Nat
    BY <2>2, Quotient, QuotientBound, QuotientAtLeast
  <2> QED BY <2>3 DEF Cut, x
<1>3. ASSUME NEW j \in 1..k + 1 PROVE Cut(len, k, j) \in 1..len + 1
  <2>1. Cut(len, k, 1) <= Cut(len, k, j) /\ Cut(len, k, j) <= Cut(len, k, k + 1)
    <3>1. 1 \in 1..k + 1 /\ k + 1 \in 1..k + 1 /\ 1 <= j /\ j <= k + 1
      OBVIOUS
    <3> QED BY <3>1, CutMonotone
  <2>2. Cut(len, k, j) \in Nat
    <3>1. j - 1 \in Nat
      OBVIOUS
    <3>2. (j - 1) * len + k - 1 \in Nat
      BY <3>1
    <3>3. ((j - 1) * len + k - 1) \div k \in Nat
      BY <3>2, Quotient
    <3> QED BY <3>3 DEF Cut
  <2> QED BY <1>1, <1>2, <2>1, <2>2
<1> QED BY <1>1, <1>2, <1>3

\* Every window goes to a column.
LEMMA CutCovers ==
  ASSUME NEW len \in Nat, NEW k \in Nat, k > 0, k <= len, NEW i \in 1..len
  PROVE  \E j \in 1..k : Cut(len, k, j) <= i /\ i < Cut(len, k, j + 1)
<1> DEFINE S == {j \in 1..k + 1 : i < Cut(len, k, j)}
<1>1. k + 1 \in S /\ 1 \notin S /\ S \subseteq Nat
  <2>1. Cut(len, k, 1) = 1 /\ Cut(len, k, k + 1) = len + 1
    BY CutEnds
  <2>2. k + 1 \in S
    BY <2>1
  <2>3. 1 \notin S
    BY <2>1
  <2> QED BY <2>2, <2>3
<1>2. PICK m \in S : \A n \in S : m <= n
  BY <1>1, LeastExists
<1>3. m - 1 \in 1..k /\ (m - 1) + 1 = m
  BY <1>1, <1>2
<1>4. m - 1 \notin S /\ m - 1 \in 1..k + 1
  BY <1>2, <1>3
<1>5. Cut(len, k, m - 1) <= i
  BY <1>3, <1>4, CutEnds
<1>6. i < Cut(len, k, (m - 1) + 1)
  BY <1>2, <1>3
<1> QED BY <1>3, <1>5, <1>6

\* The windows of a view read in order are all its tiled windows, each once.
LEMMA ReadingOrderSet ==
  ASSUME NEW v, Sound(v), NEW q \in ReadingOrders(v)
  PROVE  q \in Seq(WindowID) /\ IsInjective(q) /\ ToSet(q) = Held(v.Columns)
<1> DEFINE n == Cardinality(Tiled(v))
<1>1. v \in View /\ q \in Seq(WindowID)
  BY ReadingOrdersType DEF Sound
<1>2. IsFiniteSet(Tiled(v)) /\ n \in Nat
  BY <1>1, TiledType, FS_CardinalityType
<1>3. /\ q \in [1..n -> Tiled(v)] /\ DOMAIN q = 1..n
      /\ \A i, j \in 1..n : i < j =>
           \/ ColumnOf(v, q[i]) < ColumnOf(v, q[j])
           \/ /\ ColumnOf(v, q[i]) = ColumnOf(v, q[j])
              /\ IndexOf(v.Columns[ColumnOf(v, q[i])].Windows, q[i])
                   < IndexOf(v.Columns[ColumnOf(v, q[i])].Windows, q[j])
  BY DEF ReadingOrders
<1>4. ASSUME NEW id \in Tiled(v)
      PROVE  /\ ColumnOf(v, id) \in Nat
             /\ IndexOf(v.Columns[ColumnOf(v, id)].Windows, id) \in Nat
  <2>1. InColumn(v, id)
    BY WindowsOfView
  <2>2. /\ ColumnOf(v, id) \in Nat /\ v.Columns[ColumnOf(v, id)] \in Column
        /\ id \in ToSet(v.Columns[ColumnOf(v, id)].Windows)
    BY <1>1, <2>1, ColumnOfType
  <2>3. v.Columns[ColumnOf(v, id)].Windows \in Seq(WindowID)
    BY <2>2, ColumnFields
  <2> QED BY <2>2, <2>3, IndexOfType
<1>5. ASSUME NEW i \in 1..n, NEW j \in 1..n, i < j PROVE q[i] # q[j]
  <2>1. q[i] \in Tiled(v)
    BY <1>3
  <2> DEFINE c == ColumnOf(v, q[i])
             r == IndexOf(v.Columns[ColumnOf(v, q[i])].Windows, q[i])
  <2>2. c \in Nat /\ r \in Nat
    BY <1>4, <2>1
  <2>3. ~(c < c) /\ ~(r < r)
    <3> HIDE DEF c, r
    <3> QED BY <2>2
  <2>4. q[i] = q[j] => c < c \/ r < r
    BY <1>3, <1>5
  <2> QED BY <2>3, <2>4
<1>6. IsInjective(q)
  <2>1. ASSUME NEW i \in 1..n, NEW j \in 1..n, q[i] = q[j] PROVE i = j
    <3>1. ~(i < j) /\ ~(j < i)
      BY <1>5, <2>1
    <3> QED BY <1>2, <3>1
  <2> QED BY <1>3, <2>1 DEF IsInjective
<1>7. q \in Surjection(1..n, Tiled(v))
  <2>1. q \in Injection(1..n, Tiled(v))
    BY <1>3, <1>6 DEF Injection, IsInjective
  <2>2. IsFiniteSet(1..n) /\ Cardinality(1..n) = n
    BY <1>2, FS_Interval
  <2> QED BY <1>2, <2>1, <2>2, FS_Injection
<1>8. ToSet(q) = Tiled(v)
  BY <1>3, <1>7 DEF Surjection, ToSet
<1> QED BY <1>1, <1>6, <1>8, WindowsOfView

\* A stretch of a sequence of different windows.
LEMMA StretchOf ==
  ASSUME NEW q \in Seq(WindowID), IsInjective(q), NEW a \in 1..Len(q) + 1, NEW b \in 1..Len(q) + 1,
         a < b
  PROVE  /\ SubSeq(q, a, b - 1) \in Seq(WindowID)
         /\ Len(SubSeq(q, a, b - 1)) = b - a
         /\ IsInjective(SubSeq(q, a, b - 1))
         /\ ToSet(SubSeq(q, a, b - 1)) = {q[i] : i \in a..(b - 1)}
<1> DEFINE r == SubSeq(q, a, b - 1)
<1>1. /\ Len(q) \in Nat /\ a \in Nat /\ b \in Nat /\ a \in Int /\ b - 1 \in Int /\ a <= b - 1
      /\ a >= 1 /\ b - 1 <= Len(q)
  OBVIOUS
<1>2. \A i \in a..(b - 1) : i \in 1..Len(q) /\ q[i] \in WindowID
  BY <1>1
<1>3. /\ r \in Seq(WindowID) /\ Len(r) = (b - 1) - a + 1
      /\ \A i \in 1..(b - 1) - a + 1 : r[i] = q[a + i - 1]
  BY <1>1, <1>2, SubSeqProperties
<1> HIDE DEF r
<1>4. Len(r) = b - a /\ (b - 1) - a + 1 = b - a /\ DOMAIN r = 1..b - a
  BY <1>1, <1>3
<1>5. \A i \in 1..b - a : r[i] = q[a + i - 1] /\ a + i - 1 \in a..(b - 1)
  BY <1>1, <1>3, <1>4
<1>6. IsInjective(r)
  <2>1. ASSUME NEW i \in 1..b - a, NEW j \in 1..b - a, r[i] = r[j] PROVE i = j
    <3>1. q[a + i - 1] = q[a + j - 1] /\ a + i - 1 \in DOMAIN q /\ a + j - 1 \in DOMAIN q
      BY <1>1, <1>2, <1>5, <2>1
    <3>2. a + i - 1 = a + j - 1
      BY <3>1 DEF IsInjective
    <3> QED BY <1>1, <3>2
  <2> QED BY <1>4, <2>1 DEF IsInjective
<1>7. ToSet(r) = {q[i] : i \in a..(b - 1)}
  <2>1. ToSet(r) = {r[i] : i \in 1..b - a}
    BY <1>4 DEF ToSet
  <2>2. ASSUME NEW i \in a..(b - 1) PROVE \E j \in 1..b - a : a + j - 1 = i
    <3>1. i - a + 1 \in 1..b - a /\ a + (i - a + 1) - 1 = i
      BY <1>1
    <3> QED BY <3>1
  <2>3. ASSUME NEW x \in ToSet(r) PROVE \E i \in a..(b - 1) : x = q[i]
    <3>1. PICK j \in 1..b - a : x = r[j]
      BY <2>1
    <3> QED BY <1>5, <3>1
  <2>4. ASSUME NEW i \in a..(b - 1) PROVE q[i] \in ToSet(r)
    <3>1. PICK j \in 1..b - a : a + j - 1 = i
      BY <2>2
    <3> QED BY <1>5, <2>1, <3>1
  <2> QED BY <2>3, <2>4
<1> QED BY <1>3, <1>4, <1>6, <1>7 DEF r

\* The windows of a sequence dealt out to k columns, in stretches.
Dealt(q, k) ==
  [j \in 1..k |-> NewColumn(SubSeq(q, Cut(Len(q), k, j), Cut(Len(q), k, j + 1) - 1))]

LEMMA DealtColumns ==
  ASSUME NEW q \in Seq(WindowID), IsInjective(q), NEW k \in 1..Len(q)
  PROVE  /\ Dealt(q, k) \in Seq(Column) /\ Len(Dealt(q, k)) = k
         /\ Apart(Dealt(q, k)) /\ Held(Dealt(q, k)) = ToSet(q)
         /\ \A j \in 1..k : Dealt(q, k)[j].Windows # <<>> /\ Dealt(q, k)[j].Sel = 1
<1> DEFINE len == Len(q)
           cut(j) == Cut(len, k, j)
           cols == Dealt(q, k)
<1>1. len \in Nat /\ k \in Nat /\ k > 0 /\ k <= len /\ len + 1 \in Nat
  OBVIOUS
<1> HIDE DEF len
<1>2. \A j \in 1..k + 1 : cut(j) \in 1..len + 1
  BY <1>1, CutEnds
<1>3. ASSUME NEW j \in 1..k
      PROVE  /\ cut(j) \in 1..len + 1 /\ cut(j + 1) \in 1..len + 1 /\ cut(j) < cut(j + 1)
             /\ cut(j) \in Nat /\ cut(j + 1) \in Nat
  <2>1. j \in 1..k + 1 /\ j + 1 \in 1..k + 1
    BY <1>1
  <2>2. cut(j) < cut(j + 1)
    BY <1>1, CutStep
  <2>3. cut(j) \in 1..len + 1 /\ cut(j + 1) \in 1..len + 1
    BY <1>2, <2>1
  <2> HIDE DEF cut
  <2> QED BY <1>1, <2>2, <2>3
<1>4. ASSUME NEW i \in 1..k, NEW j \in 1..k, i < j PROVE cut(i + 1) <= cut(j)
  <2>1. i + 1 \in 1..k + 1 /\ j \in 1..k + 1 /\ i + 1 <= j
    BY <1>1, <1>4
  <2> QED BY <1>1, <2>1, CutMonotone
<1>5. \A i \in 1..len : \E j \in 1..k : cut(j) <= i /\ i < cut(j + 1)
  BY <1>1, CutCovers
<1> HIDE DEF cut
<1>6. ASSUME NEW j \in 1..k
      PROVE  /\ cols[j] \in Column
             /\ cols[j].Sel = 1 /\ cols[j].Windows # <<>> /\ IsInjective(cols[j].Windows)
             /\ ToSet(cols[j].Windows) = {q[i] : i \in cut(j)..(cut(j + 1) - 1)}
  <2> DEFINE r == SubSeq(q, cut(j), cut(j + 1) - 1)
  <2>1. cols[j] = NewColumn(r)
    BY DEF Dealt, len, cut
  <2>2. /\ r \in Seq(WindowID) /\ Len(r) = cut(j + 1) - cut(j) /\ IsInjective(r)
        /\ ToSet(r) = {q[i] : i \in cut(j)..(cut(j + 1) - 1)}
    BY <1>3, StretchOf DEF len
  <2> HIDE DEF r
  <2>3. r # <<>>
    <3>1. cut(j + 1) - cut(j) > 0
      BY <1>3
    <3> QED BY <2>2, <3>1
  <2>4. NewColumn(r) \in Column /\ NewColumn(r).Windows = r /\ NewColumn(r).Sel = 1
    BY <2>2, NewColumnType DEF NewColumn
  <2> QED BY <2>1, <2>2, <2>3, <2>4
<1>7. cols = [j \in 1..k |-> cols[j]] /\ DOMAIN cols = 1..k
  BY DEF Dealt
<1> HIDE DEF cols
<1>8. cols \in Seq(Column) /\ Len(cols) = k
  <2>1. cols \in Seq(Column)
    BY <1>1, <1>6, <1>7, MappedSeqType
  <2> QED BY <1>1, <1>7, <2>1
<1>9. Apart(cols)
  <2>1. ASSUME NEW i \in 1..k, NEW j \in 1..k, i < j
        PROVE  ToSet(cols[i].Windows) \cap ToSet(cols[j].Windows) = {}
    <3>1. cut(i + 1) <= cut(j)
      BY <1>4, <2>1
    <3>2. ASSUME NEW a \in cut(i)..(cut(i + 1) - 1), NEW b \in cut(j)..(cut(j + 1) - 1)
          PROVE  q[a] # q[b]
      <4>1. /\ cut(i) \in 1..len + 1 /\ cut(i + 1) \in 1..len + 1
            /\ cut(j) \in 1..len + 1 /\ cut(j + 1) \in 1..len + 1
        BY <1>3
      <4>2. a \in 1..len /\ b \in 1..len /\ a < b
        BY <1>1, <3>1, <3>2, <4>1
      <4> QED BY <4>2 DEF IsInjective, len
    <3> SUFFICES ASSUME NEW x \in ToSet(cols[i].Windows), x \in ToSet(cols[j].Windows) PROVE FALSE
      OBVIOUS
    <3>3. PICK a \in cut(i)..(cut(i + 1) - 1) : x = q[a]
      BY <1>6
    <3>4. PICK b \in cut(j)..(cut(j + 1) - 1) : x = q[b]
      BY <1>6
    <3> QED BY <3>2, <3>3, <3>4
  <2>2. ASSUME NEW i \in 1..k, NEW j \in 1..k, i # j
        PROVE  ToSet(cols[i].Windows) \cap ToSet(cols[j].Windows) = {}
    <3>1. i < j \/ j < i
      BY <2>2
    <3> QED BY <2>1, <3>1
  <2> QED BY <1>6, <1>7, <2>2 DEF Apart
<1>10. Held(cols) = ToSet(q)
  <2>1. ASSUME NEW j \in 1..k PROVE ToSet(cols[j].Windows) \subseteq ToSet(q)
    <3>0. cut(j) \in 1..len + 1 /\ cut(j + 1) \in 1..len + 1
      BY <1>3
    <3>1. \A i \in cut(j)..(cut(j + 1) - 1) : i \in 1..len
      <4> DEFINE a == cut(j)
                 b == cut(j + 1)
      <4>1. a \in 1..len + 1 /\ b \in 1..len + 1 /\ len \in Nat
        BY <1>1, <3>0
      <4> HIDE DEF a, b
      <4>2. \A i \in a..(b - 1) : i \in 1..len
        BY <4>1
      <4> QED BY <4>2 DEF a, b
    <3> SUFFICES ASSUME NEW x \in ToSet(cols[j].Windows) PROVE x \in ToSet(q)
      OBVIOUS
    <3>2. PICK i \in cut(j)..(cut(j + 1) - 1) : x = q[i]
      BY <1>6
    <3>3. i \in DOMAIN q
      BY <3>1 DEF len
    <3> QED BY <3>2, <3>3 DEF ToSet
  <2>2. ASSUME NEW i \in 1..len PROVE q[i] \in Held(cols)
    <3>1. PICK j \in 1..k : cut(j) <= i /\ i < cut(j + 1)
      BY <1>5
    <3>2. i \in cut(j)..(cut(j + 1) - 1)
      BY <1>1, <1>3, <3>1
    <3>3. q[i] \in ToSet(cols[j].Windows)
      BY <1>6, <3>2
    <3> QED BY <1>7, <3>3 DEF Held
  <2>3. \A x \in ToSet(q) : \E i \in 1..len : x = q[i]
    BY DEF ToSet, len
  <2>4. Held(cols) \subseteq ToSet(q)
    BY <1>7, <2>1 DEF Held
  <2> QED BY <2>2, <2>3, <2>4
<1> QED BY <1>6, <1>8, <1>9, <1>10 DEF cols

\* What SpreadColumns makes of a view.
SpreadView(v, q, k) == [v EXCEPT !.Columns = Dealt(q, k), !.FocusCol = 1]

LEMMA SpreadSound ==
  ASSUME NEW v, Sound(v), NEW q \in ReadingOrders(v), NEW k \in 1..Len(q),
         NEW w, w = SpreadView(v, q, k)
  PROVE  /\ Sound(w) /\ WindowsOf(w) = WindowsOf(v)
         /\ w.FocusLayer = v.FocusLayer /\ w.Float = v.Float /\ w.FocusFloat = v.FocusFloat
<1>1. q \in Seq(WindowID) /\ IsInjective(q) /\ ToSet(q) = Held(v.Columns)
  BY ReadingOrderSet
<1> DEFINE cols == Dealt(q, k)
<1>2. /\ cols \in Seq(Column) /\ Len(cols) = k
      /\ Apart(cols) /\ Held(cols) = ToSet(q)
      /\ \A j \in 1..k : cols[j].Windows # <<>> /\ cols[j].Sel = 1
  BY <1>1, DealtColumns
<1>3. w = [v EXCEPT !.Columns = cols, !.FocusCol = 1]
  BY DEF SpreadView
<1> HIDE DEF cols
<1>4. /\ w \in View /\ w.Columns = cols /\ w.Float = v.Float /\ w.FocusCol = 1
      /\ w.FocusFloat = v.FocusFloat /\ w.FocusLayer = v.FocusLayer
  <2>1. v \in View /\ 1 \in Nat
    BY DEF Sound
  <2>2. w \in View
    <3>1. cols \in Seq(Column)
      BY <1>2
    <3>2. [v EXCEPT !.Columns = cols, !.FocusCol = 1] \in View
      BY <2>1, <3>1, ViewWithColumns
    <3> QED BY <1>3, <3>2
  <2> QED BY <1>3, <2>1, <2>2 DEF View
<1>5. Placed(w)
  BY <1>1, <1>2, <1>4 DEF Sound, Placed
<1>6. InRange(w)
  <2>1. ASSUME NEW j \in 1..k PROVE ColumnInRange(cols[j], Len(cols) = 1)
    <3>1. cols[j].Windows \in Seq(WindowID)
      BY <1>2, ColumnsOfView
    <3>2. 1 \in DOMAIN cols[j].Windows
      BY <1>2, <3>1
    <3> QED BY <1>2, <3>2 DEF ColumnInRange
  <2>2. DOMAIN cols = 1..k /\ 1 \in 1..k
    BY <1>2
  <2> QED BY <1>4, <2>1, <2>2 DEF Sound, InRange
<1>7. WindowsOf(w) = WindowsOf(v)
  BY <1>1, <1>2, <1>4, WindowsOfView
<1> QED BY <1>4, <1>5, <1>6, <1>7 DEF Sound
=============================================================================
