------------------------------ MODULE WmState ------------------------------
(***************************************************************************)
(* The operations of the window-management State (internal/wm/wm.go and    *)
(* the helpers of types.go), as pure operators from a state to the state   *)
(* the method leaves behind.  The State is a record:                       *)
(*                                                                         *)
(*   viewIndex    the position of each view in s.Views, 0 for a name that  *)
(*                has no view (so "n is a view" is viewIndex[n] > 0)       *)
(*   Views        the view of every name; NewView for a name without one   *)
(*   Outputs      the outputs, in order, with the name of the view shown   *)
(*   Tags         the tag set of each window, {} for ids not managed       *)
(*   Focused      the globally focused window                              *)
(*   FocusOutput  the index of the active output                           *)
(*                                                                         *)
(* Tags are positive integers, ordered as the numbers are; the tag n is    *)
(* what the code writes strconv.Itoa(n).  Geometry, app ids, titles and    *)
(* width factors are left out: nothing here depends on them.               *)
(***************************************************************************)
EXTENDS WmView

CONSTANTS
  ViewName,   \* the tags in use; every view is named by one
  OutputName  \* the names outputs may have

ASSUME StateAssumption ==
  /\ ViewName \subseteq Nat \ {0}
  /\ IsFiniteSet(ViewName)

Output == [Name : OutputName, View : ViewName]

State == [viewIndex   : [ViewName -> Nat],
          Views       : [ViewName -> View],
          Outputs     : Seq(Output),
          Tags        : [WindowID -> SUBSET ViewName],
          Focused     : WindowID \cup {NoWindow},
          FocusOutput : Nat]

NewState == [viewIndex   |-> [n \in ViewName |-> 0],
             Views       |-> [n \in ViewName |-> NewView],
             Outputs     |-> <<>>,
             Tags        |-> [id \in WindowID |-> {}],
             Focused     |-> NoWindow,
             FocusOutput |-> 1]

-----------------------------------------------------------------------------
(* Reading the state.                                                      *)

exists(s, n) == s.viewIndex[n] > 0

ViewSet(s) == {n \in ViewName : exists(s, n)}

Managed(s, id) == id \in WindowID /\ s.Tags[id] # {}

activeOutput(s) == IF s.FocusOutput \in DOMAIN s.Outputs THEN s.FocusOutput ELSE 1

activeName(s) == s.Outputs[activeOutput(s)].View

\* activeView() # nil
hasActiveView(s) == s.Outputs # <<>> /\ exists(s, activeName(s))

activeView(s) == s.Views[activeName(s)]

\* outputShowing(n) >= 0, and the set it picks the first of
Showing(s, n) == {i \in DOMAIN s.Outputs : s.Outputs[i].View = n}

outputShowing(s, n) == CHOOSE i \in Showing(s, n) : \A j \in Showing(s, n) : i <= j

Least(S) == CHOOSE n \in S : \A m \in S : n <= m

FreeNames(s) == ViewName \ ViewSet(s)

freeViewName(s) == Least(FreeNames(s))

\* The window the model gives a name to (0 has no entry in s.Windows).
FocusedTags(s) == IF s.Focused = NoWindow THEN {} ELSE s.Tags[s.Focused]

-----------------------------------------------------------------------------
(* Helpers that change the state.                                          *)

ensureView(s, n) ==
  IF exists(s, n) THEN s
  ELSE [s EXCEPT !.viewIndex[n] = Cardinality(ViewSet(s)) + 1, !.Views[n] = NewView]

\* Mutant of ensureViews: the views of a new window's tags are not created.
ensureNoViews(s, order) == s

\* The views missing from T, created in the order of the sequence: Go iterates
\* over a tag set in an order of its own.
ensureViews(s, order) ==
  [s EXCEPT
     !.viewIndex = [n \in ViewName |->
        IF n \in ToSet(order) THEN Cardinality(ViewSet(s)) + IndexOf(order, n) ELSE @[n]],
     !.Views = [n \in ViewName |-> IF n \in ToSet(order) THEN NewView ELSE @[n]]]

\* The orders in which the views of T that do not exist yet may be created.
CreationOrders(s, T) ==
  LET new == T \ ViewSet(s)
  IN {q \in [1..Cardinality(new) -> new] : ToSet(q) = new}

refocus(s) ==
  IF hasActiveView(s)
  THEN LET v == clampFocus(activeView(s))
       IN [s EXCEPT !.Views[activeName(s)] = v,
                    !.Focused = focusedWindow(v),
                    !.FocusOutput = activeOutput(s)]
  ELSE [s EXCEPT !.Focused = NoWindow]

\* Mutant of gcViews: a view is spared that an output shows no more, if it is
\* the last of the slice.
gcViewsButLast(s) ==
  LET last == {n \in ViewSet(s) : s.viewIndex[n] = Cardinality(ViewSet(s))}
      kept == last \cup {n \in ViewSet(s) : ~empty(s.Views[n]) \/ Showing(s, n) # {}}
  IN [s EXCEPT
        !.viewIndex = [n \in ViewName |->
           IF n \in kept THEN Cardinality({m \in kept : @[m] <= @[n]}) ELSE 0],
        !.Views = [n \in ViewName |-> IF n \in kept THEN @[n] ELSE NewView]]

\* gcViews drops the empty views no output shows and closes the gaps.
gcViews(s) ==
  LET kept == {n \in ViewSet(s) : ~empty(s.Views[n]) \/ Showing(s, n) # {}}
  IN [s EXCEPT
        !.viewIndex = [n \in ViewName |->
           IF n \in kept THEN Cardinality({m \in kept : @[m] <= @[n]}) ELSE 0],
        !.Views = [n \in ViewName |-> IF n \in kept THEN @[n] ELSE NewView]]

\* The active view replaced by f of it, and the focus recomputed.
OnActiveView(s, v) == [s EXCEPT !.Views[activeName(s)] = v]

-----------------------------------------------------------------------------
(* Outputs.                                                                *)

AddOutput(s, o) ==
  LET hidden == {n \in ViewSet(s) : Showing(s, n) = {}}
      first  == CHOOSE n \in hidden : \A m \in hidden : s.viewIndex[n] <= s.viewIndex[m]
      n      == IF hidden # {} THEN first ELSE freeViewName(s)
      t      == ensureView(s, n)
  IN IF \E i \in DOMAIN s.Outputs : s.Outputs[i].Name = o THEN s
     ELSE refocus([t EXCEPT !.Outputs = Append(@, [Name |-> o, View |-> n])])

RemoveOutput(s, o) ==
  LET at   == {i \in DOMAIN s.Outputs : s.Outputs[i].Name = o}
      outs == IF at = {} THEN s.Outputs ELSE RemoveAt(s.Outputs, Least(at))
  IN refocus(gcViews([s EXCEPT !.Outputs = outs, !.FocusOutput = Clamped(@, Len(outs))]))

RenameOutput(s, old, new) ==
  LET at == {i \in DOMAIN s.Outputs : s.Outputs[i].Name = old}
  IN IF at = {} THEN s ELSE [s EXCEPT !.Outputs[Least(at)].Name = new]

\* Mutant of CycleOutput: the focus stays where it was.
CycleOutputOnly(s, delta) ==
  IF s.Outputs = <<>> THEN s
  ELSE [s EXCEPT !.FocusOutput = ((@ - 1 + delta) % Len(s.Outputs)) + 1]

CycleOutput(s, delta) ==
  IF s.Outputs = <<>> THEN s
  ELSE refocus([s EXCEPT !.FocusOutput = ((@ - 1 + delta) % Len(s.Outputs)) + 1])

-----------------------------------------------------------------------------
(* Windows.                                                                *)

\* The tags AddWindow gives a window that comes with none.
defaultTags(s) ==
  IF FocusedTags(s) # {} THEN FocusedTags(s)
  ELSE IF hasActiveView(s) THEN {activeName(s)}
  ELSE {freeViewName(s)}

\* Mutant of AddWindow: a new window has the focus wherever it opens.
AddWindowFocused(s, id, floating, tags, order) ==
  LET t == ensureViews(s, order)
  IN [t EXCEPT
        !.Tags[id] = tags,
        !.Views = [n \in ViewName |->
           IF n \in tags THEN focusWindow(addToView(@[n], id, floating), id) ELSE @[n]],
        !.Focused = id]

AddWindow(s, id, floating, tags, order) ==
  LET t == ensureViews(s, order)
      u == [t EXCEPT
              !.Tags[id] = tags,
              !.Views = [n \in ViewName |->
                 IF n \in tags THEN addToView(@[n], id, floating) ELSE @[n]]]
  IN IF hasActiveView(u) /\ contains(activeView(u), id)
     THEN [OnActiveView(u, focusWindow(activeView(u), id)) EXCEPT
             !.Focused = id, !.FocusOutput = activeOutput(u)]
     ELSE u

RemoveWindow(s, id) ==
  IF ~Managed(s, id) THEN s
  ELSE refocus(gcViews([s EXCEPT
         !.Tags[id] = {},
         !.Views = [n \in ViewName |-> removeFromView(@[n], id)]]))

\* ids with nu in the place of old
Replaced(ids, old, nu) == [i \in DOMAIN ids |-> IF ids[i] = old THEN nu ELSE ids[i]]

ReplaceInView(v, old, nu) ==
  [v EXCEPT
     !.Columns = [ci \in DOMAIN v.Columns |->
                    [v.Columns[ci] EXCEPT !.Windows = Replaced(@, old, nu)]],
     !.Float = Replaced(@, old, nu),
     !.Fullscreen = IF @ = old THEN nu ELSE @]

ReplaceWindow(s, old, nu) ==
  IF ~Managed(s, old) \/ old = nu \/ Managed(s, nu) THEN s
  ELSE [s EXCEPT
          !.Views = [n \in ViewName |-> ReplaceInView(@[n], old, nu)],
          !.Tags[nu] = s.Tags[old],
          !.Tags[old] = {},
          !.Focused = IF @ = old THEN nu ELSE @]

-----------------------------------------------------------------------------
(* Views and tags.                                                         *)

\* Mutant of SelectView: the output that showed the view is not given another.
SelectViewShared(s, n) ==
  LET a == activeOutput(s)
      t == ensureView(s, n)
  IN IF s.Outputs = <<>> THEN s
     ELSE refocus(gcViews([t EXCEPT !.Outputs[a].View = n, !.FocusOutput = a]))

SelectView(s, n) ==
  LET a == activeOutput(s)
      t == ensureView(s, n)
      outs == IF Showing(s, n) # {}
              THEN [s.Outputs EXCEPT ![outputShowing(s, n)].View = s.Outputs[a].View,
                                     ![a].View = n]
              ELSE [s.Outputs EXCEPT ![a].View = n]
  IN IF s.Outputs = <<>> THEN s
     ELSE IF activeName(s) = n THEN refocus(s)
     ELSE refocus(gcViews([t EXCEPT !.Outputs = outs, !.FocusOutput = a]))

\* Mutant of CycleStops: only the next view is tried.
CycleNextOnly(s, delta) ==
  LET next == ((s.viewIndex[activeName(s)] - 1 + delta) % Cardinality(ViewSet(s))) + 1
  IN {<<1, m>> : m \in {k \in ViewSet(s) : s.viewIndex[k] = next /\ Showing(s, k) = {}}}

\* The views CycleView may stop at, by the number of steps it takes to get there.
CycleStops(s, delta) ==
  LET n       == Cardinality(ViewSet(s))
      cur     == s.viewIndex[activeName(s)] - 1
      free(m) == Showing(s, m) = {} \/ outputShowing(s, m) = activeOutput(s)
  IN {p \in (1..n) \X ViewSet(s) :
        s.viewIndex[p[2]] = ((cur + delta * p[1]) % n) + 1 /\ free(p[2])}

CycleView(s, delta) ==
  IF s.Outputs = <<>> \/ ViewSet(s) = {} \/ CycleStops(s, delta) = {} THEN s
  ELSE LET stop == CHOOSE p \in CycleStops(s, delta) :
                     \A q \in CycleStops(s, delta) : p[1] <= q[1]
       IN SelectView(s, stop[2])

SelectViewN(s, n) == SelectView(ensureView(s, n), n)

\* Mutant of syncWindowViews: the window stays on the views it has left.
syncWindowViewsAdding(s, id, floating) ==
  [s EXCEPT !.Views = [n \in ViewName |->
     IF n \in s.Tags[id] THEN addToView(@[n], id, floating) ELSE @[n]]]

\* syncWindowViews, with every view of the tag set already created
syncWindowViews(s, id, floating) ==
  [s EXCEPT !.Views = [n \in ViewName |->
     IF ~exists(s, n) THEN @[n]
     ELSE IF n \in s.Tags[id] THEN addToView(@[n], id, floating)
     ELSE removeFromView(@[n], id)]]

vFocusFloating(s, id) == hasActiveView(s) /\ FloatContains(activeView(s), id)

\* The focused window's tag set becomes tags: what MoveToView and TagSpec share.
Retag(s, tags, order) ==
  LET id == s.Focused
      t  == [ensureViews(s, order) EXCEPT !.Tags[id] = tags]
  IN refocus(gcViews(syncWindowViews(t, id, vFocusFloating(s, id))))

\* <<n>> when view n has to be created
CreateOne(s, n) == IF exists(s, n) THEN <<>> ELSE <<n>>

MoveToView(s, n) ==
  IF FocusedTags(s) = {} THEN s ELSE Retag(s, {n}, CreateOne(s, n))

MoveToViewN(s, n) == MoveToView(ensureView(s, n), n)

\* The tag set after one specification: "+x", "-x" or a bare "x".
applySpec(tags, spec) ==
  CASE spec.op = "add"    -> tags \cup {spec.tag}
    [] spec.op = "remove" -> tags \ {spec.tag}
    [] spec.op = "only"   -> {spec.tag}

\* The set a list of specifications leaves, never empty while a view is active.
specTags(s, specs) ==
  LET tags == ViewName \cap FoldLeft(applySpec, FocusedTags(s), specs)
  IN IF tags = {} /\ hasActiveView(s) THEN {activeName(s)} ELSE tags

TagSpec(s, specs, order) ==
  IF FocusedTags(s) = {} \/ specs = <<>> \/ specTags(s, specs) = {} THEN s
  ELSE Retag(s, specTags(s, specs), order)

-----------------------------------------------------------------------------
(* Focus.                                                                  *)

FocusDir(s, d) ==
  IF ~hasActiveView(s) THEN s
  ELSE LET v == activeView(s)
           fc == v.FocusCol
           moved ==
             IF v.FocusLayer = "floating"
             THEN CASE d = "up" /\ v.FocusFloat > 1 ->
                         [v EXCEPT !.FocusFloat = @ - 1]
                    [] d = "down" /\ v.FocusFloat < Len(v.Float) ->
                         [v EXCEPT !.FocusFloat = @ + 1]
                    [] OTHER -> v
             ELSE CASE d = "left" /\ fc > 1 -> [v EXCEPT !.FocusCol = @ - 1]
                    [] d = "right" /\ fc < Len(v.Columns) -> [v EXCEPT !.FocusCol = @ + 1]
                    [] d = "up" /\ v.Columns[fc].Sel > 1 ->
                         [v EXCEPT !.Columns[fc].Sel = @ - 1]
                    [] d = "down" /\ v.Columns[fc].Sel < Len(v.Columns[fc].Windows) ->
                         [v EXCEPT !.Columns[fc].Sel = @ + 1]
                    [] OTHER -> v
       IN refocus(OnActiveView(s, moved))

FocusToggleLayer(s) ==
  IF ~hasActiveView(s) THEN s
  ELSE LET v == activeView(s)
           layer == IF v.FocusLayer = "tiled" /\ v.Float # <<>> THEN "floating" ELSE "tiled"
       IN refocus(OnActiveView(s, [v EXCEPT !.FocusLayer = layer]))

\* The tags of a window whose view is on some output.
ShownTags(s, id) == {n \in s.Tags[id] : Showing(s, n) # {}}

\* FocusWindow for a window visible somewhere; Go's map order picks the tag n.
FocusShownWindow(s, id, n) ==
  LET t == [s EXCEPT !.FocusOutput = outputShowing(s, n)]
  IN refocus(IF exists(s, n) THEN [t EXCEPT !.Views[n] = focusWindow(@, id)] ELSE t)

\* FocusWindow for a window on no output: its first tag's view is selected.
FocusHiddenWindow(s, id) ==
  LET t == SelectView(s, Least(s.Tags[id]))
  IN refocus(IF hasActiveView(t) /\ contains(activeView(t), id)
             THEN OnActiveView(t, focusWindow(activeView(t), id))
             ELSE t)

-----------------------------------------------------------------------------
(* Moving windows within the active view.                                  *)

\* The focused window is the selected one of the focused column.
FocusedInColumn(s, v) ==
  /\ s.Focused # NoWindow
  /\ v.FocusLayer = "tiled"
  /\ v.FocusCol \in DOMAIN v.Columns
  /\ selected(v.Columns[v.FocusCol]) = s.Focused

\* The column with a window appended and selected.
withSelected(c, id) == [c EXCEPT !.Windows = Append(@, id), !.Sel = Len(c.Windows) + 1]

Swapped(ids, i, j) == [ids EXCEPT ![i] = ids[j], ![j] = ids[i]]

moveWithinColumn(v, delta) ==
  LET c   == v.Columns[v.FocusCol]
      row == c.Sel + delta
  IN IF row \notin DOMAIN c.Windows THEN v
     ELSE [v EXCEPT !.Columns[v.FocusCol] =
             [c EXCEPT !.Windows = Swapped(@, c.Sel, row), !.Sel = row]]

\* Mutant of moveAcrossColumns: the target is not corrected for the column that
\* has just gone.
moveAcrossColumnsFar(v, delta) ==
  LET col  == v.FocusCol
      c    == v.Columns[col]
      id   == c.Windows[c.Sel]
      rest == [c EXCEPT !.Windows = RemoveAt(@, c.Sel)]
      cols == WithColumn(v.Columns, col, rest)
      to   == col + delta
  IN IF to \in DOMAIN cols
     THEN [v EXCEPT !.Columns = [cols EXCEPT ![to] = withSelected(@, id)], !.FocusCol = to]
     ELSE IF delta < 0
     THEN [v EXCEPT !.Columns = <<NewColumn(<<id>>)>> \o cols, !.FocusCol = 1]
     ELSE [v EXCEPT !.Columns = Append(cols, NewColumn(<<id>>)), !.FocusCol = Len(cols) + 1]

moveAcrossColumns(v, delta) ==
  LET col  == v.FocusCol
      c    == v.Columns[col]
      id   == c.Windows[c.Sel]
      rest == [c EXCEPT !.Windows = RemoveAt(@, c.Sel)]
      cols == WithColumn(v.Columns, col, rest)
      to   == IF rest.Windows = <<>> /\ delta > 0 THEN col ELSE col + delta
  IN IF to \in DOMAIN cols
     THEN [v EXCEPT !.Columns = [cols EXCEPT ![to] = withSelected(@, id)], !.FocusCol = to]
     ELSE IF delta < 0
     THEN [v EXCEPT !.Columns = <<NewColumn(<<id>>)>> \o cols, !.FocusCol = 1]
     ELSE [v EXCEPT !.Columns = Append(cols, NewColumn(<<id>>)), !.FocusCol = Len(cols) + 1]

MoveDir(s, d) ==
  IF ~hasActiveView(s) \/ ~FocusedInColumn(s, activeView(s)) THEN s
  ELSE LET v == activeView(s)
           moved == CASE d = "up"    -> moveWithinColumn(v, -1)
                      [] d = "down"  -> moveWithinColumn(v, 1)
                      [] d = "left"  -> moveAcrossColumns(v, -1)
                      [] d = "right" -> moveAcrossColumns(v, 1)
       IN refocus(OnActiveView(s, clampFocus(moved)))

toTiled(v, id) ==
  LET w == clampFocus([v EXCEPT !.Float = IF FloatContains(v, id)
                                          THEN RemoveAt(@, IndexOf(@, id)) ELSE @,
                                !.FocusLayer = "tiled"])
  IN [w EXCEPT !.Columns[w.FocusCol] = withSelected(@, id)]

\* Mutant of toFloating: the window stays in its column.
toFloatingToo(v, id) ==
  [v EXCEPT !.Float = Append(@, id),
            !.FocusLayer = "floating",
            !.FocusFloat = Len(v.Float) + 1]

toFloating(v, id) ==
  LET w == removeFromView(v, id)
  IN [w EXCEPT !.Float = Append(@, id),
               !.FocusLayer = "floating",
               !.FocusFloat = Len(w.Float) + 1]

ToggleFloat(s) ==
  IF ~hasActiveView(s) \/ s.Focused = NoWindow THEN s
  ELSE LET v == activeView(s)
           id == s.Focused
           w == IF v.FocusLayer = "floating" THEN toTiled(v, id) ELSE toFloating(v, id)
       IN refocus(OnActiveView(s, clampFocus(w)))

SetMode(s, m) ==
  IF ~hasActiveView(s) THEN s
  ELSE LET v == activeView(s)
       IN IF v.FocusLayer = "tiled" /\ v.FocusCol \in DOMAIN v.Columns
          THEN OnActiveView(s, [v EXCEPT !.Columns[v.FocusCol].Mode = m]) ELSE s

ToggleFullscreen(s) ==
  IF ~hasActiveView(s) \/ focusedWindow(activeView(s)) = NoWindow THEN s
  ELSE LET v == activeView(s)
           id == focusedWindow(v)
       IN OnActiveView(s, [v EXCEPT !.Fullscreen = IF @ = id THEN NoWindow ELSE id])

Tiled(v) == UNION {ToSet(v.Columns[ci].Windows) : ci \in DOMAIN v.Columns}

\* The tiled windows of v read column by column, top to bottom.
ReadingOrders(v) ==
  LET before(a, b) == \/ ColumnOf(v, a) < ColumnOf(v, b)
                      \/ /\ ColumnOf(v, a) = ColumnOf(v, b)
                         /\ LET ids == v.Columns[ColumnOf(v, a)].Windows
                            IN IndexOf(ids, a) < IndexOf(ids, b)
  IN {q \in [1..Cardinality(Tiled(v)) -> Tiled(v)] :
        \A i, j \in DOMAIN q : i < j => before(q[i], q[j])}

\* Mutant of SpreadColumns: the focus is not put back on its window.
SpreadColumnsOnly(s, n, tiled, maxCols) ==
  LET v   == s.Views[n]
      len == Len(tiled)
      k   == IF len < maxCols THEN len ELSE maxCols
      first(j) == ((j - 1) * len + k - 1) \div k + 1
      column(j) == NewColumn(SubSeq(tiled, first(j), first(j + 1) - 1))
      spread == [v EXCEPT !.Columns = [j \in 1..k |-> column(j)], !.FocusCol = 1]
  IN IF ~exists(s, n) \/ k <= 1 THEN s
     ELSE [s EXCEPT !.Views[n] = spread]

\* Counting from 0, window i of the len in tiled goes to column i*k/len, rounded
\* down, of k: column j begins with the first window i with i*k >= j*len.
SpreadColumns(s, n, tiled, maxCols) ==
  LET v   == s.Views[n]
      len == Len(tiled)
      k   == IF len < maxCols THEN len ELSE maxCols
      first(j) == ((j - 1) * len + k - 1) \div k + 1
      column(j) == NewColumn(SubSeq(tiled, first(j), first(j + 1) - 1))
      spread == [v EXCEPT !.Columns = [j \in 1..k |-> column(j)], !.FocusCol = 1]
  IN IF ~exists(s, n) \/ k <= 1 THEN s
     ELSE [s EXCEPT !.Views[n] = IF v.FocusLayer = "tiled"
                                 THEN focusWindow(spread, focusedWindow(v)) ELSE spread]
=============================================================================
