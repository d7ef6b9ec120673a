--------------------------------- MODULE Wm ---------------------------------
(***************************************************************************)
(* The window-management model of wimy as a state machine.  The backend    *)
(* goroutine owns the State and runs one operation at a time: the output   *)
(* and window events of the compositor (or of macOS) and the commands of   *)
(* internal/command, in any order.                                         *)
(***************************************************************************)
EXTENDS WmState

CONSTANTS
  MaxSpecs,   \* bound: specifications in one tag command
  MaxColumns  \* bound: columns SpreadColumns may be asked for

ASSUME WmAssumption ==
  /\ MaxSpecs \in Nat
  /\ MaxColumns \in Nat

VARIABLE wm  \* the State

Spec1 == [op : {"add", "remove", "only"}, tag : ViewName]

Direction == {"left", "right", "up", "down"}

OutputNames == {wm.Outputs[i].Name : i \in DOMAIN wm.Outputs}

Init == wm = NewState

-----------------------------------------------------------------------------
(* What the backends report.                                               *)

OutputAppears ==
  \E o \in OutputName \ OutputNames :
    /\ \/ FreeNames(wm) # {}  \* bound: a name is left for a fresh view
       \/ \E n \in ViewSet(wm) : Showing(wm, n) = {}
    /\ wm' = AddOutput(wm, o)

OutputVanishes == \E o \in OutputNames : wm' = RemoveOutput(wm, o)

OutputRenamed ==
  \E old \in OutputNames, new \in OutputName \ OutputNames :
    wm' = RenameOutput(wm, old, new)

\* A window without tags of its own, on either layer.
WindowOpens ==
  \E id \in WindowID, floating \in BOOLEAN :
    /\ ~Managed(wm, id)
    /\ FreeNames(wm) # {} \/ FocusedTags(wm) # {} \/ hasActiveView(wm)  \* bound
    /\ \E order \in CreationOrders(wm, defaultTags(wm)) :
         wm' = AddWindow(wm, id, floating, defaultTags(wm), order)

\* A window that comes back with the tags it had (macOS: from being minimised).
WindowReturns ==
  \E id \in WindowID, floating \in BOOLEAN, tags \in (SUBSET ViewName) \ {{}} :
    /\ ~Managed(wm, id)
    /\ \E order \in CreationOrders(wm, tags) :
         wm' = AddWindow(wm, id, floating, tags, order)

WindowCloses == \E id \in WindowID : Managed(wm, id) /\ wm' = RemoveWindow(wm, id)

\* The visible tab of a macOS tab group changes.
TabSwitches ==
  \E old, nu \in WindowID :
    Managed(wm, old) /\ ~Managed(wm, nu) /\ wm' = ReplaceWindow(wm, old, nu)

\* macOS at startup spreads the windows it found over the columns of the views
\* on the outputs.
StartupSpreads ==
  \E n \in {wm.Outputs[i].View : i \in DOMAIN wm.Outputs}, k \in 0..MaxColumns :
    \E tiled \in ReadingOrders(wm.Views[n]) : wm' = SpreadColumns(wm, n, tiled, k)

\* Also what the pointer does: a click, or hovering with sloppy focus.
FocusesWindow ==
  \E id \in WindowID :
    /\ Managed(wm, id)
    /\ IF ShownTags(wm, id) # {}
       THEN \E n \in ShownTags(wm, id) : wm' = FocusShownWindow(wm, id, n)
       ELSE wm' = FocusHiddenWindow(wm, id)

-----------------------------------------------------------------------------
(* The commands.                                                           *)

CmdFocus == \E d \in Direction : wm' = FocusDir(wm, d)

CmdFocusToggleLayer == wm' = FocusToggleLayer(wm)

CmdFocusOutput == \E delta \in {-1, 1} : wm' = CycleOutput(wm, delta)

CmdMove == \E d \in Direction : wm' = MoveDir(wm, d)

CmdToggleFloat == wm' = ToggleFloat(wm)

CmdFullscreen == wm' = ToggleFullscreen(wm)

CmdMode == \E m \in Modes : wm' = SetMode(wm, m)

CmdView == \E n \in ViewName : wm' = SelectView(wm, n)

CmdViewCycle == \E delta \in {-1, 1} : wm' = CycleView(wm, delta)

CmdViewN == \E n \in ViewName : wm' = SelectViewN(wm, n)

CmdMoveTo == \E n \in ViewName : wm' = MoveToView(wm, n)

CmdMoveToN == \E n \in ViewName : wm' = MoveToViewN(wm, n)

CmdTag ==
  \E len \in 1..MaxSpecs : \E specs \in [1..len -> Spec1] :
    \E order \in CreationOrders(wm, specTags(wm, specs)) :
      wm' = TagSpec(wm, specs, order)

Command ==
  \/ CmdFocus
  \/ CmdFocusToggleLayer
  \/ CmdFocusOutput
  \/ CmdMove
  \/ CmdToggleFloat
  \/ CmdFullscreen
  \/ CmdMode
  \/ CmdView
  \/ CmdViewCycle
  \/ CmdViewN
  \/ CmdMoveTo
  \/ CmdMoveToN
  \/ CmdTag

Next ==
  \/ OutputAppears
  \/ OutputVanishes
  \/ OutputRenamed
  \/ WindowOpens
  \/ WindowReturns
  \/ WindowCloses
  \/ TabSwitches
  \/ StartupSpreads
  \/ FocusesWindow
  \/ Command

Spec == Init /\ [][Next]_wm

-----------------------------------------------------------------------------
(* Invariants.                                                             *)

\* Every part of the State has its type, and a name without a view has no
\* remains of one (gcViews drops a view with everything in it).
TypeOK ==
  /\ wm \in State
  /\ \A n \in ViewName : ~exists(wm, n) => wm.Views[n] = NewView

\* Views and tags agree: a window is arranged on a view exactly when it
\* carries the view's name as a tag, and a tag that is carried has a view.
\* AddWindow, syncWindowViews, removeFromView, gcViews and ReplaceWindow keep
\* the two representations in step.
WindowsMatchTags ==
  \A n \in ViewName, id \in WindowID :
    /\ contains(wm.Views[n], id) <=> n \in wm.Tags[id]
    /\ n \in wm.Tags[id] => exists(wm, n)

\* The places of id in a view: column and row, or 0 and floating slot.
Places(v, id) ==
  {p \in (DOMAIN v.Columns) \X (1..Cardinality(WindowID)) :
     p[2] \in DOMAIN v.Columns[p[1]].Windows /\ v.Columns[p[1]].Windows[p[2]] = id}
  \cup {<<0, fi>> : fi \in {i \in DOMAIN v.Float : v.Float[i] = id}}

\* No window is arranged twice on a view, in two columns, in two rows or on
\* both layers: MoveDir, ToggleFloat and SpreadColumns take it out first.
PlacedOnce ==
  \A n \in ViewName, id \in WindowID : Cardinality(Places(wm.Views[n], id)) <= 1

\* Two outputs never show the same view and every output shows a view that
\* exists: SelectView swaps, CycleView skips, AddOutput takes a hidden view and
\* gcViews spares the shown ones.
OutputsShowDistinctViews ==
  \A i \in DOMAIN wm.Outputs :
    /\ exists(wm, wm.Outputs[i].View)
    /\ \A j \in DOMAIN wm.Outputs : wm.Outputs[i].View = wm.Outputs[j].View => i = j

\* The global focus is what the markers of the active view point at: no
\* operation leaves the cached State.Focused behind.
FocusFollowsMarkers ==
  wm.Focused = IF wm.Outputs = <<>> THEN NoWindow ELSE focusedWindow(activeView(wm))

\* The markers of every view, active or not, point into it: a view has a
\* column, each column's selection is one of its windows, a column is empty
\* only as the single one of a view, and the floating layer has the focus only
\* while it holds a window.
MarkersInRange ==
  \A n \in ViewName :
    LET v == wm.Views[n]
    IN /\ v.FocusCol \in DOMAIN v.Columns
       /\ \A ci \in DOMAIN v.Columns :
            LET c == v.Columns[ci]
            IN IF c.Windows = <<>> THEN c.Sel = 1 /\ Len(v.Columns) = 1
               ELSE c.Sel \in DOMAIN c.Windows
       /\ IF v.Float = <<>> THEN v.FocusFloat = 1 /\ v.FocusLayer = "tiled"
          ELSE v.FocusFloat \in DOMAIN v.Float

\* Whatever window is asked for, FocusWindow ends with the focus on it, on the
\* outputs there are: hidden on an unselected view, on the other layer, behind
\* another window of a max column, or in the view of another output.
EveryWindowCanBeFocused ==
  wm.Outputs # <<>> =>
    \A id \in {w \in WindowID : Managed(wm, w)} :
      /\ \A n \in ShownTags(wm, id) : FocusShownWindow(wm, id, n).Focused = id
      /\ ShownTags(wm, id) = {} => FocusHiddenWindow(wm, id).Focused = id

\* The states after view-next, or view-prev, has been run 0, 1, 2, ... times.
cycled(s, delta) ==
  LET after[k \in 0..Cardinality(ViewSet(s))] ==
        IF k = 0 THEN s ELSE CycleView(after[k - 1], delta)
  IN after

\* view-next and view-prev go round: repeated, either comes by every view that
\* holds a window and is not on another output, although the empty views on the
\* way are destroyed as they are left and the others move up in the slice.
CyclingReachesEveryView ==
  hasActiveView(wm) =>
    \A delta \in {-1, 1} :
      LET after == cycled(wm, delta)
      IN {n \in ViewSet(wm) : ~empty(wm.Views[n]) /\ Showing(wm, n) \subseteq {wm.FocusOutput}}
           \subseteq {activeName(after[k]) : k \in 0..Cardinality(ViewSet(wm))}

-----------------------------------------------------------------------------
(* Action properties.                                                      *)

WindowsOf(v) == Tiled(v) \cup ToSet(v.Float)

\* "Each view keeps its own focus position which is restored on selection": a
\* step that leaves the windows of a view alone and does not work on it as the
\* active view, before or after, leaves its focused window alone.
ViewsKeepTheirFocus ==
  [][\A n \in ViewSet(wm) :
       (/\ WindowsOf(wm'.Views[n]) = WindowsOf(wm.Views[n])
        /\ ~(hasActiveView(wm) /\ activeName(wm) = n)
        /\ ~(hasActiveView(wm') /\ activeName(wm') = n))
       => focusedWindow(wm'.Views[n]) = focusedWindow(wm.Views[n])]_wm

\* "Empty views are destroyed when you leave them": an empty view that was
\* shown and no longer is does not exist any more.
LeftEmptyViewsDestroyed ==
  [][\A n \in ViewSet(wm) :
       Showing(wm, n) # {} /\ Showing(wm', n) = {} /\ empty(wm'.Views[n])
       => ~exists(wm', n)]_wm

\* The step in which window id, and no other, leaves the model.
Closes(id) ==
  /\ Managed(wm, id)
  /\ \A w \in WindowID : Managed(wm', w) <=> w # id /\ Managed(wm, w)

\* A window that closes leaves every other column's selection, and that of its
\* own column when it was not the selected one, on the window it was on
\* ("keep the column pointing at the same window").
ClosingKeepsSelections ==
  [][\A id \in WindowID :
       Closes(id) =>
         \A n \in ViewSet(wm) : \A c \in ToSet(wm.Views[n].Columns) :
            selected(c) \notin {id, NoWindow}
            => \E d \in ToSet(wm'.Views[n].Columns) :
                 selected(d) = selected(c) /\ ToSet(d.Windows) = ToSet(c.Windows) \ {id}]_wm

\* Moving a window left or right takes it past no column but the next one, and
\* moving it in any direction keeps the focus on it and every two other windows
\* of a column together and in their order.
MovingGoesOneStep ==
  [][CmdMove /\ wm.Focused # NoWindow =>
       LET v == activeView(wm)
           w == activeView(wm')
           id == wm.Focused
           above(u, a, b) == /\ ColumnOf(u, a) = ColumnOf(u, b)
                             /\ LET ids == u.Columns[ColumnOf(u, a)].Windows
                                IN IndexOf(ids, a) < IndexOf(ids, b)
       IN /\ wm'.Focused = id
          /\ \A a, b \in Tiled(v) \ {id} : above(v, a, b) => above(w, a, b)
          /\ id \in Tiled(v) =>
               \A a \in Tiled(v) \ {id} :
                 /\ ColumnOf(v, a) > ColumnOf(v, id) + 1 => ColumnOf(w, a) > ColumnOf(w, id)
                 /\ ColumnOf(v, a) < ColumnOf(v, id) - 1 => ColumnOf(w, a) < ColumnOf(w, id)]_wm

-----------------------------------------------------------------------------
(* What comments say of the model and the code does not do.                *)

\* "Each view keeps its own focus position": closing a window that does not
\* have the focus of a view leaves the focus of that view where it was.
\* removeFromView keeps Sel on its window but not FocusCol or FocusFloat.
ClosingKeepsFocus ==
  [][\A id \in WindowID :
       Closes(id) =>
         \A n \in ViewSet(wm) :
           focusedWindow(wm.Views[n]) \notin {id, NoWindow}
           => focusedWindow(wm'.Views[n]) = focusedWindow(wm.Views[n])]_wm
=============================================================================
