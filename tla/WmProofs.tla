------------------------------- MODULE WmProofs -------------------------------
(***************************************************************************)
(* Theorems about Wm, for any windows, tags, outputs and bounds: its types *)
(* and what outputs show; that views hold exactly the windows tagged for   *)
(* them, each in one place, with markers that point into them and the      *)
(* focus where the markers of the active view are; and what a step leaves  *)
(* as it was: the focus of other views, the selection of columns a window  *)
(* closes in, and the order of windows it does not move.                   *)
(***************************************************************************)
EXTENDS WmLemmas

-----------------------------------------------------------------------------
(* Types, and what outputs show.                                           *)

\* The lemmas speak of a clean state; TypeOK says wm is one.
LEMMA TypeOKIsClean == TypeOK <=> Clean(wm)
BY DEF TypeOK, Clean

LEMMA DefaultTagsType ==
  ASSUME NEW s \in State, FreeNames(s) # {} \/ FocusedTags(s) # {} \/ hasActiveView(s)
  PROVE  defaultTags(s) \in SUBSET ViewName /\ defaultTags(s) # {}
<1>1. CASE FocusedTags(s) # {}
  BY <1>1, FocusedTagsType DEF defaultTags, FocusedTags, State
<1>2. CASE FocusedTags(s) = {} /\ hasActiveView(s)
  BY <1>2, ActiveViewType DEF defaultTags
<1>3. CASE FocusedTags(s) = {} /\ ~hasActiveView(s)
  BY <1>3, FreeViewNameType DEF defaultTags
<1> QED BY <1>1, <1>2, <1>3

\* Every step leaves a clean state: one case per operation.
LEMMA StepClean ==
  ASSUME Clean(wm), Next
  PROVE  Clean(wm)'
<1>1. wm \in State
  BY DEF Clean
<1>2. CASE OutputAppears
  BY <1>2, AddOutputType DEF OutputAppears, CanAddOutput
<1>3. CASE OutputVanishes
  BY <1>3, RemoveOutputType DEF OutputVanishes
<1>4. CASE OutputRenamed
  BY <1>4, RenameOutputType DEF OutputRenamed
<1>5. CASE WindowOpens
  <2>1. PICK id \in WindowID, floating \in BOOLEAN, order \in CreationOrders(wm, defaultTags(wm)) :
          /\ FreeNames(wm) # {} \/ FocusedTags(wm) # {} \/ hasActiveView(wm)
          /\ wm' = AddWindow(wm, id, floating, defaultTags(wm), order)
    BY <1>5 DEF WindowOpens
  <2>2. defaultTags(wm) \in SUBSET ViewName
    BY <1>1, <2>1, DefaultTagsType
  <2> QED BY <2>1, <2>2, AddWindowType
<1>6. CASE WindowReturns
  <2>1. PICK id \in WindowID, floating \in BOOLEAN, tags \in SUBSET ViewName :
          \E order \in CreationOrders(wm, tags) :
            wm' = AddWindow(wm, id, floating, tags, order)
    BY <1>6 DEF WindowReturns
  <2> QED BY <2>1, AddWindowType
<1>7. CASE WindowCloses
  BY <1>7, RemoveWindowType DEF WindowCloses
<1>8. CASE TabSwitches
  BY <1>8, ReplaceWindowType DEF TabSwitches
<1>9. CASE StartupSpreads
  <2>1. PICK i \in DOMAIN wm.Outputs, k \in 0..MaxColumns :
          \E tiled \in ReadingOrders(wm.Views[wm.Outputs[i].View]) :
            wm' = SpreadColumns(wm, wm.Outputs[i].View, tiled, k)
    BY <1>9 DEF StartupSpreads
  <2>2. wm.Outputs[i].View \in ViewName
    <3>1. wm.Outputs \in Seq(Output) /\ i \in 1..Len(wm.Outputs)
      BY <1>1 DEF State
    <3>2. wm.Outputs[i] \in Output
      BY <3>1, ElementOfSeq
    <3> QED BY <3>2 DEF Output
  <2>3. wm.Views[wm.Outputs[i].View] \in View
    BY <1>1, <2>2 DEF State
  <2>4. k \in Nat
    BY WmAssumption
  <2> QED BY <2>1, <2>2, <2>3, <2>4, ReadingOrdersType, SpreadColumnsType
<1>10. CASE FocusesWindow
  <2>1. PICK id \in WindowID :
          /\ Managed(wm, id)
          /\ IF ShownTags(wm, id) # {}
             THEN \E n \in ShownTags(wm, id) : wm' = FocusShownWindow(wm, id, n)
             ELSE wm' = FocusHiddenWindow(wm, id)
    BY <1>10 DEF FocusesWindow
  <2>2. ShownTags(wm, id) \subseteq ViewName
    BY <1>1 DEF ShownTags, State
  <2> QED BY <2>1, <2>2, FocusShownWindowType, FocusHiddenWindowType DEF Managed
<1>11. CASE Command
  <2>1. CASE CmdFocus
    BY <2>1, FocusDirType DEF CmdFocus
  <2>2. CASE CmdFocusToggleLayer
    BY <2>2, FocusToggleLayerType DEF CmdFocusToggleLayer
  <2>3. CASE CmdFocusOutput
    BY <2>3, CycleOutputType DEF CmdFocusOutput
  <2>4. CASE CmdMove
    BY <2>4, MoveDirType DEF CmdMove, Direction
  <2>5. CASE CmdToggleFloat
    BY <2>5, ToggleFloatType DEF CmdToggleFloat
  <2>6. CASE CmdFullscreen
    BY <2>6, ToggleFullscreenType DEF CmdFullscreen
  <2>7. CASE CmdMode
    BY <2>7, SetModeType DEF CmdMode
  <2>8. CASE CmdView
    BY <2>8, SelectViewType DEF CmdView
  <2>9. CASE CmdViewCycle
    BY <2>9, CycleViewType DEF CmdViewCycle
  <2>10. CASE CmdViewN
    BY <2>10, SelectViewNType DEF CmdViewN
  <2>11. CASE CmdMoveTo
    BY <2>11, MoveToViewType DEF CmdMoveTo
  <2>12. CASE CmdMoveToN
    BY <2>12, MoveToViewType DEF CmdMoveToN
  <2>13. CASE CmdTag
    BY <2>13, TagSpecType DEF CmdTag
  <2> QED BY <1>11, <2>1, <2>2, <2>3, <2>4, <2>5, <2>6, <2>7, <2>8, <2>9, <2>10, <2>11,
              <2>12, <2>13 DEF Command
<1> QED BY <1>2, <1>3, <1>4, <1>5, <1>6, <1>7, <1>8, <1>9, <1>10, <1>11 DEF Next

\* The State is well typed whatever sequence of operations is run on it, and
\* gcViews leaves nothing of a view it drops.
THEOREM TypeCorrect == Spec => []TypeOK
<1>1. Init => Clean(wm)
  BY CleanNewState DEF Init
<1>2. Clean(wm) /\ [Next]_wm => Clean(wm)'
  <2> SUFFICES ASSUME Clean(wm), [Next]_wm PROVE Clean(wm)'
    OBVIOUS
  <2>1. CASE Next
    BY <2>1, StepClean
  <2>2. CASE UNCHANGED wm
    BY <2>2 DEF Clean, exists
  <2> QED BY <2>1, <2>2
<1>3. Clean(wm) => TypeOK
  BY TypeOKIsClean
<1> QED BY <1>1, <1>2, <1>3, PTL DEF Spec

-----------------------------------------------------------------------------
(* The places of the views in the slice.                                   *)

\* The views have the places 1, 2, ... of the slice, each its own.
Ranked(s) ==
  /\ \A n \in ViewSet(s) : s.viewIndex[n] \in 1..Cardinality(ViewSet(s))
  /\ \A m, n \in ViewSet(s) : s.viewIndex[m] = s.viewIndex[n] => m = n

\* The entries of f, and in below[n] the members of S whose entry is at most n's.
Compared(S, f, below) ==
  /\ f \in [ViewName -> Nat]
  /\ \A m, n \in S : f[m] = f[n] => m = n
  /\ \A n \in S : below[n] \in SUBSET S
  /\ \A m, n \in S : m \in below[n] <=> f[m] <= f[n]

\* rank numbers S without gaps, in the order of the entries of f.
Compressed(S, f, rank) ==
  /\ \A n \in S : rank[n] \in 1..Cardinality(S)
  /\ \A m, n \in S : f[m] < f[n] => rank[m] < rank[n]
  /\ \A m, n \in S : rank[m] < rank[n] => f[m] < f[n]
  /\ \A m, n \in S : rank[m] = rank[n] => m = n

\* Ranks are in the order of what is ranked, without gaps.
LEMMA RankAmong ==
  ASSUME NEW S \in SUBSET ViewName, NEW f, NEW below, NEW rank,
         Compared(S, f, below), \A n \in S : rank[n] = Cardinality(below[n])
  PROVE  Compressed(S, f, rank)
<1>0. /\ f \in [ViewName -> Nat]
      /\ \A m, n \in S : f[m] = f[n] => m = n
      /\ \A m, n \in S : m \in below[n] <=> f[m] <= f[n]
  BY DEF Compared
<1>1. \A n \in S : below[n] \in SUBSET S /\ below[n] \in SUBSET ViewName /\ rank[n] = Cardinality(below[n])
  BY DEF Compared
<1>2. \A n \in S : f[n] \in Nat
  BY <1>0
<1>3. \A n \in S : n \in below[n]
  BY <1>0, <1>2
<1>4. Cardinality(S) \in Nat /\ IsFiniteSet(S)
  BY ViewSetCardinality
<1>5. ASSUME NEW n \in S PROVE rank[n] \in 1..Cardinality(S)
  <2> DEFINE b == below[n]
  <2>1. b \in SUBSET S /\ b \in SUBSET ViewName /\ b # {} /\ rank[n] = Cardinality(b)
    BY <1>1, <1>3
  <2> HIDE DEF b
  <2>2. Cardinality(b) \in Nat /\ Cardinality(b) > 0
    BY <2>1, ViewSetCardinality
  <2>3. Cardinality(b) <= Cardinality(S)
    BY <1>4, <2>1, FS_Subset
  <2> QED BY <1>4, <2>1, <2>2, <2>3
<1>6. ASSUME NEW m \in S, NEW n \in S, f[m] < f[n] PROVE rank[m] < rank[n]
  <2> DEFINE a == below[m]
             b == below[n]
  <2>1. \A x \in S : f[x] <= f[m] => f[x] <= f[n]
    BY <1>2, <1>6
  <2>2. a \in SUBSET b /\ n \in b /\ n \notin a
    BY <1>0, <1>1, <1>2, <1>3, <1>6, <2>1
  <2>3. a \in SUBSET ViewName /\ b \in SUBSET ViewName /\ rank[m] = Cardinality(a) /\ rank[n] = Cardinality(b)
    BY <1>1
  <2> HIDE DEF a, b
  <2>4. IsFiniteSet(b) /\ a # b /\ Cardinality(a) \in Nat /\ Cardinality(b) \in Nat
    BY <2>2, <2>3, ViewSetCardinality
  <2>5. Cardinality(a) <= Cardinality(b) /\ Cardinality(a) # Cardinality(b)
    BY <2>2, <2>4, FS_Subset
  <2> QED BY <2>3, <2>4, <2>5
<1>7. \A n \in S : rank[n] \in Nat
  BY <1>4, <1>5
<1>8. ASSUME NEW m \in S, NEW n \in S, ~(f[m] < f[n]), m # n PROVE rank[n] < rank[m]
  <2>1. f[m] # f[n] /\ f[m] \in Nat /\ f[n] \in Nat
    BY <1>0, <1>2, <1>8
  <2>2. f[n] < f[m]
    BY <1>8, <2>1
  <2> QED BY <1>6, <2>2
<1>9. ASSUME NEW m \in S, NEW n \in S, rank[m] < rank[n] PROVE f[m] < f[n]
  <2>1. rank[m] \in Nat /\ rank[n] \in Nat /\ m # n
    BY <1>7, <1>9
  <2> QED BY <1>8, <1>9, <2>1
<1>10. ASSUME NEW m \in S, NEW n \in S, rank[m] = rank[n] PROVE m = n
  <2>1. rank[m] \in Nat /\ rank[n] \in Nat
    BY <1>7
  <2>2. CASE f[m] < f[n]
    BY <1>6, <1>10, <2>1, <2>2
  <2>3. CASE ~(f[m] < f[n])
    BY <1>8, <1>10, <2>1, <2>3
  <2> QED BY <2>2, <2>3
<1> QED BY <1>5, <1>6, <1>9, <1>10 DEF Compressed

LEMMA SameRanked ==
  ASSUME NEW s, NEW t, t.viewIndex = s.viewIndex
  PROVE  Ranked(s) <=> Ranked(t)
<1>1. ViewSet(t) = ViewSet(s)
  BY DEF ViewSet, exists
<1> QED BY <1>1 DEF Ranked

LEMMA EnsureViewRanked ==
  ASSUME NEW s, Clean(s), Ranked(s), NEW n \in ViewName
  PROVE  Ranked(ensureView(s, n))
<1> DEFINE V == ViewSet(s)
           k == Cardinality(V)
           vi == [s.viewIndex EXCEPT ![n] = k + 1]
           t == ensureView(s, n)
<1>1. CASE exists(s, n)
  BY <1>1 DEF ensureView
<1>2. CASE ~exists(s, n)
  <2>1. s \in State /\ s.viewIndex \in [ViewName -> Nat]
    BY StateFields DEF Clean
  <2>2. V \in SUBSET ViewName /\ n \notin V
    BY <1>2 DEF ViewSet
  <2>3. k \in Nat /\ Cardinality(V \cup {n}) = k + 1
    <3> HIDE DEF V
    <3> QED BY <2>2, ViewSetCardinality, FS_AddElement
  <2>4. t.viewIndex = vi
    <3> HIDE DEF k
    <3>1. t = [s EXCEPT !.viewIndex = vi, !.Views = [s.Views EXCEPT ![n] = NewView]]
      BY <1>2 DEF ensureView, k
    <3> HIDE DEF t, vi
    <3> QED BY <2>1, <3>1 DEF State
  <2>5. /\ \A m \in V : s.viewIndex[m] \in 1..k
        /\ \A m, l \in V : s.viewIndex[m] = s.viewIndex[l] => m = l
    BY DEF Ranked
  <2>6. ViewSet(t) = V \cup {n}
    <3>1. \A m \in ViewName : t.viewIndex[m] > 0 <=> m = n \/ m \in V
      <4>1. \A m \in ViewName : m \in V <=> s.viewIndex[m] > 0
        BY DEF ViewSet, exists
      <4> HIDE DEF V, k, t
      <4> QED BY <2>1, <2>3, <2>4, <4>1
    <3> HIDE DEF t
    <3> QED BY <2>2, <3>1 DEF ViewSet, exists
  <2> HIDE DEF t, V, k
  <2>7. \A m \in V \cup {n} : vi[m] \in 1..k + 1
    BY <2>1, <2>2, <2>3, <2>5
  <2>8. \A m, l \in V \cup {n} : vi[m] = vi[l] => m = l
    BY <2>1, <2>2, <2>3, <2>5
  <2> HIDE DEF vi
  <2>9. /\ \A m \in ViewSet(t) : t.viewIndex[m] \in 1..Cardinality(ViewSet(t))
        /\ \A m, l \in ViewSet(t) : t.viewIndex[m] = t.viewIndex[l] => m = l
    BY <2>3, <2>4, <2>6, <2>7, <2>8
  <2> QED BY <2>9 DEF Ranked, t
<1> QED BY <1>1, <1>2

LEMMA EnsureViewsRanked ==
  ASSUME NEW s, Clean(s), Ranked(s), NEW T \in SUBSET ViewName, NEW order \in CreationOrders(s, T)
  PROVE  Ranked(ensureViews(s, order))
<1> DEFINE V   == ViewSet(s)
           new == T \ V
           k   == Cardinality(V)
           l   == Cardinality(new)
           vi  == [n \in ViewName |-> IF n \in ToSet(order) THEN k + IndexOf(order, n)
                                      ELSE s.viewIndex[n]]
           t   == ensureViews(s, order)
<1>1. s \in State /\ s.viewIndex \in [ViewName -> Nat]
  BY StateFields DEF Clean
<1>2. V \in SUBSET ViewName /\ new \in SUBSET ViewName /\ V \cap new = {}
  BY DEF ViewSet
<1>3. k \in Nat /\ l \in Nat /\ Cardinality(V \cup new) = k + l
  <2> HIDE DEF V, new
  <2>1. IsFiniteSet(V) /\ IsFiniteSet(new) /\ k \in Nat /\ l \in Nat
    BY <1>2, ViewSetCardinality
  <2>2. Cardinality(V \cup new) = k + l - Cardinality(V \cap new)
    BY <2>1, FS_Union
  <2>3. Cardinality(V \cap new) = 0
    BY <1>2, FS_EmptySet
  <2> QED BY <2>1, <2>2, <2>3
<1>4. order \in [1..l -> new] /\ ToSet(order) = new
  BY DEF CreationOrders
<1> HIDE DEF l
<1>5. order \in Seq(new) /\ Len(order) = l
  <2> HIDE DEF new
  <2> QED BY <1>3, <1>4
<1>6. \A n \in new : IndexOf(order, n) \in 1..l /\ order[IndexOf(order, n)] = n
  <2> HIDE DEF new
  <2> QED BY <1>4, <1>5, IndexOfType
<1>7. /\ \A m \in V : s.viewIndex[m] \in 1..k
      /\ \A m, n \in V : s.viewIndex[m] = s.viewIndex[n] => m = n
  BY DEF Ranked
<1>8. t.viewIndex = vi
  <2>1. t = [s EXCEPT !.viewIndex = vi,
                      !.Views = [n \in ViewName |-> IF n \in ToSet(order) THEN NewView ELSE s.Views[n]]]
    BY DEF ensureViews
  <2> HIDE DEF t, vi
  <2> QED BY <1>1, <2>1 DEF State
<1>9. \A m \in ViewName : m \in V <=> s.viewIndex[m] > 0
  BY DEF ViewSet, exists
<1> HIDE DEF V, new, k, t
<1>10. /\ \A n \in new : vi[n] = k + IndexOf(order, n)
       /\ \A n \in V : vi[n] = s.viewIndex[n]
       /\ \A n \in ViewName : n \notin V \cup new => vi[n] = 0
  <2>1. \A n \in ViewName : n \notin V => s.viewIndex[n] = 0
    BY <1>1, <1>9
  <2> QED BY <1>2, <1>4, <2>1
<1> HIDE DEF vi
<1>11. \A n \in V \cup new : vi[n] \in 1..k + l
  BY <1>3, <1>6, <1>7, <1>10
<1>12. \A m, n \in V \cup new : vi[m] = vi[n] => m = n
  <2> SUFFICES ASSUME NEW m \in V \cup new, NEW n \in V \cup new, vi[m] = vi[n] PROVE m = n
    OBVIOUS
  <2>1. CASE m \in V /\ n \in V
    BY <1>7, <1>10, <2>1
  <2>2. CASE m \in new /\ n \in new
    <3>1. IndexOf(order, m) = IndexOf(order, n)
      BY <1>3, <1>6, <1>10, <2>2
    <3> QED BY <1>6, <2>2, <3>1
  <2>3. CASE m \in V /\ n \in new
    BY <1>3, <1>6, <1>7, <1>10, <2>3
  <2>4. CASE m \in new /\ n \in V
    BY <1>3, <1>6, <1>7, <1>10, <2>4
  <2> QED BY <2>1, <2>2, <2>3, <2>4
<1>13. ViewSet(t) = V \cup new
  <2>1. \A n \in ViewName : vi[n] > 0 <=> n \in V \cup new
    BY <1>3, <1>10, <1>11
  <2> QED BY <1>2, <1>8, <2>1 DEF ViewSet, exists
<1>14. /\ \A m \in ViewSet(t) : t.viewIndex[m] \in 1..Cardinality(ViewSet(t))
       /\ \A m, n \in ViewSet(t) : t.viewIndex[m] = t.viewIndex[n] => m = n
  BY <1>3, <1>8, <1>11, <1>12, <1>13
<1> QED BY <1>14 DEF Ranked, t

\* gcViews closes the gaps and changes the order of none of the views it keeps.
LEMMA GcViewsRanked ==
  ASSUME NEW s, Clean(s), Ranked(s)
  PROVE  /\ Ranked(gcViews(s))
         /\ ViewSet(gcViews(s)) \subseteq ViewSet(s)
         /\ \A m, n \in ViewSet(gcViews(s)) :
              gcViews(s).viewIndex[m] < gcViews(s).viewIndex[n] <=> s.viewIndex[m] < s.viewIndex[n]
<1> DEFINE kept == {n \in ViewSet(s) : ~empty(s.Views[n]) \/ Showing(s, n) # {}}
           vi   == [n \in ViewName |->
                      IF n \in kept THEN Cardinality({m \in kept : s.viewIndex[m] <= s.viewIndex[n]})
                      ELSE 0]
           t    == gcViews(s)
<1>1. s \in State /\ s.viewIndex \in [ViewName -> Nat]
  BY StateFields DEF Clean
<1>2. kept \in SUBSET ViewName /\ kept \subseteq ViewSet(s)
  BY DEF ViewSet
<1>3. \A m, n \in kept : s.viewIndex[m] = s.viewIndex[n] => m = n
  BY DEF Ranked
<1>4. t.viewIndex = vi
  <2>1. t = [s EXCEPT !.viewIndex = vi,
                      !.Views = [n \in ViewName |-> IF n \in kept THEN s.Views[n] ELSE NewView]]
    BY DEF gcViews
  <2> HIDE DEF t, vi, kept
  <2> QED BY <1>1, <2>1 DEF State
<1>5. ViewSet(t) = kept
  <2>1. \A n \in ViewName : exists(t, n) <=> n \in kept
    BY GcViewsType DEF ViewSet
  <2> HIDE DEF t, kept
  <2> QED BY <1>2, <2>1 DEF ViewSet
<1> HIDE DEF t, kept
<1>6. /\ \A n \in kept : vi[n] \in 1..Cardinality(kept)
      /\ \A m, n \in kept : s.viewIndex[m] < s.viewIndex[n] => vi[m] < vi[n]
      /\ \A m, n \in kept : vi[m] < vi[n] => s.viewIndex[m] < s.viewIndex[n]
      /\ \A m, n \in kept : vi[m] = vi[n] => m = n
  <2> DEFINE f == s.viewIndex
  <2> HIDE DEF f
  <2> DEFINE below == [n \in kept |-> {m \in kept : f[m] <= f[n]}]
  <2>1. Compared(kept, f, below)
    BY <1>1, <1>3 DEF Compared, f
  <2>2. \A n \in kept : vi[n] = Cardinality(below[n])
    BY <1>2 DEF f
  <2> HIDE DEF vi, below
  <2>3. Compressed(kept, f, vi)
    BY <1>2, <2>1, <2>2, RankAmong
  <2> QED BY <2>3 DEF Compressed, f
<1> HIDE DEF vi
<1>7. Ranked(t)
  BY <1>4, <1>5, <1>6 DEF Ranked
<1> QED BY <1>2, <1>4, <1>5, <1>6, <1>7 DEF t

-----------------------------------------------------------------------------
(***************************************************************************)
(* The outputs of Wm always show distinct views that exist.                *)
(***************************************************************************)

\* OutputsShowDistinctViews, of any state, and the views are in a slice.
Distinct(s) ==
  /\ \A i \in DOMAIN s.Outputs :
       /\ exists(s, s.Outputs[i].View)
       /\ \A j \in DOMAIN s.Outputs : s.Outputs[i].View = s.Outputs[j].View => i = j
  /\ Ranked(s)

\* t has the outputs of s and the views they show, and its views are in a slice.
KeepsShown(s, t) ==
  /\ t.Outputs = s.Outputs
  /\ \A n \in ViewName : exists(s, n) /\ Showing(s, n) # {} => exists(t, n)
  /\ Ranked(s) => Ranked(t)

LEMMA OutputsTyped ==
  ASSUME NEW s \in State
  PROVE  /\ s.Outputs \in Seq(Output)
         /\ DOMAIN s.Outputs = 1..Len(s.Outputs)
         /\ \A i \in DOMAIN s.Outputs : s.Outputs[i] \in Output /\ s.Outputs[i].View \in ViewName
<1>1. s.Outputs \in Seq(Output) /\ DOMAIN s.Outputs = 1..Len(s.Outputs)
  BY DEF State
<1>2. ASSUME NEW i \in DOMAIN s.Outputs PROVE s.Outputs[i] \in Output
  BY <1>1, ElementOfSeq
<1> QED BY <1>1, <1>2 DEF Output

LEMMA KeptDistinct ==
  ASSUME NEW s \in State, NEW t, Distinct(s), KeepsShown(s, t)
  PROVE  Distinct(t)
BY OutputsTyped DEF Distinct, KeepsShown, Showing

LEMMA KeepsShownTransitive ==
  ASSUME NEW s, NEW t, NEW u, KeepsShown(s, t), KeepsShown(t, u)
  PROVE  KeepsShown(s, u)
BY DEF KeepsShown, Showing

LEMMA SamePlacesKept ==
  ASSUME NEW s, NEW t, t.Outputs = s.Outputs, t.viewIndex = s.viewIndex
  PROVE  KeepsShown(s, t)
BY SameRanked DEF KeepsShown, exists

LEMMA EnsureViewKeeps ==
  ASSUME NEW s, Clean(s), NEW n \in ViewName
  PROVE  KeepsShown(s, ensureView(s, n))
BY EnsureViewType, EnsureViewRanked DEF KeepsShown

LEMMA EnsureViewsKeeps ==
  ASSUME NEW s, Clean(s), NEW T \in SUBSET ViewName, NEW order \in CreationOrders(s, T)
  PROVE  KeepsShown(s, ensureViews(s, order))
BY EnsureViewsType, EnsureViewsRanked DEF KeepsShown

\* The helpers keep what is shown.
LEMMA RefocusKeeps ==
  ASSUME NEW s, Clean(s)
  PROVE  KeepsShown(s, refocus(s)) /\ refocus(s).Outputs = s.Outputs
<1>1. s \in State
  BY DEF Clean
<1>2. refocus(s).Outputs = s.Outputs /\ refocus(s).viewIndex = s.viewIndex
  BY <1>1 DEF refocus, State
<1> QED BY <1>2, SamePlacesKept

LEMMA GcViewsKeeps ==
  ASSUME NEW s, Clean(s)
  PROVE  KeepsShown(s, gcViews(s))
BY GcViewsType, GcViewsRanked DEF KeepsShown

LEMMA SetViewsKeeps ==
  ASSUME NEW s \in State, NEW t \in State, t.Outputs = s.Outputs, t.viewIndex = s.viewIndex
  PROVE  KeepsShown(s, t)
BY SamePlacesKept

LEMMA OnActiveViewKeeps ==
  ASSUME NEW s, Clean(s), NEW v
  PROVE  KeepsShown(s, OnActiveView(s, v))
<1>1. s \in State
  BY DEF Clean
<1>2. OnActiveView(s, v).Outputs = s.Outputs /\ OnActiveView(s, v).viewIndex = s.viewIndex
  BY <1>1 DEF OnActiveView, State
<1> QED BY <1>2, SamePlacesKept

\* Working on the active view and recomputing the focus.
LEMMA ActiveViewWorkKeeps ==
  ASSUME NEW s \in State, NEW v
  PROVE  KeepsShown(s, refocus(OnActiveView(s, v))) /\ KeepsShown(s, OnActiveView(s, v))
<1> DEFINE t == OnActiveView(s, v)
<1>1. t = [s EXCEPT !.Views = [s.Views EXCEPT ![activeName(s)] = v]]
  BY DEF OnActiveView
<1>2. t.Outputs = s.Outputs /\ t.viewIndex = s.viewIndex
  BY <1>1 DEF State
<1>3. refocus(t).Outputs = t.Outputs /\ refocus(t).viewIndex = t.viewIndex
  <2>1. \A a, b : t = [s EXCEPT !.Views = a] =>
          /\ [t EXCEPT !.Views = b].Outputs = t.Outputs
          /\ [t EXCEPT !.Views = b].viewIndex = t.viewIndex
    BY DEF State
  <2>2. \A a, b, f, o : t = [s EXCEPT !.Views = a] =>
          /\ [t EXCEPT !.Views = b, !.Focused = f, !.FocusOutput = o].Outputs = t.Outputs
          /\ [t EXCEPT !.Views = b, !.Focused = f, !.FocusOutput = o].viewIndex = t.viewIndex
          /\ [t EXCEPT !.Focused = f].Outputs = t.Outputs
          /\ [t EXCEPT !.Focused = f].viewIndex = t.viewIndex
    BY DEF State
  <2> HIDE DEF t
  <2> QED BY <1>1, <2>2 DEF refocus
<1> HIDE DEF t
<1> QED BY <1>2, <1>3, SamePlacesKept DEF t

LEMMA KeepsShownReflexive ==
  ASSUME NEW s
  PROVE  KeepsShown(s, s)
BY DEF KeepsShown

\* The commands that work on the active view only.
LEMMA ViewCommandsKeep ==
  ASSUME NEW s, Clean(s), NEW d, NEW m
  PROVE  /\ KeepsShown(s, FocusDir(s, d))
         /\ KeepsShown(s, FocusToggleLayer(s))
         /\ KeepsShown(s, MoveDir(s, d))
         /\ KeepsShown(s, ToggleFloat(s))
         /\ KeepsShown(s, SetMode(s, m))
         /\ KeepsShown(s, ToggleFullscreen(s))
<1>1. s \in State
  BY DEF Clean
<1>2. FocusDir(s, d) = s \/ \E v : FocusDir(s, d) = refocus(OnActiveView(s, v))
  BY Zenon DEF FocusDir
<1>3. FocusToggleLayer(s) = s \/ \E v : FocusToggleLayer(s) = refocus(OnActiveView(s, v))
  BY Zenon DEF FocusToggleLayer
<1>4. MoveDir(s, d) = s \/ \E v : MoveDir(s, d) = refocus(OnActiveView(s, v))
  BY Zenon DEF MoveDir
<1>5. ToggleFloat(s) = s \/ \E v : ToggleFloat(s) = refocus(OnActiveView(s, v))
  BY Zenon DEF ToggleFloat
<1>6. SetMode(s, m) = s \/ \E v : SetMode(s, m) = OnActiveView(s, v)
  BY Zenon DEF SetMode
<1>7. ToggleFullscreen(s) = s \/ \E v : ToggleFullscreen(s) = OnActiveView(s, v)
  BY Zenon DEF ToggleFullscreen
<1> QED BY <1>1, <1>2, <1>3, <1>4, <1>5, <1>6, <1>7, ActiveViewWorkKeeps, KeepsShownReflexive

LEMMA CycleOutputKeeps ==
  ASSUME NEW s, Clean(s), NEW delta \in {-1, 1}
  PROVE  KeepsShown(s, CycleOutput(s, delta))
<1> DEFINE i == ((s.FocusOutput - 1 + delta) % Len(s.Outputs)) + 1
           t == [s EXCEPT !.FocusOutput = i]
<1>1. s \in State /\ s.Outputs \in Seq(Output)
  BY DEF Clean, State
<1>2. CASE s.Outputs = <<>>
  BY <1>2, KeepsShownReflexive DEF CycleOutput
<1>3. CASE s.Outputs # <<>>
  <2>1. i \in Nat
    BY <1>1, <1>3 DEF State
  <2>2. CycleOutput(s, delta) = refocus(t)
    BY <1>3 DEF CycleOutput
  <2> HIDE DEF i
  <2>3. Clean(t) /\ t.Outputs = s.Outputs /\ t.viewIndex = s.viewIndex
    BY <1>1, <2>1, SetOutputsType DEF State
  <2>4. KeepsShown(s, t)
    BY <1>1, <2>3, SetViewsKeeps DEF Clean
  <2> QED BY <2>2, <2>3, <2>4, RefocusKeeps, KeepsShownTransitive
<1> QED BY <1>2, <1>3

\* Windows come and go.
LEMMA AddWindowKeeps ==
  ASSUME NEW s, Clean(s), NEW id \in WindowID, NEW floating \in BOOLEAN,
         NEW tags \in SUBSET ViewName, NEW order \in CreationOrders(s, tags)
  PROVE  KeepsShown(s, AddWindow(s, id, floating, tags, order))
<1> DEFINE t     == ensureViews(s, order)
           views == [n \in ViewName |-> IF n \in tags THEN addToView(t.Views[n], id, floating)
                                        ELSE t.Views[n]]
           u     == [t EXCEPT !.Tags = [t.Tags EXCEPT ![id] = tags], !.Views = views]
           x     == [u EXCEPT !.Views = [u.Views EXCEPT ![activeName(u)] =
                                          focusWindow(activeView(u), id)]]
           y     == [x EXCEPT !.Focused = id, !.FocusOutput = activeOutput(u)]
<1>1. t \in State /\ KeepsShown(s, t)
  BY EnsureViewsType, EnsureViewsKeeps DEF Clean
<1>2. AddWindow(s, id, floating, tags, order) \in {u, y}
  <2>1. AddWindow(s, id, floating, tags, order) =
          IF hasActiveView(u) /\ contains(activeView(u), id) THEN y ELSE u
    BY DEF AddWindow, OnActiveView
  <2> QED BY <2>1
<1> HIDE DEF t
<1>3. u.Outputs = t.Outputs /\ u.viewIndex = t.viewIndex
  <2> HIDE DEF views
  <2> QED BY <1>1 DEF State
<1>4. y.Outputs = t.Outputs /\ y.viewIndex = t.viewIndex
  <2>1. \A a, b, c, f, o :
          /\ [[[t EXCEPT !.Tags = a, !.Views = b] EXCEPT !.Views = c] EXCEPT
                 !.Focused = f, !.FocusOutput = o].Outputs = t.Outputs
          /\ [[[t EXCEPT !.Tags = a, !.Views = b] EXCEPT !.Views = c] EXCEPT
                 !.Focused = f, !.FocusOutput = o].viewIndex = t.viewIndex
    BY <1>1 DEF State
  <2> QED BY <2>1
<1> HIDE DEF u, y
<1>5. KeepsShown(t, u) /\ KeepsShown(t, y)
  BY <1>3, <1>4, SamePlacesKept
<1> QED BY <1>1, <1>2, <1>5, KeepsShownTransitive

LEMMA RemoveWindowKeeps ==
  ASSUME NEW s, Clean(s), NEW id \in WindowID
  PROVE  KeepsShown(s, RemoveWindow(s, id))
<1> DEFINE tags  == [s.Tags EXCEPT ![id] = {}]
           views == [n \in ViewName |-> removeFromView(s.Views[n], id)]
           t     == [s EXCEPT !.Tags = tags, !.Views = views]
<1>1. /\ tags \in [WindowID -> SUBSET ViewName]
      /\ views \in [ViewName -> View]
      /\ \A n \in ViewName : ~exists(s, n) => views[n] = NewView
  BY RemoveFromViewType, RemoveFromNewView DEF Clean, State
<1>2. s \in State /\ Clean(t) /\ t.Outputs = s.Outputs /\ t.viewIndex = s.viewIndex
  <2> HIDE DEF tags, views
  <2>1. s \in State
    BY DEF Clean
  <2>2. Clean(t)
    BY <1>1, MapViewsType
  <2> QED BY <2>1, <2>2 DEF State
<1>3. CASE ~Managed(s, id)
  BY <1>3, KeepsShownReflexive DEF RemoveWindow
<1>4. CASE Managed(s, id)
  <2>1. RemoveWindow(s, id) = refocus(gcViews(t))
    BY <1>4 DEF RemoveWindow
  <2> HIDE DEF t
  <2>2. KeepsShown(s, t)
    BY <1>2, SetViewsKeeps DEF Clean
  <2>3. Clean(gcViews(t)) /\ KeepsShown(t, gcViews(t))
    BY <1>2, GcViewsType, GcViewsKeeps
  <2>4. KeepsShown(gcViews(t), refocus(gcViews(t)))
    BY <2>3, RefocusKeeps
  <2> QED BY <2>1, <2>2, <2>3, <2>4, KeepsShownTransitive
<1> QED BY <1>3, <1>4

LEMMA ReplaceAndSpreadKeep ==
  ASSUME NEW s, Clean(s), NEW old, NEW nu, NEW n, NEW tiled, NEW maxCols
  PROVE  KeepsShown(s, ReplaceWindow(s, old, nu)) /\ KeepsShown(s, SpreadColumns(s, n, tiled, maxCols))
<1>1. s \in State
  BY DEF Clean
<1>2. ReplaceWindow(s, old, nu) = s \/
        \E a, b, f : ReplaceWindow(s, old, nu) = [s EXCEPT !.Views = a, !.Tags = b, !.Focused = f]
  <2> DEFINE a == [m \in ViewName |-> ReplaceInView(s.Views[m], old, nu)]
             b == [s.Tags EXCEPT ![nu] = s.Tags[old], ![old] = {}]
             f == IF s.Focused = old THEN nu ELSE s.Focused
             x == [s EXCEPT !.Views = a, !.Tags = b, !.Focused = f]
  <2>1. ReplaceWindow(s, old, nu) = s \/ ReplaceWindow(s, old, nu) = x
    BY DEF ReplaceWindow
  <2> HIDE DEF a, b, f
  <2> QED BY <2>1
<1>3. SpreadColumns(s, n, tiled, maxCols) = s \/
        \E a : SpreadColumns(s, n, tiled, maxCols) = [s EXCEPT !.Views = a]
  BY DEF SpreadColumns
<1>4. \A a, b, f : /\ [s EXCEPT !.Views = a, !.Tags = b, !.Focused = f].Outputs = s.Outputs
                   /\ [s EXCEPT !.Views = a, !.Tags = b, !.Focused = f].viewIndex = s.viewIndex
                   /\ [s EXCEPT !.Views = a].Outputs = s.Outputs
                   /\ [s EXCEPT !.Views = a].viewIndex = s.viewIndex
  BY <1>1 DEF State
<1>5. /\ ReplaceWindow(s, old, nu).Outputs = s.Outputs
      /\ ReplaceWindow(s, old, nu).viewIndex = s.viewIndex
  <2>1. CASE ReplaceWindow(s, old, nu) # s
    <3>1. PICK a, b, f : ReplaceWindow(s, old, nu) = [s EXCEPT !.Views = a, !.Tags = b, !.Focused = f]
      BY <1>2, <2>1
    <3> DEFINE x == [s EXCEPT !.Views = a, !.Tags = b, !.Focused = f]
    <3>2. x.Outputs = s.Outputs /\ x.viewIndex = s.viewIndex
      BY <1>4
    <3> HIDE DEF x
    <3> QED BY <3>1, <3>2 DEF x
  <2> QED BY <2>1
<1>6. /\ SpreadColumns(s, n, tiled, maxCols).Outputs = s.Outputs
      /\ SpreadColumns(s, n, tiled, maxCols).viewIndex = s.viewIndex
  BY <1>3, <1>4
<1> QED BY <1>5, <1>6, SamePlacesKept

\* Tags and views.
LEMMA RetagKeeps ==
  ASSUME NEW s, Clean(s), s.Focused \in WindowID,
         NEW tags \in SUBSET ViewName, NEW order \in CreationOrders(s, tags)
  PROVE  KeepsShown(s, Retag(s, tags, order))
<1> DEFINE id    == s.Focused
           fl    == vFocusFloating(s, id)
           e     == ensureViews(s, order)
           all   == [e.Tags EXCEPT ![id] = tags]
           t     == [e EXCEPT !.Tags = all]
           views == [n \in ViewName |->
                       IF ~exists(t, n) THEN t.Views[n]
                       ELSE IF n \in t.Tags[id] THEN addToView(t.Views[n], id, fl)
                       ELSE removeFromView(t.Views[n], id)]
           u     == [t EXCEPT !.Views = views]
<1>1. e \in State /\ Clean(e) /\ KeepsShown(s, e)
  BY EnsureViewsType, EnsureViewsKeeps DEF Clean
<1>2. Clean(Retag(s, tags, order)) /\ Retag(s, tags, order) = refocus(gcViews(u))
  <2>1. Retag(s, tags, order) = refocus(gcViews(u))
    BY DEF Retag, syncWindowViews
  <2> QED BY <2>1, RetagType
<1>3. Clean(u) /\ u.Outputs = e.Outputs /\ u.viewIndex = e.viewIndex
  <2> HIDE DEF e
  <2>1. all \in [WindowID -> SUBSET ViewName] /\ e.Views \in [ViewName -> View]
    BY <1>1 DEF State
  <2>2. fl \in BOOLEAN
    BY DEF vFocusFloating, hasActiveView
  <2>3. t.viewIndex = e.viewIndex /\ t.Views = e.Views /\ t.Outputs = e.Outputs
    <3> HIDE DEF all
    <3> QED BY <1>1 DEF State
  <2>4. views \in [ViewName -> View] /\ \A n \in ViewName : ~exists(e, n) => views[n] = NewView
    <3>1. \A v \in View : addToView(v, id, fl) \in View /\ removeFromView(v, id) \in View
      BY <2>2, AddToViewType, RemoveFromViewType
    <3>2. \A n \in ViewName : ~exists(e, n) => e.Views[n] = NewView
      BY <1>1 DEF Clean
    <3>3. \A n \in ViewName : exists(t, n) <=> exists(e, n)
      BY <2>3 DEF exists
    <3> HIDE DEF t, fl
    <3> QED BY <2>1, <2>3, <3>1, <3>2, <3>3
  <2> HIDE DEF views
  <2>5. u = [e EXCEPT !.Tags = all, !.Views = views]
    OBVIOUS
  <2> HIDE DEF all, u
  <2>6. Clean([e EXCEPT !.Tags = all, !.Views = views])
    BY <1>1, <2>1, <2>4, MapViewsType
  <2>7. u.Outputs = e.Outputs /\ u.viewIndex = e.viewIndex
    BY <1>1, <2>5 DEF State
  <2> QED BY <2>5, <2>6, <2>7
<1> HIDE DEF u, e
<1>4. KeepsShown(s, u)
  BY <1>1, <1>3, SamePlacesKept, KeepsShownTransitive
<1>5. Clean(gcViews(u)) /\ KeepsShown(u, gcViews(u))
  BY <1>3, GcViewsType, GcViewsKeeps
<1>6. KeepsShown(gcViews(u), refocus(gcViews(u)))
  BY <1>5, RefocusKeeps
<1> QED BY <1>2, <1>4, <1>5, <1>6, KeepsShownTransitive

LEMMA MoveToViewKeeps ==
  ASSUME NEW s, Clean(s), NEW n \in ViewName
  PROVE  KeepsShown(s, MoveToView(s, n)) /\ KeepsShown(s, MoveToViewN(s, n))
<1>1. ASSUME NEW t, Clean(t) PROVE KeepsShown(t, MoveToView(t, n))
  <2>1. CASE FocusedTags(t) = {}
    BY <2>1, KeepsShownReflexive DEF MoveToView
  <2>2. CASE FocusedTags(t) # {}
    <3>1. t.Focused \in WindowID
      BY <1>1, <2>2, FocusedTagsType DEF Clean
    <3>2. KeepsShown(t, Retag(t, {n}, CreateOne(t, n)))
      BY <1>1, <3>1, CreateOneOrder, RetagKeeps
    <3> QED BY <2>2, <3>2 DEF MoveToView
  <2> QED BY <2>1, <2>2
<1>2. Clean(ensureView(s, n)) /\ KeepsShown(s, ensureView(s, n))
  BY EnsureViewType, EnsureViewKeeps
<1>3. KeepsShown(ensureView(s, n), MoveToView(ensureView(s, n), n))
  BY <1>1, <1>2
<1> QED BY <1>1, <1>2, <1>3, KeepsShownTransitive DEF MoveToViewN

LEMMA TagSpecKeeps ==
  ASSUME NEW s, Clean(s), NEW specs, NEW order \in CreationOrders(s, specTags(s, specs))
  PROVE  KeepsShown(s, TagSpec(s, specs, order))
<1>1. CASE FocusedTags(s) = {} \/ specs = <<>> \/ specTags(s, specs) = {}
  BY <1>1, KeepsShownReflexive DEF TagSpec
<1>2. CASE ~(FocusedTags(s) = {} \/ specs = <<>> \/ specTags(s, specs) = {})
  <2>1. s.Focused \in WindowID /\ specTags(s, specs) \in SUBSET ViewName
    BY <1>2, FocusedTagsType, SpecTagsType DEF Clean
  <2>2. KeepsShown(s, Retag(s, specTags(s, specs), order))
    BY <2>1, RetagKeeps
  <2> QED BY <1>2, <2>2 DEF TagSpec
<1> QED BY <1>1, <1>2

LEMMA FocusShownWindowKeeps ==
  ASSUME NEW s, Clean(s), NEW id, NEW n \in ShownTags(s, id), NEW m \in ViewName, m = n
  PROVE  KeepsShown(s, FocusShownWindow(s, id, n))
<1> DEFINE t == [s EXCEPT !.FocusOutput = outputShowing(s, n)]
           w == focusWindow(t.Views[n], id)
           u == [t EXCEPT !.Views = [t.Views EXCEPT ![n] = w]]
<1>1. outputShowing(s, n) \in Nat /\ s \in State
  BY OutputShowingType DEF ShownTags, Clean
<1>2. Clean(t) /\ t \in State
  <2>1. <<>> \in Seq(Output)
    OBVIOUS
  <2> QED BY <1>1, <2>1, SetOutputsType DEF Clean
<1>3. t.Outputs = s.Outputs /\ t.viewIndex = s.viewIndex
  BY <1>1 DEF State
<1>4. FocusShownWindow(s, id, n) = refocus(IF exists(s, n) THEN u ELSE t)
  BY DEF FocusShownWindow
<1>5. exists(s, n) <=> exists(t, n)
  BY <1>3 DEF exists
<1> HIDE DEF t
<1>6. w \in View
  BY <1>2, FocusWindowType DEF Clean, State
<1>7. exists(t, n) => Clean(u)
  <2> HIDE DEF w
  <2> QED BY <1>2, <1>6, SetViewType
<1>8. u.Outputs = t.Outputs /\ u.viewIndex = t.viewIndex
  <2> HIDE DEF w
  <2> QED BY <1>2 DEF State
<1> HIDE DEF u
<1>9. KeepsShown(s, t) /\ KeepsShown(s, u)
  BY <1>3, <1>8, SamePlacesKept
<1>10. CASE exists(s, n)
  BY <1>4, <1>5, <1>7, <1>9, <1>10, RefocusKeeps, KeepsShownTransitive
<1>11. CASE ~exists(s, n)
  BY <1>2, <1>4, <1>9, <1>11, RefocusKeeps, KeepsShownTransitive
<1> QED BY <1>10, <1>11

-----------------------------------------------------------------------------
(* The operations that change what the outputs show.                       *)

\* Selecting a view swaps: the views shown, output by output.
LEMMA SelectedOutputsViews ==
  ASSUME NEW s \in State, s.Outputs # <<>>, NEW n \in ViewName, activeName(s) # n
  PROVE  /\ DOMAIN SelectedOutputs(s, n) = DOMAIN s.Outputs
         /\ \A i \in DOMAIN s.Outputs :
              SelectedOutputs(s, n)[i].View =
                IF i = activeOutput(s) THEN n
                ELSE IF s.Outputs[i].View = n /\ i = outputShowing(s, n) THEN activeName(s)
                ELSE s.Outputs[i].View
<1> DEFINE a == activeOutput(s)
           b == outputShowing(s, n)
           outs == s.Outputs
           given == [outs EXCEPT ![b] = [outs[b] EXCEPT !.View = outs[a].View]]
<1>1. /\ DOMAIN outs = 1..Len(outs) /\ a \in DOMAIN outs /\ outs \in Seq(Output)
      /\ \A i \in DOMAIN outs : outs[i] \in Output
  BY OutputsTyped, ActiveOutputType
<1>2. ASSUME NEW o \in Output, NEW m PROVE [o EXCEPT !.View = m].View = m
  BY DEF Output
<1>3. outs[a].View = activeName(s) /\ outs[a].View # n
  BY DEF activeName
<1>4. CASE Showing(s, n) # {}
  <2>1. b \in DOMAIN outs /\ outs[b].View = n /\ a # b
    BY <1>1, <1>3, <1>4, OutputShowingType
  <2>2. SelectedOutputs(s, n) = [given EXCEPT ![a] = [given[a] EXCEPT !.View = n]]
    BY <1>4 DEF SelectedOutputs
  <2>3. given[a] = outs[a]
    BY <1>1, <2>1
  <2>4. [outs[a] EXCEPT !.View = n].View = n
    BY <1>1, <1>2
  <2>5. [outs[b] EXCEPT !.View = outs[a].View].View = outs[a].View
    BY <1>1, <1>2, <2>1
  <2>6. DOMAIN given = DOMAIN outs /\ \A i \in DOMAIN outs :
          given[i].View = IF i = b THEN outs[a].View ELSE outs[i].View
    BY <2>1, <2>5
  <2> HIDE DEF given, a, b
  <2>7. /\ DOMAIN SelectedOutputs(s, n) = DOMAIN outs
        /\ \A i \in DOMAIN outs : SelectedOutputs(s, n)[i].View = IF i = a THEN n ELSE given[i].View
    BY <1>1, <2>2, <2>3, <2>4, <2>6
  <2> QED BY <1>3, <2>1, <2>6, <2>7 DEF a, b
<1>5. CASE Showing(s, n) = {}
  <2>1. SelectedOutputs(s, n) = [outs EXCEPT ![a] = [outs[a] EXCEPT !.View = n]]
    BY <1>5 DEF SelectedOutputs
  <2>2. \A i \in DOMAIN outs : outs[i].View # n
    BY <1>5 DEF Showing
  <2>3. [outs[a] EXCEPT !.View = n].View = n
    BY <1>1, <1>2
  <2> HIDE DEF a
  <2>4. /\ DOMAIN SelectedOutputs(s, n) = DOMAIN outs
        /\ \A i \in DOMAIN outs :
             SelectedOutputs(s, n)[i].View = IF i = a THEN n ELSE outs[i].View
    BY <1>1, <2>1, <2>3
  <2> QED BY <2>2, <2>4 DEF a
<1> QED BY <1>4, <1>5

LEMMA SelectViewDistinct ==
  ASSUME NEW s, Clean(s), Distinct(s), NEW n \in ViewName
  PROVE  Distinct(SelectView(s, n))
<1> DEFINE a    == activeOutput(s)
           outs == SelectedOutputs(s, n)
           t    == ensureView(s, n)
           x    == [t EXCEPT !.Outputs = outs, !.FocusOutput = a]
<1>1. s \in State
  BY DEF Clean
<1>2. CASE s.Outputs = <<>>
  BY <1>2 DEF SelectView
<1>3. CASE s.Outputs # <<>> /\ activeName(s) = n
  BY <1>1, <1>3, RefocusKeeps, KeptDistinct DEF SelectView
<1>4. CASE s.Outputs # <<>> /\ activeName(s) # n
  <2>1. SelectView(s, n) = refocus(gcViews(x))
    BY <1>4 DEF SelectView, SelectedOutputs
  <2>2. outs \in Seq(Output) /\ a \in Nat /\ a \in DOMAIN s.Outputs
    BY <1>1, <1>4, SelectedOutputsType, ActiveOutputType, OutputsTyped
  <2>3. Clean(t) /\ t \in State /\ \A m \in ViewName : exists(s, m) \/ m = n => exists(t, m)
    BY EnsureViewType DEF Clean
  <2>13. Ranked(t)
    BY EnsureViewRanked DEF Distinct
  <2>4. DOMAIN outs = DOMAIN s.Outputs /\ \A i \in DOMAIN s.Outputs :
          outs[i].View = IF i = a THEN n
                         ELSE IF s.Outputs[i].View = n /\ i = outputShowing(s, n) THEN s.Outputs[a].View
                         ELSE s.Outputs[i].View
    BY <1>1, <1>4, SelectedOutputsViews DEF activeName
  <2>5. \A i \in DOMAIN s.Outputs :
          s.Outputs[i].View = n => i = outputShowing(s, n)
    <3>1. ASSUME NEW i \in DOMAIN s.Outputs, s.Outputs[i].View = n
          PROVE  i = outputShowing(s, n)
      <4>1. Showing(s, n) # {}
        BY <3>1 DEF Showing
      <4>2. outputShowing(s, n) \in DOMAIN s.Outputs /\ s.Outputs[outputShowing(s, n)].View = n
        BY <1>1, <4>1, OutputShowingType, OutputsTyped
      <4> QED BY <3>1, <4>2 DEF Distinct
    <3> QED BY <3>1
  <2>6. \A i \in DOMAIN s.Outputs : exists(s, s.Outputs[i].View) /\ s.Outputs[i].View \in ViewName
    BY <1>1, OutputsTyped DEF Distinct
  <2> HIDE DEF t, outs, a
  <2>7. Clean(x) /\ x.Outputs = outs /\ x.viewIndex = t.viewIndex
    <3>1. Clean(x)
      BY <2>2, <2>3, SetOutputsType
    <3> QED BY <2>3, <3>1 DEF State
  <2>8. \A m \in ViewName : exists(x, m) <=> exists(t, m)
    BY <2>7 DEF exists
  <2> HIDE DEF x
  <2>9. \A i \in DOMAIN outs : outs[i].View \in ViewName /\ exists(x, outs[i].View)
    BY <2>2, <2>3, <2>4, <2>6, <2>8
  <2>10. \A i, j \in DOMAIN outs : outs[i].View = outs[j].View => i = j
    BY <2>2, <2>4, <2>5 DEF Distinct
  <2>11. Distinct(x)
    <3>1. Ranked(x)
      BY <2>7, <2>13, SameRanked
    <3> QED BY <2>7, <2>9, <2>10, <3>1 DEF Distinct
  <2>12. Clean(gcViews(x)) /\ Distinct(gcViews(x))
    BY <2>7, <2>11, GcViewsType, GcViewsKeeps, KeptDistinct DEF Clean
  <2> QED BY <2>1, <2>12, RefocusKeeps, KeptDistinct DEF Clean
<1> QED BY <1>2, <1>3, <1>4

LEMMA AddOutputDistinct ==
  ASSUME NEW s, Clean(s), Distinct(s), CanAddOutput(s), NEW o \in OutputName
  PROVE  Distinct(AddOutput(s, o))
<1>1. s \in State
  BY DEF Clean
<1>2. CASE \E i \in DOMAIN s.Outputs : s.Outputs[i].Name = o
  BY <1>2 DEF AddOutput
<1>3. CASE ~ \E i \in DOMAIN s.Outputs : s.Outputs[i].Name = o
  <2> DEFINE n    == AddedView(s)
             t    == ensureView(s, n)
             new  == [Name |-> o, View |-> n]
             outs == Append(t.Outputs, new)
             x    == [t EXCEPT !.Outputs = outs]
  <2>1. n \in ViewName /\ (~exists(s, n) \/ Showing(s, n) = {})
    BY <1>1, AddedViewType
  <2>2. \A i \in DOMAIN s.Outputs : s.Outputs[i].View # n
    BY <2>1 DEF Showing, Distinct
  <2>3. /\ Clean(t) /\ t \in State /\ t.Outputs = s.Outputs
        /\ \A m \in ViewName : exists(s, m) \/ m = n => exists(t, m)
    BY <2>1, EnsureViewType DEF Clean
  <2>14. Ranked(t)
    BY <2>1, EnsureViewRanked DEF Distinct
  <2>4. new \in Output /\ new.View = n
    BY <2>1 DEF Output
  <2> HIDE DEF new
  <2>5. /\ outs \in Seq(Output) /\ Len(outs) = Len(s.Outputs) + 1
        /\ \A i \in 1..Len(s.Outputs) : outs[i] = s.Outputs[i]
        /\ outs[Len(s.Outputs) + 1] = new
    BY <1>1, <2>3, <2>4, OutputsTyped, AppendProperties
  <2>6. AddOutput(s, o) = refocus(x)
    BY <1>3 DEF AddOutput, AddedView, new
  <2>7. DOMAIN s.Outputs = 1..Len(s.Outputs) /\ Len(s.Outputs) \in Nat
        /\ \A i \in DOMAIN s.Outputs : exists(s, s.Outputs[i].View) /\ s.Outputs[i].View \in ViewName
    <3>1. s.Outputs \in Seq(Output) /\ DOMAIN s.Outputs = 1..Len(s.Outputs) /\ Len(s.Outputs) \in Nat
      BY <1>1, OutputsTyped
    <3>2. \A i \in DOMAIN s.Outputs : exists(s, s.Outputs[i].View) /\ s.Outputs[i].View \in ViewName
      BY <1>1, OutputsTyped DEF Distinct
    <3> QED BY <3>1, <3>2
  <2> HIDE DEF t, n, outs
  <2>8. DOMAIN outs = 1..Len(s.Outputs) + 1
    BY <2>5, <2>7
  <2>9. Clean(x) /\ x.Outputs = outs /\ x.viewIndex = t.viewIndex
    <3>1. Clean(x)
      BY <2>3, <2>5, SetOutputsType
    <3> QED BY <2>3, <3>1 DEF State
  <2> HIDE DEF x
  <2>10. /\ outs[Len(s.Outputs) + 1].View = n
         /\ \A i \in 1..Len(s.Outputs) : outs[i].View = s.Outputs[i].View /\ outs[i].View # n
    BY <2>2, <2>4, <2>5, <2>7
  <2>11. \A i \in 1..Len(s.Outputs) + 1 : exists(x, outs[i].View)
    <3>1. \A m \in ViewName : exists(x, m) <=> exists(t, m)
      BY <2>9 DEF exists
    <3>2. exists(x, n)
      BY <2>1, <2>3, <3>1
    <3>3. \A i \in 1..Len(s.Outputs) : exists(x, s.Outputs[i].View)
      BY <2>3, <2>7, <3>1
    <3> SUFFICES ASSUME NEW i \in 1..Len(s.Outputs) + 1
                 PROVE  exists(x, outs[i].View)
      OBVIOUS
    <3>4. CASE i = Len(s.Outputs) + 1
      BY <2>10, <3>2, <3>4
    <3>5. CASE i # Len(s.Outputs) + 1
      <4>1. i \in 1..Len(s.Outputs)
        BY <2>7, <3>5
      <4>2. exists(x, s.Outputs[i].View) /\ outs[i].View = s.Outputs[i].View
        BY <2>10, <3>3, <4>1
      <4> QED BY <4>2
    <3> QED BY <3>4, <3>5
  <2>12. \A i, j \in 1..Len(s.Outputs) + 1 : outs[i].View = outs[j].View => i = j
    <3>1. \A i, j \in 1..Len(s.Outputs) : s.Outputs[i].View = s.Outputs[j].View => i = j
      BY <2>7 DEF Distinct
    <3> SUFFICES ASSUME NEW i \in 1..Len(s.Outputs) + 1, NEW j \in 1..Len(s.Outputs) + 1,
                        outs[i].View = outs[j].View
                 PROVE  i = j
      OBVIOUS
    <3>2. \A k \in 1..Len(s.Outputs) + 1 : k \in 1..Len(s.Outputs) \/ k = Len(s.Outputs) + 1
      BY <2>7
    <3>3. CASE i = Len(s.Outputs) + 1
      BY <2>10, <3>2, <3>3
    <3>4. CASE j = Len(s.Outputs) + 1
      BY <2>10, <3>2, <3>4
    <3>5. CASE i \in 1..Len(s.Outputs) /\ j \in 1..Len(s.Outputs)
      <4>1. s.Outputs[i].View = s.Outputs[j].View
        BY <2>10, <3>5
      <4> QED BY <3>1, <3>5, <4>1
    <3> QED BY <3>2, <3>3, <3>4, <3>5
  <2>13. Distinct(x)
    <3>1. Ranked(x)
      BY <2>9, <2>14, SameRanked
    <3> QED BY <2>8, <2>9, <2>11, <2>12, <3>1 DEF Distinct
  <2> QED BY <2>6, <2>9, <2>13, RefocusKeeps, KeptDistinct DEF Clean
<1> QED BY <1>2, <1>3

LEMMA RemoveOutputDistinct ==
  ASSUME NEW s, Clean(s), Distinct(s), NEW o
  PROVE  Distinct(RemoveOutput(s, o))
<1> DEFINE at   == {i \in DOMAIN s.Outputs : s.Outputs[i].Name = o}
           outs == IF at = {} THEN s.Outputs ELSE RemoveAt(s.Outputs, Least(at))
           k    == Clamped(s.FocusOutput, Len(outs))
           x    == [s EXCEPT !.Outputs = outs, !.FocusOutput = k]
<1>1. s \in State /\ s.Outputs \in Seq(Output) /\ s.FocusOutput \in Nat
  BY DEF Clean, State
<1>2. /\ outs \in Seq(Output)
      /\ \A i, j \in DOMAIN outs : outs[i].View = outs[j].View => i = j
      /\ \A i \in DOMAIN outs : exists(s, outs[i].View)
  <2>1. CASE at # {}
    <3> DEFINE r == Least(at)
    <3>1. r \in 1..Len(s.Outputs)
      <4>1. at \subseteq 1..Len(s.Outputs) /\ at \subseteq Nat
        BY <1>1
      <4> QED BY <2>1, <4>1, LeastType
    <3>2. outs = RemoveAt(s.Outputs, r)
      BY <2>1
    <3> HIDE DEF r, outs
    <3>3. /\ outs \in Seq(Output) /\ Len(outs) = Len(s.Outputs) - 1
          /\ \A j \in 1..Len(s.Outputs) - 1 :
               outs[j] = IF j < r THEN s.Outputs[j] ELSE s.Outputs[j + 1]
      BY <1>1, <3>1, <3>2, RemoveAtType
    <3>4. Len(s.Outputs) \in Nat /\ DOMAIN s.Outputs = 1..Len(s.Outputs)
      BY <1>1
    <3>5. DOMAIN outs = 1..Len(s.Outputs) - 1
      BY <3>3
    <3>6. \A i \in DOMAIN outs : \E p \in DOMAIN s.Outputs :
            p = (IF i < r THEN i ELSE i + 1) /\ outs[i] = s.Outputs[p]
      BY <3>1, <3>3, <3>4, <3>5
    <3>7. \A i, j \in DOMAIN outs : outs[i].View = outs[j].View =>
            (IF i < r THEN i ELSE i + 1) = (IF j < r THEN j ELSE j + 1)
      BY <3>6 DEF Distinct
    <3>8. \A i, j \in DOMAIN outs : outs[i].View = outs[j].View => i = j
      BY <3>1, <3>4, <3>5, <3>7
    <3>9. \A i \in DOMAIN outs : exists(s, outs[i].View)
      BY <3>6 DEF Distinct
    <3> QED BY <3>3, <3>8, <3>9
  <2>2. CASE at = {}
    BY <1>1, <2>2 DEF Distinct
  <2> QED BY <2>1, <2>2
<1>3. k \in Nat
  <2> HIDE DEF outs
  <2>1. Len(outs) \in Nat
    BY <1>2
  <2> QED BY <1>1, <2>1, ClampedType
<1>4. RemoveOutput(s, o) = refocus(gcViews(x))
  BY DEF RemoveOutput
<1> HIDE DEF outs, k
<1>5. Clean(x) /\ x.Outputs = outs /\ x.viewIndex = s.viewIndex
  <2>1. Clean(x)
    BY <1>2, <1>3, SetOutputsType
  <2> QED BY <1>1, <2>1 DEF State
<1> HIDE DEF x
<1>6. Distinct(x)
  <2>1. Ranked(x)
    BY <1>5, SameRanked DEF Distinct
  <2> QED BY <1>2, <1>5, <2>1 DEF Distinct, exists
<1>7. Clean(gcViews(x)) /\ Distinct(gcViews(x))
  BY <1>5, <1>6, GcViewsType, GcViewsKeeps, KeptDistinct DEF Clean
<1> QED BY <1>4, <1>7, RefocusKeeps, KeptDistinct DEF Clean

LEMMA RenameOutputDistinct ==
  ASSUME NEW s, Clean(s), Distinct(s), NEW old, NEW new
  PROVE  Distinct(RenameOutput(s, old, new))
<1> DEFINE at   == {i \in DOMAIN s.Outputs : s.Outputs[i].Name = old}
           r    == Least(at)
           outs == [s.Outputs EXCEPT ![r] = [s.Outputs[r] EXCEPT !.Name = new]]
           x    == [s EXCEPT !.Outputs = outs]
<1>1. CASE at = {}
  BY <1>1 DEF RenameOutput
<1>2. CASE at # {}
  <2>1. s \in State /\ \A i \in DOMAIN s.Outputs : s.Outputs[i] \in Output
    BY OutputsTyped DEF Clean
  <2>2. \A p \in Output : [p EXCEPT !.Name = new].View = p.View
    BY DEF Output
  <2>3. RenameOutput(s, old, new) = x
    BY <1>2 DEF RenameOutput
  <2> HIDE DEF r
  <2>4. DOMAIN outs = DOMAIN s.Outputs /\ \A i \in DOMAIN outs : outs[i].View = s.Outputs[i].View
    BY <2>1, <2>2
  <2> HIDE DEF outs
  <2>5. x.Outputs = outs /\ x.viewIndex = s.viewIndex
    BY <2>1 DEF State
  <2> HIDE DEF x
  <2>6. Ranked(x)
    BY <2>5, SameRanked DEF Distinct
  <2> QED BY <2>3, <2>4, <2>5, <2>6 DEF Distinct, exists
<1> QED BY <1>1, <1>2

LEMMA FocusHiddenWindowDistinct ==
  ASSUME NEW s, Clean(s), Distinct(s), NEW id \in WindowID, s.Tags[id] # {}
  PROVE  Distinct(FocusHiddenWindow(s, id))
<1> DEFINE n == Least(s.Tags[id])
           t == SelectView(s, n)
           w == focusWindow(activeView(t), id)
<1>1. n \in ViewName
  <2>1. s.Tags[id] \subseteq ViewName /\ ViewName \subseteq Nat
    BY StateAssumption DEF Clean, State
  <2> QED BY <2>1, LeastType
<1>2. Clean(t) /\ Distinct(t) /\ t \in State
  BY <1>1, SelectViewType, SelectViewDistinct DEF Clean
<1>3. FocusHiddenWindow(s, id) =
        refocus(IF hasActiveView(t) /\ contains(activeView(t), id)
                THEN OnActiveView(t, w) ELSE t)
  BY DEF FocusHiddenWindow
<1> HIDE DEF t, w
<1>4. Distinct(refocus(OnActiveView(t, w))) /\ Distinct(refocus(t))
  BY <1>2, ActiveViewWorkKeeps, RefocusKeeps, KeptDistinct
<1> QED BY <1>3, <1>4

-----------------------------------------------------------------------------
(* The invariant.                                                          *)

LEMMA StepDistinct ==
  ASSUME Clean(wm), Distinct(wm), Next
  PROVE  Distinct(wm)'
<1>1. wm \in State
  BY DEF Clean
<1>2. ASSUME NEW t, KeepsShown(wm, t) PROVE Distinct(t)
  BY <1>1, <1>2, KeptDistinct
<1>3. CASE OutputAppears
  BY <1>3, AddOutputDistinct DEF OutputAppears, CanAddOutput
<1>4. CASE OutputVanishes
  BY <1>4, RemoveOutputDistinct DEF OutputVanishes
<1>5. CASE OutputRenamed
  BY <1>5, RenameOutputDistinct DEF OutputRenamed
<1>6. CASE WindowOpens
  <2>1. PICK id \in WindowID, floating \in BOOLEAN, order \in CreationOrders(wm, defaultTags(wm)) :
          /\ FreeNames(wm) # {} \/ FocusedTags(wm) # {} \/ hasActiveView(wm)
          /\ wm' = AddWindow(wm, id, floating, defaultTags(wm), order)
    BY <1>6 DEF WindowOpens
  <2>2. defaultTags(wm) \in SUBSET ViewName
    BY <1>1, <2>1, DefaultTagsType
  <2> QED BY <1>2, <2>1, <2>2, AddWindowKeeps
<1>7. CASE WindowReturns
  <2>1. PICK id \in WindowID, floating \in BOOLEAN, tags \in SUBSET ViewName :
          \E order \in CreationOrders(wm, tags) :
            wm' = AddWindow(wm, id, floating, tags, order)
    BY <1>7 DEF WindowReturns
  <2> QED BY <1>2, <2>1, AddWindowKeeps
<1>8. CASE WindowCloses
  BY <1>2, <1>8, RemoveWindowKeeps DEF WindowCloses
<1>9. CASE TabSwitches
  BY <1>2, <1>9, ReplaceAndSpreadKeep DEF TabSwitches
<1>10. CASE StartupSpreads
  BY <1>2, <1>10, ReplaceAndSpreadKeep DEF StartupSpreads
<1>11. CASE FocusesWindow
  <2>1. PICK id \in WindowID :
          /\ Managed(wm, id)
          /\ IF ShownTags(wm, id) # {}
             THEN \E n \in ShownTags(wm, id) : wm' = FocusShownWindow(wm, id, n)
             ELSE wm' = FocusHiddenWindow(wm, id)
    BY <1>11 DEF FocusesWindow
  <2>2. ShownTags(wm, id) \subseteq ViewName
    BY <1>1 DEF ShownTags, State
  <2>3. CASE ShownTags(wm, id) # {}
    BY <1>2, <2>1, <2>2, <2>3, FocusShownWindowKeeps
  <2>4. CASE ShownTags(wm, id) = {}
    BY <2>1, <2>4, FocusHiddenWindowDistinct DEF Managed
  <2> QED BY <2>3, <2>4
<1>12. CASE Command
  <2>1. CASE CmdFocus
    BY <1>2, <2>1, ViewCommandsKeep DEF CmdFocus
  <2>2. CASE CmdFocusToggleLayer
    BY <1>2, <2>2, ViewCommandsKeep DEF CmdFocusToggleLayer
  <2>3. CASE CmdFocusOutput
    BY <1>2, <2>3, CycleOutputKeeps DEF CmdFocusOutput
  <2>4. CASE CmdMove
    BY <1>2, <2>4, ViewCommandsKeep DEF CmdMove
  <2>5. CASE CmdToggleFloat
    BY <1>2, <2>5, ViewCommandsKeep DEF CmdToggleFloat
  <2>6. CASE CmdFullscreen
    BY <1>2, <2>6, ViewCommandsKeep DEF CmdFullscreen
  <2>7. CASE CmdMode
    BY <1>2, <2>7, ViewCommandsKeep DEF CmdMode
  <2>8. CASE CmdView
    BY <2>8, SelectViewDistinct DEF CmdView
  <2>9. CASE CmdViewCycle
    BY <1>1, <2>9, CycleViewStops, SelectViewDistinct DEF CmdViewCycle
  <2>10. CASE CmdViewN
    <3>1. PICK n \in ViewName : wm' = SelectView(ensureView(wm, n), n)
      BY <2>10 DEF CmdViewN, SelectViewN
    <3>2. Clean(ensureView(wm, n)) /\ KeepsShown(wm, ensureView(wm, n))
      BY EnsureViewType, EnsureViewKeeps
    <3> QED BY <1>2, <3>1, <3>2, SelectViewDistinct
  <2>11. CASE CmdMoveTo
    BY <1>2, <2>11, MoveToViewKeeps DEF CmdMoveTo
  <2>12. CASE CmdMoveToN
    BY <1>2, <2>12, MoveToViewKeeps DEF CmdMoveToN
  <2>13. CASE CmdTag
    BY <1>2, <2>13, TagSpecKeeps DEF CmdTag
  <2> QED BY <1>12, <2>1, <2>2, <2>3, <2>4, <2>5, <2>6, <2>7, <2>8, <2>9, <2>10, <2>11,
              <2>12, <2>13 DEF Command
<1> QED BY <1>3, <1>4, <1>5, <1>6, <1>7, <1>8, <1>9, <1>10, <1>11, <1>12 DEF Next

\* Two outputs never show the same view, however outputs come and go and
\* whatever views are selected on them, and the view an output shows is never
\* collected.
THEOREM OutputsAlwaysShowDistinctViews == Spec => []OutputsShowDistinctViews
<1>1. Init => Clean(wm) /\ Distinct(wm)
  <2>1. Distinct(NewState)
    BY DEF NewState, Distinct, Ranked, ViewSet, exists
  <2> QED BY <2>1, CleanNewState DEF Init
<1>2. Clean(wm) /\ Distinct(wm) /\ [Next]_wm => (Clean(wm) /\ Distinct(wm))'
  <2> SUFFICES ASSUME Clean(wm), Distinct(wm), [Next]_wm PROVE (Clean(wm) /\ Distinct(wm))'
    OBVIOUS
  <2>1. CASE Next
    BY <2>1, StepClean, StepDistinct
  <2>2. CASE UNCHANGED wm
    BY <2>2 DEF Clean, Distinct, Ranked, ViewSet, exists
  <2> QED BY <2>1, <2>2
<1>3. Distinct(wm) => OutputsShowDistinctViews
  BY DEF Distinct, OutputsShowDistinctViews
<1> QED BY <1>1, <1>2, <1>3, PTL DEF Spec

-----------------------------------------------------------------------------
(* Windows, markers and focus.                                             *)

Carrying(tags, n) == {id \in WindowID : n \in tags[id]}

Carried(s, n) == Carrying(s.Tags, n)

\* Every view is sound and holds the windows that carry its tag.
Fits(views, tags) ==
  \A n \in ViewName : Sound(views[n]) /\ WindowsOf(views[n]) = Carrying(tags, n)

Arranged(s) == Fits(s.Views, s.Tags)

\* A name without a view has no remains of one.
NoRemains(s, views) == \A n \in ViewName : ~exists(s, n) => views[n] = NewView

\* A state whose active output and focus may still have to be computed.
Tidy(s) == Clean(s) /\ Arranged(s) /\ (s.Outputs = <<>> => s.FocusOutput = 1)

\* A state between two operations.
Settled(s) ==
  /\ Tidy(s)
  /\ s.FocusOutput = activeOutput(s)
  /\ s.Focused = IF s.Outputs = <<>> THEN NoWindow ELSE focusedWindow(activeView(s))

\* t differs from s in its focus only.
SameButFocus(s, t) ==
  /\ t.viewIndex = s.viewIndex /\ t.Views = s.Views
  /\ t.Outputs = s.Outputs /\ t.Tags = s.Tags

\* t differs from s at most in which views exist.
SameButViews(s, t) ==
  /\ t.Views = s.Views /\ t.Outputs = s.Outputs /\ t.Tags = s.Tags
  /\ t.Focused = s.Focused /\ t.FocusOutput = s.FocusOutput

\* The focused window of w is that of v if they hold the same windows.
SameFocus(v, w) == WindowsOf(w) = WindowsOf(v) => focusedWindow(w) = focusedWindow(v)

\* No view changes its focus while its windows stay.
Undisturbed(s, r) == \A n \in ViewName : SameFocus(s.Views[n], r.Views[n])

\* None but the active view does.
ActiveOnly(s, r) ==
  \A n \in ViewName :
    SameFocus(s.Views[n], r.Views[n]) \/ (hasActiveView(s) /\ n = activeName(s))

\* A view is kept, or nothing is left of it.
KeptOrGone(s, r) == \A n \in ViewName : r.Views[n] = s.Views[n] \/ r.Views[n] = NewView

\* No view is both empty and hidden.
Swept(r) == \A n \in ViewName : exists(r, n) => ~empty(r.Views[n]) \/ Showing(r, n) # {}

LEMMA TidyParts ==
  ASSUME NEW s, Tidy(s)
  PROVE  /\ s \in State /\ s = [s EXCEPT !.Views = s.Views]
         /\ \A n \in ViewName : Sound(s.Views[n]) /\ s.Views[n] \in View
         /\ \A n \in ViewName : WindowsOf(s.Views[n]) = Carried(s, n)
BY DEF Tidy, Clean, Arranged, Fits, Carried, Sound, State

LEMMA UndisturbedByNothing ==
  ASSUME NEW s, NEW r, r.Views = s.Views
  PROVE  Undisturbed(s, r) /\ ActiveOnly(s, r)
BY DEF Undisturbed, ActiveOnly, SameFocus

\* A view without windows has no focus, before and after it is dropped.
LEMMA UndisturbedByLosses ==
  ASSUME NEW s, Tidy(s), NEW x, Undisturbed(s, x), NEW r, KeptOrGone(x, r)
  PROVE  Undisturbed(s, r)
<1> SUFFICES ASSUME NEW n \in ViewName, WindowsOf(r.Views[n]) = WindowsOf(s.Views[n])
             PROVE  focusedWindow(r.Views[n]) = focusedWindow(s.Views[n])
  BY DEF Undisturbed, SameFocus
<1>1. CASE r.Views[n] = x.Views[n]
  BY <1>1 DEF Undisturbed, SameFocus
<1>2. CASE r.Views[n] = NewView
  <2>1. Sound(s.Views[n]) /\ Sound(NewView) /\ WindowsOf(NewView) = {}
    BY TidyParts, NewViewSound
  <2>2. focusedWindow(NewView) = NoWindow
    BY <2>1, FocusedIsThere
  <2>3. focusedWindow(s.Views[n]) = NoWindow
    BY <1>2, <2>1, FocusedIsThere
  <2> QED BY <1>2, <2>2, <2>3
<1> QED BY <1>1, <1>2 DEF KeptOrGone

\* With all outputs on views that exist, there is an active view when there is
\* an output.
LEMMA ActiveViewExists ==
  ASSUME NEW s \in State, Distinct(s)
  PROVE  hasActiveView(s) <=> s.Outputs # <<>>
<1>1. s.Outputs # <<>> => activeOutput(s) \in DOMAIN s.Outputs
  BY ActiveOutputType DEF State
<1> QED BY <1>1 DEF hasActiveView, activeName, Distinct

\* A tag that is carried has a view.
LEMMA CarriedExist ==
  ASSUME NEW s, Tidy(s), NEW n \in ViewName, Carried(s, n) # {}
  PROVE  exists(s, n)
<1>1. WindowsOf(s.Views[n]) # {}
  BY TidyParts
<1>2. s.Views[n] # NewView
  BY <1>1, NewViewSound
<1> QED BY <1>2 DEF Tidy, Clean

\* refocus takes the focus from the markers and changes nothing else.
LEMMA RefocusIs ==
  ASSUME NEW s, Tidy(s)
  PROVE  refocus(s) = IF hasActiveView(s)
                      THEN [s EXCEPT !.Focused = focusedWindow(activeView(s)),
                                     !.FocusOutput = activeOutput(s)]
                      ELSE [s EXCEPT !.Focused = NoWindow]
<1>1. s \in State
  BY TidyParts
<1>2. CASE hasActiveView(s)
  <2>1. activeName(s) \in ViewName
    BY <1>1, <1>2, ActiveViewType
  <2>2. Sound(activeView(s))
    BY <2>1, TidyParts DEF activeView
  <2>3. clampFocus(activeView(s)) = activeView(s)
    BY <2>2, ClampFocusIdle
  <2>4. [s.Views EXCEPT ![activeName(s)] = activeView(s)] = s.Views
    <3>1. s.Views \in [ViewName -> View]
      BY <1>1, StateFields
    <3> QED BY <2>1, <3>1 DEF activeView
  <2>5. refocus(s) = [s EXCEPT !.Views = [s.Views EXCEPT ![activeName(s)] = activeView(s)],
                               !.Focused = focusedWindow(activeView(s)),
                               !.FocusOutput = activeOutput(s)]
    BY <1>2, <2>3 DEF refocus
  <2> DEFINE f == focusedWindow(activeView(s))
             o == activeOutput(s)
  <2> HIDE DEF f, o
  <2>6. [s EXCEPT !.Views = s.Views, !.Focused = f, !.FocusOutput = o]
          = [s EXCEPT !.Focused = f, !.FocusOutput = o]
    BY <1>1 DEF State
  <2>7. refocus(s) = [s EXCEPT !.Focused = f, !.FocusOutput = o]
    BY <2>4, <2>5, <2>6, Zenon DEF f, o
  <2> QED BY <1>2, <2>7, Zenon DEF f, o
<1>3. CASE ~hasActiveView(s)
  BY <1>3 DEF refocus
<1> QED BY <1>2, <1>3

LEMMA FocusMoved ==
  ASSUME NEW s, Tidy(s), NEW t, SameButFocus(s, t), t \in State,
         t.Outputs = <<>> => t.FocusOutput = 1
  PROVE  Tidy(t)
BY DEF Tidy, Clean, Arranged, Fits, SameButFocus, exists

LEMMA RefocusSettles ==
  ASSUME NEW s, Tidy(s), Distinct(refocus(s))
  PROVE  /\ Settled(refocus(s)) /\ SameButFocus(s, refocus(s))
         /\ refocus(s).FocusOutput = activeOutput(s)
<1> DEFINE r == refocus(s)
<1>1. s \in State /\ r \in State
  BY RefocusType DEF Tidy, Clean
<1>2. CASE hasActiveView(s)
  <2>1. r = [s EXCEPT !.Focused = focusedWindow(activeView(s)), !.FocusOutput = activeOutput(s)]
    BY <1>2, RefocusIs
  <2> HIDE DEF r
  <2>2. /\ SameButFocus(s, r) /\ r.FocusOutput = activeOutput(s)
        /\ r.Focused = focusedWindow(activeView(s))
    BY <1>1, <2>1 DEF SameButFocus, State
  <2>3. s.Outputs # <<>>
    BY <1>2 DEF hasActiveView
  <2>4. Tidy(r)
    BY <1>1, <2>2, <2>3, FocusMoved DEF SameButFocus
  <2>5. activeOutput(r) = activeOutput(s) /\ activeView(r) = activeView(s)
    <3>1. activeOutput(s) \in DOMAIN s.Outputs
      BY <1>1, <2>3, ActiveOutputType, OutputsTyped
    <3>2. activeOutput(r) = activeOutput(s)
      BY <2>2, <3>1 DEF activeOutput, SameButFocus
    <3> QED BY <2>2, <3>2 DEF activeView, activeName, SameButFocus
  <2>6. Settled(r)
    BY <2>2, <2>3, <2>4, <2>5 DEF Settled, SameButFocus
  <2> QED BY <2>2, <2>6 DEF r
<1>3. CASE ~hasActiveView(s)
  <2>1. r = [s EXCEPT !.Focused = NoWindow]
    BY <1>3, RefocusIs
  <2>2. Distinct(r)
    OBVIOUS
  <2> HIDE DEF r
  <2>3. SameButFocus(s, r) /\ r.FocusOutput = s.FocusOutput /\ r.Focused = NoWindow
    BY <1>1, <2>1 DEF SameButFocus, State
  <2>4. s.Outputs = <<>>
    <3>1. hasActiveView(r) <=> hasActiveView(s)
      BY <2>3 DEF hasActiveView, activeName, activeOutput, exists, SameButFocus
    <3> QED BY <1>1, <1>3, <2>2, <2>3, <3>1, ActiveViewExists DEF SameButFocus
  <2>5. s.FocusOutput = 1 /\ r.FocusOutput = 1 /\ activeOutput(s) = 1 /\ activeOutput(r) = 1
    BY <2>3, <2>4 DEF Tidy, activeOutput, SameButFocus
  <2>6. Tidy(r)
    BY <1>1, <2>3, <2>5, FocusMoved
  <2>7. Settled(r)
    BY <2>3, <2>4, <2>5, <2>6 DEF Settled, SameButFocus
  <2> QED BY <2>3, <2>5, <2>7 DEF r
<1> QED BY <1>2, <1>3

\* gcViews drops views that hold nothing.
LEMMA GcViewsTidy ==
  ASSUME NEW s, Tidy(s)
  PROVE  /\ Tidy(gcViews(s))
         /\ gcViews(s).Outputs = s.Outputs /\ gcViews(s).Tags = s.Tags
         /\ gcViews(s).FocusOutput = s.FocusOutput
         /\ activeOutput(gcViews(s)) = activeOutput(s)
         /\ KeptOrGone(s, gcViews(s)) /\ Swept(gcViews(s))
<1> DEFINE g == gcViews(s)
<1>1. /\ Clean(g) /\ Clean(s)
      /\ \A n \in ViewName : exists(g, n) <=>
              exists(s, n) /\ (~empty(s.Views[n]) \/ Showing(s, n) # {})
      /\ \A n \in ViewName : exists(g, n) => g.Views[n] = s.Views[n]
      /\ g.Outputs = s.Outputs /\ g.Tags = s.Tags /\ g.FocusOutput = s.FocusOutput
  BY GcViewsType DEF Tidy
<1> HIDE DEF g
<1>2. ASSUME NEW n \in ViewName
      PROVE  Sound(g.Views[n]) /\ WindowsOf(g.Views[n]) = Carried(g, n)
  <2>1. Sound(s.Views[n]) /\ WindowsOf(s.Views[n]) = Carried(s, n) /\ Carried(g, n) = Carried(s, n)
    BY <1>1, TidyParts DEF Carried
  <2>2. CASE exists(g, n)
    BY <1>1, <2>1, <2>2
  <2>3. CASE ~exists(g, n)
    <3>1. g.Views[n] = NewView
      BY <1>1, <2>3 DEF Clean
    <3>2. empty(s.Views[n])
      BY <1>1, <2>3, RemoveFromNewView DEF Clean
    <3>3. Carried(s, n) = {}
      BY <2>1, <3>2, EmptyView
    <3> QED BY <2>1, <3>1, <3>3, NewViewSound
  <2> QED BY <2>2, <2>3
<1>3. Tidy(g)
  BY <1>1, <1>2 DEF Tidy, Arranged, Fits, Carried
<1>4. activeOutput(g) = activeOutput(s)
  BY <1>1 DEF activeOutput
<1>5. KeptOrGone(s, g)
  BY <1>1 DEF KeptOrGone, Clean
<1>6. Swept(g)
  BY <1>1 DEF Swept, Showing
<1> QED BY <1>1, <1>3, <1>4, <1>5, <1>6 DEF g

LEMMA GcRefocusSettles ==
  ASSUME NEW s, Tidy(s), Distinct(refocus(gcViews(s)))
  PROVE  /\ Settled(refocus(gcViews(s)))
         /\ refocus(gcViews(s)).Outputs = s.Outputs
         /\ refocus(gcViews(s)).Tags = s.Tags
         /\ refocus(gcViews(s)).FocusOutput = activeOutput(s)
         /\ KeptOrGone(s, refocus(gcViews(s))) /\ Swept(refocus(gcViews(s)))
<1> DEFINE g == gcViews(s)
<1>1. /\ Tidy(g) /\ g.Outputs = s.Outputs /\ g.Tags = s.Tags /\ activeOutput(g) = activeOutput(s)
      /\ KeptOrGone(s, g) /\ Swept(g)
  BY GcViewsTidy
<1>2. Distinct(refocus(g))
  OBVIOUS
<1> HIDE DEF g
<1>3. /\ Settled(refocus(g)) /\ SameButFocus(g, refocus(g))
      /\ refocus(g).FocusOutput = activeOutput(g)
  BY <1>1, <1>2, RefocusSettles
<1>4. KeptOrGone(s, refocus(g)) /\ Swept(refocus(g))
  BY <1>1, <1>3 DEF KeptOrGone, Swept, Showing, exists, SameButFocus
<1> QED BY <1>1, <1>3, <1>4 DEF SameButFocus, g

-----------------------------------------------------------------------------
(* The operations leave settled states.                                    *)

\* Another arrangement of the windows of the active view.
LEMMA ReworkedTidy ==
  ASSUME NEW s, Tidy(s), hasActiveView(s),
         NEW w, Sound(w), WindowsOf(w) = WindowsOf(activeView(s))
  PROVE  /\ Tidy(OnActiveView(s, w))
         /\ OnActiveView(s, w).Outputs = s.Outputs /\ OnActiveView(s, w).Tags = s.Tags
         /\ OnActiveView(s, w).FocusOutput = s.FocusOutput
         /\ OnActiveView(s, w).Focused = s.Focused
         /\ activeOutput(OnActiveView(s, w)) = activeOutput(s)
         /\ activeView(OnActiveView(s, w)) = w
         /\ OnActiveView(s, w).viewIndex = s.viewIndex
         /\ \A n \in ViewName : n # activeName(s) => OnActiveView(s, w).Views[n] = s.Views[n]
<1> DEFINE a == activeName(s)
           views == [s.Views EXCEPT ![a] = w]
           t == OnActiveView(s, w)
<1>1. /\ Tidy(s) /\ Clean(s) /\ s \in State /\ w \in View
      /\ s.Views \in [ViewName -> View]
  BY TidyParts, StateFields DEF Tidy, Sound
<1>2. a \in ViewName
  BY <1>1, ActiveViewType
<1>3. t = [s EXCEPT !.Views = views]
  BY DEF OnActiveView
<1>4. Clean(t)
  BY <1>1, OnActiveViewType
<1>5. views \in [ViewName -> View] /\ \A n \in ViewName : views[n] = IF n = a THEN w ELSE s.Views[n]
  BY <1>1, <1>2
<1> HIDE DEF views, t
<1>6. /\ t.Views = views /\ t.Outputs = s.Outputs /\ t.Tags = s.Tags
      /\ t.FocusOutput = s.FocusOutput /\ t.Focused = s.Focused
  BY <1>1, <1>3 DEF State
<1>7. activeOutput(t) = activeOutput(s) /\ activeName(t) = a
  BY <1>6 DEF activeOutput, activeName
<1>8. activeView(t) = w
  BY <1>2, <1>5, <1>6, <1>7 DEF activeView
<1> HIDE DEF a
<1>9. Arranged(t)
  <2>1. ASSUME NEW n \in ViewName PROVE Carried(t, n) = Carried(s, n)
    BY <1>6 DEF Carried
  <2>2. ASSUME NEW n \in ViewName PROVE Sound(t.Views[n]) /\ WindowsOf(t.Views[n]) = Carried(s, n)
    <3>1. CASE n = a
      <4>1. t.Views[n] = w /\ s.Views[n] = activeView(s)
        BY <1>5, <1>6, <3>1 DEF a, activeView
      <4>2. WindowsOf(s.Views[n]) = Carried(s, n)
        BY <1>1, TidyParts
      <4> QED BY <4>1, <4>2
    <3>2. CASE n # a
      <4>1. t.Views[n] = s.Views[n]
        BY <1>5, <1>6, <3>2
      <4> QED BY <1>1, <4>1, TidyParts
    <3> QED BY <3>1, <3>2
  <2> QED BY <2>1, <2>2 DEF Arranged, Fits, Carried
<1>10. Tidy(t)
  BY <1>1, <1>4, <1>6, <1>9 DEF Tidy
<1>11. t.viewIndex = s.viewIndex /\ \A n \in ViewName : n # a => t.Views[n] = s.Views[n]
  BY <1>1, <1>3, <1>5, <1>6 DEF State
<1> QED BY <1>6, <1>7, <1>8, <1>10, <1>11 DEF t, a

LEMMA OnActiveViewTidy ==
  ASSUME NEW s, Settled(s), hasActiveView(s),
         NEW w, Sound(w), WindowsOf(w) = WindowsOf(activeView(s))
  PROVE  /\ Tidy(OnActiveView(s, w))
         /\ OnActiveView(s, w).Outputs = s.Outputs /\ OnActiveView(s, w).Tags = s.Tags
         /\ OnActiveView(s, w).FocusOutput = s.FocusOutput
         /\ OnActiveView(s, w).Focused = s.Focused
         /\ activeOutput(OnActiveView(s, w)) = activeOutput(s)
         /\ activeView(OnActiveView(s, w)) = w
         /\ OnActiveView(s, w).viewIndex = s.viewIndex
         /\ \A n \in ViewName : n # activeName(s) => OnActiveView(s, w).Views[n] = s.Views[n]
         /\ ActiveOnly(s, OnActiveView(s, w))
BY ReworkedTidy DEF Settled, ActiveOnly, SameFocus

\* What the commands on the active view do.
LEMMA ActiveViewWorkSettles ==
  ASSUME NEW s, Settled(s), Distinct(s), hasActiveView(s),
         NEW w, Sound(w), WindowsOf(w) = WindowsOf(activeView(s))
  PROVE  /\ Settled(refocus(OnActiveView(s, w)))
         /\ refocus(OnActiveView(s, w)).Outputs = s.Outputs
         /\ refocus(OnActiveView(s, w)).Tags = s.Tags
         /\ refocus(OnActiveView(s, w)).FocusOutput = s.FocusOutput
         /\ refocus(OnActiveView(s, w)).Focused = focusedWindow(w)
         /\ activeView(refocus(OnActiveView(s, w))) = w
         /\ refocus(OnActiveView(s, w)).viewIndex = s.viewIndex
         /\ \A n \in ViewName :
              n # activeName(s) => refocus(OnActiveView(s, w)).Views[n] = s.Views[n]
         /\ ActiveOnly(s, refocus(OnActiveView(s, w)))
<1> DEFINE t == OnActiveView(s, w)
           r == refocus(t)
<1>1. /\ Tidy(t) /\ t.Outputs = s.Outputs /\ t.Tags = s.Tags /\ t.FocusOutput = s.FocusOutput
      /\ activeOutput(t) = activeOutput(s) /\ activeView(t) = w
      /\ t.viewIndex = s.viewIndex /\ ActiveOnly(s, t)
      /\ \A n \in ViewName : n # activeName(s) => t.Views[n] = s.Views[n]
  BY OnActiveViewTidy
<1>2. Distinct(r)
  <2>1. s \in State
    BY TidyParts DEF Settled
  <2>2. KeepsShown(s, r)
    BY <2>1, ActiveViewWorkKeeps
  <2> QED BY <2>1, <2>2, KeptDistinct
<1> HIDE DEF t
<1>3. Settled(r) /\ SameButFocus(t, r) /\ r.FocusOutput = activeOutput(t)
  BY <1>1, <1>2, RefocusSettles
<1>4. r.Focused = focusedWindow(w) /\ activeView(r) = w
  <2>1. activeOutput(r) = activeOutput(t)
    BY <1>3 DEF Settled
  <2>2. activeView(r) = w
    BY <1>1, <1>3, <2>1 DEF activeView, activeName, SameButFocus
  <2>3. r.Outputs # <<>>
    BY <1>1, <1>3 DEF SameButFocus, hasActiveView
  <2> QED BY <1>3, <2>2, <2>3 DEF Settled
<1> HIDE DEF r
<1>5. r.FocusOutput = s.FocusOutput
  BY <1>1, <1>3 DEF Settled
<1>6. ActiveOnly(s, r)
  BY <1>1, <1>3 DEF ActiveOnly, SameButFocus
<1> QED BY <1>1, <1>3, <1>4, <1>5, <1>6 DEF SameButFocus, r, t

\* The active view, and the focus on it.
LEMMA ActiveViewParts ==
  ASSUME NEW s, Settled(s), hasActiveView(s)
  PROVE  /\ Sound(activeView(s)) /\ activeView(s) \in View
         /\ s.Focused = focusedWindow(activeView(s))
         /\ activeName(s) \in ViewName
         /\ WindowsOf(activeView(s)) = Carried(s, activeName(s))
<1>1. s \in State
  BY TidyParts DEF Settled
<1>2. activeName(s) \in ViewName
  BY <1>1, ActiveViewType
<1>3. s.Outputs # <<>>
  BY DEF hasActiveView
<1> QED BY <1>2, <1>3, TidyParts DEF Settled, activeView

\* Nothing but the arrangement of the active view and the focus changes.
Rearranges(s, r) ==
  /\ Settled(r)
  /\ r.Outputs = s.Outputs /\ r.Tags = s.Tags /\ r.FocusOutput = s.FocusOutput
  /\ ActiveOnly(s, r)

LEMMA RearrangesNothing ==
  ASSUME NEW s, Settled(s)
  PROVE  Rearranges(s, s)
BY UndisturbedByNothing DEF Rearranges

LEMMA ToggleLayerSettles ==
  ASSUME NEW s, Settled(s), Distinct(s)
  PROVE  Rearranges(s, FocusToggleLayer(s))
<1>1. CASE ~hasActiveView(s)
  BY <1>1, RearrangesNothing DEF FocusToggleLayer
<1>2. CASE hasActiveView(s)
  <2> DEFINE v == activeView(s)
             l == IF v.FocusLayer = "tiled" /\ v.Float # <<>> THEN "floating" ELSE "tiled"
             w == [v EXCEPT !.FocusLayer = l]
  <2>1. FocusToggleLayer(s) = refocus(OnActiveView(s, w))
    BY <1>2 DEF FocusToggleLayer
  <2>2. Sound(v) /\ v \in View
    BY <1>2, ActiveViewParts
  <2>3. l \in Layer /\ (v.Float = <<>> => l = "tiled")
    BY DEF Layer
  <2> HIDE DEF l, v
  <2>4. /\ w \in View /\ w.Columns = v.Columns /\ w.Float = v.Float /\ w.FocusCol = v.FocusCol
        /\ w.FocusFloat = v.FocusFloat /\ w.FocusLayer = l
    BY <2>2, <2>3 DEF View
  <2> HIDE DEF w
  <2>5. /\ w.FocusCol \in 1..Len(v.Columns)
        /\ IF v.Float = <<>> THEN w.FocusFloat = 1 /\ w.FocusLayer = "tiled"
           ELSE w.FocusFloat \in DOMAIN v.Float
    <3>1. DOMAIN v.Columns = 1..Len(v.Columns)
      BY <2>2, ViewFields
    <3> QED BY <2>2, <2>3, <2>4, <3>1 DEF Sound, InRange
  <2>6. Sound(w) /\ WindowsOf(w) = WindowsOf(v)
    BY <2>2, <2>4, <2>5, MarkersMoved
  <2> QED BY <1>2, <2>1, <2>6, ActiveViewWorkSettles DEF Rearranges, v
<1> QED BY <1>1, <1>2

\* The view with its focus markers one step on.
LEMMA MarkerSteps ==
  ASSUME NEW v, Sound(v)
  PROVE  /\ v.Float # <<>> /\ v.FocusFloat > 1
            => /\ Sound([v EXCEPT !.FocusFloat = v.FocusFloat - 1])
               /\ WindowsOf([v EXCEPT !.FocusFloat = v.FocusFloat - 1]) = WindowsOf(v)
         /\ v.Float # <<>> /\ v.FocusFloat < Len(v.Float)
            => /\ Sound([v EXCEPT !.FocusFloat = v.FocusFloat + 1])
               /\ WindowsOf([v EXCEPT !.FocusFloat = v.FocusFloat + 1]) = WindowsOf(v)
         /\ v.FocusCol > 1
            => /\ Sound([v EXCEPT !.FocusCol = v.FocusCol - 1])
               /\ WindowsOf([v EXCEPT !.FocusCol = v.FocusCol - 1]) = WindowsOf(v)
         /\ v.FocusCol < Len(v.Columns)
            => /\ Sound([v EXCEPT !.FocusCol = v.FocusCol + 1])
               /\ WindowsOf([v EXCEPT !.FocusCol = v.FocusCol + 1]) = WindowsOf(v)
<1>1. /\ v \in View /\ v.FocusCol \in Nat /\ v.FocusFloat \in Nat
      /\ Len(v.Columns) \in Nat /\ DOMAIN v.Columns = 1..Len(v.Columns)
      /\ Len(v.Float) \in Nat /\ DOMAIN v.Float = 1..Len(v.Float)
      /\ v.FocusCol \in 1..Len(v.Columns)
      /\ IF v.Float = <<>> THEN v.FocusFloat = 1 /\ v.FocusLayer = "tiled"
         ELSE v.FocusFloat \in DOMAIN v.Float
  BY ViewFields DEF Sound, InRange
<1>2. ASSUME NEW i \in 1..Len(v.Float), v.Float # <<>>
      PROVE  Sound([v EXCEPT !.FocusFloat = i]) /\ WindowsOf([v EXCEPT !.FocusFloat = i]) = WindowsOf(v)
  <2> DEFINE w == [v EXCEPT !.FocusFloat = i]
  <2>1. /\ w \in View /\ w.Columns = v.Columns /\ w.Float = v.Float /\ w.FocusCol = v.FocusCol
        /\ w.FocusFloat = i
    BY <1>1 DEF View
  <2> HIDE DEF w
  <2>2. /\ w.FocusCol \in 1..Len(v.Columns)
        /\ IF v.Float = <<>> THEN w.FocusFloat = 1 /\ w.FocusLayer = "tiled"
           ELSE w.FocusFloat \in DOMAIN v.Float
    BY <1>1, <1>2, <2>1
  <2>3. Sound(w) /\ WindowsOf(w) = WindowsOf(v)
    BY <2>1, <2>2, MarkersMoved
  <2> QED BY <2>3 DEF w
<1>3. ASSUME NEW i \in 1..Len(v.Columns)
      PROVE  Sound([v EXCEPT !.FocusCol = i]) /\ WindowsOf([v EXCEPT !.FocusCol = i]) = WindowsOf(v)
  <2> DEFINE w == [v EXCEPT !.FocusCol = i]
  <2>1. /\ w \in View /\ w.Columns = v.Columns /\ w.Float = v.Float /\ w.FocusCol = i
        /\ w.FocusFloat = v.FocusFloat /\ w.FocusLayer = v.FocusLayer
    BY <1>1 DEF View
  <2> HIDE DEF w
  <2>2. /\ w.FocusCol \in 1..Len(v.Columns)
        /\ IF v.Float = <<>> THEN w.FocusFloat = 1 /\ w.FocusLayer = "tiled"
           ELSE w.FocusFloat \in DOMAIN v.Float
    BY <1>1, <2>1
  <2>3. Sound(w) /\ WindowsOf(w) = WindowsOf(v)
    BY <2>1, <2>2, MarkersMoved
  <2> QED BY <2>3 DEF w
<1>4. /\ v.FocusFloat > 1 /\ v.Float # <<>> => v.FocusFloat - 1 \in 1..Len(v.Float)
      /\ v.FocusFloat < Len(v.Float) => v.FocusFloat + 1 \in 1..Len(v.Float)
      /\ v.FocusCol > 1 => v.FocusCol - 1 \in 1..Len(v.Columns)
      /\ v.FocusCol < Len(v.Columns) => v.FocusCol + 1 \in 1..Len(v.Columns)
  <2> DEFINE f == v.FocusFloat
             m == Len(v.Float)
             c == v.FocusCol
             n == Len(v.Columns)
  <2>1. f \in Nat /\ m \in Nat /\ c \in Nat /\ n \in Nat /\ c \in 1..n
    BY <1>1
  <2>2. v.Float # <<>> => f \in 1..m
    BY <1>1
  <2>3. f \notin 1..m => v.Float = <<>> /\ f = 1 /\ m = 0
    BY <1>1
  <2> HIDE DEF f, m, c, n
  <2>4. (f > 1 /\ v.Float # <<>> => f - 1 \in 1..m) /\ (f < m => f + 1 \in 1..m)
    BY <2>1, <2>2, <2>3
  <2>5. (c > 1 => c - 1 \in 1..n) /\ (c < n => c + 1 \in 1..n)
    BY <2>1
  <2> QED BY <2>4, <2>5, Zenon DEF f, m, c, n
<1> QED BY <1>2, <1>3, <1>4

\* The focused column with its selection one step on.
LEMMA SelectionSteps ==
  ASSUME NEW v, Sound(v), NEW sel, sel \in 1..Len(v.Columns[v.FocusCol].Windows)
  PROVE  /\ Sound([v EXCEPT !.Columns[v.FocusCol].Sel = sel])
         /\ WindowsOf([v EXCEPT !.Columns[v.FocusCol].Sel = sel]) = WindowsOf(v)
<1> DEFINE col == v.FocusCol
           c == v.Columns[col]
           d == [c EXCEPT !.Sel = sel]
<1>1. col \in 1..Len(v.Columns)
  BY ViewFields DEF Sound, InRange
<1>2. c \in Column /\ c.Windows \in Seq(WindowID) /\ DOMAIN c.Windows = 1..Len(c.Windows)
  BY <1>1, SelectionOf
<1>3. v.Columns[col] = c
  OBVIOUS
<1>4. sel \in 1..Len(c.Windows)
  OBVIOUS
<1> HIDE DEF col, c
<1>5. d \in Column /\ d.Windows = c.Windows /\ d.Sel = sel
  BY <1>2, <1>4 DEF Column
<1> HIDE DEF d
<1>6. ColumnInRange(d, Len(v.Columns) = 1)
  BY <1>2, <1>4, <1>5 DEF ColumnInRange
<1>7. d.Windows = v.Columns[col].Windows
  BY <1>3, <1>5
<1>8. /\ Sound([v EXCEPT !.Columns = [v.Columns EXCEPT ![col] = d]])
      /\ WindowsOf([v EXCEPT !.Columns = [v.Columns EXCEPT ![col] = d]]) = WindowsOf(v)
  BY <1>1, <1>5, <1>6, <1>7, ColumnRetouched
<1> QED BY <1>8 DEF d, c, col

LEMMA FocusDirSettles ==
  ASSUME NEW s, Settled(s), Distinct(s), NEW d
  PROVE  Rearranges(s, FocusDir(s, d))
<1>1. CASE ~hasActiveView(s)
  BY <1>1, RearrangesNothing DEF FocusDir
<1>2. CASE hasActiveView(s)
  <2> DEFINE v  == activeView(s)
             fc == v.FocusCol
             moved ==
               IF v.FocusLayer = "floating"
               THEN CASE d = "up" /\ v.FocusFloat > 1 ->
                           [v EXCEPT !.FocusFloat = @ - 1]
                      [] d = "down" /\ v.FocusFloat < Len(v.Float) ->
                           [v EXCEPT !.FocusFloat = @ + 1]
                      [] OTHER -> v
               ELSE CASE d = "left" /\ fc > 1 -> [v EXCEPT !.FocusCol = @ - 1]
                      [] d = "right" /\ fc < Len(v.Columns) -> [v EXCEPT !.FocusCol = @ + 1]
                      [] d = "up" /\ v.Columns[fc].Sel > 1 ->
                           [v EXCEPT !.Columns[fc].Sel = @ - 1]
                      [] d = "down" /\ v.Columns[fc].Sel < Len(v.Columns[fc].Windows) ->
                           [v EXCEPT !.Columns[fc].Sel = @ + 1]
                      [] OTHER -> v
             moves(w) == Sound(w) /\ WindowsOf(w) = WindowsOf(v)
  <2>1. Sound(v)
    BY <1>2, ActiveViewParts
  <2>2. FocusDir(s, d) = refocus(OnActiveView(s, moved))
    BY <1>2 DEF FocusDir
  <2>3. v.FocusLayer = "floating" => v.Float # <<>>
    BY <2>1 DEF Sound, InRange
  <2> HIDE DEF v
  <2>4. /\ v.Float # <<>> /\ v.FocusFloat > 1 => moves([v EXCEPT !.FocusFloat = v.FocusFloat - 1])
        /\ v.Float # <<>> /\ v.FocusFloat < Len(v.Float)
             => moves([v EXCEPT !.FocusFloat = v.FocusFloat + 1])
        /\ fc > 1 => moves([v EXCEPT !.FocusCol = fc - 1])
        /\ fc < Len(v.Columns) => moves([v EXCEPT !.FocusCol = fc + 1])
        /\ moves(v)
    BY <2>1, MarkerSteps
  <2>5. /\ v.Columns[fc].Sel > 1 =>
             moves([v EXCEPT !.Columns[fc].Sel = v.Columns[fc].Sel - 1])
        /\ v.Columns[fc].Sel < Len(v.Columns[fc].Windows) =>
             moves([v EXCEPT !.Columns[fc].Sel = v.Columns[fc].Sel + 1])
    <3> DEFINE c == v.Columns[fc]
    <3>1. fc \in 1..Len(v.Columns)
      BY <2>1, ViewFields DEF Sound, InRange
    <3>2. /\ c \in Column /\ c.Windows \in Seq(WindowID) /\ ColumnInRange(c, Len(v.Columns) = 1)
          /\ c.Sel \in Nat
      BY <2>1, <3>1, SelectionOf, ColumnFields
    <3>3. /\ c.Sel > 1 => c.Sel - 1 \in 1..Len(c.Windows)
          /\ c.Sel < Len(c.Windows) => c.Sel + 1 \in 1..Len(c.Windows)
      <4> HIDE DEF c
      <4> QED BY <3>2 DEF ColumnInRange
    <3> QED BY <2>1, <3>3, SelectionSteps
  <2>6. moves(moved)
    <3> HIDE DEF moves
    <3>1. CASE v.FocusLayer = "floating"
      BY <2>3, <2>4, <3>1
    <3>2. CASE v.FocusLayer # "floating"
      BY <2>4, <2>5, <3>2
    <3> QED BY <3>1, <3>2
  <2> HIDE DEF moved
  <2>7. Sound(moved) /\ WindowsOf(moved) = WindowsOf(activeView(s))
    BY <2>6 DEF v
  <2> QED BY <1>2, <2>2, <2>7, ActiveViewWorkSettles DEF Rearranges
<1> QED BY <1>1, <1>2

LEMMA MoveDirSettles ==
  ASSUME NEW s, Settled(s), Distinct(s), NEW d \in {"left", "right", "up", "down"}
  PROVE  Rearranges(s, MoveDir(s, d))
<1>1. CASE ~hasActiveView(s) \/ ~FocusedInColumn(s, activeView(s))
  BY <1>1, RearrangesNothing DEF MoveDir
<1>2. CASE hasActiveView(s) /\ FocusedInColumn(s, activeView(s))
  <2> DEFINE v == activeView(s)
             moved == CASE d = "up"    -> moveWithinColumn(v, -1)
                        [] d = "down"  -> moveWithinColumn(v, 1)
                        [] d = "left"  -> moveAcrossColumns(v, -1)
                        [] d = "right" -> moveAcrossColumns(v, 1)
             w == clampFocus(moved)
  <2>1. Sound(v)
    BY <1>2, ActiveViewParts
  <2>2. v.Columns[v.FocusCol].Sel \in DOMAIN v.Columns[v.FocusCol].Windows
    BY <1>2 DEF FocusedInColumn, selected
  <2>3. MoveDir(s, d) = refocus(OnActiveView(s, w))
    BY <1>2 DEF MoveDir
  <2> HIDE DEF v
  <2>4. ASSUME NEW delta \in {-1, 1}
        PROVE  /\ Sound(clampFocus(moveWithinColumn(v, delta)))
               /\ WindowsOf(clampFocus(moveWithinColumn(v, delta))) = WindowsOf(v)
               /\ Sound(clampFocus(moveAcrossColumns(v, delta)))
               /\ WindowsOf(clampFocus(moveAcrossColumns(v, delta))) = WindowsOf(v)
    <3>1. /\ Sound(moveWithinColumn(v, delta))
          /\ WindowsOf(moveWithinColumn(v, delta)) = WindowsOf(v)
      BY <2>1, <2>2, MoveWithinColumnSound
    <3>2. clampFocus(moveWithinColumn(v, delta)) = moveWithinColumn(v, delta)
      BY <3>1, ClampFocusIdle
    <3>3. /\ Sound(clampFocus(moveAcrossColumns(v, delta)))
          /\ WindowsOf(clampFocus(moveAcrossColumns(v, delta))) = WindowsOf(v)
      BY <2>1, <2>2, MoveAcrossColumnsSound
    <3> QED BY <3>1, <3>2, <3>3
  <2>5. Sound(w) /\ WindowsOf(w) = WindowsOf(v)
    <3>1. CASE d = "up"
      BY <2>4, <3>1
    <3>2. CASE d = "down"
      BY <2>4, <3>2
    <3>3. CASE d = "left"
      BY <2>4, <3>3
    <3>4. CASE d = "right"
      BY <2>4, <3>4
    <3> QED BY <3>1, <3>2, <3>3, <3>4
  <2> HIDE DEF w
  <2>6. Sound(w) /\ WindowsOf(w) = WindowsOf(activeView(s))
    BY <2>5 DEF v
  <2> QED BY <1>2, <2>3, <2>6, ActiveViewWorkSettles DEF Rearranges
<1> QED BY <1>1, <1>2

LEMMA ToggleFloatSettles ==
  ASSUME NEW s, Settled(s), Distinct(s)
  PROVE  Rearranges(s, ToggleFloat(s))
<1>1. CASE ~hasActiveView(s) \/ s.Focused = NoWindow
  BY <1>1, RearrangesNothing DEF ToggleFloat
<1>2. CASE hasActiveView(s) /\ s.Focused # NoWindow
  <2> DEFINE v == activeView(s)
             id == s.Focused
             x == IF v.FocusLayer = "floating" THEN toTiled(v, id) ELSE toFloating(v, id)
  <2>1. Sound(v) /\ id = focusedWindow(v)
    BY <1>2, ActiveViewParts
  <2>2. ToggleFloat(s) = refocus(OnActiveView(s, clampFocus(x)))
    BY <1>2 DEF ToggleFloat
  <2>3. id \in WindowsOf(v) /\ (v.FocusLayer = "floating" => id \in ToSet(v.Float))
    BY <1>2, <2>1, FocusedIsThere
  <2> HIDE DEF v, id
  <2>4. Sound(x) /\ WindowsOf(x) = WindowsOf(v)
    <3>1. CASE v.FocusLayer = "floating"
      BY <2>1, <2>3, <3>1, ToTiledSound
    <3>2. CASE v.FocusLayer # "floating"
      BY <2>1, <2>3, <3>2, ToFloatingSound
    <3> QED BY <3>1, <3>2
  <2> HIDE DEF x
  <2>5. clampFocus(x) = x
    BY <2>4, ClampFocusIdle
  <2>6. Sound(x) /\ WindowsOf(x) = WindowsOf(activeView(s))
    BY <2>4 DEF v
  <2> QED BY <1>2, <2>2, <2>5, <2>6, ActiveViewWorkSettles DEF Rearranges
<1> QED BY <1>1, <1>2

\* The focus stays right when the outputs, what they show and the focused
\* window of the active view stay.
LEMMA FocusKept ==
  ASSUME NEW s, Settled(s), NEW t, Tidy(t), t.Outputs = s.Outputs, t.FocusOutput = s.FocusOutput,
         t.Focused = IF s.Outputs = <<>> THEN NoWindow ELSE focusedWindow(activeView(t))
  PROVE  Settled(t)
<1>1. activeOutput(t) = activeOutput(s)
  BY DEF activeOutput
<1> QED BY <1>1 DEF Settled

LEMMA SetModeSettles ==
  ASSUME NEW s, Settled(s), Distinct(s), NEW m \in Modes
  PROVE  Rearranges(s, SetMode(s, m))
<1> DEFINE v == activeView(s)
           col == v.FocusCol
           c == v.Columns[col]
           d == [c EXCEPT !.Mode = m]
           w == [v EXCEPT !.Columns = [v.Columns EXCEPT ![col] = d]]
           t == OnActiveView(s, w)
<1>1. CASE ~(hasActiveView(s) /\ v.FocusLayer = "tiled" /\ col \in DOMAIN v.Columns)
  BY <1>1, RearrangesNothing DEF SetMode
<1>2. CASE hasActiveView(s) /\ v.FocusLayer = "tiled" /\ col \in DOMAIN v.Columns
  <2>1. SetMode(s, m) = t
    BY <1>2 DEF SetMode
  <2>2. Sound(v) /\ v \in View /\ s.Focused = focusedWindow(v)
    BY <1>2, ActiveViewParts
  <2>3. s.Outputs # <<>>
    BY <1>2 DEF hasActiveView
  <2> HIDE DEF v
  <2>4. col \in 1..Len(v.Columns) /\ v.Columns \in Seq(Column)
    BY <1>2, <2>2, ViewFields
  <2>5. c \in Column /\ ColumnInRange(c, Len(v.Columns) = 1)
    BY <2>2, <2>4, SelectionOf
  <2>6. c = v.Columns[col]
    OBVIOUS
  <2>7. w = [v EXCEPT !.Columns = [v.Columns EXCEPT ![col] = d]] /\ v.FocusCol = col
    OBVIOUS
  <2> HIDE DEF c, w, col
  <2>8. d \in Column /\ d.Windows = c.Windows /\ d.Sel = c.Sel
    BY <2>5 DEF Column
  <2> HIDE DEF d
  <2>9. ColumnInRange(d, Len(v.Columns) = 1) /\ d.Windows = v.Columns[col].Windows
    BY <2>5, <2>6, <2>8 DEF ColumnInRange
  <2>10. Sound(w) /\ WindowsOf(w) = WindowsOf(v)
    BY <2>2, <2>4, <2>7, <2>8, <2>9, ColumnRetouched
  <2>11. focusedWindow(w) = focusedWindow(v)
    <3>1. /\ w.FocusLayer = "tiled" /\ w.FocusCol = col
          /\ w.Columns = [v.Columns EXCEPT ![col] = d]
      BY <1>2, <2>2, <2>7 DEF View
    <3>2. w.FocusCol \in DOMAIN w.Columns /\ w.Columns[w.FocusCol] = d
      BY <1>2, <2>4, <3>1
    <3>3. selected(d) = selected(c)
      BY <2>8 DEF selected
    <3> QED BY <1>2, <2>6, <2>7, <3>1, <3>2, <3>3 DEF focusedWindow
  <2>12. /\ Tidy(t) /\ t.Outputs = s.Outputs /\ t.Tags = s.Tags /\ t.FocusOutput = s.FocusOutput
         /\ t.Focused = s.Focused /\ activeView(t) = w /\ ActiveOnly(s, t)
    BY <1>2, <2>10, OnActiveViewTidy DEF v
  <2> HIDE DEF t
  <2>13. t.Focused = IF s.Outputs = <<>> THEN NoWindow ELSE focusedWindow(activeView(t))
    BY <2>2, <2>3, <2>11, <2>12
  <2>14. Settled(t)
    BY <2>12, <2>13, FocusKept
  <2> QED BY <2>1, <2>12, <2>14 DEF Rearranges
<1> QED BY <1>1, <1>2

LEMMA FullscreenSettles ==
  ASSUME NEW s, Settled(s), Distinct(s)
  PROVE  Rearranges(s, ToggleFullscreen(s))
<1> DEFINE v == activeView(s)
           id == focusedWindow(v)
           f == IF v.Fullscreen = id THEN NoWindow ELSE id
           w == [v EXCEPT !.Fullscreen = f]
           t == OnActiveView(s, w)
<1>1. CASE ~hasActiveView(s) \/ id = NoWindow
  BY <1>1, RearrangesNothing DEF ToggleFullscreen
<1>2. CASE hasActiveView(s) /\ id # NoWindow
  <2>1. ToggleFullscreen(s) = t
    BY <1>2 DEF ToggleFullscreen
  <2>2. Sound(v) /\ v \in View /\ s.Focused = id
    BY <1>2, ActiveViewParts
  <2>3. s.Outputs # <<>>
    BY <1>2 DEF hasActiveView
  <2>4. f \in WindowID \cup {NoWindow}
    BY <2>2, FocusedWindowType
  <2> HIDE DEF v, f
  <2>5. /\ w \in View /\ w.Columns = v.Columns /\ w.Float = v.Float /\ w.FocusCol = v.FocusCol
        /\ w.FocusFloat = v.FocusFloat /\ w.FocusLayer = v.FocusLayer
    BY <2>2, <2>4 DEF View
  <2> HIDE DEF w
  <2>6. /\ w.FocusCol \in 1..Len(v.Columns)
        /\ IF v.Float = <<>> THEN w.FocusFloat = 1 /\ w.FocusLayer = "tiled"
           ELSE w.FocusFloat \in DOMAIN v.Float
    BY <2>2, <2>5, ViewFields DEF Sound, InRange
  <2>7. Sound(w) /\ WindowsOf(w) = WindowsOf(v)
    BY <2>2, <2>5, <2>6, MarkersMoved
  <2>8. focusedWindow(w) = id
    BY <2>5 DEF focusedWindow
  <2>9. /\ Tidy(t) /\ t.Outputs = s.Outputs /\ t.Tags = s.Tags /\ t.FocusOutput = s.FocusOutput
        /\ t.Focused = s.Focused /\ activeView(t) = w /\ ActiveOnly(s, t)
    BY <1>2, <2>7, OnActiveViewTidy DEF v
  <2> HIDE DEF t, id
  <2>10. t.Focused = IF s.Outputs = <<>> THEN NoWindow ELSE focusedWindow(activeView(t))
    BY <2>2, <2>3, <2>8, <2>9
  <2>11. Settled(t)
    BY <2>9, <2>10, FocusKept
  <2> QED BY <2>1, <2>9, <2>11 DEF Rearranges
<1> QED BY <1>1, <1>2

-----------------------------------------------------------------------------
(* Operations on outputs.                                                  *)

\* Other outputs, or another one active.
WithOutputs(s, outs, k) == [s EXCEPT !.Outputs = outs, !.FocusOutput = k]

LEMMA OutputsSet ==
  ASSUME NEW s, Tidy(s), NEW outs \in Seq(Output), NEW k \in Nat, outs = <<>> => k = 1,
         NEW t, t = WithOutputs(s, outs, k)
  PROVE  /\ Tidy(t) /\ t.Outputs = outs /\ t.FocusOutput = k
         /\ t.viewIndex = s.viewIndex /\ t.Views = s.Views /\ t.Tags = s.Tags /\ t.Focused = s.Focused
<1>1. Clean(s) /\ s \in State
  BY DEF Tidy, Clean
<1>2. Clean(t)
  BY <1>1, SetOutputsType DEF WithOutputs
<1>3. /\ t.Outputs = outs /\ t.FocusOutput = k
      /\ t.viewIndex = s.viewIndex /\ t.Views = s.Views /\ t.Tags = s.Tags /\ t.Focused = s.Focused
  BY <1>1 DEF State, WithOutputs
<1>4. Arranged(t)
  BY <1>3 DEF Tidy, Arranged, Fits, Carried
<1> QED BY <1>2, <1>3, <1>4 DEF Tidy

LEMMA EnsureViewTidy ==
  ASSUME NEW s, Tidy(s), NEW n \in ViewName
  PROVE  /\ Tidy(ensureView(s, n))
         /\ SameButViews(s, ensureView(s, n)) /\ exists(ensureView(s, n), n)
<1> DEFINE t == ensureView(s, n)
<1>1. /\ Clean(t) /\ t.Views = s.Views /\ t.Outputs = s.Outputs /\ t.Tags = s.Tags
      /\ t.Focused = s.Focused /\ t.FocusOutput = s.FocusOutput /\ exists(t, n)
  BY EnsureViewType DEF Tidy
<1> HIDE DEF t
<1>2. Tidy(t)
  BY <1>1 DEF Tidy, Arranged, Fits, Carried
<1> QED BY <1>1, <1>2 DEF SameButViews, t

LEMMA EnsureViewSettles ==
  ASSUME NEW s, Settled(s), NEW n \in ViewName
  PROVE  Settled(ensureView(s, n))
<1> DEFINE t == ensureView(s, n)
<1>1. Tidy(t) /\ SameButViews(s, t)
  BY EnsureViewTidy DEF Settled
<1> HIDE DEF t
<1>2. activeOutput(t) = activeOutput(s) /\ activeView(t) = activeView(s)
  BY <1>1 DEF activeOutput, activeView, activeName, SameButViews
<1>3. Settled(t)
  BY <1>1, <1>2 DEF Settled, SameButViews
<1> QED BY <1>3 DEF t

LEMMA CycleOutputSettles ==
  ASSUME NEW s, Settled(s), NEW delta \in {-1, 1}, Distinct(CycleOutput(s, delta))
  PROVE  /\ Settled(CycleOutput(s, delta))
         /\ CycleOutput(s, delta).Outputs = s.Outputs /\ CycleOutput(s, delta).Tags = s.Tags
         /\ Undisturbed(s, CycleOutput(s, delta))
<1> DEFINE k == ((s.FocusOutput - 1 + delta) % Len(s.Outputs)) + 1
           t == [s EXCEPT !.FocusOutput = k]
<1>1. CASE s.Outputs = <<>>
  BY <1>1, UndisturbedByNothing DEF CycleOutput
<1>2. CASE s.Outputs # <<>>
  <2>1. CycleOutput(s, delta) = refocus(t)
    BY <1>2 DEF CycleOutput
  <2>2. s.Outputs \in Seq(Output) /\ s.FocusOutput \in Nat /\ s \in State
    BY TidyParts, StateFields DEF Settled
  <2>3. k \in Nat
    BY <1>2, <2>2
  <2> HIDE DEF k
  <2>4. t = WithOutputs(s, s.Outputs, k)
    BY <2>2 DEF State, WithOutputs
  <2> HIDE DEF t
  <2>5. Tidy(t) /\ t.Outputs = s.Outputs /\ t.Tags = s.Tags /\ t.Views = s.Views
    <3>1. Tidy(s) /\ (s.Outputs = <<>> => k = 1)
      BY <1>2 DEF Settled
    <3> QED BY <2>2, <2>3, <2>4, <3>1, OutputsSet
  <2>6. Distinct(refocus(t))
    BY <2>1
  <2> QED BY <2>1, <2>5, <2>6, RefocusSettles, UndisturbedByNothing DEF SameButFocus
<1> QED BY <1>1, <1>2

LeftOutputs(s, o) ==
  LET at == {i \in DOMAIN s.Outputs : s.Outputs[i].Name = o}
  IN IF at = {} THEN s.Outputs ELSE RemoveAt(s.Outputs, Least(at))

LEMMA RemoveOutputSettles ==
  ASSUME NEW s, Settled(s), NEW o, Distinct(RemoveOutput(s, o))
  PROVE  /\ Settled(RemoveOutput(s, o)) /\ RemoveOutput(s, o).Tags = s.Tags
         /\ RemoveOutput(s, o).Outputs = LeftOutputs(s, o)
         /\ Undisturbed(s, RemoveOutput(s, o)) /\ Swept(RemoveOutput(s, o))
<1> DEFINE at   == {i \in DOMAIN s.Outputs : s.Outputs[i].Name = o}
           outs == IF at = {} THEN s.Outputs ELSE RemoveAt(s.Outputs, Least(at))
           k    == Clamped(s.FocusOutput, Len(outs))
           x    == [s EXCEPT !.Outputs = outs, !.FocusOutput = k]
<1>1. s.Outputs \in Seq(Output) /\ s.FocusOutput \in Nat /\ Tidy(s)
  BY TidyParts, StateFields DEF Settled
<1>2. outs \in Seq(Output)
  <2>1. CASE at # {}
    <3>1. at \subseteq 1..Len(s.Outputs) /\ at \subseteq Nat
      BY <1>1
    <3>2. Least(at) \in 1..Len(s.Outputs)
      BY <2>1, <3>1, LeastType
    <3> QED BY <1>1, <2>1, <3>2, RemoveAtType
  <2> QED BY <1>1, <2>1
<1>3. RemoveOutput(s, o) = refocus(gcViews(x))
  BY DEF RemoveOutput
<1>9. outs = LeftOutputs(s, o)
  BY DEF LeftOutputs
<1> HIDE DEF outs
<1>4. Len(outs) \in Nat /\ (outs = <<>> => Len(outs) = 0)
  BY <1>2
<1>5. k \in Nat /\ (outs = <<>> => k = 1)
  BY <1>1, <1>4, ClampedType
<1> HIDE DEF k
<1>6. x = WithOutputs(s, outs, k)
  BY DEF WithOutputs
<1> HIDE DEF x
<1>7. Tidy(x) /\ x.Tags = s.Tags /\ x.Outputs = outs /\ x.Views = s.Views
  <2>1. Tidy(s)
    BY <1>1
  <2>2. outs = <<>> => k = 1
    BY <1>5
  <2>3. k \in Nat
    BY <1>5
  <2> QED BY <1>2, <1>6, <2>1, <2>2, <2>3, OutputsSet
<1>8. Distinct(refocus(gcViews(x)))
  BY <1>3
<1>10. Undisturbed(s, refocus(gcViews(x)))
  BY <1>1, <1>7, <1>8, GcRefocusSettles, UndisturbedByNothing, UndisturbedByLosses
<1> QED BY <1>3, <1>7, <1>8, <1>9, <1>10, GcRefocusSettles

RenamedOutputs(s, old, new) ==
  LET at == {i \in DOMAIN s.Outputs : s.Outputs[i].Name = old}
  IN IF at = {} THEN s.Outputs
     ELSE [s.Outputs EXCEPT ![Least(at)] = [s.Outputs[Least(at)] EXCEPT !.Name = new]]

LEMMA RenameOutputSettles ==
  ASSUME NEW s, Settled(s), NEW old, NEW new \in OutputName
  PROVE  /\ Settled(RenameOutput(s, old, new)) /\ RenameOutput(s, old, new).Tags = s.Tags
         /\ RenameOutput(s, old, new).Focused = s.Focused
         /\ RenameOutput(s, old, new).FocusOutput = s.FocusOutput
         /\ RenameOutput(s, old, new).Outputs = RenamedOutputs(s, old, new)
         /\ Undisturbed(s, RenameOutput(s, old, new))
<1> DEFINE at   == {i \in DOMAIN s.Outputs : s.Outputs[i].Name = old}
           r    == Least(at)
           outs == [s.Outputs EXCEPT ![r] = [s.Outputs[r] EXCEPT !.Name = new]]
           x    == [s EXCEPT !.Outputs = outs]
<1>1. CASE at = {}
  BY <1>1, UndisturbedByNothing DEF RenameOutput, RenamedOutputs
<1>2. CASE at # {}
  <2>1. /\ s \in State /\ Tidy(s) /\ s.FocusOutput \in Nat
        /\ s.Outputs \in Seq(Output) /\ \A i \in DOMAIN s.Outputs : s.Outputs[i] \in Output
    BY TidyParts, StateFields, OutputsTyped DEF Settled
  <2>2. \A p \in Output : [p EXCEPT !.Name = new].View = p.View /\ [p EXCEPT !.Name = new] \in Output
    BY DEF Output
  <2>3. r \in DOMAIN s.Outputs
    <3>1. at \subseteq DOMAIN s.Outputs /\ at \subseteq Nat
      BY <2>1
    <3> QED BY <1>2, <3>1, LeastType
  <2>4. RenameOutput(s, old, new) = x
    BY <1>2 DEF RenameOutput
  <2>13. outs = RenamedOutputs(s, old, new)
    BY <1>2 DEF RenamedOutputs
  <2> HIDE DEF r
  <2>5. /\ DOMAIN outs = DOMAIN s.Outputs
        /\ \A i \in DOMAIN outs : outs[i].View = s.Outputs[i].View
    BY <2>1, <2>2
  <2>6. outs \in Seq(Output)
    BY <2>1, <2>2, <2>3, SeqExceptType
  <2> HIDE DEF outs
  <2>7. s.Outputs # <<>> /\ outs # <<>>
    BY <2>3, <2>5
  <2>8. x = WithOutputs(s, outs, s.FocusOutput)
    BY <2>1 DEF State, WithOutputs
  <2> HIDE DEF x
  <2>9. /\ Tidy(x) /\ x.Outputs = outs /\ x.FocusOutput = s.FocusOutput
        /\ x.viewIndex = s.viewIndex /\ x.Views = s.Views /\ x.Tags = s.Tags /\ x.Focused = s.Focused
    <3>1. Tidy(s) /\ s.FocusOutput \in Nat /\ (outs = <<>> => s.FocusOutput = 1)
      BY <2>1, <2>7
    <3> QED BY <2>6, <2>8, <3>1, OutputsSet
  <2>10. activeOutput(x) = activeOutput(s)
    BY <2>5, <2>9 DEF activeOutput
  <2>11. activeView(x) = activeView(s)
    <3>1. activeOutput(s) \in DOMAIN s.Outputs
      BY <2>1, <2>7, ActiveOutputType, OutputsTyped
    <3> QED BY <2>5, <2>9, <2>10, <3>1 DEF activeView, activeName
  <2>12. Settled(x)
    BY <2>7, <2>9, <2>10, <2>11 DEF Settled
  <2> QED BY <2>4, <2>9, <2>12, <2>13, UndisturbedByNothing
<1> QED BY <1>1, <1>2

AddedOutputs(s, o) ==
  IF \E i \in DOMAIN s.Outputs : s.Outputs[i].Name = o THEN s.Outputs
  ELSE Append(s.Outputs, [Name |-> o, View |-> AddedView(s)])

LEMMA AddOutputSettles ==
  ASSUME NEW s, Settled(s), CanAddOutput(s), NEW o \in OutputName, Distinct(AddOutput(s, o))
  PROVE  /\ Settled(AddOutput(s, o)) /\ AddOutput(s, o).Tags = s.Tags
         /\ AddOutput(s, o).Outputs = AddedOutputs(s, o)
         /\ AddOutput(s, o).FocusOutput = s.FocusOutput
         /\ Undisturbed(s, AddOutput(s, o))
<1>1. CASE \E i \in DOMAIN s.Outputs : s.Outputs[i].Name = o
  BY <1>1, UndisturbedByNothing DEF AddOutput, AddedOutputs
<1>2. CASE ~ \E i \in DOMAIN s.Outputs : s.Outputs[i].Name = o
  <2> DEFINE n    == AddedView(s)
             t    == ensureView(s, n)
             new  == [Name |-> o, View |-> n]
             outs == Append(t.Outputs, new)
             x    == [t EXCEPT !.Outputs = outs]
  <2>1. n \in ViewName /\ s \in State
    BY AddedViewType, TidyParts DEF Settled
  <2>2. /\ Tidy(t) /\ t.Tags = s.Tags /\ t \in State /\ t.Views = s.Views
        /\ t.Outputs = s.Outputs /\ t.FocusOutput = s.FocusOutput
    BY <2>1, EnsureViewTidy, TidyParts DEF Settled, SameButViews
  <2>3. new \in Output
    BY <2>1 DEF Output
  <2>4. AddOutput(s, o) = refocus(x)
    BY <1>2 DEF AddOutput, AddedView
  <2> HIDE DEF new, t
  <2>5. outs \in Seq(Output) /\ outs # <<>> /\ t.FocusOutput \in Nat
    <3>1. t.Outputs \in Seq(Output) /\ t.FocusOutput \in Nat
      BY <2>2, StateFields
    <3>2. outs \in Seq(Output) /\ Len(outs) = Len(t.Outputs) + 1 /\ Len(t.Outputs) \in Nat
      BY <2>3, <3>1, AppendProperties
    <3> HIDE DEF outs
    <3> QED BY <3>1, <3>2
  <2>9. outs = AddedOutputs(s, o) /\ DOMAIN outs = 1..(Len(s.Outputs) + 1)
        /\ s.Outputs \in Seq(Output) /\ DOMAIN s.Outputs = 1..Len(s.Outputs) /\ Len(s.Outputs) \in Nat
    <3>1. s.Outputs \in Seq(Output)
      BY <2>1, StateFields
    <3>2. Len(outs) = Len(s.Outputs) + 1 /\ outs \in Seq(Output) /\ Len(s.Outputs) \in Nat
      BY <2>2, <2>3, <3>1, AppendProperties
    <3>3. outs = AddedOutputs(s, o)
      BY <1>2, <2>2 DEF AddedOutputs, new
    <3> HIDE DEF outs
    <3> QED BY <3>1, <3>2, <3>3
  <2> HIDE DEF outs
  <2>6. x = WithOutputs(t, outs, t.FocusOutput)
    BY <2>2 DEF State, WithOutputs
  <2> HIDE DEF x
  <2>7. /\ Tidy(x) /\ x.Tags = s.Tags /\ x.Outputs = outs /\ x.FocusOutput = s.FocusOutput
        /\ x.Views = s.Views
    BY <2>2, <2>5, <2>6, OutputsSet
  <2>8. Distinct(refocus(x))
    BY <2>4
  <2>10. activeOutput(x) = s.FocusOutput
    <3> DEFINE k == s.FocusOutput
               len == Len(s.Outputs)
    <3>1. k = IF k \in 1..len THEN k ELSE 1
      BY <2>9 DEF Settled, activeOutput
    <3>2. activeOutput(x) = IF k \in 1..(len + 1) THEN k ELSE 1
      BY <2>7, <2>9 DEF activeOutput
    <3>3. len \in Nat
      BY <2>9
    <3> HIDE DEF k, len
    <3>4. activeOutput(x) = k
      BY <3>1, <3>2, <3>3
    <3> QED BY <3>4 DEF k
  <2> QED BY <2>4, <2>7, <2>8, <2>9, <2>10, RefocusSettles, UndisturbedByNothing DEF SameButFocus
<1> QED BY <1>1, <1>2

-----------------------------------------------------------------------------
(* Operations on windows.                                                  *)

\* Other tags and views that agree with each other.
WithWindows(s, tags, views) == [s EXCEPT !.Tags = tags, !.Views = views]

LEMMA ViewsSet ==
  ASSUME NEW s, Tidy(s), NEW tags \in [WindowID -> SUBSET ViewName],
         NEW views \in [ViewName -> View],
         Fits(views, tags), NoRemains(s, views),
         NEW t, t = WithWindows(s, tags, views)
  PROVE  /\ Tidy(t) /\ t.Tags = tags /\ t.Views = views /\ t.viewIndex = s.viewIndex
         /\ t.Outputs = s.Outputs /\ t.FocusOutput = s.FocusOutput /\ t.Focused = s.Focused
<1>1. Clean(s) /\ s \in State
  BY DEF Tidy, Clean
<1>3. Clean(t)
  BY <1>1, MapViewsType DEF WithWindows, NoRemains
<1>4. /\ t.Tags = tags /\ t.Views = views /\ t.viewIndex = s.viewIndex
      /\ t.Outputs = s.Outputs /\ t.FocusOutput = s.FocusOutput /\ t.Focused = s.Focused
  BY <1>1 DEF State, WithWindows
<1>5. Arranged(t)
  BY <1>4 DEF Arranged, Fits, Carried
<1> QED BY <1>3, <1>4, <1>5 DEF Tidy

\* The windows that carry a tag once the tags of one window are others.
LEMMA CarriedAfter ==
  ASSUME NEW s \in State, NEW id \in WindowID, NEW tags \in SUBSET ViewName, NEW n \in ViewName
  PROVE  Carrying([s.Tags EXCEPT ![id] = tags], n) =
              IF n \in tags THEN Carried(s, n) \cup {id} ELSE Carried(s, n) \ {id}
<1>1. s.Tags \in [WindowID -> SUBSET ViewName]
  BY StateFields
<1> QED BY <1>1 DEF Carried, Carrying

LEMMA EnsureViewsTidy ==
  ASSUME NEW s, Tidy(s), NEW T \in SUBSET ViewName, NEW order \in CreationOrders(s, T)
  PROVE  /\ Tidy(ensureViews(s, order)) /\ SameButViews(s, ensureViews(s, order))
         /\ \A n \in ViewName : exists(ensureViews(s, order), n) <=> exists(s, n) \/ n \in T
<1> DEFINE t == ensureViews(s, order)
<1>1. /\ Clean(t) /\ t.Views = s.Views /\ t.Outputs = s.Outputs /\ t.Tags = s.Tags
      /\ t.Focused = s.Focused /\ t.FocusOutput = s.FocusOutput
      /\ \A n \in ViewName : exists(t, n) <=> exists(s, n) \/ n \in T
  BY EnsureViewsType DEF Tidy
<1> HIDE DEF t
<1>2. Tidy(t)
  BY <1>1 DEF Tidy, Arranged, Fits, Carried
<1> QED BY <1>1, <1>2 DEF SameButViews, t

LEMMA AddWindowSettles ==
  ASSUME NEW s, Settled(s), Distinct(s), NEW id \in WindowID, ~Managed(s, id),
         NEW floating \in BOOLEAN, NEW tags \in SUBSET ViewName, NEW order \in CreationOrders(s, tags)
  PROVE  /\ Settled(AddWindow(s, id, floating, tags, order))
         /\ AddWindow(s, id, floating, tags, order).Outputs = s.Outputs
         /\ AddWindow(s, id, floating, tags, order).Tags = [s.Tags EXCEPT ![id] = tags]
         /\ AddWindow(s, id, floating, tags, order).FocusOutput = s.FocusOutput
         /\ AddWindow(s, id, floating, tags, order).Focused =
              IF s.Outputs # <<>> /\ activeName(s) \in tags THEN id ELSE s.Focused
         /\ ActiveOnly(s, AddWindow(s, id, floating, tags, order))
<1> DEFINE t     == ensureViews(s, order)
           all   == [t.Tags EXCEPT ![id] = tags]
           views == [n \in ViewName |-> IF n \in tags THEN addToView(t.Views[n], id, floating)
                                        ELSE t.Views[n]]
           u     == WithWindows(t, all, views)
           w     == focusWindow(activeView(u), id)
           x     == OnActiveView(u, w)
           y     == [x EXCEPT !.Focused = id, !.FocusOutput = activeOutput(u)]
<1>1. /\ Tidy(t) /\ SameButViews(s, t) /\ t \in State
      /\ \A n \in ViewName : exists(t, n) <=> exists(s, n) \/ n \in tags
  BY EnsureViewsTidy, TidyParts DEF Settled
<1>2. AddWindow(s, id, floating, tags, order) =
        IF hasActiveView(u) /\ contains(activeView(u), id) THEN y ELSE u
  BY DEF AddWindow, WithWindows
<1>3. \A n \in ViewName : id \notin Carried(t, n)
  BY <1>1 DEF Managed, Carried, Carrying, SameButViews
<1>4. all = [s.Tags EXCEPT ![id] = tags]
  BY <1>1 DEF SameButViews
<1> HIDE DEF t
<1>5. all \in [WindowID -> SUBSET ViewName]
  <2>1. t.Tags \in [WindowID -> SUBSET ViewName]
    BY <1>1, StateFields
  <2> QED BY <2>1
<1>6. ASSUME NEW n \in ViewName
      PROVE  Sound(views[n]) /\ WindowsOf(views[n]) = Carrying(all, n)
  <2>1. Sound(t.Views[n]) /\ WindowsOf(t.Views[n]) = Carried(t, n)
    BY <1>1, TidyParts
  <2>2. Carrying(all, n) = IF n \in tags THEN Carried(t, n) \cup {id} ELSE Carried(t, n) \ {id}
    BY <1>1, CarriedAfter
  <2>3. CASE n \in tags
    <3>1. /\ Sound(addToView(t.Views[n], id, floating))
          /\ WindowsOf(addToView(t.Views[n], id, floating)) = Carried(t, n) \cup {id}
      BY <2>1, AddToViewSound
    <3> QED BY <2>2, <2>3, <3>1
  <2>4. CASE n \notin tags
    BY <1>3, <2>1, <2>2, <2>4
  <2> QED BY <2>3, <2>4
<1>7. NoRemains(t, views)
  BY <1>1 DEF Tidy, Clean, NoRemains
<1>8. \A n \in ViewName : n \notin tags => views[n] = t.Views[n]
  OBVIOUS
<1>9. views \in [ViewName -> View]
  <2>1. \A n \in ViewName : views[n] \in View
    BY <1>6 DEF Sound
  <2> QED BY <2>1
<1>10. u = WithWindows(t, all, views)
  OBVIOUS
<1> HIDE DEF all, views, u
<1>11. /\ Tidy(u) /\ u.Tags = all /\ u.Views = views /\ u.viewIndex = t.viewIndex
       /\ u.Outputs = t.Outputs /\ u.FocusOutput = t.FocusOutput /\ u.Focused = t.Focused
  <2>1. Tidy(t)
    BY <1>1
  <2>2. Fits(views, all)
    BY <1>6 DEF Fits
  <2> QED BY <1>5, <1>7, <1>9, <1>10, <2>1, <2>2, ViewsSet
<1>12. activeOutput(u) = activeOutput(s) /\ activeName(u) = activeName(s)
  BY <1>1, <1>11 DEF activeOutput, activeName, SameButViews
<1>13. s \in State /\ u \in State /\ u.Outputs = s.Outputs
  BY <1>1, <1>11, TidyParts DEF Settled, SameButViews
<1>14. hasActiveView(u) <=> s.Outputs # <<>>
  <2>1. s.Outputs # <<>> => hasActiveView(s) /\ activeName(s) \in ViewName
    BY <1>13, ActiveViewExists, ActiveViewType
  <2>2. s.Outputs # <<>> => exists(u, activeName(s))
    BY <1>1, <1>11, <2>1 DEF hasActiveView, exists
  <2> QED BY <1>12, <1>13, <2>2 DEF hasActiveView
<1>17. Undisturbed(s, u)
  <2> SUFFICES ASSUME NEW n \in ViewName PROVE SameFocus(s.Views[n], views[n])
    BY <1>11 DEF Undisturbed
  <2>1. s.Views[n] = t.Views[n] /\ WindowsOf(t.Views[n]) = Carried(t, n)
    BY <1>1, TidyParts DEF SameButViews
  <2>2. CASE n \notin tags
    BY <1>8, <2>1, <2>2 DEF SameFocus
  <2>3. CASE n \in tags
    <3>1. id \in Carrying(all, n)
      <4>1. all[id] = tags
        BY <1>4, <1>13, StateFields
      <4> QED BY <2>3, <4>1 DEF Carrying
    <3>2. WindowsOf(views[n]) # WindowsOf(s.Views[n])
      BY <1>3, <1>6, <2>1, <3>1
    <3> QED BY <3>2 DEF SameFocus
  <2> QED BY <2>2, <2>3
<1>15. CASE ~(hasActiveView(u) /\ contains(activeView(u), id))
  <2>1. AddWindow(s, id, floating, tags, order) = u
    BY <1>2, <1>15
  <2>4. ActiveOnly(s, u)
    BY <1>17 DEF Undisturbed, ActiveOnly
  <2>2. CASE s.Outputs = <<>>
    <3>1. activeOutput(s) = 1 /\ s.FocusOutput = 1 /\ s.Focused = NoWindow
      BY <2>2 DEF Settled, Tidy, activeOutput
    <3>2. u.Focused = NoWindow /\ u.FocusOutput = 1
      BY <1>1, <1>11, <3>1 DEF SameButViews
    <3>3. Settled(u)
      BY <1>11, <1>12, <1>13, <2>2, <3>1, <3>2 DEF Settled
    <3> QED BY <1>4, <1>11, <1>13, <2>1, <2>2, <2>4, <3>1, <3>2, <3>3
  <2>3. CASE s.Outputs # <<>>
    <3>1. hasActiveView(u) /\ activeName(s) \in ViewName
      BY <1>13, <1>14, <2>3, ActiveOutputType
    <3>2. id \notin WindowsOf(activeView(u))
      BY <1>15, <3>1, WindowsOfView
    <3>3. activeName(s) \notin tags
      <4>1. activeView(u) = views[activeName(s)]
        BY <1>11, <1>12 DEF activeView
      <4>2. id \notin Carrying(all, activeName(s))
        BY <1>6, <3>1, <3>2, <4>1
      <4>3. activeName(s) \notin all[id]
        BY <4>2 DEF Carrying
      <4>4. all[id] = tags
        <5>1. s.Tags \in [WindowID -> SUBSET ViewName]
          BY <1>13, StateFields
        <5> QED BY <1>4, <5>1
      <4> QED BY <4>3, <4>4
    <3>4. activeView(u) = activeView(s)
      BY <1>1, <1>8, <1>11, <1>12, <3>1, <3>3 DEF activeView, SameButViews
    <3>5. u.Focused = s.Focused /\ u.FocusOutput = s.FocusOutput
      BY <1>1, <1>11 DEF SameButViews
    <3>6. Settled(u)
      BY <1>11, <1>12, <1>13, <2>3, <3>4, <3>5 DEF Settled
    <3> QED BY <1>4, <1>11, <1>13, <2>1, <2>4, <3>3, <3>5, <3>6
  <2> QED BY <2>2, <2>3
<1>16. CASE hasActiveView(u) /\ contains(activeView(u), id)
  <2>1. AddWindow(s, id, floating, tags, order) = y
    BY <1>2, <1>16
  <2>2. Sound(activeView(u)) /\ activeName(u) \in ViewName
    BY <1>11, <1>13, <1>16, ActiveViewType, TidyParts DEF activeView
  <2>3. /\ Sound(w) /\ WindowsOf(w) = WindowsOf(activeView(u)) /\ focusedWindow(w) = id
    BY <1>16, <2>2, FocusWindowSound
  <2> HIDE DEF w
  <2>4. /\ Tidy(x) /\ x.Outputs = u.Outputs /\ x.Tags = u.Tags
        /\ activeOutput(x) = activeOutput(u) /\ activeView(x) = w
        /\ \A n \in ViewName : n # activeName(u) => x.Views[n] = u.Views[n]
    BY <1>11, <1>16, <2>2, <2>3, ReworkedTidy
  <2>5. activeOutput(u) \in Nat
    BY <1>13, <1>16, ActiveOutputType DEF hasActiveView
  <2>6. u.Outputs # <<>>
    BY <1>16 DEF hasActiveView
  <2> HIDE DEF x
  <2>7. x \in State
    BY <2>4, TidyParts
  <2>8. /\ y.viewIndex = x.viewIndex /\ y.Views = x.Views /\ y.Outputs = x.Outputs
        /\ y.Tags = x.Tags /\ y.Focused = id /\ y.FocusOutput = activeOutput(u) /\ y \in State
    BY <2>5, <2>7 DEF State
  <2> HIDE DEF y
  <2>9. Tidy(y)
    BY <2>4, <2>6, <2>8, FocusMoved DEF SameButFocus
  <2>10. activeOutput(y) = activeOutput(u) /\ activeView(y) = w
    <3>1. activeOutput(u) \in DOMAIN u.Outputs
      BY <1>13, <2>6, ActiveOutputType, OutputsTyped
    <3>2. activeOutput(y) = activeOutput(u)
      BY <2>4, <2>8, <3>1 DEF activeOutput
    <3> QED BY <2>4, <2>8, <3>2 DEF activeView, activeName
  <2>11. Settled(y)
    BY <2>3, <2>4, <2>6, <2>8, <2>9, <2>10 DEF Settled
  <2>12. activeName(s) \in tags
    <3>1. activeView(u) = views[activeName(s)] /\ activeName(s) \in ViewName
      BY <1>11, <1>12, <2>2 DEF activeView
    <3>2. id \in WindowsOf(views[activeName(s)])
      BY <1>16, <3>1, WindowsOfView
    <3>3. activeName(s) \in all[id]
      BY <1>6, <3>1, <3>2 DEF Carrying
    <3>4. s.Tags \in [WindowID -> SUBSET ViewName]
      BY <1>13, StateFields
    <3> QED BY <1>4, <3>3, <3>4
  <2>13. y.FocusOutput = s.FocusOutput
    BY <1>12, <2>8 DEF Settled
  <2>14. ActiveOnly(s, y)
    <3>1. hasActiveView(s)
      BY <1>13, <1>14, <1>16, ActiveViewExists
    <3> QED BY <1>12, <1>17, <2>4, <2>8, <3>1 DEF ActiveOnly, Undisturbed
  <2> QED BY <1>4, <1>11, <1>13, <2>1, <2>4, <2>6, <2>8, <2>11, <2>12, <2>13, <2>14
<1> QED BY <1>15, <1>16

\* A window that comes or goes changes what the view holds.
LEMMA RemovalDisturbsNone ==
  ASSUME NEW v, Sound(v), NEW id
  PROVE  SameFocus(v, removeFromView(v, id))
<1>1. CASE id \in WindowsOf(v)
  <2>1. WindowsOf(removeFromView(v, id)) = WindowsOf(v) \ {id}
    BY RemoveFromViewSound
  <2> QED BY <1>1, <2>1 DEF SameFocus
<1>2. CASE id \notin WindowsOf(v)
  <2>1. ~InColumn(v, id) /\ ~FloatContains(v, id)
    BY <1>2, WindowsOfView
  <2> QED BY <2>1 DEF removeFromView, SameFocus
<1> QED BY <1>1, <1>2

LEMMA AdditionDisturbsNone ==
  ASSUME NEW v, Sound(v), NEW id \in WindowID, NEW floating \in BOOLEAN
  PROVE  SameFocus(v, addToView(v, id, floating))
<1>1. CASE id \in WindowsOf(v)
  <2>1. addToView(v, id, floating) = v
    BY <1>1, WindowsOfView DEF addToView
  <2> QED BY <2>1 DEF SameFocus
<1>2. CASE id \notin WindowsOf(v)
  <2>1. WindowsOf(addToView(v, id, floating)) = WindowsOf(v) \cup {id}
    BY AddToViewSound
  <2> QED BY <1>2, <2>1 DEF SameFocus
<1> QED BY <1>1, <1>2

\* Window id is out of every view, which may be gone with it.
Withdrawn(s, r, id) ==
  \A n \in ViewName : r.Views[n] \in {removeFromView(s.Views[n], id), NewView}

LEMMA RemoveWindowSettles ==
  ASSUME NEW s, Settled(s), NEW id \in WindowID, Distinct(RemoveWindow(s, id))
  PROVE  /\ Settled(RemoveWindow(s, id))
         /\ RemoveWindow(s, id).Outputs = s.Outputs
         /\ RemoveWindow(s, id).Tags = [s.Tags EXCEPT ![id] = {}]
         /\ RemoveWindow(s, id).FocusOutput = s.FocusOutput
         /\ Undisturbed(s, RemoveWindow(s, id))
         /\ Managed(s, id) => Withdrawn(s, RemoveWindow(s, id), id)
<1> DEFINE tags  == [s.Tags EXCEPT ![id] = {}]
           views == [n \in ViewName |-> removeFromView(s.Views[n], id)]
           x     == WithWindows(s, tags, views)
<1>1. Tidy(s) /\ s \in State /\ Clean(s) /\ s.Tags \in [WindowID -> SUBSET ViewName]
  BY TidyParts, StateFields DEF Settled, Tidy
<1>2. CASE ~Managed(s, id)
  <2>1. s.Tags[id] = {}
    BY <1>2 DEF Managed
  <2>2. tags = s.Tags
    BY <1>1, <2>1
  <2> QED BY <1>2, <2>2, UndisturbedByNothing DEF RemoveWindow
<1>3. CASE Managed(s, id)
  <2>1. RemoveWindow(s, id) = refocus(gcViews(x))
    BY <1>3 DEF RemoveWindow, WithWindows
  <2>2. tags \in [WindowID -> SUBSET ViewName]
    BY <1>1
  <2>3. ASSUME NEW n \in ViewName
        PROVE  /\ Sound(views[n]) /\ WindowsOf(views[n]) = Carrying(tags, n)
               /\ SameFocus(s.Views[n], views[n])
    <3>1. Sound(s.Views[n]) /\ WindowsOf(s.Views[n]) = Carried(s, n)
      BY <1>1, TidyParts
    <3>2. /\ Sound(removeFromView(s.Views[n], id))
          /\ WindowsOf(removeFromView(s.Views[n], id)) = WindowsOf(s.Views[n]) \ {id}
      BY <3>1, RemoveFromViewSound
    <3>3. Carrying(tags, n) = Carried(s, n) \ {id}
      <4>1. \A w \in WindowID : tags[w] = IF w = id THEN {} ELSE s.Tags[w]
        BY <1>1
      <4> HIDE DEF tags
      <4> QED BY <4>1 DEF Carried, Carrying
    <3>4. SameFocus(s.Views[n], removeFromView(s.Views[n], id))
      BY <3>1, RemovalDisturbsNone
    <3> QED BY <3>1, <3>2, <3>3, <3>4
  <2>4. Fits(views, tags)
    BY <2>3 DEF Fits
  <2>5. NoRemains(s, views)
    BY <1>1, RemoveFromNewView DEF Clean, NoRemains
  <2>6. views \in [ViewName -> View]
    <3>1. \A n \in ViewName : views[n] \in View
      BY <2>3 DEF Sound
    <3> QED BY <3>1
  <2> HIDE DEF tags, views
  <2>7. x = WithWindows(s, tags, views)
    OBVIOUS
  <2> HIDE DEF x
  <2>8. /\ Tidy(x) /\ x.Outputs = s.Outputs /\ x.Tags = tags /\ x.FocusOutput = s.FocusOutput
        /\ x.Views = views
    BY <1>1, <2>2, <2>4, <2>5, <2>6, <2>7, ViewsSet
  <2>9. Distinct(refocus(gcViews(x)))
    BY <2>1
  <2>10. activeOutput(x) = s.FocusOutput
    BY <2>8 DEF activeOutput, Settled
  <2>11. Undisturbed(s, x)
    BY <2>3, <2>8 DEF Undisturbed
  <2>12. Undisturbed(s, refocus(gcViews(x)))
    BY <1>1, <2>8, <2>9, <2>11, GcRefocusSettles, UndisturbedByLosses
  <2>13. Withdrawn(s, refocus(gcViews(x)), id)
    <3>1. KeptOrGone(x, refocus(gcViews(x)))
      BY <2>8, <2>9, GcRefocusSettles
    <3> QED BY <2>8, <3>1 DEF KeptOrGone, Withdrawn, views
  <2> QED BY <2>1, <2>8, <2>9, <2>10, <2>12, <2>13, GcRefocusSettles DEF tags
<1> QED BY <1>2, <1>3

LEMMA ReplaceWindowSettles ==
  ASSUME NEW s, Settled(s), Distinct(s), NEW old \in WindowID, NEW nu \in WindowID,
         Managed(s, old), ~Managed(s, nu)
  PROVE  /\ Settled(ReplaceWindow(s, old, nu))
         /\ ReplaceWindow(s, old, nu).Outputs = s.Outputs
         /\ ReplaceWindow(s, old, nu).Tags =
              [s.Tags EXCEPT ![nu] = s.Tags[old], ![old] = {}]
         /\ ReplaceWindow(s, old, nu).FocusOutput = s.FocusOutput
         /\ ReplaceWindow(s, old, nu).Focused = Renamed(s.Focused, old, nu)
         /\ Undisturbed(s, ReplaceWindow(s, old, nu))
<1> DEFINE tags  == [s.Tags EXCEPT ![nu] = s.Tags[old], ![old] = {}]
           views == [n \in ViewName |-> ReplaceInView(s.Views[n], old, nu)]
           f     == Renamed(s.Focused, old, nu)
           u     == WithWindows(s, tags, views)
           x     == [u EXCEPT !.Focused = f]
<1>1. Tidy(s) /\ s \in State /\ Clean(s) /\ s.Tags \in [WindowID -> SUBSET ViewName]
      /\ s.Focused \in WindowID \cup {NoWindow}
  BY TidyParts, StateFields DEF Settled, Tidy
<1>2. old # nu /\ s.Tags[nu] = {}
  BY DEF Managed
<1>3. ReplaceWindow(s, old, nu) = x
  BY <1>2 DEF ReplaceWindow, WithWindows, Renamed
<1>4. tags \in [WindowID -> SUBSET ViewName]
  BY <1>1
<1>5. ASSUME NEW n \in ViewName
      PROVE  Carrying(tags, n) = {Renamed(id, old, nu) : id \in Carried(s, n)} /\ nu \notin Carried(s, n)
  <2>1. \A id \in WindowID : tags[id] = IF id = old THEN {} ELSE IF id = nu THEN s.Tags[old] ELSE s.Tags[id]
    BY <1>1, <1>2
  <2>2. nu \notin Carried(s, n)
    BY <1>2 DEF Carried, Carrying
  <2> HIDE DEF tags
  <2>3. ASSUME NEW id \in Carrying(tags, n) PROVE \E w \in Carried(s, n) : id = Renamed(w, old, nu)
    <3>1. id \in WindowID /\ n \in tags[id]
      BY <2>3 DEF Carrying
    <3>2. CASE id = nu
      <4>1. old \in Carried(s, n) /\ nu = Renamed(old, old, nu)
        BY <1>2, <2>1, <3>1, <3>2 DEF Carried, Carrying, Renamed
      <4> QED BY <3>2, <4>1
    <3>3. CASE id # nu
      <4>1. id # old /\ id \in Carried(s, n) /\ id = Renamed(id, old, nu)
        BY <2>1, <3>1, <3>3 DEF Carried, Carrying, Renamed
      <4> QED BY <4>1
    <3> QED BY <3>2, <3>3
  <2>4. ASSUME NEW w \in Carried(s, n) PROVE Renamed(w, old, nu) \in Carrying(tags, n)
    BY <1>2, <2>1, <2>4 DEF Carried, Carrying, Renamed
  <2> QED BY <2>2, <2>3, <2>4
<1>6. ASSUME NEW n \in ViewName
      PROVE  /\ Sound(views[n]) /\ WindowsOf(views[n]) = Carrying(tags, n)
             /\ focusedWindow(views[n]) = Renamed(focusedWindow(s.Views[n]), old, nu)
  <2>1. Sound(s.Views[n]) /\ WindowsOf(s.Views[n]) = Carried(s, n)
    BY <1>1, TidyParts
  <2>2. nu \notin WindowsOf(s.Views[n])
    BY <1>5, <2>1
  <2> DEFINE v == ReplaceInView(s.Views[n], old, nu)
  <2>3. /\ Sound(v) /\ WindowsOf(v) = {Renamed(id, old, nu) : id \in WindowsOf(s.Views[n])}
        /\ focusedWindow(v) = Renamed(focusedWindow(s.Views[n]), old, nu)
    BY <2>1, <2>2, ReplaceInViewSound
  <2>4. views[n] = v
    OBVIOUS
  <2> HIDE DEF v, views, tags
  <2> QED BY <1>5, <2>1, <2>3, <2>4
<1>7. Fits(views, tags)
  BY <1>6 DEF Fits
<1>8. NoRemains(s, views)
  BY <1>1, ReplaceInNewView DEF Clean, NoRemains
<1>9. views \in [ViewName -> View]
  <2>1. \A n \in ViewName : views[n] \in View
    BY <1>6 DEF Sound
  <2> QED BY <2>1
<1> HIDE DEF tags, views
<1>10. u = WithWindows(s, tags, views)
  OBVIOUS
<1> HIDE DEF u
<1>11. /\ Tidy(u) /\ u.Tags = tags /\ u.Views = views /\ u.viewIndex = s.viewIndex
       /\ u.Outputs = s.Outputs /\ u.FocusOutput = s.FocusOutput
  BY <1>1, <1>4, <1>7, <1>8, <1>9, <1>10, ViewsSet
<1>12. u \in State /\ f \in WindowID \cup {NoWindow}
  BY <1>1, <1>11, TidyParts DEF Renamed
<1> HIDE DEF f
<1>13. /\ x.viewIndex = u.viewIndex /\ x.Views = u.Views /\ x.Outputs = u.Outputs
       /\ x.Tags = u.Tags /\ x.Focused = f /\ x.FocusOutput = u.FocusOutput /\ x \in State
  BY <1>12 DEF State
<1> HIDE DEF x
<1>14. Tidy(x)
  <2>1. SameButFocus(u, x) /\ (x.Outputs = <<>> => x.FocusOutput = 1)
    BY <1>11, <1>13 DEF SameButFocus, Tidy
  <2> QED BY <1>11, <1>13, <2>1, FocusMoved
<1>15. x.Focused = IF s.Outputs = <<>> THEN NoWindow ELSE focusedWindow(activeView(x))
  <2>1. CASE s.Outputs = <<>>
    BY <1>13, <2>1, ViewAssumption DEF Settled, f, Renamed
  <2>2. CASE s.Outputs # <<>>
    <3>1. activeName(s) \in ViewName
      BY <1>1, <2>2, ActiveOutputType
    <3>2. activeName(x) = activeName(s)
      BY <1>11, <1>13 DEF activeName, activeOutput
    <3>3. activeView(x) = views[activeName(s)] /\ activeView(s) = s.Views[activeName(s)]
      BY <1>11, <1>13, <3>2 DEF activeView
    <3>4. s.Focused = focusedWindow(activeView(s))
      BY <2>2 DEF Settled
    <3> QED BY <1>6, <1>13, <2>2, <3>1, <3>3, <3>4 DEF f
  <2> QED BY <2>1, <2>2
<1>16. Settled(x)
  <2>1. x.Outputs = s.Outputs /\ x.FocusOutput = s.FocusOutput
    BY <1>11, <1>13
  <2> QED BY <1>14, <1>15, <2>1, FocusKept
<1>17. x.Focused = Renamed(s.Focused, old, nu)
  BY <1>13 DEF f
<1>18. x.Outputs = s.Outputs /\ x.Tags = tags /\ x.FocusOutput = s.FocusOutput
  BY <1>11, <1>13
<1>19. Undisturbed(s, x)
  <2> SUFFICES ASSUME NEW n \in ViewName, WindowsOf(views[n]) = WindowsOf(s.Views[n])
               PROVE  focusedWindow(views[n]) = focusedWindow(s.Views[n])
    BY <1>11, <1>13 DEF Undisturbed, SameFocus
  <2>1. Sound(s.Views[n]) /\ WindowsOf(s.Views[n]) = Carried(s, n)
    BY <1>1, TidyParts
  <2>2. old \notin WindowsOf(views[n])
    BY <1>2, <1>5, <1>6 DEF Renamed
  <2>3. focusedWindow(s.Views[n]) # old
    BY <2>1, <2>2, FocusedIsThere, ViewAssumption
  <2> QED BY <1>6, <2>3 DEF Renamed
<1> QED BY <1>3, <1>16, <1>17, <1>18, <1>19 DEF tags

-----------------------------------------------------------------------------
(* Tags and the views they name.                                           *)

LEMMA RetagSettles ==
  ASSUME NEW s, Settled(s), s.Focused \in WindowID,
         NEW tags \in SUBSET ViewName, NEW order \in CreationOrders(s, tags),
         Distinct(Retag(s, tags, order))
  PROVE  /\ Settled(Retag(s, tags, order))
         /\ Retag(s, tags, order).Outputs = s.Outputs
         /\ Retag(s, tags, order).Tags = [s.Tags EXCEPT ![s.Focused] = tags]
         /\ Retag(s, tags, order).FocusOutput = s.FocusOutput
         /\ Undisturbed(s, Retag(s, tags, order))
<1> DEFINE id    == s.Focused
           fl    == vFocusFloating(s, id)
           e     == ensureViews(s, order)
           all   == [e.Tags EXCEPT ![id] = tags]
           t     == [e EXCEPT !.Tags = all]
           views == [n \in ViewName |->
                       IF ~exists(t, n) THEN t.Views[n]
                       ELSE IF n \in t.Tags[id] THEN addToView(t.Views[n], id, fl)
                       ELSE removeFromView(t.Views[n], id)]
           u     == [t EXCEPT !.Views = views]
<1>1. /\ Tidy(e) /\ SameButViews(s, e) /\ e \in State /\ Clean(e)
      /\ \A n \in ViewName : exists(e, n) <=> exists(s, n) \/ n \in tags
  BY EnsureViewsTidy, TidyParts DEF Settled, Tidy
<1>2. Retag(s, tags, order) = refocus(gcViews(u))
  BY DEF Retag, syncWindowViews
<1>3. id \in WindowID /\ fl \in BOOLEAN
  BY DEF vFocusFloating, hasActiveView
<1>4. all = [s.Tags EXCEPT ![id] = tags] /\ e.Tags = s.Tags /\ e.Outputs = s.Outputs
      /\ e.FocusOutput = s.FocusOutput
  BY <1>1 DEF SameButViews
<1> HIDE DEF e, fl
<1>5. e.Tags \in [WindowID -> SUBSET ViewName] /\ e.Views \in [ViewName -> View]
  BY <1>1, StateFields
<1>6. all \in [WindowID -> SUBSET ViewName] /\ all[id] = tags
  BY <1>3, <1>5
<1>7. t.viewIndex = e.viewIndex /\ t.Views = e.Views /\ t.Tags = all
  <2> HIDE DEF all
  <2> QED BY <1>1 DEF State
<1>8. ASSUME NEW n \in ViewName
      PROVE  Carrying(all, n) = IF n \in tags THEN Carried(e, n) \cup {id} ELSE Carried(e, n) \ {id}
  <2>1. all = [e.Tags EXCEPT ![id] = tags] /\ e \in State
    BY <1>1, <1>4, Zenon
  <2> HIDE DEF all
  <2>2. Carrying([e.Tags EXCEPT ![id] = tags], n) =
          IF n \in tags THEN Carried(e, n) \cup {id} ELSE Carried(e, n) \ {id}
    <3>1. id \in WindowID /\ e.Tags \in [WindowID -> SUBSET ViewName]
      BY <1>3, <1>5
    <3> QED BY <3>1 DEF Carried, Carrying
  <2> QED BY <2>1, <2>2, Zenon
<1>9. u = WithWindows(e, all, views)
  <2> HIDE DEF all
  <2>1. \A vs : [t EXCEPT !.Views = vs] = WithWindows(e, all, vs)
    BY <1>1 DEF WithWindows, State
  <2> HIDE DEF t, views
  <2> QED BY <2>1
<1> HIDE DEF id, all, t, u
<1>10. \A n \in ViewName : views[n] = IF ~exists(e, n) THEN e.Views[n]
                                      ELSE IF n \in tags THEN addToView(e.Views[n], id, fl)
                                      ELSE removeFromView(e.Views[n], id)
  <2>1. \A n \in ViewName : exists(t, n) <=> exists(e, n)
    BY <1>7 DEF exists
  <2> QED BY <1>6, <1>7, <2>1
<1>11. \A n \in ViewName : views[n] \in View => views[n] \in View
  OBVIOUS
<1>12. DOMAIN views = ViewName /\ views = [n \in ViewName |-> views[n]]
  OBVIOUS
<1> HIDE DEF views
<1>13. ASSUME NEW n \in ViewName
       PROVE  Sound(views[n]) /\ WindowsOf(views[n]) = Carrying(all, n)
  <2>1. Sound(e.Views[n]) /\ WindowsOf(e.Views[n]) = Carried(e, n)
    BY <1>1, TidyParts
  <2>2. CASE ~exists(e, n)
    <3>1. n \notin tags
      BY <1>1, <2>2
    <3>2. Carried(e, n) = {}
      BY <1>1, <2>2, CarriedExist
    <3> QED BY <1>8, <1>10, <2>1, <2>2, <3>1, <3>2
  <2>3. CASE exists(e, n) /\ n \in tags
    <3>1. /\ Sound(addToView(e.Views[n], id, fl))
          /\ WindowsOf(addToView(e.Views[n], id, fl)) = Carried(e, n) \cup {id}
      BY <1>3, <2>1, AddToViewSound
    <3> QED BY <1>8, <1>10, <2>3, <3>1
  <2>4. CASE exists(e, n) /\ n \notin tags
    <3>1. /\ Sound(removeFromView(e.Views[n], id))
          /\ WindowsOf(removeFromView(e.Views[n], id)) = Carried(e, n) \ {id}
      BY <2>1, RemoveFromViewSound
    <3> QED BY <1>8, <1>10, <2>4, <3>1
  <2> QED BY <2>2, <2>3, <2>4
<1>14. Fits(views, all)
  BY <1>13 DEF Fits
<1>15. NoRemains(e, views)
  BY <1>1, <1>10 DEF Clean, NoRemains
<1>16. views \in [ViewName -> View]
  <2>1. \A n \in ViewName : views[n] \in View
    BY <1>13 DEF Sound
  <2> QED BY <1>12, <2>1
<1>17. /\ Tidy(u) /\ u.Outputs = e.Outputs /\ u.Tags = all /\ u.FocusOutput = e.FocusOutput
       /\ u.Views = views
  BY <1>1, <1>6, <1>9, <1>14, <1>15, <1>16, ViewsSet
<1>18. Distinct(refocus(gcViews(u)))
  BY <1>2
<1>19. /\ Settled(refocus(gcViews(u))) /\ refocus(gcViews(u)).Outputs = u.Outputs
       /\ refocus(gcViews(u)).Tags = u.Tags
       /\ refocus(gcViews(u)).FocusOutput = activeOutput(u)
  BY <1>17, <1>18, GcRefocusSettles
<1>20. activeOutput(u) = s.FocusOutput
  BY <1>4, <1>17 DEF activeOutput, Settled
<1>21. Undisturbed(s, u)
  <2> SUFFICES ASSUME NEW n \in ViewName PROVE SameFocus(e.Views[n], views[n])
    BY <1>1, <1>17 DEF Undisturbed, SameButViews
  <2>1. Sound(e.Views[n])
    BY <1>1, TidyParts
  <2>2. SameFocus(e.Views[n], e.Views[n])
    BY DEF SameFocus
  <2> QED BY <1>3, <1>10, <2>1, <2>2, RemovalDisturbsNone, AdditionDisturbsNone
<1>22. Undisturbed(s, refocus(gcViews(u)))
  <2>1. KeptOrGone(u, refocus(gcViews(u))) /\ Tidy(s)
    BY <1>17, <1>18, GcRefocusSettles DEF Settled
  <2> QED BY <1>21, <2>1, UndisturbedByLosses
<1> QED BY <1>2, <1>4, <1>17, <1>19, <1>20, <1>22 DEF id

LEMMA MoveToViewSettles ==
  ASSUME NEW s, Settled(s), NEW n \in ViewName, Distinct(MoveToView(s, n))
  PROVE  /\ Settled(MoveToView(s, n)) /\ MoveToView(s, n).Outputs = s.Outputs
         /\ MoveToView(s, n).FocusOutput = s.FocusOutput
         /\ MoveToView(s, n).Tags =
              IF FocusedTags(s) = {} THEN s.Tags ELSE [s.Tags EXCEPT ![s.Focused] = {n}]
         /\ Undisturbed(s, MoveToView(s, n))
<1>1. CASE FocusedTags(s) = {}
  BY <1>1, UndisturbedByNothing DEF MoveToView
<1>2. CASE FocusedTags(s) # {}
  <2>1. s.Focused \in WindowID
    BY <1>2, FocusedTagsType, TidyParts DEF Settled
  <2>2. MoveToView(s, n) = Retag(s, {n}, CreateOne(s, n))
    BY <1>2 DEF MoveToView
  <2>3. {n} \in SUBSET ViewName /\ CreateOne(s, n) \in CreationOrders(s, {n})
    BY CreateOneOrder
  <2>4. Distinct(Retag(s, {n}, CreateOne(s, n)))
    BY <2>2
  <2> DEFINE r == Retag(s, {n}, CreateOne(s, n))
  <2>5. /\ Settled(r) /\ r.Outputs = s.Outputs /\ r.Tags = [s.Tags EXCEPT ![s.Focused] = {n}]
        /\ r.FocusOutput = s.FocusOutput /\ Undisturbed(s, r)
    BY <2>1, <2>3, <2>4, RetagSettles
  <2> QED BY <1>2, <2>2, <2>5
<1> QED BY <1>1, <1>2

LEMMA MoveToViewNSettles ==
  ASSUME NEW s, Settled(s), NEW n \in ViewName, Distinct(MoveToViewN(s, n))
  PROVE  /\ Settled(MoveToViewN(s, n)) /\ MoveToViewN(s, n).Outputs = s.Outputs
         /\ MoveToViewN(s, n).FocusOutput = s.FocusOutput
         /\ MoveToViewN(s, n).Tags =
              IF FocusedTags(s) = {} THEN s.Tags ELSE [s.Tags EXCEPT ![s.Focused] = {n}]
         /\ Undisturbed(s, MoveToViewN(s, n))
<1> DEFINE e == ensureView(s, n)
<1>1. Settled(e) /\ SameButViews(s, e)
  BY EnsureViewSettles, EnsureViewTidy DEF Settled
<1>2. MoveToViewN(s, n) = MoveToView(e, n)
  BY DEF MoveToViewN
<1> HIDE DEF e
<1>3. Distinct(MoveToView(e, n))
  BY <1>2
<1>4. FocusedTags(e) = FocusedTags(s)
  BY <1>1 DEF FocusedTags, SameButViews
<1>5. Undisturbed(s, MoveToView(e, n))
  BY <1>1, <1>3, MoveToViewSettles DEF SameButViews, Undisturbed
<1> QED BY <1>1, <1>2, <1>3, <1>4, <1>5, MoveToViewSettles DEF SameButViews

LEMMA TagSpecSettles ==
  ASSUME NEW s, Settled(s), NEW specs, NEW order \in CreationOrders(s, specTags(s, specs)),
         Distinct(TagSpec(s, specs, order))
  PROVE  /\ Settled(TagSpec(s, specs, order)) /\ TagSpec(s, specs, order).Outputs = s.Outputs
         /\ TagSpec(s, specs, order).FocusOutput = s.FocusOutput
         /\ TagSpec(s, specs, order).Tags =
              IF FocusedTags(s) = {} \/ specs = <<>> \/ specTags(s, specs) = {} THEN s.Tags
              ELSE [s.Tags EXCEPT ![s.Focused] = specTags(s, specs)]
         /\ Undisturbed(s, TagSpec(s, specs, order))
<1>1. CASE FocusedTags(s) = {} \/ specs = <<>> \/ specTags(s, specs) = {}
  BY <1>1, UndisturbedByNothing DEF TagSpec
<1>2. CASE ~(FocusedTags(s) = {} \/ specs = <<>> \/ specTags(s, specs) = {})
  <2>1. s.Focused \in WindowID /\ specTags(s, specs) \in SUBSET ViewName
    BY <1>2, FocusedTagsType, SpecTagsType, TidyParts DEF Settled
  <2>2. TagSpec(s, specs, order) = Retag(s, specTags(s, specs), order)
    BY <1>2 DEF TagSpec
  <2>3. Distinct(Retag(s, specTags(s, specs), order))
    BY <2>2
  <2> QED BY <1>2, <2>1, <2>2, <2>3, RetagSettles
<1> QED BY <1>1, <1>2

LEMMA SelectViewSettles ==
  ASSUME NEW s, Settled(s), NEW n \in ViewName, Distinct(SelectView(s, n))
  PROVE  /\ Settled(SelectView(s, n))
         /\ SelectView(s, n).Tags = s.Tags
         /\ SelectView(s, n).FocusOutput = s.FocusOutput
         /\ SelectView(s, n).Outputs =
              IF s.Outputs = <<>> \/ activeName(s) = n THEN s.Outputs ELSE SelectedOutputs(s, n)
         /\ Undisturbed(s, SelectView(s, n))
         /\ SelectView(s, n).Outputs = s.Outputs \/ Swept(SelectView(s, n))
<1> DEFINE a    == activeOutput(s)
           outs == SelectedOutputs(s, n)
           t    == ensureView(s, n)
           x    == [t EXCEPT !.Outputs = outs, !.FocusOutput = a]
<1>1. Tidy(s) /\ s \in State /\ s.FocusOutput = a
  BY TidyParts DEF Settled
<1>2. CASE s.Outputs = <<>>
  BY <1>2, UndisturbedByNothing DEF SelectView
<1>3. CASE s.Outputs # <<>> /\ activeName(s) = n
  <2>1. SelectView(s, n) = refocus(s)
    BY <1>3 DEF SelectView
  <2>2. Distinct(refocus(s))
    BY <2>1
  <2> QED BY <1>1, <1>3, <2>1, <2>2, RefocusSettles, UndisturbedByNothing DEF SameButFocus
<1>4. CASE s.Outputs # <<>> /\ activeName(s) # n
  <2>1. SelectView(s, n) = refocus(gcViews(x))
    BY <1>4 DEF SelectView, SelectedOutputs
  <2>2. outs \in Seq(Output) /\ a \in Nat
    BY <1>1, <1>4, SelectedOutputsType, ActiveOutputType, OutputsTyped
  <2>3. outs # <<>> /\ a \in DOMAIN outs
    <3>1. a \in DOMAIN s.Outputs /\ DOMAIN outs = DOMAIN s.Outputs
      BY <1>1, <1>4, ActiveOutputType, OutputsTyped, SelectedOutputsViews
    <3> HIDE DEF a, outs
    <3> QED BY <3>1
  <2>4. Tidy(t) /\ SameButViews(s, t)
    BY <1>1, EnsureViewTidy
  <2> HIDE DEF outs, a, t
  <2>5. x = WithOutputs(t, outs, a)
    BY DEF WithOutputs
  <2> HIDE DEF x
  <2>6. /\ Tidy(x) /\ x.Outputs = outs /\ x.FocusOutput = a /\ x.Tags = t.Tags
        /\ x.Views = t.Views
    <3>1. outs = <<>> => a = 1
      BY <2>3
    <3> QED BY <2>2, <2>4, <2>5, <3>1, OutputsSet
  <2>7. activeOutput(x) = a
    BY <2>3, <2>6 DEF activeOutput
  <2>8. Distinct(refocus(gcViews(x)))
    BY <2>1
  <2>9. /\ Settled(refocus(gcViews(x))) /\ refocus(gcViews(x)).Outputs = x.Outputs
        /\ refocus(gcViews(x)).Tags = x.Tags
        /\ refocus(gcViews(x)).FocusOutput = activeOutput(x)
    BY <2>6, <2>8, GcRefocusSettles
  <2>10. Undisturbed(s, refocus(gcViews(x))) /\ Swept(refocus(gcViews(x)))
    <3>1. Undisturbed(s, x)
      BY <2>4, <2>6, UndisturbedByNothing DEF SameButViews
    <3> QED BY <1>1, <2>6, <2>8, <3>1, GcRefocusSettles, UndisturbedByLosses
  <2> QED BY <1>1, <1>4, <2>1, <2>4, <2>6, <2>7, <2>9, <2>10 DEF SameButViews, outs, a
<1> QED BY <1>2, <1>3, <1>4

\* Once a view is selected the active output shows it.
LEMMA SelectViewActive ==
  ASSUME NEW s, Settled(s), s.Outputs # <<>>, NEW n \in ViewName, Distinct(SelectView(s, n))
  PROVE  /\ hasActiveView(SelectView(s, n)) /\ activeName(SelectView(s, n)) = n
<1> DEFINE r == SelectView(s, n)
           a == activeOutput(s)
<1>1. /\ Settled(r) /\ r.FocusOutput = s.FocusOutput /\ s.FocusOutput = a
      /\ r.Outputs = IF activeName(s) = n THEN s.Outputs ELSE SelectedOutputs(s, n)
  BY SelectViewSettles DEF Settled
<1>2. s \in State /\ r \in State
  BY <1>1, TidyParts DEF Settled
<1>3. a \in DOMAIN s.Outputs
  BY <1>2, ActiveOutputType, OutputsTyped
<1>4. a \in DOMAIN r.Outputs /\ r.Outputs[a].View = n
  <2> HIDE DEF r
  <2>1. CASE activeName(s) = n
    BY <1>1, <1>3, <2>1 DEF activeName
  <2>2. CASE activeName(s) # n
    <3>1. r.Outputs = SelectedOutputs(s, n)
      BY <1>1, <2>2
    <3> HIDE DEF a
    <3> QED BY <1>2, <1>3, <2>2, <3>1, SelectedOutputsViews DEF a
  <2> QED BY <2>1, <2>2
<1> HIDE DEF r, a
<1>5. activeOutput(r) = a /\ r.Outputs # <<>>
  BY <1>1, <1>4 DEF activeOutput
<1>6. activeName(r) = n
  BY <1>4, <1>5 DEF activeName
<1>7. hasActiveView(r)
  BY <1>2, <1>5, ActiveViewExists DEF r
<1> QED BY <1>6, <1>7 DEF r

LEMMA SelectViewNSettles ==
  ASSUME NEW s, Settled(s), NEW n \in ViewName, Distinct(SelectViewN(s, n))
  PROVE  /\ Settled(SelectViewN(s, n))
         /\ SelectViewN(s, n).Tags = s.Tags
         /\ SelectViewN(s, n).FocusOutput = s.FocusOutput
         /\ SelectViewN(s, n).Outputs =
              IF s.Outputs = <<>> \/ activeName(s) = n THEN s.Outputs ELSE SelectedOutputs(s, n)
         /\ Undisturbed(s, SelectViewN(s, n))
         /\ SelectViewN(s, n).Outputs = s.Outputs \/ Swept(SelectViewN(s, n))
<1> DEFINE e == ensureView(s, n)
<1>1. Settled(e) /\ SameButViews(s, e)
  BY EnsureViewSettles, EnsureViewTidy DEF Settled
<1>2. SelectViewN(s, n) = SelectView(e, n)
  BY DEF SelectViewN
<1> HIDE DEF e
<1>3. Distinct(SelectView(e, n))
  BY <1>2
<1>4. activeOutput(e) = activeOutput(s) /\ activeName(e) = activeName(s)
  BY <1>1 DEF activeOutput, activeName, SameButViews
<1>5. SelectedOutputs(e, n) = SelectedOutputs(s, n)
  BY <1>1, <1>4 DEF SelectedOutputs, Showing, outputShowing, SameButViews
<1>6. Undisturbed(s, SelectView(e, n))
  BY <1>1, <1>3, SelectViewSettles DEF SameButViews, Undisturbed
<1> QED BY <1>1, <1>2, <1>3, <1>4, <1>5, <1>6, SelectViewSettles DEF SameButViews

-----------------------------------------------------------------------------
(* Focusing a window.                                                      *)

\* None but the view that is active afterwards is touched.
ActiveAfter(s, r) ==
  \A n \in ViewName :
    SameFocus(s.Views[n], r.Views[n]) \/ (hasActiveView(r) /\ n = activeName(r))

\* A window that some output shows gets the focus, in the view asked for.
LEMMA FocusShownSettles ==
  ASSUME NEW s, Settled(s), NEW id \in WindowID, NEW n \in ShownTags(s, id),
         Distinct(FocusShownWindow(s, id, n))
  PROVE  /\ Settled(FocusShownWindow(s, id, n))
         /\ FocusShownWindow(s, id, n).Outputs = s.Outputs
         /\ FocusShownWindow(s, id, n).Tags = s.Tags
         /\ FocusShownWindow(s, id, n).FocusOutput = outputShowing(s, n)
         /\ FocusShownWindow(s, id, n).Focused = id
         /\ ActiveAfter(s, FocusShownWindow(s, id, n))
<1> DEFINE o == outputShowing(s, n)
           t == [s EXCEPT !.FocusOutput = o]
           w == focusWindow(t.Views[n], id)
           u == [t EXCEPT !.Views = [t.Views EXCEPT ![n] = w]]
<1>1. Tidy(s) /\ s \in State /\ s.Outputs \in Seq(Output) /\ s.Tags \in [WindowID -> SUBSET ViewName]
  BY TidyParts, StateFields DEF Settled
<1>2. n \in ViewName /\ n \in s.Tags[id] /\ Showing(s, n) # {}
  BY <1>1 DEF ShownTags
<1>3. o \in 1..Len(s.Outputs) /\ o \in Nat /\ s.Outputs[o].View = n /\ o \in DOMAIN s.Outputs
  BY <1>1, <1>2, OutputShowingType, OutputsTyped
<1>4. exists(s, n) /\ id \in Carried(s, n)
  <2>1. id \in Carried(s, n)
    BY <1>2 DEF Carried, Carrying
  <2> QED BY <1>1, <1>2, <2>1, CarriedExist
<1>5. FocusShownWindow(s, id, n) = refocus(u)
  BY <1>4 DEF FocusShownWindow
<1> HIDE DEF o
<1>6. t = WithOutputs(s, s.Outputs, o)
  BY <1>1 DEF State, WithOutputs
<1> HIDE DEF t
<1>7. /\ Tidy(t) /\ t.Outputs = s.Outputs /\ t.FocusOutput = o
      /\ t.viewIndex = s.viewIndex /\ t.Views = s.Views /\ t.Tags = s.Tags
  <2>1. s.Outputs = <<>> => o = 1
    BY <1>3
  <2> QED BY <1>1, <1>3, <1>6, <2>1, OutputsSet
<1>8. activeOutput(t) = o /\ activeName(t) = n
  BY <1>3, <1>7 DEF activeOutput, activeName
<1>9. hasActiveView(t) /\ activeView(t) = t.Views[n]
  BY <1>3, <1>4, <1>7, <1>8 DEF hasActiveView, activeView, exists
<1>10. Sound(t.Views[n]) /\ contains(t.Views[n], id)
  <2>1. Sound(t.Views[n]) /\ WindowsOf(t.Views[n]) = Carried(t, n)
    BY <1>2, <1>7, TidyParts
  <2>2. Carried(t, n) = Carried(s, n)
    BY <1>7 DEF Carried
  <2> QED BY <1>4, <2>1, <2>2, WindowsOfView
<1>11. Sound(w) /\ WindowsOf(w) = WindowsOf(activeView(t)) /\ focusedWindow(w) = id
  BY <1>9, <1>10, FocusWindowSound
<1>12. u = OnActiveView(t, w)
  BY <1>8 DEF OnActiveView
<1> HIDE DEF w, u
<1>13. /\ Tidy(u) /\ u.Outputs = t.Outputs /\ u.Tags = t.Tags
       /\ activeOutput(u) = activeOutput(t) /\ activeView(u) = w
       /\ \A m \in ViewName : m # activeName(t) => u.Views[m] = t.Views[m]
  BY <1>7, <1>9, <1>11, <1>12, ReworkedTidy
<1>14. Distinct(refocus(u))
  BY <1>5
<1>15. /\ Settled(refocus(u)) /\ SameButFocus(u, refocus(u))
       /\ refocus(u).FocusOutput = activeOutput(u)
  BY <1>13, <1>14, RefocusSettles
<1>16. refocus(u).Focused = id
  <2> DEFINE r == refocus(u)
  <2> HIDE DEF r
  <2>1. activeOutput(r) = activeOutput(u)
    BY <1>15 DEF Settled, r
  <2>2. activeView(r) = w
    BY <1>13, <1>15, <2>1 DEF activeView, activeName, SameButFocus, r
  <2>3. r.Outputs # <<>>
    BY <1>3, <1>7, <1>13, <1>15 DEF SameButFocus, r
  <2> QED BY <1>11, <1>15, <2>2, <2>3 DEF Settled, r
<1>17. ActiveAfter(s, refocus(u))
  <2> DEFINE r == refocus(u)
  <2>1. /\ r.Views = u.Views /\ r.Outputs = s.Outputs /\ activeOutput(r) = o /\ Settled(r)
        /\ Distinct(r)
    BY <1>7, <1>8, <1>13, <1>14, <1>15 DEF SameButFocus, Settled
  <2> HIDE DEF r
  <2>2. activeName(r) = n
    BY <1>3, <2>1 DEF activeName
  <2>3. hasActiveView(r)
    BY <1>3, <2>1, TidyParts, ActiveViewExists DEF Settled
  <2> QED BY <1>7, <1>8, <1>13, <2>1, <2>2, <2>3 DEF ActiveAfter, SameFocus, r
<1> QED BY <1>5, <1>7, <1>8, <1>13, <1>15, <1>16, <1>17 DEF SameButFocus, o

\* A window that no output shows gets the focus with the view of its first tag.
LEMMA FocusHiddenSettles ==
  ASSUME NEW s, Settled(s), Distinct(s), NEW id \in WindowID, s.Tags[id] # {},
         Distinct(FocusHiddenWindow(s, id))
  PROVE  /\ Settled(FocusHiddenWindow(s, id))
         /\ FocusHiddenWindow(s, id).Tags = s.Tags
         /\ FocusHiddenWindow(s, id).FocusOutput = s.FocusOutput
         /\ FocusHiddenWindow(s, id).Outputs = SelectView(s, Least(s.Tags[id])).Outputs
         /\ s.Outputs # <<>> => FocusHiddenWindow(s, id).Focused = id
         /\ FocusHiddenWindow(s, id).viewIndex = SelectView(s, Least(s.Tags[id])).viewIndex
         /\ ActiveAfter(s, FocusHiddenWindow(s, id))
<1> DEFINE n == Least(s.Tags[id])
           t == SelectView(s, n)
           w == focusWindow(activeView(t), id)
<1>1. Clean(s) /\ s \in State /\ Tidy(s)
  BY TidyParts DEF Settled, Tidy
<1>2. n \in ViewName /\ n \in s.Tags[id]
  <2>1. s.Tags[id] \subseteq ViewName /\ ViewName \subseteq Nat
    BY <1>1, StateAssumption DEF State
  <2>2. s.Tags[id] \subseteq Nat
    BY <2>1
  <2> QED BY <2>1, <2>2, LeastType
<1>3. Distinct(t)
  BY <1>1, <1>2, SelectViewDistinct
<1>4. /\ Settled(t) /\ t.Tags = s.Tags /\ t.FocusOutput = s.FocusOutput
      /\ Undisturbed(s, t)
  BY <1>2, <1>3, SelectViewSettles
<1>5. s.Outputs # <<>> => hasActiveView(t) /\ activeName(t) = n
  BY <1>2, <1>3, SelectViewActive
<1>6. s.Outputs # <<>> => contains(activeView(t), id)
  <2> SUFFICES ASSUME s.Outputs # <<>> PROVE contains(activeView(t), id)
    OBVIOUS
  <2>1. WindowsOf(activeView(t)) = Carried(t, n)
    BY <1>4, <1>5, ActiveViewParts
  <2>2. id \in Carried(t, n)
    BY <1>2, <1>4 DEF Carried, Carrying
  <2> QED BY <2>1, <2>2, WindowsOfView
<1>7. FocusHiddenWindow(s, id) =
        refocus(IF hasActiveView(t) /\ contains(activeView(t), id)
                THEN OnActiveView(t, w) ELSE t)
  BY DEF FocusHiddenWindow
<1> HIDE DEF t, w
<1>8. CASE hasActiveView(t) /\ contains(activeView(t), id)
  <2>1. Sound(activeView(t))
    BY <1>4, <1>8, ActiveViewParts
  <2>2. Sound(w) /\ WindowsOf(w) = WindowsOf(activeView(t)) /\ focusedWindow(w) = id
    BY <1>8, <2>1, FocusWindowSound DEF w
  <2>3. /\ Settled(refocus(OnActiveView(t, w)))
        /\ refocus(OnActiveView(t, w)).Outputs = t.Outputs
        /\ refocus(OnActiveView(t, w)).Tags = t.Tags
        /\ refocus(OnActiveView(t, w)).FocusOutput = t.FocusOutput
        /\ refocus(OnActiveView(t, w)).Focused = focusedWindow(w)
        /\ refocus(OnActiveView(t, w)).viewIndex = t.viewIndex
        /\ \A m \in ViewName : m # activeName(t) => refocus(OnActiveView(t, w)).Views[m] = t.Views[m]
    BY <1>3, <1>4, <1>8, <2>2, ActiveViewWorkSettles
  <2>4. ActiveAfter(s, refocus(OnActiveView(t, w)))
    <3> DEFINE r == refocus(OnActiveView(t, w))
    <3> HIDE DEF r
    <3>1. activeName(r) = activeName(t) /\ (hasActiveView(t) => hasActiveView(r))
      BY <2>3 DEF r, activeName, activeOutput, hasActiveView, exists
    <3> QED BY <1>4, <1>8, <2>3, <3>1 DEF r, ActiveAfter, Undisturbed
  <2> QED BY <1>4, <1>7, <1>8, <2>2, <2>3, <2>4 DEF t
<1>9. CASE ~(hasActiveView(t) /\ contains(activeView(t), id))
  <2>1. FocusHiddenWindow(s, id) = refocus(t) /\ s.Outputs = <<>>
    BY <1>5, <1>6, <1>7, <1>9
  <2>2. Distinct(refocus(t))
    BY <2>1
  <2>3. Settled(refocus(t)) /\ SameButFocus(t, refocus(t)) /\ refocus(t).FocusOutput = activeOutput(t)
    BY <1>4, <2>2, RefocusSettles DEF Settled
  <2>4. ActiveAfter(s, refocus(t))
    BY <1>4, <2>3 DEF ActiveAfter, Undisturbed, SameButFocus
  <2> QED BY <1>4, <2>1, <2>3, <2>4 DEF SameButFocus, Settled, t
<1> QED BY <1>8, <1>9

LEMMA CycleViewSettles ==
  ASSUME NEW s, Settled(s), NEW delta, Distinct(CycleView(s, delta))
  PROVE  /\ Settled(CycleView(s, delta))
         /\ \/ CycleView(s, delta) = s
            \/ \E n \in ViewName : CycleView(s, delta) = SelectView(s, n)
<1>1. s \in State
  BY TidyParts DEF Settled
<1>2. \/ CycleView(s, delta) = s
      \/ \E n \in ViewName : CycleView(s, delta) = SelectView(s, n)
  BY <1>1, CycleViewStops
<1>3. ASSUME NEW n \in ViewName, CycleView(s, delta) = SelectView(s, n)
      PROVE  Settled(CycleView(s, delta))
  <2>1. Distinct(SelectView(s, n))
    BY <1>3
  <2>2. Settled(SelectView(s, n))
    BY <2>1, SelectViewSettles
  <2> QED BY <1>3, <2>2
<1> QED BY <1>2, <1>3

LEMMA SpreadSettles ==
  ASSUME NEW s, Settled(s), Distinct(s), NEW n \in ViewName, NEW q \in ReadingOrders(s.Views[n]),
         NEW maxCols \in Nat
  PROVE  Rearranges(s, SpreadColumns(s, n, q, maxCols))
<1> DEFINE v   == s.Views[n]
           len == Len(q)
           k   == IF len < maxCols THEN len ELSE maxCols
           first(j) == ((j - 1) * len + k - 1) \div k + 1
           column(j) == NewColumn(SubSeq(q, first(j), first(j + 1) - 1))
           spread == [v EXCEPT !.Columns = [j \in 1..k |-> column(j)], !.FocusCol = 1]
           w == IF v.FocusLayer = "tiled" THEN focusWindow(spread, focusedWindow(v)) ELSE spread
           views == [s.Views EXCEPT ![n] = w]
           t == [s EXCEPT !.Views = views]
<1>1. Tidy(s) /\ s \in State /\ Sound(v) /\ v \in View /\ s.Views \in [ViewName -> View]
      /\ WindowsOf(v) = Carried(s, n) /\ Clean(s)
  BY TidyParts, StateFields DEF Settled, Tidy
<1>2. CASE ~exists(s, n) \/ k <= 1
  BY <1>2, RearrangesNothing DEF SpreadColumns
<1>3. CASE exists(s, n) /\ ~(k <= 1)
  <2>1. SpreadColumns(s, n, q, maxCols) = t
    BY <1>3 DEF SpreadColumns
  <2>2. q \in Seq(WindowID) /\ ToSet(q) = Held(v.Columns) /\ len \in Nat
    BY <1>1, ReadingOrderSet
  <2>3. k \in 1..Len(q)
    BY <1>3, <2>2
  <2>4. spread = SpreadView(v, q, k)
    BY DEF SpreadView, Dealt, Cut
  <2> HIDE DEF k, v
  <2>5. /\ Sound(spread) /\ WindowsOf(spread) = WindowsOf(v)
        /\ spread.FocusLayer = v.FocusLayer /\ spread.Float = v.Float
        /\ spread.FocusFloat = v.FocusFloat
    <3> HIDE DEF spread
    <3>1. q \in ReadingOrders(v)
      BY DEF v
    <3> QED BY <1>1, <2>3, <2>4, <3>1, SpreadSound
  <2> HIDE DEF spread
  <2>6. Sound(w) /\ WindowsOf(w) = WindowsOf(v) /\ focusedWindow(w) = focusedWindow(v)
    <3>1. CASE v.FocusLayer = "tiled"
      <4>1. focusedWindow(v) # NoWindow
        <5>1. Held(v.Columns) # {}
          <6>1. 1 \in DOMAIN q
            BY <2>2, <2>3
          <6>2. q[1] \in ToSet(q)
            BY <2>2, <6>1, ToSetOf
          <6> QED BY <2>2, <6>2
        <5> QED BY <1>1, <3>1, <5>1, FocusedIsThere
      <4>2. focusedWindow(v) \in WindowsOf(spread)
        BY <1>1, <2>5, <4>1, FocusedIsThere
      <4>3. contains(spread, focusedWindow(v))
        BY <4>2, WindowsOfView
      <4>4. w = focusWindow(spread, focusedWindow(v))
        BY <3>1
      <4> QED BY <2>5, <4>3, <4>4, FocusWindowSound
    <3>2. CASE v.FocusLayer # "tiled"
      <4>1. v.FocusLayer = "floating"
        BY <1>1, <3>2 DEF View, Layer
      <4>2. w = spread
        BY <3>2
      <4> QED BY <2>5, <4>1, <4>2 DEF focusedWindow
    <3> QED BY <3>1, <3>2
  <2> HIDE DEF w
  <2>7. views \in [ViewName -> View] /\ \A m \in ViewName : views[m] = IF m = n THEN w ELSE s.Views[m]
    BY <1>1, <2>6 DEF Sound
  <2> HIDE DEF views
  <2>8. t = WithWindows(s, s.Tags, views)
    BY <1>1 DEF State, WithWindows
  <2>9. Fits(views, s.Tags)
    <3>1. ASSUME NEW m \in ViewName PROVE Sound(views[m]) /\ WindowsOf(views[m]) = Carrying(s.Tags, m)
      <4>1. Sound(s.Views[m]) /\ WindowsOf(s.Views[m]) = Carrying(s.Tags, m)
        BY <1>1, TidyParts DEF Carried
      <4>2. m = n => v = s.Views[m]
        BY DEF v
      <4> QED BY <2>6, <2>7, <4>1, <4>2
    <3> QED BY <3>1 DEF Fits
  <2>10. NoRemains(s, views)
    BY <1>1, <1>3, <2>7 DEF Clean, NoRemains
  <2>11. s.Tags \in [WindowID -> SUBSET ViewName]
    BY <1>1, StateFields
  <2> HIDE DEF t
  <2>12. /\ Tidy(t) /\ t.Tags = s.Tags /\ t.Views = views /\ t.viewIndex = s.viewIndex
         /\ t.Outputs = s.Outputs /\ t.FocusOutput = s.FocusOutput /\ t.Focused = s.Focused
    BY <1>1, <2>7, <2>8, <2>9, <2>10, <2>11, ViewsSet
  <2>13. t.Focused = IF s.Outputs = <<>> THEN NoWindow ELSE focusedWindow(activeView(t))
    <3>1. CASE s.Outputs = <<>>
      BY <2>12, <3>1 DEF Settled
    <3>2. CASE s.Outputs # <<>>
      <4>1. activeName(s) \in ViewName
        BY <1>1, <3>2, ActiveOutputType
      <4>2. activeName(t) = activeName(s)
        BY <2>12 DEF activeName, activeOutput
      <4>3. activeView(t) = views[activeName(s)] /\ activeView(s) = s.Views[activeName(s)]
        BY <2>12, <4>2 DEF activeView
      <4>4. s.Focused = focusedWindow(activeView(s))
        BY <3>2 DEF Settled
      <4>5. focusedWindow(views[activeName(s)]) = focusedWindow(s.Views[activeName(s)])
        BY <2>6, <2>7, <4>1 DEF v
      <4> QED BY <2>12, <3>2, <4>3, <4>4, <4>5
    <3> QED BY <3>1, <3>2
  <2>14. Settled(t)
    BY <2>12, <2>13, FocusKept
  <2>15. ActiveOnly(s, t)
    <3>1. ASSUME NEW m \in ViewName PROVE focusedWindow(t.Views[m]) = focusedWindow(s.Views[m])
      BY <2>6, <2>7, <2>12 DEF v
    <3> QED BY <3>1 DEF ActiveOnly, SameFocus
  <2> QED BY <2>1, <2>12, <2>14, <2>15 DEF Rearranges
<1> QED BY <1>2, <1>3

-----------------------------------------------------------------------------
(* The invariant.                                                          *)

\* Every step leaves a settled state: one case per operation.
LEMMA StepSettled ==
  ASSUME Settled(wm), Distinct(wm), Next
  PROVE  Settled(wm)'
<1>1. Clean(wm) /\ wm \in State
  BY TidyParts DEF Settled, Tidy
<1>2. Distinct(wm')
  <2>1. Distinct(wm)'
    BY <1>1, StepDistinct
  <2> QED BY <2>1 DEF Distinct, exists
<1> SUFFICES Settled(wm')
  BY DEF Settled, Tidy, Clean, Arranged, Fits, activeOutput, activeView, activeName, exists
<1>3. CASE OutputAppears
  <2>1. PICK o \in OutputName : CanAddOutput(wm) /\ wm' = AddOutput(wm, o)
    BY <1>3 DEF OutputAppears, CanAddOutput
  <2> QED BY <1>2, <2>1, AddOutputSettles
<1>4. CASE OutputVanishes
  BY <1>2, <1>4, RemoveOutputSettles DEF OutputVanishes
<1>5. CASE OutputRenamed
  BY <1>5, RenameOutputSettles DEF OutputRenamed
<1>6. CASE WindowOpens
  <2>1. PICK id \in WindowID, floating \in BOOLEAN, order \in CreationOrders(wm, defaultTags(wm)) :
          /\ ~Managed(wm, id)
          /\ FreeNames(wm) # {} \/ FocusedTags(wm) # {} \/ hasActiveView(wm)
          /\ wm' = AddWindow(wm, id, floating, defaultTags(wm), order)
    BY <1>6 DEF WindowOpens
  <2>2. defaultTags(wm) \in SUBSET ViewName
    BY <1>1, <2>1, DefaultTagsType
  <2> QED BY <2>1, <2>2, AddWindowSettles
<1>7. CASE WindowReturns
  <2>1. PICK id \in WindowID, floating \in BOOLEAN, tags \in SUBSET ViewName :
          /\ ~Managed(wm, id)
          /\ \E order \in CreationOrders(wm, tags) :
               wm' = AddWindow(wm, id, floating, tags, order)
    BY <1>7 DEF WindowReturns
  <2>2. PICK order \in CreationOrders(wm, tags) : wm' = AddWindow(wm, id, floating, tags, order)
    BY <2>1
  <2>3. Settled(AddWindow(wm, id, floating, tags, order))
    BY <2>1, AddWindowSettles
  <2> QED BY <2>2, <2>3
<1>8. CASE WindowCloses
  <2>1. PICK id \in WindowID : wm' = RemoveWindow(wm, id)
    BY <1>8 DEF WindowCloses
  <2>2. Distinct(RemoveWindow(wm, id))
    BY <1>2, <2>1
  <2>3. Settled(RemoveWindow(wm, id))
    BY <2>2, RemoveWindowSettles
  <2> QED BY <2>1, <2>3
<1>9. CASE TabSwitches
  <2>1. PICK old \in WindowID, nu \in WindowID :
          Managed(wm, old) /\ ~Managed(wm, nu) /\ wm' = ReplaceWindow(wm, old, nu)
    BY <1>9 DEF TabSwitches
  <2>2. Settled(ReplaceWindow(wm, old, nu))
    BY <2>1, ReplaceWindowSettles
  <2> QED BY <2>1, <2>2
<1>10. CASE StartupSpreads
  <2>1. PICK i \in DOMAIN wm.Outputs, k \in 0..MaxColumns :
          \E tiled \in ReadingOrders(wm.Views[wm.Outputs[i].View]) :
            wm' = SpreadColumns(wm, wm.Outputs[i].View, tiled, k)
    BY <1>10 DEF StartupSpreads
  <2>2. wm.Outputs[i].View \in ViewName /\ k \in Nat
    BY <1>1, OutputsTyped, WmAssumption
  <2> QED BY <2>1, <2>2, SpreadSettles DEF Rearranges
<1>11. CASE FocusesWindow
  <2>1. PICK id \in WindowID :
          /\ Managed(wm, id)
          /\ IF ShownTags(wm, id) # {}
             THEN \E n \in ShownTags(wm, id) : wm' = FocusShownWindow(wm, id, n)
             ELSE wm' = FocusHiddenWindow(wm, id)
    BY <1>11 DEF FocusesWindow
  <2>2. CASE ShownTags(wm, id) # {}
    BY <1>2, <2>1, <2>2, FocusShownSettles
  <2>3. CASE ShownTags(wm, id) = {}
    BY <1>2, <2>1, <2>3, FocusHiddenSettles DEF Managed
  <2> QED BY <2>2, <2>3
<1>12. CASE Command
  <2>1. CASE CmdFocus
    BY <2>1, FocusDirSettles DEF CmdFocus, Rearranges
  <2>2. CASE CmdFocusToggleLayer
    BY <2>2, ToggleLayerSettles DEF CmdFocusToggleLayer, Rearranges
  <2>3. CASE CmdFocusOutput
    BY <1>2, <2>3, CycleOutputSettles DEF CmdFocusOutput
  <2>4. CASE CmdMove
    BY <2>4, MoveDirSettles DEF CmdMove, Direction, Rearranges
  <2>5. CASE CmdToggleFloat
    BY <2>5, ToggleFloatSettles DEF CmdToggleFloat, Rearranges
  <2>6. CASE CmdFullscreen
    BY <2>6, FullscreenSettles DEF CmdFullscreen, Rearranges
  <2>7. CASE CmdMode
    BY <2>7, SetModeSettles DEF CmdMode, Rearranges
  <2>8. CASE CmdView
    <3>1. PICK n \in ViewName : wm' = SelectView(wm, n)
      BY <2>8 DEF CmdView
    <3>2. Distinct(SelectView(wm, n))
      BY <1>2, <3>1
    <3>3. Settled(SelectView(wm, n))
      BY <3>2, SelectViewSettles
    <3> QED BY <3>1, <3>3
  <2>9. CASE CmdViewCycle
    BY <1>2, <2>9, CycleViewSettles DEF CmdViewCycle
  <2>10. CASE CmdViewN
    <3>1. PICK n \in ViewName : wm' = SelectViewN(wm, n)
      BY <2>10 DEF CmdViewN
    <3>2. Distinct(SelectViewN(wm, n))
      BY <1>2, <3>1
    <3>3. Settled(SelectViewN(wm, n))
      BY <3>2, SelectViewNSettles
    <3> QED BY <3>1, <3>3
  <2>11. CASE CmdMoveTo
    <3>1. PICK n \in ViewName : wm' = MoveToView(wm, n)
      BY <2>11 DEF CmdMoveTo
    <3>2. Distinct(MoveToView(wm, n))
      BY <1>2, <3>1
    <3>3. Settled(MoveToView(wm, n))
      BY <3>2, MoveToViewSettles
    <3> QED BY <3>1, <3>3
  <2>12. CASE CmdMoveToN
    <3>1. PICK n \in ViewName : wm' = MoveToViewN(wm, n)
      BY <2>12 DEF CmdMoveToN
    <3>2. Distinct(MoveToViewN(wm, n))
      BY <1>2, <3>1
    <3>3. Settled(MoveToViewN(wm, n))
      BY <3>2, MoveToViewNSettles
    <3> QED BY <3>1, <3>3
  <2>13. CASE CmdTag
    <3>0. PICK specs : \E order \in CreationOrders(wm, specTags(wm, specs)) :
                         wm' = TagSpec(wm, specs, order)
      BY <2>13 DEF CmdTag
    <3>1. PICK order \in CreationOrders(wm, specTags(wm, specs)) : wm' = TagSpec(wm, specs, order)
      BY <3>0
    <3>2. Distinct(TagSpec(wm, specs, order))
      BY <1>2, <3>1
    <3>3. Settled(TagSpec(wm, specs, order))
      BY <3>2, TagSpecSettles
    <3> QED BY <3>1, <3>3
  <2> QED BY <1>12, <2>1, <2>2, <2>3, <2>4, <2>5, <2>6, <2>7, <2>8, <2>9, <2>10, <2>11,
              <2>12, <2>13 DEF Command
<1> QED BY <1>3, <1>4, <1>5, <1>6, <1>7, <1>8, <1>9, <1>10, <1>11, <1>12 DEF Next

WmInv == Settled(wm) /\ Distinct(wm)

LEMMA InitSettled ==
  ASSUME Init
  PROVE  WmInv
<1> DEFINE s == NewState
<1>1. Clean(s) /\ Ranked(s)
  <2>1. Ranked(s)
    BY DEF NewState, Ranked, ViewSet, exists
  <2> QED BY <2>1, CleanNewState
<1>2. /\ s.Views = [n \in ViewName |-> NewView] /\ s.Outputs = <<>>
      /\ s.Tags = [id \in WindowID |-> {}] /\ s.Focused = NoWindow /\ s.FocusOutput = 1
  BY DEF NewState
<1> HIDE DEF s
<1>3. Arranged(s)
  <2>1. \A n \in ViewName : s.Views[n] = NewView /\ Carrying(s.Tags, n) = {}
    BY <1>2 DEF Carrying
  <2> QED BY <2>1, NewViewSound DEF Arranged, Fits
<1>4. activeOutput(s) = 1
  BY <1>2 DEF activeOutput
<1>5. Settled(s) /\ Distinct(s)
  BY <1>1, <1>2, <1>3, <1>4 DEF Settled, Tidy, Distinct
<1> QED BY <1>5 DEF Init, WmInv, s

LEMMA WmInvKept == WmInv /\ [Next]_wm => WmInv'
<1> SUFFICES ASSUME WmInv, [Next]_wm PROVE WmInv'
  OBVIOUS
<1>1. Settled(wm) /\ Distinct(wm) /\ Clean(wm)
  BY DEF WmInv, Settled, Tidy
<1>2. CASE Next
  BY <1>1, <1>2, StepSettled, StepDistinct DEF WmInv
<1>3. CASE UNCHANGED wm
  BY <1>1, <1>3 DEF WmInv, Settled, Tidy, Clean, Arranged, Fits, Distinct, exists,
                    activeOutput, activeView, activeName
<1> QED BY <1>2, <1>3

LEMMA WmInvHolds == Spec => []WmInv
BY InitSettled, WmInvKept, PTL DEF Spec

LEMMA OfEveryView ==
  ASSUME WmInv, NEW n \in ViewName
  PROVE  /\ Sound(wm.Views[n]) /\ WindowsOf(wm.Views[n]) = Carried(wm, n)
         /\ \A id \in Carried(wm, n) : exists(wm, n)
<1>1. Tidy(wm)
  BY DEF WmInv, Settled
<1> QED BY <1>1, TidyParts, CarriedExist

\* Whatever sequence of operations is run, a view holds exactly the windows
\* tagged for it, and a tag that is carried has a view.
THEOREM WindowsAlwaysMatchTags == Spec => []WindowsMatchTags
<1>1. WmInv => WindowsMatchTags
  <2> SUFFICES ASSUME WmInv, NEW n \in ViewName, NEW id \in WindowID
               PROVE  /\ contains(wm.Views[n], id) <=> n \in wm.Tags[id]
                      /\ n \in wm.Tags[id] => exists(wm, n)
    BY DEF WindowsMatchTags
  <2>1. n \in wm.Tags[id] <=> id \in Carried(wm, n)
    BY DEF Carried, Carrying
  <2> QED BY <2>1, OfEveryView, WindowsOfView
<1> QED BY <1>1, WmInvHolds, PTL

LEMMA AtMostOne ==
  ASSUME NEW S, \A p, q \in S : p = q
  PROVE  Cardinality(S) <= 1
<1>1. CASE S = {}
  BY <1>1, FS_EmptySet
<1>2. CASE S # {}
  <2>1. PICK p : S = {p}
    BY <1>2
  <2>2. Cardinality(S) = 1
    BY <2>1, FS_Singleton
  <2> QED BY <2>2
<1> QED BY <1>1, <1>2

\* No window is ever arranged twice on a view, in two columns, two rows or on
\* both layers.
THEOREM WindowsAlwaysPlacedOnce == Spec => []PlacedOnce
<1>1. WmInv => PlacedOnce
  <2> SUFFICES ASSUME WmInv, NEW n \in ViewName, NEW id \in WindowID
               PROVE  Cardinality(Places(wm.Views[n], id)) <= 1
    BY DEF PlacedOnce
  <2> DEFINE v == wm.Views[n]
  <2>1. Sound(v)
    BY OfEveryView
  <2> HIDE DEF v
  <2>2. ASSUME NEW p \in Places(v, id)
        PROVE  \/ /\ p = <<p[1], p[2]>> /\ p[1] \in DOMAIN v.Columns /\ p[2] \in DOMAIN v.Columns[p[1]].Windows
                  /\ v.Columns[p[1]].Windows[p[2]] = id
                  /\ id \in ToSet(v.Columns[p[1]].Windows) /\ id \in Held(v.Columns)
               \/ /\ p = <<p[1], p[2]>> /\ p[1] = 0 /\ p[2] \in DOMAIN v.Float /\ v.Float[p[2]] = id
                  /\ id \in ToSet(v.Float)
    <3>1. CASE p \in {x \in (DOMAIN v.Columns) \X (1..Cardinality(WindowID)) :
                   x[2] \in DOMAIN v.Columns[x[1]].Windows /\ v.Columns[x[1]].Windows[x[2]] = id}
      <4>1. /\ p = <<p[1], p[2]>> /\ p[1] \in DOMAIN v.Columns /\ p[2] \in DOMAIN v.Columns[p[1]].Windows
            /\ v.Columns[p[1]].Windows[p[2]] = id
        BY <3>1
      <4>2. id \in ToSet(v.Columns[p[1]].Windows)
        BY <4>1 DEF ToSet
      <4> QED BY <4>1, <4>2 DEF Held
    <3>2. CASE p \in {<<0, fi>> : fi \in {i \in DOMAIN v.Float : v.Float[i] = id}}
      <4>1. PICK fi \in DOMAIN v.Float : v.Float[fi] = id /\ p = <<0, fi>>
        BY <3>2
      <4>2. id \in ToSet(v.Float)
        BY <4>1 DEF ToSet
      <4> QED BY <4>1, <4>2
    <3> QED BY <2>2, <3>1, <3>2 DEF Places
  <2>3. ASSUME NEW p \in Places(v, id), NEW q \in Places(v, id) PROVE p = q
    <3>1. /\ \A ci \in DOMAIN v.Columns : IsInjective(v.Columns[ci].Windows)
          /\ \A ci, cj \in DOMAIN v.Columns :
               ci # cj => ToSet(v.Columns[ci].Windows) \cap ToSet(v.Columns[cj].Windows) = {}
          /\ IsInjective(v.Float) /\ Held(v.Columns) \cap ToSet(v.Float) = {}
      BY <2>1 DEF Sound, Placed, Apart
    <3>2. CASE id \in Held(v.Columns)
      <4>1. id \notin ToSet(v.Float)
        BY <3>1, <3>2
      <4>2. /\ p = <<p[1], p[2]>> /\ p[1] \in DOMAIN v.Columns /\ p[2] \in DOMAIN v.Columns[p[1]].Windows
            /\ v.Columns[p[1]].Windows[p[2]] = id /\ id \in ToSet(v.Columns[p[1]].Windows)
        BY <2>2, <4>1
      <4>3. /\ q = <<q[1], q[2]>> /\ q[1] \in DOMAIN v.Columns /\ q[2] \in DOMAIN v.Columns[q[1]].Windows
            /\ v.Columns[q[1]].Windows[q[2]] = id /\ id \in ToSet(v.Columns[q[1]].Windows)
        BY <2>2, <4>1
      <4>4. p[1] = q[1]
        BY <3>1, <4>2, <4>3
      <4>5. p[2] = q[2]
        BY <3>1, <4>2, <4>3, <4>4 DEF IsInjective
      <4> QED BY <4>2, <4>3, <4>4, <4>5
    <3>3. CASE id \notin Held(v.Columns)
      <4>1. p = <<p[1], p[2]>> /\ p[1] = 0 /\ p[2] \in DOMAIN v.Float /\ v.Float[p[2]] = id
        BY <2>2, <3>3
      <4>2. q = <<q[1], q[2]>> /\ q[1] = 0 /\ q[2] \in DOMAIN v.Float /\ v.Float[q[2]] = id
        BY <2>2, <3>3
      <4>3. p[2] = q[2]
        BY <3>1, <4>1, <4>2 DEF IsInjective
      <4> QED BY <4>1, <4>2, <4>3
    <3> QED BY <3>2, <3>3
  <2> QED BY <2>3, AtMostOne DEF v
<1> QED BY <1>1, WmInvHolds, PTL

\* The markers of every view point into it, on whichever outputs it is.
THEOREM MarkersAlwaysInRange == Spec => []MarkersInRange
<1>1. WmInv => MarkersInRange
  <2> SUFFICES ASSUME WmInv PROVE MarkersInRange
    OBVIOUS
  <2>1. \A n \in ViewName : InRange(wm.Views[n])
    BY OfEveryView DEF Sound
  <2> QED BY <2>1 DEF MarkersInRange, InRange, ColumnInRange
<1> QED BY <1>1, WmInvHolds, PTL

\* No operation leaves the cached focus behind: it is what the markers of the
\* active view point at.
THEOREM FocusAlwaysFollowsMarkers == Spec => []FocusFollowsMarkers
<1>1. WmInv => FocusFollowsMarkers
  BY DEF WmInv, Settled, FocusFollowsMarkers
<1> QED BY <1>1, WmInvHolds, PTL

\* Whatever window is asked for, FocusWindow ends with the focus on it: shown
\* or hidden, on either layer, of whichever output.
THEOREM EveryWindowCanAlwaysBeFocused == Spec => []EveryWindowCanBeFocused
<1>1. WmInv => EveryWindowCanBeFocused
  <2> SUFFICES ASSUME WmInv, wm.Outputs # <<>>, NEW id \in WindowID, Managed(wm, id)
               PROVE  /\ \A n \in ShownTags(wm, id) : FocusShownWindow(wm, id, n).Focused = id
                      /\ ShownTags(wm, id) = {} => FocusHiddenWindow(wm, id).Focused = id
    BY DEF EveryWindowCanBeFocused
  <2>1. Settled(wm) /\ Distinct(wm) /\ Clean(wm) /\ wm \in State /\ wm.Tags[id] # {}
    BY TidyParts DEF WmInv, Settled, Tidy, Managed
  <2>2. ASSUME NEW n \in ShownTags(wm, id) PROVE FocusShownWindow(wm, id, n).Focused = id
    <3>1. n \in ViewName
      <4>1. wm.Tags \in [WindowID -> SUBSET ViewName]
        BY <2>1, StateFields
      <4> QED BY <4>1 DEF ShownTags
    <3>2. KeepsShown(wm, FocusShownWindow(wm, id, n))
      BY <2>1, <3>1, FocusShownWindowKeeps
    <3>3. Distinct(FocusShownWindow(wm, id, n))
      BY <2>1, <3>2, KeptDistinct
    <3> QED BY <2>1, <3>3, FocusShownSettles
  <2>3. FocusHiddenWindow(wm, id).Focused = id
    <3>1. Distinct(FocusHiddenWindow(wm, id))
      BY <2>1, FocusHiddenWindowDistinct
    <3> QED BY <2>1, <3>1, FocusHiddenSettles
  <2> QED BY <2>2, <2>3
<1> QED BY <1>1, WmInvHolds, PTL

-----------------------------------------------------------------------------
(* What a step leaves alone.                                               *)

\* The focus of a view is changed only with its windows, or on the view that
\* is active before or after.
RespectsFocus(s, r) ==
  \A n \in ViewName : \/ SameFocus(s.Views[n], r.Views[n])
                      \/ hasActiveView(s) /\ n = activeName(s)
                      \/ hasActiveView(r) /\ n = activeName(r)

\* An empty view that is shown no more is gone.
TidiesUp(s, r) ==
  \A n \in ViewName :
    Showing(s, n) # {} /\ Showing(r, n) = {} /\ empty(r.Views[n]) => ~exists(r, n)

LEMMA FocusRespected ==
  ASSUME NEW s, NEW r, Undisturbed(s, r) \/ ActiveOnly(s, r) \/ ActiveAfter(s, r)
  PROVE  RespectsFocus(s, r)
BY DEF Undisturbed, ActiveOnly, ActiveAfter, RespectsFocus

LEMMA TidiedUp ==
  ASSUME NEW s, NEW r, r.Outputs = s.Outputs \/ Swept(r)
  PROVE  TidiesUp(s, r)
BY DEF Swept, TidiesUp, Showing

\* Every view that was shown is shown.
LEMMA NoneHidden ==
  ASSUME NEW s, NEW r,
         \A i \in DOMAIN s.Outputs :
           i \in DOMAIN r.Outputs /\ r.Outputs[i].View = s.Outputs[i].View
  PROVE  TidiesUp(s, r)
BY DEF TidiesUp, Showing

LEMMA AddHidesNone ==
  ASSUME NEW s \in State, CanAddOutput(s), NEW o \in OutputName, NEW r, r.Outputs = AddedOutputs(s, o)
  PROVE  TidiesUp(s, r)
<1> DEFINE new == [Name |-> o, View |-> AddedView(s)]
<1>1. CASE \E i \in DOMAIN s.Outputs : s.Outputs[i].Name = o
  BY <1>1, TidiedUp DEF AddedOutputs
<1>2. CASE ~ \E i \in DOMAIN s.Outputs : s.Outputs[i].Name = o
  <2>1. s.Outputs \in Seq(Output) /\ DOMAIN s.Outputs = 1..Len(s.Outputs) /\ new \in Output
    BY OutputsTyped, AddedViewType DEF Output
  <2>2. r.Outputs = Append(s.Outputs, new)
    BY <1>2 DEF AddedOutputs
  <2> HIDE DEF new
  <2>3. /\ DOMAIN r.Outputs = 1..Len(s.Outputs) + 1 /\ Len(s.Outputs) \in Nat
        /\ \A i \in 1..Len(s.Outputs) : r.Outputs[i] = s.Outputs[i]
    BY <2>1, <2>2, AppendProperties
  <2>4. \A i \in DOMAIN s.Outputs : i \in DOMAIN r.Outputs /\ r.Outputs[i].View = s.Outputs[i].View
    BY <2>1, <2>3
  <2> QED BY <2>4, NoneHidden
<1> QED BY <1>1, <1>2

LEMMA RenameHidesNone ==
  ASSUME NEW s \in State, NEW old, NEW new, NEW r, r.Outputs = RenamedOutputs(s, old, new)
  PROVE  TidiesUp(s, r)
<1> DEFINE at == {i \in DOMAIN s.Outputs : s.Outputs[i].Name = old}
           k == Least(at)
<1>1. CASE at = {}
  BY <1>1, TidiedUp DEF RenamedOutputs
<1>2. CASE at # {}
  <2>1. \A i \in DOMAIN s.Outputs : s.Outputs[i] \in Output
    BY OutputsTyped
  <2>2. \A p \in Output : [p EXCEPT !.Name = new].View = p.View
    BY DEF Output
  <2>3. r.Outputs = [s.Outputs EXCEPT ![k] = [s.Outputs[k] EXCEPT !.Name = new]]
    BY <1>2 DEF RenamedOutputs
  <2> HIDE DEF k
  <2>4. \A i \in DOMAIN s.Outputs : i \in DOMAIN r.Outputs /\ r.Outputs[i].View = s.Outputs[i].View
    BY <2>1, <2>2, <2>3
  <2> QED BY <2>4, NoneHidden
<1> QED BY <1>1, <1>2

\* Every step respects the focus of views it is not about, and leaves no empty
\* view behind: one case per operation.
LEMMA StepRespects ==
  ASSUME WmInv, Next, Settled(wm'), Distinct(wm')
  PROVE  RespectsFocus(wm, wm') /\ TidiesUp(wm, wm')
<1>1. Settled(wm) /\ Distinct(wm) /\ Clean(wm) /\ wm \in State
  BY TidyParts DEF WmInv, Settled, Tidy
<1>2. ASSUME Undisturbed(wm, wm') \/ ActiveOnly(wm, wm') \/ ActiveAfter(wm, wm'),
             wm'.Outputs = wm.Outputs \/ Swept(wm')
      PROVE  RespectsFocus(wm, wm') /\ TidiesUp(wm, wm')
  BY <1>2, FocusRespected, TidiedUp
<1>3. ASSUME Rearranges(wm, wm') PROVE  RespectsFocus(wm, wm') /\ TidiesUp(wm, wm')
  BY <1>2, <1>3 DEF Rearranges
<1>4. ASSUME NEW n \in ViewName, wm' = SelectView(wm, n) PROVE  RespectsFocus(wm, wm') /\ TidiesUp(wm, wm')
  <2>1. Distinct(SelectView(wm, n))
    BY <1>4
  <2>2. Undisturbed(wm, wm') /\ (wm'.Outputs = wm.Outputs \/ Swept(wm'))
    BY <1>1, <1>4, <2>1, SelectViewSettles
  <2> QED BY <1>2, <2>2
<1>6. CASE OutputAppears
  <2>1. PICK o \in OutputName \ OutputNames : CanAddOutput(wm) /\ wm' = AddOutput(wm, o)
    BY <1>6 DEF OutputAppears, CanAddOutput
  <2>2. Distinct(AddOutput(wm, o))
    BY <2>1
  <2>3. Undisturbed(wm, wm') /\ wm'.Outputs = AddedOutputs(wm, o)
    BY <1>1, <2>1, <2>2, AddOutputSettles
  <2> QED BY <1>1, <2>1, <2>3, FocusRespected, AddHidesNone
<1>7. CASE OutputVanishes
  <2>1. PICK o : wm' = RemoveOutput(wm, o)
    BY <1>7 DEF OutputVanishes
  <2>2. Distinct(RemoveOutput(wm, o))
    BY <2>1
  <2>3. Undisturbed(wm, wm') /\ Swept(wm')
    BY <1>1, <2>1, <2>2, RemoveOutputSettles
  <2> QED BY <1>2, <2>3
<1>8. CASE OutputRenamed
  <2>1. PICK old \in OutputNames, new \in OutputName \ OutputNames : wm' = RenameOutput(wm, old, new)
    BY <1>8 DEF OutputRenamed
  <2>2. Undisturbed(wm, wm') /\ wm'.Outputs = RenamedOutputs(wm, old, new)
    BY <1>1, <2>1, RenameOutputSettles
  <2> QED BY <1>1, <2>2, FocusRespected, RenameHidesNone
<1>9. ASSUME NEW id \in WindowID, NEW floating \in BOOLEAN, ~Managed(wm, id),
             NEW tags \in SUBSET ViewName, NEW order \in CreationOrders(wm, tags),
             wm' = AddWindow(wm, id, floating, tags, order)
      PROVE  RespectsFocus(wm, wm') /\ TidiesUp(wm, wm')
  <2> DEFINE r == AddWindow(wm, id, floating, tags, order)
  <2>1. ActiveOnly(wm, r)
    BY <1>1, <1>9, AddWindowSettles
  <2>2. /\ wm'.Outputs = wm.Outputs /\ wm'.FocusOutput = wm.FocusOutput
        /\ wm'.Tags = [wm.Tags EXCEPT ![id] = tags]
        /\ wm'.Focused = IF wm.Outputs # <<>> /\ activeName(wm) \in tags THEN id ELSE wm.Focused
    BY <1>1, <1>9, AddWindowSettles
  <2>3. wm' = r
    BY <1>9
  <2> HIDE DEF r
  <2> QED BY <1>2, <2>1, <2>2, <2>3
<1>10. CASE WindowOpens
  <2>1. PICK id \in WindowID, floating \in BOOLEAN, order \in CreationOrders(wm, defaultTags(wm)) :
          /\ ~Managed(wm, id)
          /\ FreeNames(wm) # {} \/ FocusedTags(wm) # {} \/ hasActiveView(wm)
          /\ wm' = AddWindow(wm, id, floating, defaultTags(wm), order)
    BY <1>10 DEF WindowOpens
  <2>2. defaultTags(wm) \in SUBSET ViewName
    BY <1>1, <2>1, DefaultTagsType
  <2> QED BY <1>9, <2>1, <2>2
<1>11. CASE WindowReturns
  <2>1. PICK id \in WindowID, floating \in BOOLEAN, tags \in (SUBSET ViewName) \ {{}} :
          /\ ~Managed(wm, id)
          /\ \E order \in CreationOrders(wm, tags) :
               wm' = AddWindow(wm, id, floating, tags, order)
    BY <1>11 DEF WindowReturns
  <2>2. PICK order \in CreationOrders(wm, tags) : wm' = AddWindow(wm, id, floating, tags, order)
    BY <2>1
  <2> QED BY <1>9, <2>1, <2>2
<1>12. CASE WindowCloses
  <2>1. PICK id \in WindowID : wm' = RemoveWindow(wm, id)
    BY <1>12 DEF WindowCloses
  <2>2. Distinct(RemoveWindow(wm, id))
    BY <2>1
  <2>3. Undisturbed(wm, wm') /\ wm'.Outputs = wm.Outputs
    BY <1>1, <2>1, <2>2, RemoveWindowSettles
  <2> QED BY <1>2, <2>3
<1>13. CASE TabSwitches
  <2>1. PICK old \in WindowID, nu \in WindowID :
          Managed(wm, old) /\ ~Managed(wm, nu) /\ wm' = ReplaceWindow(wm, old, nu)
    BY <1>13 DEF TabSwitches
  <2>2. Undisturbed(wm, wm') /\ wm'.Outputs = wm.Outputs
    BY <1>1, <2>1, ReplaceWindowSettles
  <2> QED BY <1>2, <2>2
<1>14. CASE StartupSpreads
  <2>1. PICK i \in DOMAIN wm.Outputs, k \in 0..MaxColumns :
          \E tiled \in ReadingOrders(wm.Views[wm.Outputs[i].View]) :
            wm' = SpreadColumns(wm, wm.Outputs[i].View, tiled, k)
    BY <1>14 DEF StartupSpreads
  <2>2. wm.Outputs[i].View \in ViewName /\ k \in Nat
    BY <1>1, OutputsTyped, WmAssumption
  <2> QED BY <1>1, <1>3, <2>1, <2>2, SpreadSettles
<1>15. CASE FocusesWindow
  <2>1. PICK id \in WindowID :
          /\ Managed(wm, id)
          /\ IF ShownTags(wm, id) # {}
             THEN \E n \in ShownTags(wm, id) : wm' = FocusShownWindow(wm, id, n)
             ELSE wm' = FocusHiddenWindow(wm, id)
    BY <1>15 DEF FocusesWindow
  <2>2. CASE ShownTags(wm, id) # {}
    <3>1. PICK n \in ShownTags(wm, id) : wm' = FocusShownWindow(wm, id, n)
      BY <2>1, <2>2
    <3>2. Distinct(FocusShownWindow(wm, id, n))
      BY <3>1
    <3>3. ActiveAfter(wm, wm') /\ wm'.Outputs = wm.Outputs
      BY <1>1, <3>1, <3>2, FocusShownSettles
    <3> QED BY <1>2, <3>3
  <2>3. CASE ShownTags(wm, id) = {}
    <3> DEFINE n == Least(wm.Tags[id])
               t == SelectView(wm, n)
    <3>1. wm' = FocusHiddenWindow(wm, id) /\ wm.Tags[id] # {}
      BY <2>1, <2>3 DEF Managed
    <3>2. n \in ViewName
      <4>1. wm.Tags[id] \subseteq ViewName /\ ViewName \subseteq Nat
        BY <1>1, StateAssumption DEF State
      <4> QED BY <3>1, <4>1, LeastType
    <3>3. Distinct(FocusHiddenWindow(wm, id))
      BY <3>1
    <3>4. /\ wm'.Tags = wm.Tags /\ wm'.Outputs = t.Outputs
          /\ wm'.viewIndex = t.viewIndex /\ ActiveAfter(wm, wm')
      BY <1>1, <3>1, <3>3, FocusHiddenSettles
    <3>5. Distinct(t)
      BY <1>1, <3>2, SelectViewDistinct
    <3>6. Settled(t) /\ t.Tags = wm.Tags /\ (t.Outputs = wm.Outputs \/ Swept(t))
      BY <1>1, <3>2, <3>5, SelectViewSettles
    <3> HIDE DEF n, t
    <3>7. Swept(t) => Swept(wm')
      <4>1. ASSUME NEW m \in ViewName
            PROVE  /\ Showing(wm', m) = Showing(t, m) /\ (exists(wm', m) <=> exists(t, m))
                   /\ empty(wm'.Views[m]) <=> empty(t.Views[m])
        <5>1. /\ Sound(wm'.Views[m]) /\ WindowsOf(wm'.Views[m]) = Carried(wm', m)
              /\ Sound(t.Views[m]) /\ WindowsOf(t.Views[m]) = Carried(t, m)
          BY <3>6, TidyParts DEF Settled
        <5>2. Carried(wm', m) = Carried(t, m)
          BY <3>4, <3>6 DEF Carried
        <5>3. empty(wm'.Views[m]) <=> empty(t.Views[m])
          BY <5>1, <5>2, EmptyView
        <5> QED BY <3>4, <5>3 DEF Showing, exists
      <4> QED BY <4>1 DEF Swept
    <3> QED BY <1>2, <3>4, <3>6, <3>7
  <2> QED BY <2>2, <2>3
<1>16. CASE CmdFocus
  BY <1>1, <1>3, <1>16, FocusDirSettles DEF CmdFocus
<1>17. CASE CmdFocusToggleLayer
  BY <1>1, <1>3, <1>17, ToggleLayerSettles DEF CmdFocusToggleLayer
<1>18. CASE CmdFocusOutput
  <2>1. PICK delta \in {-1, 1} : wm' = CycleOutput(wm, delta)
    BY <1>18 DEF CmdFocusOutput
  <2>2. Distinct(CycleOutput(wm, delta))
    BY <2>1
  <2>3. wm'.Outputs = wm.Outputs /\ Undisturbed(wm, wm')
    BY <1>1, <2>1, <2>2, CycleOutputSettles
  <2> QED BY <1>2, <2>3
<1>19. CASE CmdMove
  BY <1>1, <1>3, <1>19, MoveDirSettles DEF CmdMove, Direction
<1>20. CASE CmdToggleFloat
  BY <1>1, <1>3, <1>20, ToggleFloatSettles DEF CmdToggleFloat
<1>21. CASE CmdFullscreen
  BY <1>1, <1>3, <1>21, FullscreenSettles DEF CmdFullscreen
<1>22. CASE CmdMode
  BY <1>1, <1>3, <1>22, SetModeSettles DEF CmdMode
<1>23. CASE CmdView
  BY <1>4, <1>23 DEF CmdView
<1>24. CASE CmdViewCycle
  <2>1. PICK delta \in {-1, 1} : wm' = CycleView(wm, delta)
    BY <1>24 DEF CmdViewCycle
  <2>2. Distinct(CycleView(wm, delta))
    BY <2>1
  <2>3. wm' = wm \/ \E n \in ViewName : wm' = SelectView(wm, n)
    BY <1>1, <2>1, <2>2, CycleViewSettles
  <2>4. CASE wm' = wm
    BY <1>2, <2>4, UndisturbedByNothing
  <2> QED BY <1>4, <2>3, <2>4
<1>25. CASE CmdViewN
  <2>1. PICK n \in ViewName : wm' = SelectViewN(wm, n)
    BY <1>25 DEF CmdViewN
  <2>2. Distinct(SelectViewN(wm, n))
    BY <2>1
  <2>3. Undisturbed(wm, wm') /\ (wm'.Outputs = wm.Outputs \/ Swept(wm'))
    BY <1>1, <2>1, <2>2, SelectViewNSettles
  <2> QED BY <1>2, <2>3
<1>26. CASE CmdMoveTo
  <2>1. PICK n \in ViewName : wm' = MoveToView(wm, n)
    BY <1>26 DEF CmdMoveTo
  <2>2. Distinct(MoveToView(wm, n))
    BY <2>1
  <2>3. wm'.Outputs = wm.Outputs /\ Undisturbed(wm, wm')
    BY <1>1, <2>1, <2>2, MoveToViewSettles
  <2> QED BY <1>2, <2>3
<1>27. CASE CmdMoveToN
  <2>1. PICK n \in ViewName : wm' = MoveToViewN(wm, n)
    BY <1>27 DEF CmdMoveToN
  <2>2. Distinct(MoveToViewN(wm, n))
    BY <2>1
  <2>3. wm'.Outputs = wm.Outputs /\ Undisturbed(wm, wm')
    BY <1>1, <2>1, <2>2, MoveToViewNSettles
  <2> QED BY <1>2, <2>3
<1>28. CASE CmdTag
  <2>1. PICK specs : \E order \in CreationOrders(wm, specTags(wm, specs)) :
                       wm' = TagSpec(wm, specs, order)
    BY <1>28 DEF CmdTag
  <2>2. PICK order \in CreationOrders(wm, specTags(wm, specs)) : wm' = TagSpec(wm, specs, order)
    BY <2>1
  <2>3. Distinct(TagSpec(wm, specs, order))
    BY <2>2
  <2> DEFINE r == TagSpec(wm, specs, order)
  <2>4. Undisturbed(wm, r)
    BY <1>1, <2>3, TagSpecSettles
  <2>5. /\ wm'.Outputs = wm.Outputs /\ wm'.FocusOutput = wm.FocusOutput
        /\ wm'.Tags = IF FocusedTags(wm) = {} \/ specs = <<>> \/ specTags(wm, specs) = {}
                      THEN wm.Tags ELSE [wm.Tags EXCEPT ![wm.Focused] = specTags(wm, specs)]
    BY <1>1, <2>2, <2>3, TagSpecSettles
  <2>6. wm' = r
    BY <2>2
  <2> HIDE DEF r
  <2> QED BY <1>2, <2>4, <2>5, <2>6
<1> QED BY <1>6, <1>7, <1>8, <1>10, <1>11, <1>12, <1>13, <1>14, <1>15, <1>16, <1>17, <1>18,
     <1>19, <1>20, <1>21, <1>22, <1>23, <1>24, <1>25, <1>26, <1>27, <1>28 DEF Next, Command

LEMMA StepsRespect ==
  ASSUME WmInv, [Next]_wm, wm' # wm
  PROVE  RespectsFocus(wm, wm') /\ TidiesUp(wm, wm')
<1>1. WmInv'
  BY WmInvKept
<1>2. Settled(wm') /\ Distinct(wm')
  BY <1>1 DEF WmInv, Settled, Tidy, Clean, Arranged, Fits, Distinct, activeOutput, activeView,
              activeName, exists
<1> QED BY <1>2, StepRespects

\* Whatever happens, a view keeps its focused window as long as its windows
\* stay and it is not the view the step works on.
THEOREM ViewsAlwaysKeepTheirFocus == Spec => ViewsKeepTheirFocus
<1>1. WmInv /\ [Next]_wm =>
        [\A n \in ViewSet(wm) :
           (/\ WindowsOf(wm'.Views[n]) = WindowsOf(wm.Views[n])
            /\ ~(hasActiveView(wm) /\ activeName(wm) = n)
            /\ ~(hasActiveView(wm') /\ activeName(wm') = n))
           => focusedWindow(wm'.Views[n]) = focusedWindow(wm.Views[n])]_wm
  BY StepsRespect DEF RespectsFocus, SameFocus, ViewSet
<1> QED BY <1>1, WmInvHolds, PTL DEF Spec, ViewsKeepTheirFocus

\* No step leaves an empty view behind when the last output goes on to
\* another or is unplugged.
THEOREM LeftEmptyViewsAlwaysDestroyed == Spec => LeftEmptyViewsDestroyed
<1>1. WmInv /\ [Next]_wm =>
        [\A n \in ViewSet(wm) :
           Showing(wm, n) # {} /\ Showing(wm', n) = {} /\ empty(wm'.Views[n])
           => ~exists(wm', n)]_wm
  BY StepsRespect DEF TidiesUp, ViewSet
<1> QED BY <1>1, WmInvHolds, PTL DEF Spec, LeftEmptyViewsDestroyed
-----------------------------------------------------------------------------
(* What closing a window leaves alone.                                     *)

\* Each selection of v is one of w, in a column with the same windows but id.
SelectionsKept(v, w, id) ==
  \A c \in ToSet(v.Columns) :
    selected(c) \notin {id, NoWindow}
    => \E d \in ToSet(w.Columns) :
         selected(d) = selected(c) /\ ToSet(d.Windows) = ToSet(c.Windows) \ {id}

LEMMA SelectedRow ==
  ASSUME NEW c \in Column
  PROVE  /\ selected(c) # NoWindow <=> c.Sel \in DOMAIN c.Windows
         /\ selected(c) # NoWindow => /\ c.Windows[c.Sel] = selected(c)
                                      /\ selected(c) \in ToSet(c.Windows)
                                      /\ c.Windows # <<>>
<1>1. c.Windows \in Seq(WindowID) /\ DOMAIN c.Windows = 1..Len(c.Windows) /\ Len(c.Windows) \in Nat
  BY ColumnFields
<1>2. c.Sel \in DOMAIN c.Windows => c.Windows[c.Sel] \in WindowID /\ c.Windows # <<>>
  BY <1>1
<1> QED BY <1>2, ViewAssumption DEF selected, ToSet

\* clampFocus leaves a column with a selection as it is.
LEMMA ClampKeepsSelected ==
  ASSUME NEW v \in View, NEW ci \in 1..Len(v.Columns), selected(v.Columns[ci]) # NoWindow
  PROVE  v.Columns[ci] \in ToSet(clampFocus(v).Columns)
<1>1. /\ v.Columns \in Seq(Column) /\ Len(v.Columns) \in Nat /\ DOMAIN v.Columns = 1..Len(v.Columns)
      /\ v.Columns[ci] \in Column /\ v.Columns # <<>>
  BY ViewFields, ColumnsOfView
<1>2. clampFocus(v).Columns = [j \in DOMAIN v.Columns |-> clampSel(v.Columns[j])]
  BY <1>1 DEF clampFocus, View
<1>3. ColumnInRange(v.Columns[ci], TRUE)
  BY <1>1, SelectedRow DEF ColumnInRange
<1>4. clampSel(v.Columns[ci]) = v.Columns[ci]
  BY <1>1, <1>3, ClampSelWindows
<1>5. ci \in DOMAIN clampFocus(v).Columns /\ clampFocus(v).Columns[ci] = v.Columns[ci]
  BY <1>1, <1>2, <1>4
<1> QED BY <1>5 DEF ToSet

\* The selection of a column stays on its window when another is taken out.
LEMMA WithoutRowSelected ==
  ASSUME NEW c \in Column, IsInjective(c.Windows), NEW id \in ToSet(c.Windows),
         selected(c) \notin {id, NoWindow}
  PROVE  selected(WithoutRow(c, IndexOf(c.Windows, id))) = selected(c)
<1> DEFINE ri == IndexOf(c.Windows, id)
           q  == RemoveAt(c.Windows, ri)
           k  == IF c.Sel > ri THEN c.Sel - 1 ELSE c.Sel
<1>1. c.Windows \in Seq(WindowID) /\ c.Sel \in Nat /\ Len(c.Windows) \in Nat
  BY ColumnFields
<1>2. ri \in 1..Len(c.Windows) /\ c.Windows[ri] = id
  BY <1>1, IndexOfType
<1>3. c.Sel \in 1..Len(c.Windows) /\ c.Windows[c.Sel] = selected(c)
  BY <1>1, SelectedRow
<1> HIDE DEF ri
<1>4. c.Sel # ri
  BY <1>2, <1>3
<1>5. /\ q \in Seq(WindowID) /\ Len(q) = Len(c.Windows) - 1
      /\ \A j \in 1..Len(c.Windows) - 1 : q[j] = IF j < ri THEN c.Windows[j] ELSE c.Windows[j + 1]
  BY <1>1, <1>2, RemoveAtType
<1>6. WithoutRow(c, ri).Windows = q /\ WithoutRow(c, ri).Sel = k
  BY DEF WithoutRow, Column
<1> HIDE DEF q
<1>7. k \in DOMAIN q /\ q[k] = c.Windows[c.Sel]
  <2>1. k \in 1..Len(c.Windows) - 1 /\ (k < ri => k = c.Sel) /\ (~(k < ri) => k + 1 = c.Sel)
    BY <1>1, <1>2, <1>3, <1>4
  <2> QED BY <1>5, <2>1
<1> QED BY <1>3, <1>6, <1>7 DEF selected, ri

LEMMA RemovalKeepsSelections ==
  ASSUME NEW v, Sound(v), NEW id
  PROVE  SelectionsKept(v, removeFromView(v, id), id)
<1>1. /\ v \in View /\ v.Columns \in Seq(Column) /\ v.Float \in Seq(WindowID)
      /\ Len(v.Columns) \in Nat /\ DOMAIN v.Columns = 1..Len(v.Columns) /\ Apart(v.Columns)
  BY ViewFields DEF Sound, Placed
<1> SUFFICES ASSUME NEW c \in ToSet(v.Columns), selected(c) \notin {id, NoWindow}
             PROVE  \E d \in ToSet(removeFromView(v, id).Columns) :
                      selected(d) = selected(c) /\ ToSet(d.Windows) = ToSet(c.Windows) \ {id}
  BY DEF SelectionsKept
<1>2. PICK j \in 1..Len(v.Columns) : c = v.Columns[j]
  BY <1>1 DEF ToSet
<1>3. /\ c \in Column /\ c.Windows \in Seq(WindowID) /\ IsInjective(c.Windows)
      /\ ToSet(c.Windows) \subseteq Held(v.Columns)
      /\ selected(c) \in ToSet(c.Windows)
  BY <1>1, <1>2, ColumnsOfView, SelectedRow
<1>4. CASE InColumn(v, id)
  <2> DEFINE ci   == ColumnOf(v, id)
             b    == v.Columns[ci]
             d    == WithoutRow(b, IndexOf(b.Windows, id))
             cols == WithColumn(v.Columns, ci, d)
             w    == [v EXCEPT !.Columns = cols]
  <2>1. ci \in 1..Len(v.Columns) /\ b \in Column /\ id \in ToSet(b.Windows)
    BY <1>1, <1>4, ColumnOfType
  <2>2. IsInjective(b.Windows) /\ ToSet(b.Windows) \subseteq Held(v.Columns)
    BY <1>1, <2>1, ColumnsOfView
  <2>3. removeFromView(v, id) = clampFocus(w)
    BY <1>4 DEF removeFromView
  <2> HIDE DEF ci
  <2>4. d \in Column /\ IsInjective(d.Windows) /\ ToSet(d.Windows) = ToSet(b.Windows) \ {id}
    BY <2>1, <2>2, WithoutRowSet
  <2>5. j = ci => selected(d) = selected(c)
    BY <1>2, <2>1, <2>2, WithoutRowSelected
  <2>6. j # ci => id \notin ToSet(c.Windows)
    BY <1>1, <1>2, <2>1 DEF Apart
  <2> HIDE DEF d, b
  <2>7. cols \in Seq(Column)
    <3>1. id \in ToSet(v.Columns[ci].Windows) /\ ToSet(d.Windows) = ToSet(v.Columns[ci].Windows) \ {id}
      BY <2>1, <2>4 DEF b
    <3> QED BY <1>1, <2>1, <2>4, <3>1, RowGone
  <2>8. \E k \in 1..Len(cols) : cols[k] = IF j = ci THEN d ELSE c
    <3>1. CASE d.Windows = <<>>
      <4>1. cols = RemoveAt(v.Columns, ci)
        BY <3>1 DEF WithColumn
      <4>2. j # ci
        <5>1. j = ci => selected(d) # NoWindow
          BY <2>5
        <5> QED BY <2>4, <3>1, <5>1, SelectedRow
      <4>3. /\ Len(cols) = Len(v.Columns) - 1
            /\ \A k \in 1..Len(v.Columns) - 1 :
                 cols[k] = IF k < ci THEN v.Columns[k] ELSE v.Columns[k + 1]
        BY <1>1, <2>1, <4>1, RemoveAtType
      <4> DEFINE k == IF j < ci THEN j ELSE j - 1
      <4>4. k \in 1..Len(cols) /\ (IF k < ci THEN k ELSE k + 1) = j
        BY <1>1, <2>1, <4>2, <4>3
      <4> HIDE DEF k, cols
      <4>5. cols[k] = v.Columns[j]
        BY <4>3, <4>4
      <4> QED BY <1>2, <4>2, <4>4, <4>5
    <3>2. CASE d.Windows # <<>>
      <4>1. cols = [v.Columns EXCEPT ![ci] = d]
        BY <3>2 DEF WithColumn
      <4>2. Len(cols) = Len(v.Columns) /\ cols[j] = IF j = ci THEN d ELSE c
        BY <1>1, <1>2, <2>1, <2>4, <4>1, ExceptSeq
      <4> QED BY <4>2
    <3> QED BY <3>1, <3>2
  <2> HIDE DEF cols
  <2>9. PICK k \in 1..Len(cols) : cols[k] = IF j = ci THEN d ELSE c
    BY <2>8
  <2>10. w \in View /\ w.Columns = cols
    BY <1>1, <2>7 DEF View
  <2> HIDE DEF w
  <2>11. /\ selected(cols[k]) = selected(c)
         /\ ToSet(cols[k].Windows) = ToSet(c.Windows) \ {id}
    <3>1. CASE j = ci
      <4>1. b = c
        BY <1>2, <3>1 DEF b
      <4> QED BY <2>4, <2>5, <2>9, <3>1, <4>1
    <3>2. CASE j # ci
      BY <2>6, <2>9, <3>2
    <3> QED BY <3>1, <3>2
  <2>12. cols[k] \in ToSet(clampFocus(w).Columns)
    BY <2>9, <2>10, <2>11, ClampKeepsSelected
  <2> QED BY <2>3, <2>11, <2>12
<1>5. CASE ~InColumn(v, id)
  <2>1. ToSet(c.Windows) = ToSet(c.Windows) \ {id}
    BY <1>3, <1>5, WindowsOfView
  <2>2. c \in ToSet(removeFromView(v, id).Columns)
    <3>1. CASE FloatContains(v, id)
      <4> DEFINE i == IndexOf(v.Float, id)
                 w == [v EXCEPT !.Float = RemoveAt(v.Float, i)]
      <4>1. i \in 1..Len(v.Float)
        BY <1>1, <3>1, IndexOfType DEF FloatContains
      <4>2. removeFromView(v, id) = clampFocus(w)
        BY <1>5, <3>1 DEF removeFromView
      <4> HIDE DEF i
      <4>3. RemoveAt(v.Float, i) \in Seq(WindowID)
        BY <1>1, <4>1, RemoveAtType
      <4>4. w \in View /\ w.Columns = v.Columns
        BY <1>1, <4>3 DEF View
      <4> HIDE DEF w
      <4> QED BY <1>2, <4>2, <4>4, ClampKeepsSelected
    <3>2. CASE ~FloatContains(v, id)
      BY <1>5, <3>2 DEF removeFromView
    <3> QED BY <3>1, <3>2
  <2> QED BY <2>1, <2>2
<1> QED BY <1>4, <1>5

LEMMA RemoveWindowSelections ==
  ASSUME NEW s, Settled(s), NEW id \in WindowID, Managed(s, id), Distinct(RemoveWindow(s, id)),
         NEW n \in ViewName
  PROVE  SelectionsKept(s.Views[n], RemoveWindow(s, id).Views[n], id)
<1> DEFINE r == RemoveWindow(s, id)
<1>1. Settled(r) /\ r.Tags = [s.Tags EXCEPT ![id] = {}] /\ Withdrawn(s, r, id)
  BY RemoveWindowSettles
<1>2. /\ Sound(s.Views[n]) /\ WindowsOf(s.Views[n]) = Carried(s, n)
      /\ WindowsOf(r.Views[n]) = Carried(r, n)
      /\ s.Tags \in [WindowID -> SUBSET ViewName]
  BY <1>1, TidyParts, StateFields DEF Settled
<1> HIDE DEF r
<1>3. ASSUME r.Views[n] = removeFromView(s.Views[n], id)
      PROVE  SelectionsKept(s.Views[n], r.Views[n], id)
  BY <1>2, <1>3, RemovalKeepsSelections
<1>4. ASSUME r.Views[n] = NewView
      PROVE  SelectionsKept(s.Views[n], r.Views[n], id)
  <2>1. Carried(r, n) = {}
    BY <1>2, <1>4, NewViewSound
  <2>2. Carried(s, n) \subseteq {id}
    <3>1. \A w \in WindowID : w # id => r.Tags[w] = s.Tags[w]
      BY <1>1, <1>2
    <3> QED BY <2>1, <3>1 DEF Carried, Carrying
  <2>3. ASSUME NEW c \in ToSet(s.Views[n].Columns) PROVE selected(c) \in {id, NoWindow}
    <3>1. s.Views[n].Columns \in Seq(Column)
      BY <1>2, ViewFields DEF Sound
    <3>2. PICK j \in 1..Len(s.Views[n].Columns) : c = s.Views[n].Columns[j]
      BY <3>1, ToSetOf
    <3>3. c \in Column /\ ToSet(c.Windows) \subseteq Held(s.Views[n].Columns)
      BY <3>1, <3>2, ColumnsOfView
    <3>4. ToSet(c.Windows) \subseteq {id}
      BY <1>2, <2>2, <3>3, WindowsOfView
    <3> QED BY <3>3, <3>4, SelectedRow
  <2> QED BY <2>3 DEF SelectionsKept
<1> QED BY <1>1, <1>3, <1>4 DEF Withdrawn, r

\* The one operation after which a window, and no other, is gone is its closing.
LEMMA OnlyClosingCloses ==
  ASSUME WmInv, Next, Settled(wm'), Distinct(wm'), NEW id \in WindowID, Closes(id)
  PROVE  wm' = RemoveWindow(wm, id)
<1>1. Settled(wm) /\ Distinct(wm) /\ Clean(wm) /\ wm \in State /\ wm.Tags \in [WindowID -> SUBSET ViewName]
  BY TidyParts, StateFields DEF WmInv, Settled, Tidy
<1>2. /\ wm.Tags[id] # {} /\ wm'.Tags[id] = {}
      /\ \A w \in WindowID : w # id => (wm'.Tags[w] # {} <=> wm.Tags[w] # {})
  BY DEF Closes, Managed
<1>3. ASSUME wm'.Tags = wm.Tags PROVE FALSE
  BY <1>2, <1>3
<1>4. ASSUME NEW n \in ViewName, wm' = SelectView(wm, n) PROVE FALSE
  <2>1. Distinct(SelectView(wm, n))
    BY <1>4
  <2>2. wm'.Tags = wm.Tags
    BY <1>1, <1>4, <2>1, SelectViewSettles
  <2> QED BY <1>3, <2>2
<1>5. ASSUME NEW i, NEW T, T # {}, wm'.Tags = [wm.Tags EXCEPT ![i] = T] PROVE FALSE
  <2>1. wm'.Tags[id] = IF id = i THEN T ELSE wm.Tags[id]
    BY <1>1, <1>5
  <2> QED BY <1>2, <1>5, <2>1
<1>6. CASE OutputAppears
  <2>1. PICK o \in OutputName \ OutputNames : CanAddOutput(wm) /\ wm' = AddOutput(wm, o)
    BY <1>6 DEF OutputAppears, CanAddOutput
  <2>2. Distinct(AddOutput(wm, o))
    BY <2>1
  <2>3. wm'.Tags = wm.Tags
    BY <1>1, <2>1, <2>2, AddOutputSettles
  <2> QED BY <1>3, <2>3
<1>7. CASE OutputVanishes
  <2>1. PICK o : wm' = RemoveOutput(wm, o)
    BY <1>7 DEF OutputVanishes
  <2>2. Distinct(RemoveOutput(wm, o))
    BY <2>1
  <2>3. wm'.Tags = wm.Tags
    BY <1>1, <2>1, <2>2, RemoveOutputSettles
  <2> QED BY <1>3, <2>3
<1>8. CASE OutputRenamed
  <2>1. PICK old \in OutputNames, new \in OutputName \ OutputNames : wm' = RenameOutput(wm, old, new)
    BY <1>8 DEF OutputRenamed
  <2>2. wm'.Tags = wm.Tags
    BY <1>1, <2>1, RenameOutputSettles
  <2> QED BY <1>3, <2>2
<1>9. ASSUME NEW i \in WindowID, NEW floating \in BOOLEAN, ~Managed(wm, i),
             NEW tags \in SUBSET ViewName, NEW order \in CreationOrders(wm, tags),
             wm' = AddWindow(wm, i, floating, tags, order)
      PROVE  FALSE
  <2>1. /\ wm'.Outputs = wm.Outputs /\ wm'.FocusOutput = wm.FocusOutput
        /\ wm'.Tags = [wm.Tags EXCEPT ![i] = tags]
        /\ wm'.Focused = IF wm.Outputs # <<>> /\ activeName(wm) \in tags THEN i ELSE wm.Focused
    BY <1>1, <1>9, AddWindowSettles
  <2>2. id # i
    BY <1>2, <1>9 DEF Managed
  <2>3. wm'.Tags[id] = wm.Tags[id]
    BY <1>1, <2>1, <2>2
  <2> QED BY <1>2, <2>3
<1>10. CASE WindowOpens
  <2>1. PICK i \in WindowID, floating \in BOOLEAN, order \in CreationOrders(wm, defaultTags(wm)) :
          /\ ~Managed(wm, i)
          /\ FreeNames(wm) # {} \/ FocusedTags(wm) # {} \/ hasActiveView(wm)
          /\ wm' = AddWindow(wm, i, floating, defaultTags(wm), order)
    BY <1>10 DEF WindowOpens
  <2>2. defaultTags(wm) \in SUBSET ViewName
    BY <1>1, <2>1, DefaultTagsType
  <2> QED BY <1>9, <2>1, <2>2
<1>11. CASE WindowReturns
  <2>1. PICK i \in WindowID, floating \in BOOLEAN, tags \in (SUBSET ViewName) \ {{}} :
          /\ ~Managed(wm, i)
          /\ \E order \in CreationOrders(wm, tags) :
               wm' = AddWindow(wm, i, floating, tags, order)
    BY <1>11 DEF WindowReturns
  <2>2. PICK order \in CreationOrders(wm, tags) : wm' = AddWindow(wm, i, floating, tags, order)
    BY <2>1
  <2> QED BY <1>9, <2>1, <2>2
<1>12. CASE WindowCloses
  <2>1. PICK i \in WindowID : Managed(wm, i) /\ wm' = RemoveWindow(wm, i)
    BY <1>12 DEF WindowCloses
  <2>2. Distinct(RemoveWindow(wm, i))
    BY <2>1
  <2>3. wm'.Tags = [wm.Tags EXCEPT ![i] = {}]
    BY <1>1, <2>1, <2>2, RemoveWindowSettles
  <2>4. i = id
    BY <1>1, <1>2, <2>3
  <2> QED BY <2>1, <2>4
<1>13. CASE TabSwitches
  <2>1. PICK old \in WindowID, nu \in WindowID :
          Managed(wm, old) /\ ~Managed(wm, nu) /\ wm' = ReplaceWindow(wm, old, nu)
    BY <1>13 DEF TabSwitches
  <2>2. wm'.Tags = [wm.Tags EXCEPT ![nu] = wm.Tags[old], ![old] = {}]
    BY <1>1, <2>1, ReplaceWindowSettles
  <2>3. wm.Tags[old] # {} /\ wm.Tags[nu] = {}
    BY <2>1 DEF Managed
  <2>4. wm'.Tags[nu] = wm.Tags[old]
    BY <1>1, <2>2, <2>3
  <2> QED BY <1>2, <2>3, <2>4
<1>14. CASE StartupSpreads
  <2>1. PICK i \in DOMAIN wm.Outputs, k \in 0..MaxColumns :
          \E tiled \in ReadingOrders(wm.Views[wm.Outputs[i].View]) :
            wm' = SpreadColumns(wm, wm.Outputs[i].View, tiled, k)
    BY <1>14 DEF StartupSpreads
  <2>2. wm.Outputs[i].View \in ViewName /\ k \in Nat
    BY <1>1, OutputsTyped, WmAssumption
  <2>3. Rearranges(wm, wm')
    BY <1>1, <2>1, <2>2, SpreadSettles
  <2> QED BY <1>3, <2>3 DEF Rearranges
<1>15. CASE FocusesWindow
  <2>1. PICK i \in WindowID :
          IF ShownTags(wm, i) # {}
          THEN \E n \in ShownTags(wm, i) : wm' = FocusShownWindow(wm, i, n)
          ELSE wm' = FocusHiddenWindow(wm, i) /\ Managed(wm, i)
    BY <1>15 DEF FocusesWindow
  <2>2. CASE ShownTags(wm, i) # {}
    <3>1. PICK n \in ShownTags(wm, i) : wm' = FocusShownWindow(wm, i, n)
      BY <2>1, <2>2
    <3>2. Distinct(FocusShownWindow(wm, i, n))
      BY <3>1
    <3>3. wm'.Tags = wm.Tags
      BY <1>1, <3>1, <3>2, FocusShownSettles
    <3> QED BY <1>3, <3>3
  <2>3. CASE ShownTags(wm, i) = {}
    <3>1. wm' = FocusHiddenWindow(wm, i) /\ wm.Tags[i] # {}
      BY <2>1, <2>3 DEF Managed
    <3>2. Distinct(FocusHiddenWindow(wm, i))
      BY <3>1
    <3>3. wm'.Tags = wm.Tags
      BY <1>1, <3>1, <3>2, FocusHiddenSettles
    <3> QED BY <1>3, <3>3
  <2> QED BY <2>2, <2>3
<1>16. CASE CmdFocus
  BY <1>1, <1>3, <1>16, FocusDirSettles DEF CmdFocus, Rearranges
<1>17. CASE CmdFocusToggleLayer
  BY <1>1, <1>3, <1>17, ToggleLayerSettles DEF CmdFocusToggleLayer, Rearranges
<1>18. CASE CmdFocusOutput
  <2>1. PICK delta \in {-1, 1} : wm' = CycleOutput(wm, delta)
    BY <1>18 DEF CmdFocusOutput
  <2>2. Distinct(CycleOutput(wm, delta))
    BY <2>1
  <2>3. wm'.Tags = wm.Tags
    BY <1>1, <2>1, <2>2, CycleOutputSettles
  <2> QED BY <1>3, <2>3
<1>19. CASE CmdMove
  BY <1>1, <1>3, <1>19, MoveDirSettles DEF CmdMove, Direction, Rearranges
<1>20. CASE CmdToggleFloat
  BY <1>1, <1>3, <1>20, ToggleFloatSettles DEF CmdToggleFloat, Rearranges
<1>21. CASE CmdFullscreen
  BY <1>1, <1>3, <1>21, FullscreenSettles DEF CmdFullscreen, Rearranges
<1>22. CASE CmdMode
  BY <1>1, <1>3, <1>22, SetModeSettles DEF CmdMode, Rearranges
<1>23. CASE CmdView
  BY <1>4, <1>23 DEF CmdView
<1>24. CASE CmdViewCycle
  <2>1. PICK delta \in {-1, 1} : wm' = CycleView(wm, delta)
    BY <1>24 DEF CmdViewCycle
  <2>2. Distinct(CycleView(wm, delta))
    BY <2>1
  <2>3. wm' = wm \/ \E n \in ViewName : wm' = SelectView(wm, n)
    BY <1>1, <2>1, <2>2, CycleViewSettles
  <2> QED BY <1>3, <1>4, <2>3
<1>25. CASE CmdViewN
  <2>1. PICK n \in ViewName : wm' = SelectViewN(wm, n)
    BY <1>25 DEF CmdViewN
  <2>2. Distinct(SelectViewN(wm, n))
    BY <2>1
  <2>3. wm'.Tags = wm.Tags
    BY <1>1, <2>1, <2>2, SelectViewNSettles
  <2> QED BY <1>3, <2>3
<1>26. CASE CmdMoveTo
  <2>1. PICK n \in ViewName : wm' = MoveToView(wm, n)
    BY <1>26 DEF CmdMoveTo
  <2>2. Distinct(MoveToView(wm, n))
    BY <2>1
  <2>3. wm'.Tags = IF FocusedTags(wm) = {} THEN wm.Tags ELSE [wm.Tags EXCEPT ![wm.Focused] = {n}]
    BY <1>1, <2>1, <2>2, MoveToViewSettles
  <2> QED BY <1>3, <1>5, <2>3
<1>27. CASE CmdMoveToN
  <2>1. PICK n \in ViewName : wm' = MoveToViewN(wm, n)
    BY <1>27 DEF CmdMoveToN
  <2>2. Distinct(MoveToViewN(wm, n))
    BY <2>1
  <2>3. wm'.Tags = IF FocusedTags(wm) = {} THEN wm.Tags ELSE [wm.Tags EXCEPT ![wm.Focused] = {n}]
    BY <1>1, <2>1, <2>2, MoveToViewNSettles
  <2> QED BY <1>3, <1>5, <2>3
<1>28. CASE CmdTag
  <2>1. PICK specs : \E order \in CreationOrders(wm, specTags(wm, specs)) :
                       wm' = TagSpec(wm, specs, order)
    BY <1>28 DEF CmdTag
  <2>2. PICK order \in CreationOrders(wm, specTags(wm, specs)) : wm' = TagSpec(wm, specs, order)
    BY <2>1
  <2>3. Distinct(TagSpec(wm, specs, order))
    BY <2>2
  <2>4. /\ wm'.Outputs = wm.Outputs /\ wm'.FocusOutput = wm.FocusOutput
        /\ wm'.Tags = IF FocusedTags(wm) = {} \/ specs = <<>> \/ specTags(wm, specs) = {}
                      THEN wm.Tags ELSE [wm.Tags EXCEPT ![wm.Focused] = specTags(wm, specs)]
    BY <1>1, <2>2, <2>3, TagSpecSettles
  <2> QED BY <1>3, <1>5, <2>4
<1> QED BY <1>6, <1>7, <1>8, <1>10, <1>11, <1>12, <1>13, <1>14, <1>15, <1>16, <1>17, <1>18,
           <1>19, <1>20, <1>21, <1>22, <1>23, <1>24, <1>25, <1>26, <1>27, <1>28 DEF Next, Command

\* A window that closes leaves the selections of all columns on their windows,
\* whatever its place among them.
THEOREM ClosingAlwaysKeepsSelections == Spec => ClosingKeepsSelections
<1>1. ASSUME WmInv, [Next]_wm, wm' # wm, NEW id \in WindowID, Closes(id), NEW n \in ViewName
      PROVE  SelectionsKept(wm.Views[n], wm'.Views[n], id)
  <2>1. WmInv'
    BY <1>1, WmInvKept
  <2>2. Settled(wm') /\ Distinct(wm')
    BY <2>1 DEF WmInv, Settled, Tidy, Clean, Arranged, Fits, Distinct, activeOutput, activeView,
                activeName, exists
  <2>3. wm' = RemoveWindow(wm, id)
    BY <1>1, <2>2, OnlyClosingCloses
  <2>4. Settled(wm) /\ Managed(wm, id) /\ Distinct(RemoveWindow(wm, id))
    BY <1>1, <2>2, <2>3 DEF WmInv, Closes
  <2> QED BY <2>3, <2>4, RemoveWindowSelections
<1>2. WmInv /\ [Next]_wm =>
        [\A id \in WindowID :
           Closes(id) =>
             \A n \in ViewSet(wm) : \A c \in ToSet(wm.Views[n].Columns) :
                selected(c) \notin {id, NoWindow}
                => \E d \in ToSet(wm'.Views[n].Columns) :
                     selected(d) = selected(c) /\ ToSet(d.Windows) = ToSet(c.Windows) \ {id}]_wm
  BY <1>1 DEF SelectionsKept, ViewSet
<1> QED BY <1>2, WmInvHolds, PTL DEF Spec, ClosingKeepsSelections
-----------------------------------------------------------------------------
(* What moving a window leaves alone.                                      *)

\* a is above b in ids.
Precedes(ids, a, b) == \E k, l \in 1..Len(ids) : k < l /\ ids[k] = a /\ ids[l] = b

\* Every window of p but id is in q, in the same order.
KeepsOrder(p, q, id) ==
  /\ ToSet(p) \ {id} \subseteq ToSet(q)
  /\ \A a, b : a # id /\ b # id /\ Precedes(p, a, b) => Precedes(q, a, b)

LEMMA OrderKeptIn ==
  ASSUME NEW p, NEW id
  PROVE  /\ KeepsOrder(p, p, id)
         /\ \A q, r : KeepsOrder(p, q, id) /\ KeepsOrder(q, r, id) => KeepsOrder(p, r, id)
BY DEF KeepsOrder

LEMMA OrderWithout ==
  ASSUME NEW T, NEW p \in Seq(T), IsInjective(p), NEW i \in 1..Len(p)
  PROVE  KeepsOrder(p, RemoveAt(p, i), p[i])
<1> DEFINE q == RemoveAt(p, i)
           m(k) == IF k < i THEN k ELSE k - 1
<1>1. /\ q \in Seq(T) /\ Len(q) = Len(p) - 1 /\ ToSet(q) = ToSet(p) \ {p[i]}
      /\ \A j \in 1..Len(p) - 1 : q[j] = IF j < i THEN p[j] ELSE p[j + 1]
  BY RemoveAtSet, RemoveAtType
<1> HIDE DEF q
<1>2. Len(p) \in Nat
  OBVIOUS
<1>3. ASSUME NEW k \in 1..Len(p), p[k] # p[i]
      PROVE  m(k) \in 1..Len(q) /\ q[m(k)] = p[k]
  <2>1. k # i
    BY <1>3
  <2>2. m(k) \in 1..Len(p) - 1 /\ (m(k) < i => m(k) = k) /\ (~(m(k) < i) => m(k) + 1 = k)
    BY <1>2, <2>1
  <2> QED BY <1>1, <2>2
<1>4. ASSUME NEW a, NEW b, a # p[i], b # p[i], Precedes(p, a, b)
      PROVE  Precedes(q, a, b)
  <2>1. PICK k \in 1..Len(p), l \in 1..Len(p) : k < l /\ p[k] = a /\ p[l] = b
    BY <1>4 DEF Precedes
  <2>2. m(k) \in 1..Len(q) /\ q[m(k)] = a /\ m(l) \in 1..Len(q) /\ q[m(l)] = b
    BY <1>3, <1>4, <2>1
  <2>3. k # i /\ l # i
    BY <1>4, <2>1
  <2>4. m(k) < m(l)
    BY <1>2, <2>1, <2>3
  <2> HIDE DEF m
  <2> QED BY <2>2, <2>4 DEF Precedes
<1> QED BY <1>1, <1>4 DEF KeepsOrder, q

LEMMA OrderBefore ==
  ASSUME NEW T, NEW p \in Seq(T), NEW e \in T, NEW id
  PROVE  KeepsOrder(p, Append(p, e), id)
<1>1. /\ Len(Append(p, e)) = Len(p) + 1 /\ ToSet(Append(p, e)) = ToSet(p) \cup {e}
      /\ \A j \in 1..Len(p) : Append(p, e)[j] = p[j]
  BY AppendSet
<1>2. 1..Len(p) \subseteq 1..Len(Append(p, e))
  BY <1>1
<1>3. ASSUME NEW a, NEW b, Precedes(p, a, b) PROVE Precedes(Append(p, e), a, b)
  BY <1>1, <1>2, <1>3 DEF Precedes
<1> QED BY <1>1, <1>3 DEF KeepsOrder

\* A window that changes places with its neighbour.
LEMMA OrderSwapped ==
  ASSUME NEW T, NEW p \in Seq(T), IsInjective(p), NEW i \in 1..Len(p), NEW j \in 1..Len(p),
         j = i - 1 \/ j = i + 1
  PROVE  KeepsOrder(p, Swapped(p, i, j), p[i])
<1> DEFINE q == Swapped(p, i, j)
           m(k) == IF k = j THEN i ELSE k
<1>1. Len(q) = Len(p) /\ ToSet(q) = ToSet(p)
  BY SwappedSet
<1>2. Len(p) \in Nat /\ \A k \in 1..Len(p) : q[k] = IF k = j THEN p[i] ELSE IF k = i THEN p[j] ELSE p[k]
  BY DEF Swapped
<1> HIDE DEF q
<1>3. ASSUME NEW k \in 1..Len(p), p[k] # p[i]
      PROVE  k # i /\ m(k) \in 1..Len(q) /\ q[m(k)] = p[k]
  BY <1>1, <1>2, <1>3
<1>4. ASSUME NEW a, NEW b, a # p[i], b # p[i], Precedes(p, a, b)
      PROVE  Precedes(q, a, b)
  <2>1. PICK k \in 1..Len(p), l \in 1..Len(p) : k < l /\ p[k] = a /\ p[l] = b
    BY <1>4 DEF Precedes
  <2>2. /\ m(k) \in 1..Len(q) /\ q[m(k)] = a /\ m(l) \in 1..Len(q) /\ q[m(l)] = b
        /\ k # i /\ l # i
    BY <1>3, <1>4, <2>1
  <2>3. m(k) < m(l)
    BY <1>2, <2>1, <2>2
  <2> HIDE DEF m
  <2> QED BY <2>2, <2>3 DEF Precedes
<1> QED BY <1>1, <1>4 DEF KeepsOrder, q

\* Where a window of a sound view is.
LEMMA PlaceOf ==
  ASSUME NEW v, Sound(v), NEW ci \in 1..Len(v.Columns), NEW ri \in 1..Len(v.Columns[ci].Windows),
         NEW a, v.Columns[ci].Windows[ri] = a
  PROVE  ColumnOf(v, a) = ci /\ IndexOf(v.Columns[ci].Windows, a) = ri
<1>1. /\ v.Columns \in Seq(Column) /\ DOMAIN v.Columns = 1..Len(v.Columns) /\ Apart(v.Columns)
      /\ v.Columns[ci].Windows \in Seq(WindowID) /\ IsInjective(v.Columns[ci].Windows)
  BY ViewFields, ColumnsOfView DEF Sound, Placed
<1>2. DOMAIN v.Columns[ci].Windows = 1..Len(v.Columns[ci].Windows)
  BY <1>1
<1>3. a \in ToSet(v.Columns[ci].Windows)
  BY <1>2 DEF ToSet
<1>4. \A cj \in DOMAIN v.Columns : a \in ToSet(v.Columns[cj].Windows) => cj = ci
  BY <1>1, <1>3 DEF Apart
<1>5. \A rj \in DOMAIN v.Columns[ci].Windows : v.Columns[ci].Windows[rj] = a => rj = ri
  BY <1>1, <1>2 DEF IsInjective
<1> QED BY <1>1, <1>2, <1>3, <1>4, <1>5 DEF ColumnOf, IndexOf

\* ... which is its column and its row.
InPlace(u) ==
  \A ci \in 1..Len(u.Columns) : \A a \in ToSet(u.Columns[ci].Windows) :
    /\ ColumnOf(u, a) = ci
    /\ IndexOf(u.Columns[ci].Windows, a) \in 1..Len(u.Columns[ci].Windows)
    /\ u.Columns[ci].Windows[IndexOf(u.Columns[ci].Windows, a)] = a

LEMMA AllInPlace ==
  ASSUME NEW u, Sound(u)
  PROVE  InPlace(u)
<1>1. ASSUME NEW ci \in 1..Len(u.Columns), NEW a \in ToSet(u.Columns[ci].Windows)
      PROVE  /\ ColumnOf(u, a) = ci
             /\ IndexOf(u.Columns[ci].Windows, a) \in 1..Len(u.Columns[ci].Windows)
             /\ u.Columns[ci].Windows[IndexOf(u.Columns[ci].Windows, a)] = a
  <2>1. u.Columns[ci].Windows \in Seq(WindowID)
    BY ViewFields, ColumnsOfView DEF Sound
  <2>2. /\ IndexOf(u.Columns[ci].Windows, a) \in 1..Len(u.Columns[ci].Windows)
        /\ u.Columns[ci].Windows[IndexOf(u.Columns[ci].Windows, a)] = a
    BY <2>1, IndexOfType
  <2> DEFINE ri == IndexOf(u.Columns[ci].Windows, a)
  <2>3. ri \in 1..Len(u.Columns[ci].Windows) /\ u.Columns[ci].Windows[ri] = a
    BY <2>2
  <2>4. ColumnOf(u, a) = ci
    <3> HIDE DEF ri
    <3> QED BY <1>1, <2>3, PlaceOf
  <2> QED BY <2>2, <2>4
<1> QED BY <1>1 DEF InPlace

\* Windows a and b are in one column of u, a above b.
Above(u, a, b) ==
  /\ ColumnOf(u, a) = ColumnOf(u, b)
  /\ LET ids == u.Columns[ColumnOf(u, a)].Windows
     IN IndexOf(ids, a) < IndexOf(ids, b)

\* Window id went from its place in v to the one in w, past no other column.
OneStep(v, w, id) ==
  /\ \A a, b \in Tiled(v) \ {id} : Above(v, a, b) => Above(w, a, b)
  /\ \A a \in Tiled(v) \ {id} :
       /\ ColumnOf(v, a) > ColumnOf(v, id) + 1 => ColumnOf(w, a) > ColumnOf(w, id)
       /\ ColumnOf(v, a) < ColumnOf(v, id) - 1 => ColumnOf(w, a) < ColumnOf(w, id)

\* Each column j of v that has more than id becomes column q[j] of w.
LEMMA StepTaken ==
  ASSUME NEW v, Sound(v), NEW w, Sound(w), NEW id,
         NEW c0 \in 1..Len(v.Columns), id \in ToSet(v.Columns[c0].Windows),
         NEW c1 \in 1..Len(w.Columns), id \in ToSet(w.Columns[c1].Windows),
         NEW q,
         \A j \in 1..Len(v.Columns) :
           ToSet(v.Columns[j].Windows) \ {id} # {}
           => /\ q[j] \in 1..Len(w.Columns)
              /\ KeepsOrder(v.Columns[j].Windows, w.Columns[q[j]].Windows, id)
              /\ j > c0 + 1 => q[j] > c1
              /\ j < c0 - 1 => q[j] < c1
  PROVE  OneStep(v, w, id)
<1>1. InPlace(v) /\ InPlace(w)
  BY AllInPlace
<1>2. ColumnOf(v, id) = c0 /\ ColumnOf(w, id) = c1
  BY <1>1 DEF InPlace
<1>3. ASSUME NEW a \in Tiled(v) \ {id}
      PROVE  \E j \in 1..Len(v.Columns) :
               /\ a \in ToSet(v.Columns[j].Windows) /\ ColumnOf(v, a) = j
               /\ q[j] \in 1..Len(w.Columns)
               /\ KeepsOrder(v.Columns[j].Windows, w.Columns[q[j]].Windows, id)
               /\ a \in ToSet(w.Columns[q[j]].Windows) /\ ColumnOf(w, a) = q[j]
               /\ j > c0 + 1 => q[j] > c1
               /\ j < c0 - 1 => q[j] < c1
  <2>1. DOMAIN v.Columns = 1..Len(v.Columns)
    BY ViewFields DEF Sound
  <2>2. PICK j \in 1..Len(v.Columns) : a \in ToSet(v.Columns[j].Windows)
    BY <2>1 DEF Tiled
  <2>3. /\ q[j] \in 1..Len(w.Columns)
        /\ KeepsOrder(v.Columns[j].Windows, w.Columns[q[j]].Windows, id)
        /\ j > c0 + 1 => q[j] > c1
        /\ j < c0 - 1 => q[j] < c1
    BY <2>2
  <2>4. a \in ToSet(w.Columns[q[j]].Windows)
    BY <2>2, <2>3 DEF KeepsOrder
  <2>5. ColumnOf(v, a) = j
    BY <1>1, <2>2 DEF InPlace
  <2>6. ColumnOf(w, a) = q[j]
    BY <1>1, <2>3, <2>4 DEF InPlace
  <2> QED BY <2>2, <2>3, <2>4, <2>5, <2>6, Zenon
<1>4. ASSUME NEW a \in Tiled(v) \ {id}, NEW b \in Tiled(v) \ {id}, Above(v, a, b)
      PROVE  Above(w, a, b)
  <2>1. PICK j \in 1..Len(v.Columns) :
          /\ a \in ToSet(v.Columns[j].Windows) /\ ColumnOf(v, a) = j
          /\ q[j] \in 1..Len(w.Columns)
          /\ KeepsOrder(v.Columns[j].Windows, w.Columns[q[j]].Windows, id)
          /\ a \in ToSet(w.Columns[q[j]].Windows) /\ ColumnOf(w, a) = q[j]
    BY <1>3
  <2>2. b \in ToSet(v.Columns[j].Windows) /\ b \in ToSet(w.Columns[q[j]].Windows) /\ ColumnOf(w, b) = q[j]
    <3>1. ColumnOf(v, b) = j
      BY <1>4, <2>1 DEF Above
    <3> QED BY <1>3, <3>1
  <2> DEFINE ids == v.Columns[j].Windows
             new == w.Columns[q[j]].Windows
  <2>3. IndexOf(ids, a) < IndexOf(ids, b)
    BY <1>4, <2>1 DEF Above
  <2>4. Precedes(ids, a, b)
    <3>1. IndexOf(ids, a) \in 1..Len(ids) /\ ids[IndexOf(ids, a)] = a
      BY <1>1, <2>1 DEF InPlace
    <3>2. IndexOf(ids, b) \in 1..Len(ids) /\ ids[IndexOf(ids, b)] = b
      BY <1>1, <2>2 DEF InPlace
    <3> HIDE DEF ids
    <3> QED BY <2>3, <3>1, <3>2 DEF Precedes
  <2>5. Precedes(new, a, b)
    BY <2>1, <2>4 DEF KeepsOrder
  <2>6. PICK k \in 1..Len(new), l \in 1..Len(new) : k < l /\ new[k] = a /\ new[l] = b
    BY <2>5 DEF Precedes
  <2>7. IndexOf(new, a) = k /\ IndexOf(new, b) = l
    <3>1. w.Columns \in Seq(Column) /\ Apart(w.Columns)
      BY ViewFields DEF Sound, Placed
    <3>2. IsInjective(new) /\ new \in Seq(WindowID)
      BY <2>1, <3>1, ColumnsOfView
    <3>3. IndexOf(new, a) \in 1..Len(new) /\ new[IndexOf(new, a)] = a
      BY <1>1, <2>1 DEF InPlace
    <3>4. IndexOf(new, b) \in 1..Len(new) /\ new[IndexOf(new, b)] = b
      BY <1>1, <2>1, <2>2 DEF InPlace
    <3> HIDE DEF new
    <3>5. DOMAIN new = 1..Len(new)
      BY <3>2
    <3> QED BY <2>6, <3>2, <3>3, <3>4, <3>5 DEF IsInjective
  <2> QED BY <2>1, <2>2, <2>6, <2>7 DEF Above
<1>5. ASSUME NEW a \in Tiled(v) \ {id}
      PROVE  /\ ColumnOf(v, a) > ColumnOf(v, id) + 1 => ColumnOf(w, a) > ColumnOf(w, id)
             /\ ColumnOf(v, a) < ColumnOf(v, id) - 1 => ColumnOf(w, a) < ColumnOf(w, id)
  BY <1>2, <1>3
<1> QED BY <1>4, <1>5 DEF OneStep

\* clampFocus touches no window of a view with columns ...
LEMMA ClampKeepsColumns ==
  ASSUME NEW v \in View, v.Columns # <<>>
  PROVE  /\ Len(clampFocus(v).Columns) = Len(v.Columns)
         /\ \A j \in 1..Len(v.Columns) : clampFocus(v).Columns[j].Windows = v.Columns[j].Windows
<1>1. v.Columns \in Seq(Column) /\ Len(v.Columns) \in Nat /\ DOMAIN v.Columns = 1..Len(v.Columns)
  BY ViewFields
<1>2. clampFocus(v).Columns = [j \in DOMAIN v.Columns |-> clampSel(v.Columns[j])]
  BY DEF clampFocus, View
<1>3. \A j \in 1..Len(v.Columns) : clampSel(v.Columns[j]).Windows = v.Columns[j].Windows
  BY <1>1, ColumnsOfView, ClampSelWindows
<1>4. clampFocus(v).Columns \in Seq(Column)
  BY ClampFocusType, ViewFields
<1> QED BY <1>1, <1>2, <1>3, <1>4

\* ... and the focus on no tiled one.
LEMMA ClampKeepsFocus ==
  ASSUME NEW v \in View, v.FocusLayer = "tiled", v.FocusCol \in 1..Len(v.Columns),
         selected(v.Columns[v.FocusCol]) # NoWindow
  PROVE  focusedWindow(clampFocus(v)) = selected(v.Columns[v.FocusCol])
<1> DEFINE w == clampFocus(v)
           c == v.Columns[v.FocusCol]
<1>1. /\ v.Columns \in Seq(Column) /\ Len(v.Columns) \in Nat /\ DOMAIN v.Columns = 1..Len(v.Columns)
      /\ c \in Column /\ v.Columns # <<>> /\ v.FocusCol \in Nat
  BY ViewFields, ColumnsOfView
<1>2. /\ w.Columns = [j \in DOMAIN v.Columns |-> clampSel(v.Columns[j])]
      /\ w.FocusCol = Clamped(v.FocusCol, Len(v.Columns)) /\ w.FocusLayer = "tiled"
  BY <1>1 DEF clampFocus, View
<1> HIDE DEF w
<1>3. clampSel(c) = c
  <2>1. ColumnInRange(c, TRUE)
    BY <1>1, SelectedRow DEF ColumnInRange
  <2> QED BY <1>1, <2>1, ClampSelWindows
<1>4. w.FocusCol = v.FocusCol
  BY <1>1, <1>2, ClampedInRange
<1>5. w.FocusCol \in DOMAIN w.Columns /\ w.Columns[w.FocusCol] = c
  BY <1>1, <1>2, <1>3, <1>4
<1>6. focusedWindow(w) = selected(c)
  BY <1>2, <1>5 DEF focusedWindow
<1> QED BY <1>6 DEF w

\* The columns left when column ci has become d, or has gone with its last window.
LEMMA ColumnsLeft ==
  ASSUME NEW cols \in Seq(Column), NEW ci \in 1..Len(cols), NEW d \in Column,
         NEW j \in 1..Len(cols), j # ci \/ d.Windows # <<>>
  PROVE  LET p == IF d.Windows = <<>> /\ j > ci THEN j - 1 ELSE j
         IN /\ p \in 1..Len(WithColumn(cols, ci, d))
            /\ WithColumn(cols, ci, d)[p] = IF j = ci THEN d ELSE cols[j]
<1> DEFINE p == IF d.Windows = <<>> /\ j > ci THEN j - 1 ELSE j
           r == WithColumn(cols, ci, d)
<1>1. Len(cols) \in Nat
  OBVIOUS
<1>2. CASE d.Windows = <<>>
  <2>1. r = RemoveAt(cols, ci)
    BY <1>2 DEF WithColumn
  <2>2. /\ Len(r) = Len(cols) - 1
        /\ \A k \in 1..Len(cols) - 1 : r[k] = IF k < ci THEN cols[k] ELSE cols[k + 1]
    BY <2>1, RemoveAtType
  <2>3. j # ci /\ p \in 1..Len(cols) - 1 /\ (IF p < ci THEN p ELSE p + 1) = j
    BY <1>1, <1>2
  <2> HIDE DEF r, p
  <2>4. r[p] = cols[j]
    BY <2>2, <2>3
  <2>5. p \in 1..Len(r) /\ r[p] = IF j = ci THEN d ELSE cols[j]
    BY <2>2, <2>3, <2>4
  <2> QED BY <2>5 DEF r, p
<1>3. CASE d.Windows # <<>>
  <2>1. r = [cols EXCEPT ![ci] = d] /\ p = j
    BY <1>3 DEF WithColumn
  <2>2. Len(r) = Len(cols) /\ r[j] = IF j = ci THEN d ELSE cols[j]
    BY <2>1, ExceptSeq
  <2> HIDE DEF r, p
  <2>3. p \in 1..Len(r) /\ r[p] = IF j = ci THEN d ELSE cols[j]
    BY <2>1, <2>2
  <2> QED BY <2>3 DEF r, p
<1> QED BY <1>2, <1>3

\* Swapped with its neighbour, a window stays in its column.
LEMMA MoveWithinColumnStep ==
  ASSUME NEW v, Sound(v), v.FocusLayer = "tiled", NEW delta \in {-1, 1},
         v.Columns[v.FocusCol].Sel \in DOMAIN v.Columns[v.FocusCol].Windows
  PROVE  LET w  == moveWithinColumn(v, delta)
             id == selected(v.Columns[v.FocusCol])
         IN OneStep(v, w, id) /\ focusedWindow(w) = id
<1> DEFINE col == v.FocusCol
           c   == v.Columns[col]
           id  == selected(c)
           row == c.Sel + delta
           w   == moveWithinColumn(v, delta)
           ids == Swapped(c.Windows, c.Sel, row)
           d   == [c EXCEPT !.Windows = ids, !.Sel = row]
           q   == [j \in 1..Len(v.Columns) |-> j]
<1>1. /\ v \in View /\ v.Columns \in Seq(Column) /\ Len(v.Columns) \in Nat
      /\ DOMAIN v.Columns = 1..Len(v.Columns) /\ col \in 1..Len(v.Columns)
  BY ViewFields DEF Sound, InRange
<1>2. /\ c \in Column /\ c.Windows \in Seq(WindowID) /\ IsInjective(c.Windows) /\ c.Sel \in Nat
      /\ DOMAIN c.Windows = 1..Len(c.Windows) /\ Len(c.Windows) \in Nat
  BY <1>1, SelectionOf, ColumnFields
<1>3. c.Sel \in 1..Len(c.Windows) /\ c.Windows[c.Sel] = id /\ id \in ToSet(c.Windows)
  BY <1>2 DEF selected, ToSet
<1>4. Sound(w)
  BY MoveWithinColumnSound
<1>5. CASE row \notin DOMAIN c.Windows
  <2>1. w = v
    BY <1>5 DEF moveWithinColumn
  <2>2. OneStep(v, v, id)
    <3>1. \A j \in 1..Len(v.Columns) :
            /\ q[j] \in 1..Len(v.Columns) /\ q[j] = j
            /\ KeepsOrder(v.Columns[j].Windows, v.Columns[q[j]].Windows, id)
      BY OrderKeptIn
    <3> HIDE DEF id, q, c, col
    <3>2. id \in ToSet(v.Columns[col].Windows)
      BY <1>3 DEF c
    <3>3. \A j \in 1..Len(v.Columns) :
            ToSet(v.Columns[j].Windows) \ {id} # {}
            => /\ q[j] \in 1..Len(v.Columns)
               /\ KeepsOrder(v.Columns[j].Windows, v.Columns[q[j]].Windows, id)
               /\ j > col + 1 => q[j] > col
               /\ j < col - 1 => q[j] < col
      BY <1>1, <3>1
    <3> QED BY <1>1, <3>2, <3>3, StepTaken
  <2>3. focusedWindow(v) = id
    BY <1>1 DEF focusedWindow
  <2> QED BY <2>1, <2>2, <2>3
<1>6. CASE row \in DOMAIN c.Windows
  <2>1. w = [v EXCEPT !.Columns = [v.Columns EXCEPT ![col] = d]]
    BY <1>6 DEF moveWithinColumn
  <2>2. /\ row \in 1..Len(c.Windows) /\ (row = c.Sel - 1 \/ row = c.Sel + 1)
    <3> HIDE DEF c
    <3> QED BY <1>2, <1>6
  <2> HIDE DEF w, row
  <2>3. /\ ids \in Seq(WindowID) /\ Len(ids) = Len(c.Windows) /\ ids[row] = id
        /\ ToSet(ids) = ToSet(c.Windows) /\ KeepsOrder(c.Windows, ids, id)
    <3>1. /\ ids \in Seq(WindowID) /\ Len(ids) = Len(c.Windows) /\ ids[row] = c.Windows[c.Sel]
          /\ ToSet(ids) = ToSet(c.Windows)
      BY <1>2, <1>3, <2>2, SwappedSet
    <3>2. KeepsOrder(c.Windows, ids, c.Windows[c.Sel])
      BY <1>2, <1>3, <2>2, OrderSwapped
    <3> QED BY <1>3, <3>1, <3>2
  <2> HIDE DEF ids
  <2>4. d.Windows = ids /\ d.Sel = row
    BY <1>2 DEF Column
  <2>5. selected(d) = id
    BY <2>2, <2>3, <2>4 DEF selected
  <2>6. v.Columns[col] = c
    OBVIOUS
  <2> HIDE DEF d, c, id
  <2>7. /\ w.Columns = [v.Columns EXCEPT ![col] = d] /\ w.FocusCol = col /\ w.FocusLayer = "tiled"
    BY <1>1, <2>1 DEF View
  <2>8. /\ Len(w.Columns) = Len(v.Columns) /\ DOMAIN w.Columns = 1..Len(v.Columns)
        /\ w.Columns[col] = d
        /\ \A j \in 1..Len(v.Columns) : j # col => w.Columns[j] = v.Columns[j]
    BY <1>1, <2>7
  <2>9. focusedWindow(w) = id
    BY <1>1, <2>5, <2>7, <2>8 DEF focusedWindow
  <2>10. OneStep(v, w, id)
    <3>1. ASSUME NEW j \in 1..Len(v.Columns)
          PROVE  /\ q[j] \in 1..Len(w.Columns) /\ q[j] = j
                 /\ KeepsOrder(v.Columns[j].Windows, w.Columns[q[j]].Windows, id)
      <4>1. CASE j = col
        BY <2>3, <2>4, <2>6, <2>8, <4>1
      <4>2. CASE j # col
        BY <2>8, <4>2, OrderKeptIn
      <4> QED BY <4>1, <4>2
    <3> HIDE DEF q, col
    <3>2. id \in ToSet(v.Columns[col].Windows) /\ id \in ToSet(w.Columns[col].Windows)
      BY <1>3, <2>3, <2>4, <2>6, <2>8
    <3>3. \A j \in 1..Len(v.Columns) :
            ToSet(v.Columns[j].Windows) \ {id} # {}
            => /\ q[j] \in 1..Len(w.Columns)
               /\ KeepsOrder(v.Columns[j].Windows, w.Columns[q[j]].Windows, id)
               /\ j > col + 1 => q[j] > col
               /\ j < col - 1 => q[j] < col
      BY <1>1, <3>1
    <3>4. col \in 1..Len(w.Columns)
      BY <1>1, <2>8
    <3> QED BY <1>1, <1>4, <3>2, <3>3, <3>4, StepTaken
  <2> QED BY <2>9, <2>10 DEF w, id, c
<1> QED BY <1>5, <1>6

\* Moved to the next column, a window leaves one that may vanish, and enters one
\* that may be new.
LEMMA MoveAcrossColumnsStep ==
  ASSUME NEW v, Sound(v), v.FocusLayer = "tiled", NEW delta \in {-1, 1},
         v.Columns[v.FocusCol].Sel \in DOMAIN v.Columns[v.FocusCol].Windows
  PROVE  LET w  == clampFocus(moveAcrossColumns(v, delta))
             id == selected(v.Columns[v.FocusCol])
         IN OneStep(v, w, id) /\ focusedWindow(w) = id
<1> DEFINE col  == v.FocusCol
           c    == v.Columns[col]
           id   == c.Windows[c.Sel]
           rest == [c EXCEPT !.Windows = RemoveAt(@, c.Sel)]
           gone == rest.Windows = <<>>
           cols == WithColumn(v.Columns, col, rest)
           to   == IF gone /\ delta > 0 THEN col ELSE col + delta
           m    == moveAcrossColumns(v, delta)
           w    == clampFocus(m)
           e    == NewColumn(<<id>>)
           by   == IF to \notin DOMAIN cols /\ delta < 0 THEN 1 ELSE 0
           p(j) == IF gone /\ j > col THEN j - 1 ELSE j
           q    == [j \in 1..Len(v.Columns) |-> p(j) + by]
<1>1. /\ v \in View /\ v.Columns \in Seq(Column) /\ Len(v.Columns) \in Nat /\ Apart(v.Columns)
      /\ DOMAIN v.Columns = 1..Len(v.Columns) /\ col \in 1..Len(v.Columns)
  BY ViewFields DEF Sound, Placed, InRange
<1>2. /\ c \in Column /\ c.Windows \in Seq(WindowID) /\ IsInjective(c.Windows)
      /\ c.Sel \in 1..Len(c.Windows)
  BY <1>1, SelectionOf
<1>3. /\ id \in ToSet(c.Windows) /\ id \in WindowID /\ selected(c) = id
  BY <1>2 DEF selected, ToSet
<1>4. /\ Sound(w) /\ m \in View
  <2>1. m \in View
    BY <1>1, MoveAcrossColumnsType
  <2> QED BY <2>1, MoveAcrossColumnsSound
<1>5. m = IF to \in DOMAIN cols
          THEN [v EXCEPT !.Columns = [cols EXCEPT ![to] = withSelected(@, id)], !.FocusCol = to]
          ELSE IF delta < 0
          THEN [v EXCEPT !.Columns = <<e>> \o cols, !.FocusCol = 1]
          ELSE [v EXCEPT !.Columns = Append(cols, e), !.FocusCol = Len(cols) + 1]
  BY DEF moveAcrossColumns
<1>6. v.Columns[col] = c
  OBVIOUS
<1>7. /\ rest \in Column /\ IsInjective(rest.Windows)
      /\ ToSet(rest.Windows) = ToSet(c.Windows) \ {id}
      /\ KeepsOrder(c.Windows, rest.Windows, id)
  <2>1. /\ RemoveAt(c.Windows, c.Sel) \in Seq(WindowID) /\ IsInjective(RemoveAt(c.Windows, c.Sel))
        /\ ToSet(RemoveAt(c.Windows, c.Sel)) = ToSet(c.Windows) \ {id}
    BY <1>2, RemoveAtSet
  <2>2. KeepsOrder(c.Windows, RemoveAt(c.Windows, c.Sel), id)
    BY <1>2, OrderWithout
  <2>3. rest \in Column /\ rest.Windows = RemoveAt(c.Windows, c.Sel)
    BY <1>2, <2>1 DEF Column
  <2> QED BY <2>1, <2>2, <2>3
<1> HIDE DEF w, m, id, c, rest, gone, col
<1>8. /\ cols \in Seq(Column)
      /\ Len(cols) = IF gone THEN Len(v.Columns) - 1 ELSE Len(v.Columns)
  <2>1. CASE gone
    <3>1. cols = RemoveAt(v.Columns, col)
      BY <2>1 DEF WithColumn, gone
    <3> QED BY <1>1, <2>1, <3>1, RemoveAtType
  <2>2. CASE ~gone
    <3>1. cols = [v.Columns EXCEPT ![col] = rest]
      BY <2>2 DEF WithColumn, gone
    <3> QED BY <1>1, <1>7, <2>2, <3>1, ExceptSeq
  <2> QED BY <2>1, <2>2
<1>9. ASSUME NEW j \in 1..Len(v.Columns), ToSet(v.Columns[j].Windows) \ {id} # {}
      PROVE  /\ p(j) \in 1..Len(cols)
             /\ KeepsOrder(v.Columns[j].Windows, cols[p(j)].Windows, id)
  <2>1. j # col \/ rest.Windows # <<>>
    <3>1. rest.Windows = <<>> => ToSet(c.Windows) \ {id} = {}
      BY <1>7, ToSetOf, ColumnFields
    <3> QED BY <1>6, <1>9, <3>1
  <2>2. p(j) \in 1..Len(cols) /\ cols[p(j)] = IF j = col THEN rest ELSE v.Columns[j]
    BY <1>1, <1>7, <2>1, ColumnsLeft DEF gone
  <2>3. CASE j = col
    BY <1>6, <1>7, <2>2, <2>3
  <2>4. CASE j # col
    BY <2>2, <2>4, OrderKeptIn
  <2> QED BY <2>3, <2>4
<1> HIDE DEF cols
<1>10. Len(cols) \in Nat /\ DOMAIN cols = 1..Len(cols)
  BY <1>8
<1>11. /\ e \in Column /\ e.Windows = <<id>> /\ e.Sel = 1 /\ selected(e) = id
  <2>1. e \in Column /\ e.Windows = <<id>> /\ e.Sel = 1
    BY <1>3, NewColumnSet DEF NewColumn
  <2> QED BY <2>1 DEF selected
\* The columns that were left are those of m: column k is column k + by now.
<1>12. /\ m.Columns \in Seq(Column) /\ m.FocusLayer = "tiled"
       /\ m.FocusCol \in 1..Len(m.Columns) /\ selected(m.Columns[m.FocusCol]) = id
       /\ m.FocusCol = IF to \in DOMAIN cols THEN to ELSE IF delta < 0 THEN 1 ELSE Len(cols) + 1
       /\ \A k \in 1..Len(cols) :
            /\ k + by \in 1..Len(m.Columns)
            /\ KeepsOrder(cols[k].Windows, m.Columns[k + by].Windows, id)
  <2>1. CASE to \in DOMAIN cols
    <3> DEFINE d == withSelected(cols[to], id)
               r == [cols EXCEPT ![to] = d]
    <3>1. to \in 1..Len(cols) /\ by = 0
      BY <1>10, <2>1
    <3>2. cols[to] \in Column /\ cols[to].Windows \in Seq(WindowID)
      BY <1>8, <3>1, ColumnsOfView
    <3>3. /\ d \in Column /\ d.Windows = Append(cols[to].Windows, id)
          /\ d.Sel = Len(cols[to].Windows) + 1
      BY <1>3, <3>2, WithSelectedType DEF withSelected, Column
    <3>4. selected(d) = id
      <4> DEFINE ids == cols[to].Windows
      <4>1. /\ Len(Append(ids, id)) = Len(ids) + 1 /\ Append(ids, id)[Len(ids) + 1] = id
            /\ Append(ids, id) \in Seq(WindowID) /\ Len(ids) \in Nat
        BY <1>3, <3>2, AppendSet
      <4> HIDE DEF ids
      <4>2. d.Windows = Append(ids, id) /\ d.Sel = Len(ids) + 1
        BY <3>3 DEF ids
      <4> HIDE DEF d
      <4>3. d.Sel \in DOMAIN d.Windows
        BY <4>1, <4>2
      <4> QED BY <4>1, <4>2, <4>3 DEF selected
    <3>5. KeepsOrder(cols[to].Windows, d.Windows, id)
      BY <1>3, <3>2, <3>3, OrderBefore
    <3>6. m.Columns = r /\ m.FocusCol = to /\ m.FocusLayer = "tiled"
      BY <1>1, <1>5, <2>1 DEF View
    <3> HIDE DEF d
    <3>7. /\ Len(r) = Len(cols) /\ r[to] = d
          /\ \A k \in 1..Len(cols) : k # to => r[k] = cols[k]
      BY <1>8, <1>10, <3>1
    <3>8. ASSUME NEW k \in 1..Len(cols)
          PROVE  k + by \in 1..Len(r) /\ KeepsOrder(cols[k].Windows, r[k + by].Windows, id)
      <4>1. k + by = k
        BY <3>1
      <4>2. KeepsOrder(cols[k].Windows, r[k].Windows, id)
        BY <3>5, <3>7, OrderKeptIn
      <4> QED BY <3>7, <4>1, <4>2
    <3> HIDE DEF r, by, to
    <3>9. m.Columns \in Seq(Column)
      BY <1>4, ViewFields
    <3> QED BY <2>1, <3>1, <3>4, <3>6, <3>7, <3>8, <3>9
  <2>2. CASE to \notin DOMAIN cols /\ delta < 0
    <3> DEFINE r == <<e>> \o cols
    <3>1. m.Columns = r /\ m.FocusCol = 1 /\ m.FocusLayer = "tiled" /\ by = 1
      BY <1>1, <1>5, <2>2 DEF View
    <3> HIDE DEF e, by
    <3>2. Len(r) = Len(cols) + 1 /\ r[1] = e /\ \A k \in 1..Len(cols) : r[k + 1] = cols[k]
      <4>1. <<e>> \in Seq(Column) /\ Len(<<e>>) = 1 /\ <<e>>[1] = e
        BY <1>11
      <4>2. /\ Len(r) = 1 + Len(cols)
            /\ \A i \in 1..1 + Len(cols) : r[i] = IF i <= 1 THEN <<e>>[i] ELSE cols[i - 1]
        BY <1>8, <4>1, ConcatProperties
      <4> HIDE DEF r
      <4>3. ASSUME NEW k \in 1..Len(cols) PROVE r[k + 1] = cols[k]
        <5>1. k + 1 \in 1..1 + Len(cols) /\ ~(k + 1 <= 1) /\ (k + 1) - 1 = k
          BY <1>10
        <5> QED BY <4>2, <5>1
      <4>4. r[1] = e
        BY <1>10, <4>1, <4>2
      <4> QED BY <1>10, <4>2, <4>3, <4>4
    <3> HIDE DEF r, to
    <3>3. \A k \in 1..Len(cols) :
            k + by \in 1..Len(r) /\ KeepsOrder(cols[k].Windows, r[k + by].Windows, id)
      BY <1>10, <3>1, <3>2, OrderKeptIn
    <3>4. m.Columns \in Seq(Column)
      BY <1>4, ViewFields
    <3>5. 1 \in 1..Len(r)
      BY <1>10, <3>2
    <3> QED BY <1>11, <2>2, <3>1, <3>2, <3>3, <3>4, <3>5
  <2>3. CASE to \notin DOMAIN cols /\ ~(delta < 0)
    <3> DEFINE r == Append(cols, e)
    <3>1. m.Columns = r /\ m.FocusCol = Len(cols) + 1 /\ m.FocusLayer = "tiled" /\ by = 0
      BY <1>1, <1>5, <2>3 DEF View
    <3> HIDE DEF e, by
    <3>2. /\ Len(r) = Len(cols) + 1 /\ r[Len(cols) + 1] = e
          /\ \A k \in 1..Len(cols) : r[k] = cols[k]
      BY <1>8, <1>11, AppendProperties
    <3> HIDE DEF r, to
    <3>3. \A k \in 1..Len(cols) :
            k + by \in 1..Len(r) /\ KeepsOrder(cols[k].Windows, r[k + by].Windows, id)
      <4>1. ASSUME NEW k \in 1..Len(cols)
            PROVE  k + by = k /\ k \in 1..Len(r) /\ r[k] = cols[k]
        BY <1>10, <3>1, <3>2
      <4> QED BY <4>1, OrderKeptIn
    <3>4. m.Columns \in Seq(Column)
      BY <1>4, ViewFields
    <3>5. Len(cols) + 1 \in 1..Len(r)
      BY <1>10, <3>2
    <3> QED BY <1>11, <2>3, <3>1, <3>2, <3>3, <3>4, <3>5
  <2> QED BY <2>1, <2>2, <2>3
<1>13. id # NoWindow
  BY <1>3, ViewAssumption
<1>14. focusedWindow(w) = id
  BY <1>4, <1>12, <1>13, ClampKeepsFocus DEF w
<1>15. /\ Len(w.Columns) = Len(m.Columns)
       /\ \A j \in 1..Len(m.Columns) : w.Columns[j].Windows = m.Columns[j].Windows
  <2>1. m.Columns # <<>>
    BY <1>12
  <2> QED BY <1>4, <2>1, ClampKeepsColumns DEF w
<1>16. id \in ToSet(w.Columns[m.FocusCol].Windows)
  <2>1. m.Columns[m.FocusCol] \in Column
    BY <1>12, ColumnsOfView
  <2>2. id \in ToSet(m.Columns[m.FocusCol].Windows)
    BY <1>12, <1>13, <2>1, SelectedRow
  <2> QED BY <1>12, <1>15, <2>2
<1>17. ASSUME NEW j \in 1..Len(v.Columns), ToSet(v.Columns[j].Windows) \ {id} # {}
       PROVE  /\ q[j] \in 1..Len(w.Columns)
              /\ KeepsOrder(v.Columns[j].Windows, w.Columns[q[j]].Windows, id)
              /\ j > col + 1 => q[j] > m.FocusCol
              /\ j < col - 1 => q[j] < m.FocusCol
  <2>1. q[j] = p(j) + by
    OBVIOUS
  <2>2. p(j) \in 1..Len(cols) /\ KeepsOrder(v.Columns[j].Windows, cols[p(j)].Windows, id)
    BY <1>9, <1>17
  <2>3. p(j) + by \in 1..Len(m.Columns) /\ KeepsOrder(cols[p(j)].Windows, m.Columns[p(j) + by].Windows, id)
    BY <1>12, <2>2
  <2>4. KeepsOrder(v.Columns[j].Windows, w.Columns[q[j]].Windows, id)
    <3> DEFINE k    == p(j)
               from == v.Columns[j].Windows
               via  == cols[k].Windows
               into == m.Columns[k + by].Windows
    <3>1. KeepsOrder(from, via, id) /\ KeepsOrder(via, into, id)
      BY <2>2, <2>3
    <3>2. w.Columns[q[j]].Windows = into
      BY <1>15, <2>1, <2>3
    <3> HIDE DEF from, via, into
    <3>3. KeepsOrder(from, into, id)
      BY <3>1, OrderKeptIn
    <3> QED BY <3>2, <3>3 DEF from
  <2>5. q[j] \in 1..Len(w.Columns)
    BY <1>15, <2>1, <2>3
  <2>6. /\ j > col + 1 => q[j] > m.FocusCol
        /\ j < col - 1 => q[j] < m.FocusCol
    <3>1. col \in Nat /\ j \in Nat /\ col >= 1 /\ col <= Len(v.Columns) /\ j <= Len(v.Columns)
      BY <1>1
    <3> HIDE DEF q
    <3> QED BY <1>1, <1>8, <1>10, <1>12, <2>1, <3>1
  <2> QED BY <2>4, <2>5, <2>6
<1> HIDE DEF q
<1>18. OneStep(v, w, id)
  <2> DEFINE c1 == m.FocusCol
  <2>1. c1 \in 1..Len(w.Columns)
    BY <1>12, <1>15
  <2>2. id \in ToSet(v.Columns[col].Windows)
    BY <1>3, <1>6
  <2> QED BY <1>1, <1>4, <1>16, <1>17, <2>1, <2>2, StepTaken
<1>19. id = selected(v.Columns[v.FocusCol])
  BY <1>3 DEF c, col
<1> QED BY <1>14, <1>18, <1>19 DEF w, m

LEMMA MoveDirStep ==
  ASSUME NEW s, Settled(s), Distinct(s), NEW d \in {"left", "right", "up", "down"},
         hasActiveView(s), FocusedInColumn(s, activeView(s))
  PROVE  /\ MoveDir(s, d).Focused = s.Focused
         /\ OneStep(activeView(s), activeView(MoveDir(s, d)), s.Focused)
<1> DEFINE v == activeView(s)
           moved == CASE d = "up"    -> moveWithinColumn(v, -1)
                      [] d = "down"  -> moveWithinColumn(v, 1)
                      [] d = "left"  -> moveAcrossColumns(v, -1)
                      [] d = "right" -> moveAcrossColumns(v, 1)
           w == clampFocus(moved)
<1>1. Sound(v)
  BY ActiveViewParts
<1>2. /\ v.Columns[v.FocusCol].Sel \in DOMAIN v.Columns[v.FocusCol].Windows
      /\ v.FocusLayer = "tiled" /\ selected(v.Columns[v.FocusCol]) = s.Focused
  BY DEF FocusedInColumn, selected
<1>3. MoveDir(s, d) = refocus(OnActiveView(s, w))
  BY DEF MoveDir
<1> HIDE DEF v
<1>4. ASSUME NEW delta \in {-1, 1}, NEW u,
             u = moveWithinColumn(v, delta) \/ u = moveAcrossColumns(v, delta)
      PROVE  /\ Sound(clampFocus(u)) /\ WindowsOf(clampFocus(u)) = WindowsOf(v)
             /\ OneStep(v, clampFocus(u), s.Focused)
             /\ focusedWindow(clampFocus(u)) = s.Focused
  <2>1. CASE u = moveWithinColumn(v, delta)
    <3>1. Sound(u) /\ WindowsOf(u) = WindowsOf(v)
      BY <1>1, <1>2, <2>1, MoveWithinColumnSound
    <3>2. clampFocus(u) = u
      BY <3>1, ClampFocusIdle
    <3>3. OneStep(v, u, s.Focused) /\ focusedWindow(u) = s.Focused
      BY <1>1, <1>2, <2>1, MoveWithinColumnStep
    <3> QED BY <3>1, <3>2, <3>3
  <2>2. CASE u = moveAcrossColumns(v, delta)
    <3>1. Sound(clampFocus(u)) /\ WindowsOf(clampFocus(u)) = WindowsOf(v)
      BY <1>1, <1>2, <2>2, MoveAcrossColumnsSound
    <3>2. OneStep(v, clampFocus(u), s.Focused) /\ focusedWindow(clampFocus(u)) = s.Focused
      BY <1>1, <1>2, <2>2, MoveAcrossColumnsStep
    <3> QED BY <3>1, <3>2
  <2> QED BY <1>4, <2>1, <2>2
<1>5. \E delta \in {-1, 1} : moved = moveWithinColumn(v, delta) \/ moved = moveAcrossColumns(v, delta)
  <2>1. CASE d = "up"
    BY <2>1
  <2>2. CASE d = "down"
    BY <2>2
  <2>3. CASE d = "left"
    BY <2>3
  <2>4. CASE d = "right"
    BY <2>4
  <2> QED BY <2>1, <2>2, <2>3, <2>4
<1> HIDE DEF moved
<1>6. /\ Sound(w) /\ WindowsOf(w) = WindowsOf(v)
      /\ OneStep(v, w, s.Focused) /\ focusedWindow(w) = s.Focused
  BY <1>4, <1>5
<1> HIDE DEF w
<1>7. WindowsOf(w) = WindowsOf(activeView(s))
  BY <1>6 DEF v
<1>8. MoveDir(s, d).Focused = focusedWindow(w) /\ activeView(MoveDir(s, d)) = w
  BY <1>3, <1>6, <1>7, ActiveViewWorkSettles
<1> QED BY <1>6, <1>8 DEF v

\* Whatever it moves, a move command takes it at most past one column, keeps the
\* others in their order and the focus on what it has moved.
THEOREM MovesAlwaysGoOneStep == Spec => MovingGoesOneStep
<1> DEFINE Moving ==
      CmdMove /\ wm.Focused # NoWindow =>
       LET v == activeView(wm)
           w == activeView(wm')
           id == wm.Focused
           above(u, a, b) == /\ ColumnOf(u, a) = ColumnOf(u, b)
                             /\ LET ids == u.Columns[ColumnOf(u, a)].Windows
                                IN IndexOf(ids, a) < IndexOf(ids, b)
       IN /\ wm'.Focused = id
          /\ \A a, b \in Tiled(v) \ {id} : above(v, a, b) => above(w, a, b)
          /\ id \in Tiled(v) =>
               \A a \in Tiled(v) \ {id} :
                 /\ ColumnOf(v, a) > ColumnOf(v, id) + 1 => ColumnOf(w, a) > ColumnOf(w, id)
                 /\ ColumnOf(v, a) < ColumnOf(v, id) - 1 => ColumnOf(w, a) < ColumnOf(w, id)
<1>1. ASSUME WmInv, wm' # wm, CmdMove PROVE Moving
  <2>1. PICK d \in {"left", "right", "up", "down"} : wm' = MoveDir(wm, d)
    BY <1>1 DEF CmdMove, Direction
  <2>2. hasActiveView(wm) /\ FocusedInColumn(wm, activeView(wm))
    BY <1>1, <2>1 DEF MoveDir
  <2>3. Settled(wm) /\ Distinct(wm)
    BY <1>1 DEF WmInv
  <2>4. wm'.Focused = wm.Focused /\ OneStep(activeView(wm), activeView(wm'), wm.Focused)
    BY <2>1, <2>2, <2>3, MoveDirStep
  <2> QED BY <2>4 DEF OneStep, Above
<1>2. WmInv /\ [Next]_wm => [Moving]_wm
  BY <1>1
<1> QED BY <1>2, WmInvHolds, PTL DEF Spec, MovingGoesOneStep
=============================================================================
