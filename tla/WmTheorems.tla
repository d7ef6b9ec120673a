----------------------------- MODULE WmTheorems -----------------------------
(***************************************************************************)
(* Proofs about what others see of Wm: it implements WmTags for any        *)
(* windows, tags, outputs and bounds, the layout of its states on any      *)
(* screens has every window where it belongs and fills the area, and       *)
(* cycling on gets to every view.                                          *)
(***************************************************************************)
EXTENDS WmRefinement, WmPlacement, WmProofs, SelectionLemmas

-----------------------------------------------------------------------------
(* Wm implements WmTags.                                                   *)

\* What the refinement mapping takes from a state.
Names(outs) == {outs[i].Name : i \in DOMAIN outs}

Numbered(outs, o) == CHOOSE i \in DOMAIN outs : outs[i].Name = o

Shown(outs) == [o \in Names(outs) |-> outs[Numbered(outs, o)].View]

Active(s) == IF s.Outputs = <<>> THEN {} ELSE {s.Outputs[s.FocusOutput].Name}

Holding(s) == [n \in ViewName |-> WindowsOf(s.Views[n])]

\* What outputs show after one is added, taken out, given another name, or
\* given the view n.
ShownWith(outs, o, n) == [p \in Names(outs) \cup {o} |-> IF p = o THEN n ELSE Shown(outs)[p]]

ShownWithout(outs, o) == [p \in Names(outs) \ {o} |-> Shown(outs)[p]]

ShownAs(outs, o, new) == [p \in {IF p = o THEN new ELSE p : p \in Names(outs)} |->
                            IF p = new THEN Shown(outs)[o] ELSE Shown(outs)[p]]

ShownSwapped(outs, o, n) ==
  [p \in Names(outs) |-> IF p = o THEN n
                         ELSE IF Shown(outs)[p] = n THEN Shown(outs)[o] ELSE Shown(outs)[p]]

\* No two outputs have one name.
Named(outs) == \A i, j \in DOMAIN outs : outs[i].Name = outs[j].Name => i = j

-----------------------------------------------------------------------------
(* The promise in these terms.                                             *)

LEMMA MappingIs ==
  /\ OutputNames = Names(wm.Outputs)
  /\ [o \in OutputNames |-> wm.Outputs[outputNamed(o)].View] = Shown(wm.Outputs)
BY DEF OutputNames, Names, outputNamed, Shown, Numbered

LEMMA RefocusIsPromised ==
  ASSUME wm'.Tags = wm.Tags, Shown(wm'.Outputs) = Shown(wm.Outputs), Active(wm') = Active(wm)
  PROVE  Promise!Refocus
BY DEF Promise!Refocus, Names, OutputNames, Shown, Numbered, Active, outputNamed

LEMMA PlugIsPromised ==
  ASSUME NEW o, o \notin Names(wm.Outputs), NEW n \in ViewName, \A p \in Names(wm.Outputs) : Shown(wm.Outputs)[p] # n,
         Shown(wm'.Outputs) = ShownWith(wm.Outputs, o, n),
         Active(wm') = IF Active(wm) = {} THEN {o} ELSE Active(wm),
         wm'.Tags = wm.Tags
  PROVE  Promise!Plug(o)
BY DEF ShownWith, Promise!Plug, Promise!Hidden, Names, OutputNames, Shown, Numbered, Active, outputNamed

LEMMA UnplugIsPromised ==
  ASSUME NEW o \in Names(wm.Outputs),
         Shown(wm'.Outputs) = ShownWithout(wm.Outputs, o),
         IF Names(wm.Outputs) \ {o} = {} THEN Active(wm') = {}
         ELSE \E p \in Names(wm.Outputs) \ {o} : Active(wm') = {p},
         wm'.Tags = wm.Tags
  PROVE  Promise!Unplug(o)
<1>1. DOMAIN Shown(wm'.Outputs) = Names(wm.Outputs) \ {o}
  BY DEF ShownWithout
<1> QED BY <1>1 DEF ShownWithout, Promise!Unplug, Names, OutputNames, Shown, Numbered, Active, outputNamed

LEMMA RenameIsPromised ==
  ASSUME NEW o \in Names(wm.Outputs), NEW p \in OutputName \ Names(wm.Outputs),
         Shown(wm'.Outputs) = ShownAs(wm.Outputs, o, p),
         Active(wm') = {IF q = o THEN p ELSE q : q \in Active(wm)},
         wm'.Tags = wm.Tags, wm'.Focused = wm.Focused
  PROVE  Promise!Rename(o, p)
BY DEF ShownAs, Promise!Rename, Names, OutputNames, Shown, Numbered, Active, outputNamed

LEMMA ActivateIsPromised ==
  ASSUME NEW o \in Names(wm.Outputs), Active(wm') = {o}, Shown(wm'.Outputs) = Shown(wm.Outputs), wm'.Tags = wm.Tags
  PROVE  Promise!Activate(o)
BY DEF Promise!Activate, Names, OutputNames, Shown, Numbered, Active, outputNamed

LEMMA OpenIsPromised ==
  ASSUME NEW id, wm.Tags[id] = {}, NEW T, T # {}, wm'.Tags = [wm.Tags EXCEPT ![id] = T],
         wm'.Focused = IF \E o \in Active(wm) : Shown(wm.Outputs)[o] \in T THEN id ELSE wm.Focused,
         Shown(wm'.Outputs) = Shown(wm.Outputs), Active(wm') = Active(wm)
  PROVE  Promise!Open(id, T)
BY DEF Promise!Open, Names, OutputNames, Shown, Numbered, Active, outputNamed

LEMMA CloseIsPromised ==
  ASSUME NEW id, wm.Tags[id] # {}, wm'.Tags = [wm.Tags EXCEPT ![id] = {}],
         Shown(wm'.Outputs) = Shown(wm.Outputs), Active(wm') = Active(wm)
  PROVE  Promise!Close(id)
BY DEF Promise!Close, Names, OutputNames, Shown, Numbered, Active, outputNamed

LEMMA ReplaceIsPromised ==
  ASSUME NEW old, NEW nu, wm.Tags[old] # {}, wm.Tags[nu] = {},
         wm'.Tags = [wm.Tags EXCEPT ![nu] = wm.Tags[old], ![old] = {}],
         wm'.Focused = Renamed(wm.Focused, old, nu),
         Shown(wm'.Outputs) = Shown(wm.Outputs), Active(wm') = Active(wm)
  PROVE  Promise!Replace(old, nu)
BY DEF Promise!Replace, Renamed, Names, OutputNames, Shown, Numbered, Active, outputNamed

LEMMA RetagIsPromised ==
  ASSUME wm.Focused # NoWindow, NEW T, T # {}, wm'.Tags = [wm.Tags EXCEPT ![wm.Focused] = T],
         Shown(wm'.Outputs) = Shown(wm.Outputs), Active(wm') = Active(wm)
  PROVE  Promise!Retag(T)
BY DEF Promise!Retag, Names, OutputNames, Shown, Numbered, Active, outputNamed

LEMMA SelectIsPromised ==
  ASSUME NEW n, NEW a \in Active(wm),
         Shown(wm'.Outputs) = ShownSwapped(wm.Outputs, a, n),
         Active(wm') = Active(wm), wm'.Tags = wm.Tags
  PROVE  Promise!Select(n)
<1>1. DOMAIN Shown(wm.Outputs) = Names(wm.Outputs)
  BY DEF Shown
<1> QED BY <1>1 DEF ShownSwapped, Promise!Select, Names, OutputNames, Shown, Numbered, Active, outputNamed

LEMMA ConsistentIsPromised ==
  ASSUME Holding(wm') = [n \in ViewName |-> Carrying(wm'.Tags, n)],
         \/ wm'.Focused = NoWindow
         \/ \E o \in Active(wm') : wm'.Focused \in Holding(wm')[Shown(wm'.Outputs)[o]]
  PROVE  Promise!Consistent
<1>1. ([n \in ViewName |-> WindowsOf(wm.Views[n])])'
         = [n \in ViewName |-> Promise!Carrying(wm'.Tags, n)]
  BY DEF Promise!Carrying, Holding, Carrying
<1>2. (UNION {[n \in ViewName |-> WindowsOf(wm.Views[n])]
                [[o \in OutputNames |-> wm.Outputs[outputNamed(o)].View][p]] :
               p \in IF wm.Outputs = <<>> THEN {} ELSE {wm.Outputs[wm.FocusOutput].Name}})'
        = UNION {Holding(wm')[Shown(wm'.Outputs)[o]] : o \in Active(wm')}
  BY DEF Holding, Names, OutputNames, Shown, Numbered, Active, outputNamed
<1>3. wm'.Focused \in (UNION {Holding(wm')[Shown(wm'.Outputs)[o]] : o \in Active(wm')}) \cup {NoWindow}
  OBVIOUS
<1> QED BY <1>1, <1>2, <1>3 DEF Promise!Consistent, Promise!ActiveWindows

-----------------------------------------------------------------------------
(* Outputs and what they show.                                             *)

LEMMA ShownOf ==
  ASSUME NEW outs, Named(outs), NEW i \in DOMAIN outs
  PROVE  outs[i].Name \in Names(outs) /\ Shown(outs)[outs[i].Name] = outs[i].View
<1>1. Numbered(outs, outs[i].Name) = i
  BY DEF Named, Numbered
<1> QED BY <1>1 DEF Names, Shown

LEMMA ShownIs ==
  ASSUME NEW outs, Named(outs), NEW f, f = [o \in Names(outs) |-> f[o]],
         \A i \in DOMAIN outs : f[outs[i].Name] = outs[i].View
  PROVE  Shown(outs) = f
<1>1. ASSUME NEW o \in Names(outs) PROVE Shown(outs)[o] = f[o]
  BY ShownOf DEF Names
<1> QED BY <1>1 DEF Shown

\* An output is added with a view of its own.
LEMMA AppendedShows ==
  ASSUME NEW T, NEW outs \in Seq(T), Named(outs), NEW out \in T, out.Name \notin Names(outs)
  PROVE  /\ Named(Append(outs, out))
         /\ Names(Append(outs, out)) = Names(outs) \cup {out.Name}
         /\ Shown(Append(outs, out)) = ShownWith(outs, out.Name, out.View)
<1> DEFINE n == Len(outs)
           q == Append(outs, out)
           o == out.Name
           f == [p \in Names(outs) \cup {o} |-> IF p = o THEN out.View ELSE Shown(outs)[p]]
<1>1. /\ n \in Nat /\ DOMAIN outs = 1..n /\ DOMAIN q = 1..n + 1
      /\ q[n + 1] = out /\ \A i \in 1..n : q[i] = outs[i]
  BY AppendProperties
<1> HIDE DEF n, q
<1>2. \A i \in 1..n + 1 : i = n + 1 \/ i \in 1..n
  BY <1>1
<1>3. \A i \in 1..n : outs[i].Name # o
  BY <1>1 DEF Names
<1>4. Named(q)
  BY <1>1, <1>2, <1>3 DEF Named
<1>5. Names(q) = Names(outs) \cup {o}
  <2>1. ASSUME NEW p \in Names(q) PROVE p \in Names(outs) \cup {o}
    BY <1>1, <1>2, <2>1 DEF Names
  <2>2. n + 1 \in 1..n + 1 /\ \A i \in 1..n : i \in 1..n + 1
    BY <1>1
  <2>3. ASSUME NEW p \in Names(outs) PROVE p \in Names(q)
    BY <1>1, <2>2, <2>3 DEF Names
  <2>4. o \in Names(q)
    BY <1>1, <2>2 DEF Names
  <2> QED BY <2>1, <2>3, <2>4
<1>6. \A i \in DOMAIN q : f[q[i].Name] = q[i].View
  <2> SUFFICES ASSUME NEW i \in 1..n + 1 PROVE f[q[i].Name] = q[i].View
    BY <1>1
  <2>1. CASE i = n + 1
    BY <1>1, <2>1
  <2>2. CASE i \in 1..n
    <3>1. q[i].Name \in Names(outs) /\ Shown(outs)[q[i].Name] = q[i].View /\ q[i].Name # o
      BY <1>1, <1>3, <2>2, ShownOf
    <3> QED BY <3>1
  <2> QED BY <1>2, <2>1, <2>2
<1>7. f = [p \in Names(q) |-> f[p]]
  BY <1>5
<1> HIDE DEF f
<1>8. Shown(q) = f
  BY <1>4, <1>6, <1>7, ShownIs
<1> QED BY <1>4, <1>5, <1>8 DEF q, f, ShownWith

\* An output is taken out.
LEMMA RemovedShows ==
  ASSUME NEW T, NEW outs \in Seq(T), Named(outs), NEW r \in 1..Len(outs), NEW o, o = outs[r].Name
  PROVE  /\ Named(RemoveAt(outs, r))
         /\ Names(RemoveAt(outs, r)) = Names(outs) \ {o}
         /\ Shown(RemoveAt(outs, r)) = ShownWithout(outs, o)
<1> DEFINE n == Len(outs)
           q == RemoveAt(outs, r)
           at(i) == IF i < r THEN i ELSE i + 1
           f == [p \in Names(outs) \ {o} |-> Shown(outs)[p]]
<1>1. /\ n \in Nat /\ DOMAIN outs = 1..n /\ DOMAIN q = 1..n - 1
      /\ \A i \in 1..n - 1 : q[i] = IF i < r THEN outs[i] ELSE outs[i + 1]
  <2>1. /\ q \in Seq(T) /\ Len(q) = n - 1
        /\ \A i \in 1..n - 1 : q[i] = IF i < r THEN outs[i] ELSE outs[i + 1]
    BY RemoveAtType
  <2> HIDE DEF q
  <2>2. DOMAIN outs = 1..n /\ n \in Nat /\ DOMAIN q = 1..n - 1
    BY <2>1
  <2> QED BY <2>1, <2>2
<1>2. r \in 1..n
  OBVIOUS
<1> HIDE DEF n, q
<1>3. /\ \A i \in 1..n - 1 : at(i) \in 1..n /\ at(i) # r /\ q[i] = outs[at(i)]
      /\ \A i, j \in 1..n - 1 : at(i) = at(j) => i = j
      /\ \A j \in 1..n : j # r => \E i \in 1..n - 1 : j = at(i)
  <2>1. \A i \in 1..n - 1 : at(i) \in 1..n /\ at(i) # r /\ q[i] = outs[at(i)]
    BY <1>1, <1>2
  <2>2. \A i, j \in 1..n - 1 : at(i) = at(j) => i = j
    BY <1>1, <1>2
  <2>3. ASSUME NEW j \in 1..n, j # r PROVE \E i \in 1..n - 1 : j = at(i)
    <3>1. CASE j < r
      <4>1. j \in 1..n - 1 /\ j = at(j)
        BY <1>1, <1>2, <3>1
      <4> QED BY <4>1
    <3>2. CASE j > r
      <4>1. j - 1 \in 1..n - 1 /\ j = at(j - 1)
        BY <1>1, <1>2, <3>2
      <4> QED BY <4>1
    <3>3. j < r \/ j > r
      <4>1. j \in Int /\ r \in Int
        BY <1>1, <1>2
      <4> QED BY <2>3, <4>1
    <3> QED BY <3>1, <3>2, <3>3
  <2> QED BY <2>1, <2>2, <2>3
<1> HIDE DEF at
<1>4. Named(q)
  BY <1>1, <1>3 DEF Named
<1>5. \A i \in 1..n : i # r => outs[i].Name # o
  BY <1>1, <1>2 DEF Named
<1>6. Names(q) = Names(outs) \ {o}
  <2>1. ASSUME NEW p \in Names(q) PROVE p \in Names(outs) \ {o}
    BY <1>1, <1>3, <1>5, <2>1 DEF Names
  <2>2. ASSUME NEW p \in Names(outs) \ {o} PROVE p \in Names(q)
    <3>1. PICK j \in 1..n : p = outs[j].Name /\ j # r
      BY <1>1, <1>2, <2>2 DEF Names
    <3>2. PICK i \in 1..n - 1 : j = at(i)
      BY <1>3, <3>1
    <3> QED BY <1>1, <1>3, <3>1, <3>2 DEF Names
  <2> QED BY <2>1, <2>2
<1>7. \A i \in DOMAIN q : f[q[i].Name] = q[i].View
  <2> SUFFICES ASSUME NEW i \in 1..n - 1 PROVE f[q[i].Name] = q[i].View
    BY <1>1
  <2>1. at(i) \in DOMAIN outs /\ q[i] = outs[at(i)] /\ q[i].Name # o
    BY <1>1, <1>3, <1>5
  <2>2. q[i].Name \in Names(outs) /\ Shown(outs)[q[i].Name] = q[i].View
    BY <2>1, ShownOf
  <2> QED BY <2>1, <2>2
<1>8. f = [p \in Names(q) |-> f[p]]
  BY <1>6
<1> HIDE DEF f
<1>9. Shown(q) = f
  BY <1>4, <1>7, <1>8, ShownIs
<1> QED BY <1>4, <1>6, <1>9 DEF q, f, ShownWithout

\* q is outs with the name new for output r.
Renames(outs, q, r, new) ==
  /\ DOMAIN q = DOMAIN outs
  /\ \A i \in DOMAIN outs : /\ q[i].View = outs[i].View
                             /\ q[i].Name = IF i = r THEN new ELSE outs[i].Name

\* An output is given another name.
LEMMA RenamedShows ==
  ASSUME NEW outs, Named(outs), NEW r \in DOMAIN outs, NEW q, NEW o, NEW new, o = outs[r].Name,
         new \notin Names(outs), Renames(outs, q, r, new)
  PROVE  /\ Named(q)
         /\ Shown(q) = ShownAs(outs, o, new)
<1> DEFINE S == {IF p = o THEN new ELSE p : p \in Names(outs)}
           f == [p \in S |-> IF p = new THEN Shown(outs)[o] ELSE Shown(outs)[p]]
<1>0. /\ DOMAIN q = DOMAIN outs
      /\ \A i \in DOMAIN outs : q[i].View = outs[i].View
      /\ \A i \in DOMAIN outs : q[i].Name = IF i = r THEN new ELSE outs[i].Name
  BY DEF Renames
<1>1. \A i \in DOMAIN outs : outs[i].Name # new /\ (i # r => outs[i].Name # o)
  BY DEF Names, Named
<1>2. Named(q)
  BY <1>0, <1>1 DEF Named
<1>3. Names(q) = S
  <2>1. ASSUME NEW p \in Names(q) PROVE p \in S
    <3>1. PICK i \in DOMAIN outs : p = q[i].Name
      BY <1>0, <2>1 DEF Names
    <3>2. outs[i].Name \in Names(outs) /\ p = IF outs[i].Name = o THEN new ELSE outs[i].Name
      BY <1>0, <1>1, <3>1 DEF Names
    <3> QED BY <3>2
  <2>2. ASSUME NEW p \in Names(outs) PROVE (IF p = o THEN new ELSE p) \in Names(q)
    <3>1. PICK i \in DOMAIN outs : p = outs[i].Name
      BY <2>2 DEF Names
    <3>2. (IF p = o THEN new ELSE p) = q[i].Name
      BY <1>0, <1>1, <3>1
    <3> QED BY <1>0, <3>2 DEF Names
  <2> QED BY <2>1, <2>2
<1>4. \A i \in DOMAIN q : f[q[i].Name] = q[i].View
  <2> SUFFICES ASSUME NEW i \in DOMAIN outs PROVE f[q[i].Name] = q[i].View
    BY <1>0
  <2>1. q[i].Name \in S
    BY <1>0, <1>3 DEF Names
  <2>2. Shown(outs)[outs[i].Name] = outs[i].View
    BY ShownOf
  <2>3. CASE i = r
    BY <1>0, <2>1, <2>2, <2>3
  <2>4. CASE i # r
    BY <1>0, <1>1, <2>1, <2>2, <2>4
  <2> QED BY <2>3, <2>4
<1>5. f = [p \in Names(q) |-> f[p]]
  BY <1>3
<1> HIDE DEF f
<1>6. Shown(q) = f
  BY <1>2, <1>4, <1>5, ShownIs
<1> QED BY <1>2, <1>6 DEF f, ShownAs

\* q is outs with view n on output a, and a's view where n was.
Swaps(outs, q, a, n) ==
  /\ DOMAIN q = DOMAIN outs
  /\ \A i \in DOMAIN outs :
       /\ q[i].Name = outs[i].Name
       /\ q[i].View = IF i = a THEN n
                      ELSE IF outs[i].View = n THEN outs[a].View ELSE outs[i].View

\* Two outputs swap their views, or one is given another.
LEMMA SwappedShows ==
  ASSUME NEW outs, Named(outs), NEW a \in DOMAIN outs, NEW n, NEW q, Swaps(outs, q, a, n)
  PROVE  /\ Named(q)
         /\ Shown(q) = ShownSwapped(outs, outs[a].Name, n)
<1> DEFINE m == outs[a].Name
           f == [o \in Names(outs) |-> IF o = m THEN n
                                       ELSE IF Shown(outs)[o] = n THEN Shown(outs)[m]
                                       ELSE Shown(outs)[o]]
<1>0. DOMAIN q = DOMAIN outs /\ \A i \in DOMAIN outs : q[i].Name = outs[i].Name
  BY DEF Swaps
<1>1. Named(q)
  BY <1>0 DEF Named
<1>2. Names(q) = Names(outs)
  BY <1>0 DEF Names
<1>3. \A i \in DOMAIN q : f[q[i].Name] = q[i].View
  <2> SUFFICES ASSUME NEW i \in DOMAIN outs PROVE f[q[i].Name] = q[i].View
    BY <1>0
  <2>1. q[i].Name \in Names(outs) /\ q[i].Name = outs[i].Name
    BY <1>0 DEF Names
  <2>2. Shown(outs)[outs[i].Name] = outs[i].View /\ Shown(outs)[m] = outs[a].View
    BY ShownOf
  <2>3. outs[i].Name = m <=> i = a
    BY DEF Named
  <2>4. q[i].View = IF i = a THEN n ELSE IF outs[i].View = n THEN outs[a].View ELSE outs[i].View
    BY DEF Swaps
  <2> QED BY <2>1, <2>2, <2>3, <2>4
<1>4. f = [o \in Names(q) |-> f[o]]
  BY <1>2
<1> HIDE DEF f
<1>5. Shown(q) = f
  BY <1>1, <1>3, <1>4, ShownIs
<1> QED BY <1>1, <1>5 DEF f, ShownSwapped
-----------------------------------------------------------------------------
(* The promise kept by states between two operations.                      *)

\* The active output of a settled state and its view.
LEMMA ActiveParts ==
  ASSUME NEW s, Settled(s), Named(s.Outputs), s.Outputs # <<>>
  PROVE  LET a == activeOutput(s)
             o == s.Outputs[a].Name
         IN /\ a \in DOMAIN s.Outputs /\ a = s.FocusOutput /\ Active(s) = {o}
            /\ o \in Names(s.Outputs) /\ o \in OutputName
            /\ Shown(s.Outputs)[o] = activeName(s) /\ activeName(s) \in ViewName
<1> DEFINE a == activeOutput(s)
<1>1. s \in State
  BY TidyParts DEF Settled
<1>2. a \in DOMAIN s.Outputs /\ s.Outputs[a] \in Output /\ activeName(s) \in ViewName
  BY <1>1, ActiveOutputType, OutputsTyped
<1>3. s.FocusOutput = a
  BY DEF Settled
<1>4. Active(s) = {s.Outputs[a].Name}
  BY <1>3 DEF Active
<1>5. s.Outputs[a].Name \in OutputName
  BY <1>2 DEF Output
<1>6. activeName(s) = s.Outputs[a].View
  BY DEF activeName
<1> HIDE DEF a
<1>7. s.Outputs[a].Name \in Names(s.Outputs) /\ Shown(s.Outputs)[s.Outputs[a].Name] = s.Outputs[a].View
  BY <1>2, ShownOf
<1> QED BY <1>2, <1>3, <1>4, <1>5, <1>6, <1>7 DEF a

\* What the views hold and where the focus is.
LEMMA SettledConsistent ==
  ASSUME NEW s, Settled(s), Named(s.Outputs)
  PROVE  /\ Holding(s) = [n \in ViewName |-> Carrying(s.Tags, n)]
         /\ \/ s.Focused = NoWindow
            \/ \E o \in Active(s) : s.Focused \in Holding(s)[Shown(s.Outputs)[o]]
<1>1. Tidy(s)
  BY DEF Settled
<1>2. \A n \in ViewName : Sound(s.Views[n]) /\ WindowsOf(s.Views[n]) = Carrying(s.Tags, n)
  BY <1>1, TidyParts DEF Carried
<1>3. Holding(s) = [n \in ViewName |-> Carrying(s.Tags, n)]
  BY <1>2 DEF Holding
<1>4. CASE s.Outputs = <<>>
  BY <1>3, <1>4 DEF Settled
<1>5. CASE s.Outputs # <<>>
  <2> DEFINE o == s.Outputs[activeOutput(s)].Name
             v == activeView(s)
  <2>1. Active(s) = {o} /\ Shown(s.Outputs)[o] = activeName(s) /\ activeName(s) \in ViewName
    BY <1>5, ActiveParts
  <2> HIDE DEF o
  <2>2. s.Focused = focusedWindow(v) /\ v = s.Views[activeName(s)]
    BY <1>5 DEF Settled, activeView
  <2>3. Sound(v) /\ Holding(s)[activeName(s)] = WindowsOf(v)
    BY <1>2, <2>1, <2>2 DEF Holding
  <2> HIDE DEF v
  <2>4. focusedWindow(v) # NoWindow => focusedWindow(v) \in WindowsOf(v)
    BY <2>3, FocusedIsThere
  <2> QED BY <1>3, <2>1, <2>2, <2>3, <2>4
<1> QED BY <1>4, <1>5

\* The steps of the promise, short of its condition on views and focus.
Moves ==
  \/ \E o \in OutputName : Promise!Plug(o) \/ Promise!Unplug(o) \/ Promise!Activate(o)
  \/ \E o, p \in OutputName : Promise!Rename(o, p)
  \/ \E id \in WindowID :
       Promise!Close(id) \/ (\E T \in SUBSET ViewName : Promise!Open(id, T))
  \/ \E old, nu \in WindowID : Promise!Replace(old, nu)
  \/ \E T \in SUBSET ViewName : Promise!Retag(T)
  \/ \E n \in ViewName : Promise!Select(n)
  \/ Promise!Refocus

RefInv == WmInv /\ Named(wm.Outputs)

\* A step that leaves outputs and tags alone moves the focus.
LEMMA FocusMoves ==
  ASSUME RefInv, Settled(wm'), wm'.Outputs = wm.Outputs, wm'.Tags = wm.Tags
  PROVE  Moves /\ Named(wm'.Outputs)
<1>1. Named(wm'.Outputs) /\ Named(wm.Outputs)
  BY DEF RefInv
<1>2. CASE wm.Outputs = <<>>
  <2>1. Active(wm') = Active(wm)
    BY <1>2 DEF Active
  <2> QED BY <1>1, <2>1, RefocusIsPromised DEF Moves
<1>3. CASE wm.Outputs # <<>>
  <2> DEFINE o == wm'.Outputs[activeOutput(wm')].Name
  <2>1. Active(wm') = {o} /\ o \in Names(wm.Outputs) /\ o \in OutputName
    BY <1>1, <1>3, ActiveParts
  <2> HIDE DEF o
  <2>2. Promise!Activate(o)
    BY <2>1, ActivateIsPromised
  <2> QED BY <1>1, <2>1, <2>2 DEF Moves
<1> QED BY <1>2, <1>3

\* The names of the outputs when a view is selected, and what they show.
LEMMA SelectedSwaps ==
  ASSUME NEW s \in State, Distinct(s), s.Outputs # <<>>, NEW n \in ViewName, activeName(s) # n
  PROVE  Swaps(s.Outputs, SelectedOutputs(s, n), activeOutput(s), n)
<1> DEFINE outs == s.Outputs
           a == activeOutput(s)
           b == outputShowing(s, n)
           given == [outs EXCEPT ![b] = [outs[b] EXCEPT !.View = outs[a].View]]
<1>1. /\ DOMAIN SelectedOutputs(s, n) = DOMAIN outs
      /\ \A i \in DOMAIN outs :
           SelectedOutputs(s, n)[i].View =
             IF i = a THEN n
             ELSE IF outs[i].View = n /\ i = b THEN activeName(s) ELSE outs[i].View
  BY SelectedOutputsViews
<1>2. \A i \in DOMAIN outs : outs[i].View = n => i = b
  <2> SUFFICES ASSUME NEW i \in DOMAIN outs, outs[i].View = n PROVE i = b
    OBVIOUS
  <2>1. i \in Showing(s, n)
    BY DEF Showing
  <2>2. b \in DOMAIN outs /\ outs[b].View = n
    BY <2>1, OutputShowingType, OutputsTyped
  <2> QED BY <2>2 DEF Distinct
<1>3. \A o \in Output : \A m : [o EXCEPT !.View = m].Name = o.Name
  BY DEF Output
<1>4. a \in DOMAIN outs /\ \A i \in DOMAIN outs : outs[i] \in Output
  BY ActiveOutputType, OutputsTyped
<1>5. \A i \in DOMAIN outs : SelectedOutputs(s, n)[i].Name = outs[i].Name
  <2>1. CASE Showing(s, n) # {}
    <3>1. b \in DOMAIN outs /\ outs[b].View = n /\ a # b
      BY <2>1, OutputShowingType, OutputsTyped DEF activeName
    <3>2. SelectedOutputs(s, n) = [given EXCEPT ![a] = [given[a] EXCEPT !.View = n]]
      BY <2>1 DEF SelectedOutputs
    <3>3. given[a] = outs[a] /\ [outs[b] EXCEPT !.View = outs[a].View].Name = outs[b].Name
          /\ [outs[a] EXCEPT !.View = n].Name = outs[a].Name
      BY <1>3, <1>4, <3>1
    <3>4. DOMAIN given = DOMAIN outs /\ \A i \in DOMAIN outs : given[i].Name = outs[i].Name
      BY <3>1, <3>3
    <3> HIDE DEF given, a, b
    <3> QED BY <1>4, <3>2, <3>3, <3>4
  <2>2. CASE Showing(s, n) = {}
    <3>1. SelectedOutputs(s, n) = [outs EXCEPT ![a] = [outs[a] EXCEPT !.View = n]]
      BY <2>2 DEF SelectedOutputs
    <3>2. [outs[a] EXCEPT !.View = n].Name = outs[a].Name
      BY <1>3, <1>4
    <3> HIDE DEF a
    <3> QED BY <1>4, <3>1, <3>2
  <2> QED BY <2>1, <2>2
<1> HIDE DEF a, b
<1>6. \A i \in DOMAIN outs :
        SelectedOutputs(s, n)[i].View =
          IF i = a THEN n ELSE IF outs[i].View = n THEN activeName(s) ELSE outs[i].View
  BY <1>1, <1>2
<1>7. activeName(s) = outs[a].View
  BY DEF activeName, a
<1> QED BY <1>1, <1>5, <1>6, <1>7 DEF Swaps, a

\* A step that selects a view, or has none to select.
LEMMA SelectMoves ==
  ASSUME RefInv, Settled(wm'), NEW n \in ViewName, wm'.Tags = wm.Tags,
         wm'.FocusOutput = wm.FocusOutput,
         wm'.Outputs = IF wm.Outputs = <<>> \/ activeName(wm) = n THEN wm.Outputs
                       ELSE SelectedOutputs(wm, n)
  PROVE  Moves /\ Named(wm'.Outputs)
<1>1. CASE wm.Outputs = <<>> \/ activeName(wm) = n
  BY <1>1, FocusMoves
<1>2. CASE wm.Outputs # <<>> /\ activeName(wm) # n
  <2> DEFINE outs == wm.Outputs
             q == SelectedOutputs(wm, n)
             a == activeOutput(wm)
             o == wm.Outputs[activeOutput(wm)].Name
  <2>1. Settled(wm) /\ Distinct(wm) /\ Named(outs) /\ wm \in State
    BY TidyParts DEF RefInv, WmInv, Settled
  <2>2. wm'.Outputs = q
    BY <1>2
  <2>3. /\ a \in DOMAIN outs /\ a = wm.FocusOutput /\ Active(wm) = {o} /\ o \in Names(outs)
        /\ Shown(outs)[o] = activeName(wm) /\ activeName(wm) = outs[a].View
    BY <1>2, <2>1, ActiveParts DEF activeName
  <2>4. Swaps(outs, q, a, n)
    BY <1>2, <2>1, SelectedSwaps
  <2>5. o = outs[a].Name
    OBVIOUS
  <2> HIDE DEF q, a, o
  <2>6. /\ Named(q)
        /\ Shown(q) = ShownSwapped(outs, outs[a].Name, n)
    BY <2>1, <2>3, <2>4, SwappedShows
  <2>7. q # <<>> /\ q[a].Name = o
    BY <2>3, <2>4, <2>5 DEF Swaps
  <2>8. Active(wm') = Active(wm)
    BY <2>2, <2>3, <2>7 DEF Active
  <2>9. o \in Active(wm)
    BY <2>3
  <2>10. Shown(wm'.Outputs) = ShownSwapped(wm.Outputs, o, n)
    BY <2>2, <2>5, <2>6
  <2>11. Promise!Select(n)
    BY <2>8, <2>9, <2>10, SelectIsPromised
  <2> QED BY <2>2, <2>6, <2>11 DEF Moves
<1> QED BY <1>1, <1>2

\* A new output.
LEMMA AddMoves ==
  ASSUME RefInv, CanAddOutput(wm), NEW o \in OutputName \ Names(wm.Outputs),
         Settled(wm'), wm'.Tags = wm.Tags, wm'.FocusOutput = wm.FocusOutput,
         wm'.Outputs = AddedOutputs(wm, o)
  PROVE  Moves /\ Named(wm'.Outputs)
<1> DEFINE outs == wm.Outputs
           n    == AddedView(wm)
           out  == [Name |-> o, View |-> n]
           q    == Append(outs, out)
<1>1. /\ Settled(wm) /\ Distinct(wm) /\ Named(outs) /\ wm \in State
      /\ outs \in Seq(Output) /\ DOMAIN outs = 1..Len(outs)
  BY TidyParts, OutputsTyped DEF RefInv, WmInv, Settled
<1>2. n \in ViewName /\ \A i \in DOMAIN outs : outs[i].View # n
  <2>1. n \in ViewName /\ (~exists(wm, n) \/ Showing(wm, n) = {})
    BY <1>1, AddedViewType
  <2> QED BY <1>1, <2>1 DEF Showing, Distinct
<1>3. out \in Output /\ out.Name = o /\ out.View = n
  BY <1>2 DEF Output
<1>4. wm'.Outputs = q
  BY DEF AddedOutputs, Names
<1> HIDE DEF n, out
<1>5. \A p \in Names(outs) : Shown(outs)[p] # n
  BY <1>1, <1>2, ShownOf DEF Names
<1>6. /\ Named(q)
      /\ Shown(q) = ShownWith(outs, o, n)
  <2>1. out.Name \notin Names(outs)
    BY <1>3
  <2>2. /\ Named(q)
        /\ Shown(q) = ShownWith(outs, out.Name, out.View)
    <3> HIDE DEF outs
    <3>1. Named(outs) /\ outs \in Seq(Output)
      BY <1>1
    <3>2. out \in Output
      BY <1>3
    <3> QED BY <2>1, <3>1, <3>2, AppendedShows
  <2> QED BY <1>3, <2>2
<1>7. Active(wm') = IF Active(wm) = {} THEN {o} ELSE Active(wm)
  <2>1. /\ Len(outs) \in Nat /\ DOMAIN q = 1..Len(outs) + 1 /\ q[Len(outs) + 1] = out
        /\ \A i \in 1..Len(outs) : q[i] = outs[i]
    BY <1>1, <1>3, AppendProperties
  <2> HIDE DEF q
  <2>2. q # <<>>
    BY <2>1
  <2>3. CASE outs = <<>>
    <3>1. wm.FocusOutput = 1 /\ Len(outs) = 0
      BY <1>1, <2>3 DEF Settled, Tidy
    <3>2. q[1] = out
      BY <2>1, <3>1
    <3> QED BY <1>3, <1>4, <2>2, <2>3, <3>1, <3>2 DEF Active
  <2>4. CASE outs # <<>>
    <3>1. wm.FocusOutput \in DOMAIN outs
      BY <1>1, <2>4, ActiveParts
    <3>2. q[wm.FocusOutput] = outs[wm.FocusOutput]
      BY <1>1, <2>1, <3>1
    <3>3. Active(wm') = {outs[wm.FocusOutput].Name} /\ Active(wm) = {outs[wm.FocusOutput].Name}
      BY <1>4, <2>2, <2>4, <3>2 DEF Active
    <3> QED BY <3>3
  <2> QED BY <2>3, <2>4
<1> HIDE DEF q
<1>8. Shown(wm'.Outputs) = ShownWith(wm.Outputs, o, n)
  BY <1>4, <1>6
<1>9. \A p \in Names(wm.Outputs) : Shown(wm.Outputs)[p] # n
  BY <1>5
<1>10. Promise!Plug(o)
  BY <1>2, <1>7, <1>8, <1>9, PlugIsPromised
<1>11. Named(wm'.Outputs)
  BY <1>4, <1>6
<1> QED BY <1>10, <1>11 DEF Moves

\* An output that goes.
LEMMA RemoveMoves ==
  ASSUME RefInv, NEW o \in Names(wm.Outputs),
         Settled(wm'), wm'.Tags = wm.Tags, wm'.Outputs = LeftOutputs(wm, o)
  PROVE  Moves /\ Named(wm'.Outputs)
<1> DEFINE outs == wm.Outputs
           at == {i \in DOMAIN outs : outs[i].Name = o}
           r == Least(at)
           q == RemoveAt(outs, r)
<1>1. /\ Named(outs) /\ wm \in State /\ outs \in Seq(Output) /\ DOMAIN outs = 1..Len(outs)
      /\ \A i \in DOMAIN outs : outs[i] \in Output
  BY TidyParts, OutputsTyped DEF RefInv, WmInv, Settled
<1>2. at # {} /\ at \subseteq Nat
  BY <1>1 DEF Names
<1>3. r \in at
  <2> HIDE DEF at
  <2> QED BY <1>2, LeastType
<1>4. r \in 1..Len(outs) /\ outs[r].Name = o /\ o \in OutputName
  BY <1>1, <1>3 DEF Output
<1>5. wm'.Outputs = q
  BY <1>2 DEF LeftOutputs
<1> HIDE DEF r
<1>6. /\ Named(q) /\ Names(q) = Names(outs) \ {o}
      /\ Shown(q) = ShownWithout(outs, o)
  <2> HIDE DEF outs
  <2>1. Named(outs) /\ outs \in Seq(Output)
    BY <1>1
  <2>2. r \in 1..Len(outs) /\ o = outs[r].Name
    BY <1>4
  <2> QED BY <2>1, <2>2, RemovedShows DEF q
<1> HIDE DEF q
<1>7. IF Names(outs) \ {o} = {} THEN Active(wm') = {}
      ELSE \E p \in Names(outs) \ {o} : Active(wm') = {p}
  <2>1. CASE q = <<>>
    <3>1. Names(q) = {}
      BY <2>1 DEF Names
    <3> QED BY <1>5, <1>6, <2>1, <3>1 DEF Active
  <2>2. CASE q # <<>>
    <3>1. PICK p : Active(wm') = {p} /\ p \in Names(q)
      BY <1>5, <1>6, <2>2, ActiveParts
    <3> QED BY <1>6, <3>1
  <2> QED BY <2>1, <2>2
<1>8. Shown(wm'.Outputs) = ShownWithout(wm.Outputs, o)
  BY <1>5, <1>6
<1>9. Promise!Unplug(o)
  BY <1>7, <1>8, UnplugIsPromised
<1> QED BY <1>4, <1>5, <1>6, <1>9 DEF Moves

\* An output that changes its name.
LEMMA RenameMoves ==
  ASSUME RefInv, NEW o \in Names(wm.Outputs), NEW new \in OutputName \ Names(wm.Outputs),
         Settled(wm'), wm'.Tags = wm.Tags, wm'.Focused = wm.Focused,
         wm'.FocusOutput = wm.FocusOutput, wm'.Outputs = RenamedOutputs(wm, o, new)
  PROVE  Moves /\ Named(wm'.Outputs)
<1> DEFINE outs == wm.Outputs
           at == {i \in DOMAIN outs : outs[i].Name = o}
           r == Least(at)
           q == [outs EXCEPT ![r] = [outs[r] EXCEPT !.Name = new]]
<1>1. /\ Settled(wm) /\ Named(outs) /\ wm \in State /\ DOMAIN outs = 1..Len(outs)
      /\ \A i \in DOMAIN outs : outs[i] \in Output
  BY TidyParts, OutputsTyped DEF RefInv, WmInv, Settled
<1>2. at # {} /\ at \subseteq Nat
  BY <1>1 DEF Names
<1>3. r \in at
  <2> HIDE DEF at
  <2> QED BY <1>2, LeastType
<1>4. r \in DOMAIN outs /\ o = outs[r].Name /\ o \in OutputName
  BY <1>1, <1>3 DEF Output
<1>5. wm'.Outputs = q
  BY <1>2 DEF RenamedOutputs
<1> HIDE DEF r
<1>6. Renames(outs, q, r, new)
  <2>1. \A p \in Output : [p EXCEPT !.Name = new].View = p.View /\ [p EXCEPT !.Name = new].Name = new
    BY DEF Output
  <2>2. [outs[r] EXCEPT !.Name = new].View = outs[r].View /\ [outs[r] EXCEPT !.Name = new].Name = new
    BY <1>1, <1>4, <2>1
  <2> QED BY <1>4, <2>2 DEF Renames
<1> HIDE DEF q
<1>7. new \notin Names(outs)
  OBVIOUS
<1>8. /\ Named(q)
      /\ Shown(q) = ShownAs(outs, o, new)
  <2> HIDE DEF outs
  <2>1. Named(outs)
    BY <1>1
  <2>2. r \in DOMAIN outs /\ o = outs[r].Name
    BY <1>4
  <2> QED BY <1>6, <1>7, <2>1, <2>2, RenamedShows
<1>9. Active(wm') = {IF p = o THEN new ELSE p : p \in Active(wm)}
  <2> DEFINE a == wm.FocusOutput
  <2>1. outs # <<>>
    BY <1>4
  <2>2. a \in DOMAIN outs /\ Active(wm) = {outs[a].Name}
    BY <1>1, <2>1, ActiveParts DEF Active
  <2>3. q # <<>> /\ q[a].Name = IF a = r THEN new ELSE outs[a].Name
    BY <1>6, <2>2 DEF Renames
  <2>4. Active(wm') = {q[a].Name}
    BY <1>5, <2>3 DEF Active
  <2>5. outs[a].Name = o <=> a = r
    BY <1>1, <1>4, <2>2 DEF Named
  <2> QED BY <2>2, <2>3, <2>4, <2>5
<1>10. Shown(wm'.Outputs) = ShownAs(wm.Outputs, o, new)
  BY <1>5, <1>8
<1>11. Promise!Rename(o, new)
  BY <1>9, <1>10, RenameIsPromised
<1> QED BY <1>4, <1>5, <1>8, <1>11 DEF Moves

\* Steps that leave the outputs alone.
LEMMA SameOutputs ==
  ASSUME RefInv, wm'.Outputs = wm.Outputs, wm'.FocusOutput = wm.FocusOutput
  PROVE  /\ Shown(wm'.Outputs) = Shown(wm.Outputs) /\ Active(wm') = Active(wm)
         /\ Named(wm'.Outputs)
BY DEF Active, RefInv

LEMMA AddWindowMoves ==
  ASSUME RefInv, NEW id \in WindowID, ~Managed(wm, id), NEW tags \in SUBSET ViewName, tags # {},
         wm'.Outputs = wm.Outputs, wm'.FocusOutput = wm.FocusOutput,
         wm'.Tags = [wm.Tags EXCEPT ![id] = tags],
         wm'.Focused = IF wm.Outputs # <<>> /\ activeName(wm) \in tags THEN id ELSE wm.Focused
  PROVE  Moves /\ Named(wm'.Outputs)
<1>1. /\ Shown(wm'.Outputs) = Shown(wm.Outputs) /\ Active(wm') = Active(wm)
      /\ Named(wm'.Outputs)
  BY SameOutputs
<1>2. (\E o \in Active(wm) : Shown(wm.Outputs)[o] \in tags)
        <=> wm.Outputs # <<>> /\ activeName(wm) \in tags
  <2>1. CASE wm.Outputs = <<>>
    BY <2>1 DEF Active
  <2>2. CASE wm.Outputs # <<>>
    <3>1. Settled(wm) /\ Named(wm.Outputs)
      BY DEF RefInv, WmInv
    <3>2. PICK o : Active(wm) = {o} /\ Shown(wm.Outputs)[o] = activeName(wm)
      BY <2>2, <3>1, ActiveParts
    <3> QED BY <2>2, <3>2
  <2> QED BY <2>1, <2>2
<1>3. wm'.Focused = IF \E o \in Active(wm) : Shown(wm.Outputs)[o] \in tags THEN id ELSE wm.Focused
  BY <1>2
<1>4. wm.Tags[id] = {}
  BY DEF Managed
<1>5. Promise!Open(id, tags)
  BY <1>1, <1>3, <1>4, OpenIsPromised
<1> QED BY <1>1, <1>5 DEF Moves

LEMMA RetagMoves ==
  ASSUME RefInv, FocusedTags(wm) # {}, NEW tags \in SUBSET ViewName, tags # {},
         wm'.Outputs = wm.Outputs, wm'.FocusOutput = wm.FocusOutput,
         wm'.Tags = [wm.Tags EXCEPT ![wm.Focused] = tags]
  PROVE  Moves /\ Named(wm'.Outputs)
<1>1. /\ Shown(wm'.Outputs) = Shown(wm.Outputs) /\ Active(wm') = Active(wm)
      /\ Named(wm'.Outputs)
  BY SameOutputs
<1>2. wm.Focused # NoWindow
  BY DEF FocusedTags
<1>3. Promise!Retag(tags)
  BY <1>1, <1>2, RetagIsPromised
<1> QED BY <1>1, <1>3 DEF Moves

-----------------------------------------------------------------------------
(* The refinement.                                                         *)

\* Every operation moves as the promise says: one case per operation.
LEMMA StepMoves ==
  ASSUME RefInv, Next, Settled(wm'), Distinct(wm')
  PROVE  Moves /\ Named(wm'.Outputs)
<1>1. Settled(wm) /\ Distinct(wm) /\ Clean(wm) /\ wm \in State
  BY TidyParts DEF RefInv, WmInv, Settled, Tidy
<1>2. OutputNames = Names(wm.Outputs)
  BY MappingIs
<1>3. ASSUME Rearranges(wm, wm') PROVE Moves /\ Named(wm'.Outputs)
  BY <1>3, FocusMoves DEF Rearranges
<1>4. ASSUME NEW n \in ViewName, wm' = SelectView(wm, n) PROVE Moves /\ Named(wm'.Outputs)
  <2>1. Distinct(SelectView(wm, n))
    BY <1>4
  <2>2. /\ wm'.Tags = wm.Tags /\ wm'.FocusOutput = wm.FocusOutput
        /\ wm'.Outputs = IF wm.Outputs = <<>> \/ activeName(wm) = n THEN wm.Outputs
                         ELSE SelectedOutputs(wm, n)
    BY <1>1, <1>4, <2>1, SelectViewSettles
  <2> QED BY <2>2, SelectMoves
<1>5. ASSUME NEW T \in SUBSET ViewName, FocusedTags(wm) # {} => T # {},
             wm'.Outputs = wm.Outputs, wm'.FocusOutput = wm.FocusOutput,
             wm'.Tags = IF FocusedTags(wm) = {} THEN wm.Tags ELSE [wm.Tags EXCEPT ![wm.Focused] = T]
      PROVE  Moves /\ Named(wm'.Outputs)
  <2>1. CASE FocusedTags(wm) = {}
    BY <1>5, <2>1, FocusMoves
  <2>2. CASE FocusedTags(wm) # {}
    <3>1. T # {} /\ wm'.Tags = [wm.Tags EXCEPT ![wm.Focused] = T]
      BY <1>5, <2>2
    <3> QED BY <1>5, <2>2, <3>1, RetagMoves
  <2> QED BY <2>1, <2>2
<1>6. CASE OutputAppears
  <2>1. PICK o \in OutputName \ OutputNames : CanAddOutput(wm) /\ wm' = AddOutput(wm, o)
    BY <1>6 DEF OutputAppears, CanAddOutput
  <2>2. o \in OutputName \ Names(wm.Outputs)
    BY <1>2
  <2>3. Distinct(AddOutput(wm, o))
    BY <2>1
  <2>4. /\ wm'.Tags = wm.Tags /\ wm'.Outputs = AddedOutputs(wm, o)
        /\ wm'.FocusOutput = wm.FocusOutput
    BY <1>1, <2>1, <2>3, AddOutputSettles
  <2> QED BY <2>1, <2>2, <2>4, AddMoves
<1>7. CASE OutputVanishes
  <2>1. PICK o \in Names(wm.Outputs) : wm' = RemoveOutput(wm, o)
    BY <1>2, <1>7 DEF OutputVanishes
  <2>2. Distinct(RemoveOutput(wm, o))
    BY <2>1
  <2>3. wm'.Tags = wm.Tags /\ wm'.Outputs = LeftOutputs(wm, o)
    BY <1>1, <2>1, <2>2, RemoveOutputSettles
  <2> QED BY <2>1, <2>3, RemoveMoves
<1>8. CASE OutputRenamed
  <2>1. PICK old \in Names(wm.Outputs), new \in OutputName \ Names(wm.Outputs) :
          wm' = RenameOutput(wm, old, new)
    BY <1>2, <1>8 DEF OutputRenamed
  <2>2. /\ wm'.Tags = wm.Tags /\ wm'.Focused = wm.Focused /\ wm'.FocusOutput = wm.FocusOutput
        /\ wm'.Outputs = RenamedOutputs(wm, old, new)
    BY <1>1, <2>1, RenameOutputSettles
  <2> QED BY <2>1, <2>2, RenameMoves
<1>9. ASSUME NEW id \in WindowID, NEW floating \in BOOLEAN, ~Managed(wm, id),
             NEW tags \in SUBSET ViewName, tags # {}, NEW order \in CreationOrders(wm, tags),
             wm' = AddWindow(wm, id, floating, tags, order)
      PROVE  Moves /\ Named(wm'.Outputs)
  <2>1. /\ wm'.Outputs = wm.Outputs /\ wm'.FocusOutput = wm.FocusOutput
        /\ wm'.Tags = [wm.Tags EXCEPT ![id] = tags]
        /\ wm'.Focused = IF wm.Outputs # <<>> /\ activeName(wm) \in tags THEN id ELSE wm.Focused
    BY <1>1, <1>9, AddWindowSettles
  <2> QED BY <1>9, <2>1, AddWindowMoves
<1>10. CASE WindowOpens
  <2>1. PICK id \in WindowID, floating \in BOOLEAN, order \in CreationOrders(wm, defaultTags(wm)) :
          /\ ~Managed(wm, id)
          /\ FreeNames(wm) # {} \/ FocusedTags(wm) # {} \/ hasActiveView(wm)
          /\ wm' = AddWindow(wm, id, floating, defaultTags(wm), order)
    BY <1>10 DEF WindowOpens
  <2>2. defaultTags(wm) \in SUBSET ViewName /\ defaultTags(wm) # {}
    BY <1>1, <2>1, DefaultTagsType
  <2> QED BY <1>9, <2>1, <2>2
<1>11. CASE WindowReturns
  <2>1. PICK id \in WindowID, floating \in BOOLEAN, tags \in (SUBSET ViewName) \ {{}} :
          /\ ~Managed(wm, id)
          /\ \E order \in CreationOrders(wm, tags) :
               wm' = AddWindow(wm, id, floating, tags, order)
    BY <1>11 DEF WindowReturns
  <2>2. PICK order \in CreationOrders(wm, tags) : wm' = AddWindow(wm, id, floating, tags, order)
    BY <2>1
  <2> QED BY <1>9, <2>1, <2>2
<1>12. CASE WindowCloses
  <2>1. PICK id \in WindowID : Managed(wm, id) /\ wm' = RemoveWindow(wm, id)
    BY <1>12 DEF WindowCloses
  <2>2. Distinct(RemoveWindow(wm, id))
    BY <2>1
  <2>3. /\ wm'.Outputs = wm.Outputs /\ wm'.FocusOutput = wm.FocusOutput
        /\ wm'.Tags = [wm.Tags EXCEPT ![id] = {}]
    BY <1>1, <2>1, <2>2, RemoveWindowSettles
  <2>4. /\ Shown(wm'.Outputs) = Shown(wm.Outputs) /\ Active(wm') = Active(wm)
        /\ Named(wm'.Outputs)
    BY <2>3, SameOutputs
  <2>5. wm.Tags[id] # {}
    BY <2>1 DEF Managed
  <2>6. Promise!Close(id)
    BY <2>3, <2>4, <2>5, CloseIsPromised
  <2> QED BY <2>4, <2>6 DEF Moves
<1>13. CASE TabSwitches
  <2>1. PICK old \in WindowID, nu \in WindowID :
          Managed(wm, old) /\ ~Managed(wm, nu) /\ wm' = ReplaceWindow(wm, old, nu)
    BY <1>13 DEF TabSwitches
  <2>2. /\ wm'.Outputs = wm.Outputs /\ wm'.FocusOutput = wm.FocusOutput
        /\ wm'.Tags = [wm.Tags EXCEPT ![nu] = wm.Tags[old], ![old] = {}]
        /\ wm'.Focused = Renamed(wm.Focused, old, nu)
    BY <1>1, <2>1, ReplaceWindowSettles
  <2>3. /\ Shown(wm'.Outputs) = Shown(wm.Outputs) /\ Active(wm') = Active(wm)
        /\ Named(wm'.Outputs)
    BY <2>2, SameOutputs
  <2>4. wm.Tags[old] # {} /\ wm.Tags[nu] = {}
    BY <2>1 DEF Managed
  <2>5. Promise!Replace(old, nu)
    BY <2>2, <2>3, <2>4, ReplaceIsPromised
  <2> QED BY <2>3, <2>5 DEF Moves
<1>14. CASE StartupSpreads
  <2>1. PICK i \in DOMAIN wm.Outputs, k \in 0..MaxColumns :
          \E tiled \in ReadingOrders(wm.Views[wm.Outputs[i].View]) :
            wm' = SpreadColumns(wm, wm.Outputs[i].View, tiled, k)
    BY <1>14 DEF StartupSpreads
  <2>2. wm.Outputs[i].View \in ViewName /\ k \in Nat
    BY <1>1, OutputsTyped, WmAssumption
  <2> QED BY <1>1, <1>3, <2>1, <2>2, SpreadSettles
<1>15. CASE FocusesWindow
  <2>1. PICK id \in WindowID :
          /\ Managed(wm, id)
          /\ IF ShownTags(wm, id) # {}
             THEN \E n \in ShownTags(wm, id) : wm' = FocusShownWindow(wm, id, n)
             ELSE wm' = FocusHiddenWindow(wm, id)
    BY <1>15 DEF FocusesWindow
  <2>2. CASE ShownTags(wm, id) # {}
    <3>1. PICK n \in ShownTags(wm, id) : wm' = FocusShownWindow(wm, id, n)
      BY <2>1, <2>2
    <3>2. Distinct(FocusShownWindow(wm, id, n))
      BY <3>1
    <3>3. wm'.Outputs = wm.Outputs /\ wm'.Tags = wm.Tags
      BY <1>1, <3>1, <3>2, FocusShownSettles
    <3> QED BY <3>3, FocusMoves
  <2>3. CASE ShownTags(wm, id) = {}
    <3> DEFINE n == Least(wm.Tags[id])
    <3>1. wm' = FocusHiddenWindow(wm, id) /\ wm.Tags[id] # {}
      BY <2>1, <2>3 DEF Managed
    <3>2. n \in ViewName
      <4>1. wm.Tags[id] \subseteq ViewName /\ ViewName \subseteq Nat
        BY <1>1, StateAssumption DEF State
      <4> QED BY <3>1, <4>1, LeastType
    <3>3. Distinct(FocusHiddenWindow(wm, id))
      BY <3>1
    <3>4. /\ wm'.Tags = wm.Tags /\ wm'.FocusOutput = wm.FocusOutput
          /\ wm'.Outputs = SelectView(wm, n).Outputs
      BY <1>1, <3>1, <3>3, FocusHiddenSettles
    <3> HIDE DEF n
    <3>5. Distinct(SelectView(wm, n))
      BY <1>1, <3>2, SelectViewDistinct
    <3>6. SelectView(wm, n).Outputs =
            IF wm.Outputs = <<>> \/ activeName(wm) = n THEN wm.Outputs ELSE SelectedOutputs(wm, n)
      BY <1>1, <3>2, <3>5, SelectViewSettles
    <3>7. wm'.Outputs = IF wm.Outputs = <<>> \/ activeName(wm) = n THEN wm.Outputs
                        ELSE SelectedOutputs(wm, n)
      BY <3>4, <3>6
    <3> QED BY <3>2, <3>4, <3>7, SelectMoves
  <2> QED BY <2>2, <2>3
<1>16. CASE CmdFocus
  BY <1>1, <1>3, <1>16, FocusDirSettles DEF CmdFocus
<1>17. CASE CmdFocusToggleLayer
  BY <1>1, <1>3, <1>17, ToggleLayerSettles DEF CmdFocusToggleLayer
<1>18. CASE CmdFocusOutput
  <2>1. PICK delta \in {-1, 1} : wm' = CycleOutput(wm, delta)
    BY <1>18 DEF CmdFocusOutput
  <2>2. Distinct(CycleOutput(wm, delta))
    BY <2>1
  <2>3. wm'.Outputs = wm.Outputs /\ wm'.Tags = wm.Tags
    BY <1>1, <2>1, <2>2, CycleOutputSettles
  <2> QED BY <2>3, FocusMoves
<1>19. CASE CmdMove
  BY <1>1, <1>3, <1>19, MoveDirSettles DEF CmdMove, Direction
<1>20. CASE CmdToggleFloat
  BY <1>1, <1>3, <1>20, ToggleFloatSettles DEF CmdToggleFloat
<1>21. CASE CmdFullscreen
  BY <1>1, <1>3, <1>21, FullscreenSettles DEF CmdFullscreen
<1>22. CASE CmdMode
  BY <1>1, <1>3, <1>22, SetModeSettles DEF CmdMode
<1>23. CASE CmdView
  BY <1>4, <1>23 DEF CmdView
<1>24. CASE CmdViewCycle
  <2>1. PICK delta \in {-1, 1} : wm' = CycleView(wm, delta)
    BY <1>24 DEF CmdViewCycle
  <2>2. Distinct(CycleView(wm, delta))
    BY <2>1
  <2>3. wm' = wm \/ \E n \in ViewName : wm' = SelectView(wm, n)
    BY <1>1, <2>1, <2>2, CycleViewSettles
  <2>4. CASE wm' = wm
    BY <2>4, FocusMoves
  <2> QED BY <1>4, <2>3, <2>4
<1>25. CASE CmdViewN
  <2>1. PICK n \in ViewName : wm' = SelectViewN(wm, n)
    BY <1>25 DEF CmdViewN
  <2>2. Distinct(SelectViewN(wm, n))
    BY <2>1
  <2>3. /\ wm'.Tags = wm.Tags /\ wm'.FocusOutput = wm.FocusOutput
        /\ wm'.Outputs = IF wm.Outputs = <<>> \/ activeName(wm) = n THEN wm.Outputs
                         ELSE SelectedOutputs(wm, n)
    BY <1>1, <2>1, <2>2, SelectViewNSettles
  <2> QED BY <2>3, SelectMoves
<1>26. CASE CmdMoveTo
  <2>1. PICK n \in ViewName : wm' = MoveToView(wm, n)
    BY <1>26 DEF CmdMoveTo
  <2>2. Distinct(MoveToView(wm, n))
    BY <2>1
  <2>3. /\ wm'.Outputs = wm.Outputs /\ wm'.FocusOutput = wm.FocusOutput
        /\ wm'.Tags = IF FocusedTags(wm) = {} THEN wm.Tags ELSE [wm.Tags EXCEPT ![wm.Focused] = {n}]
    BY <1>1, <2>1, <2>2, MoveToViewSettles
  <2>4. {n} \in SUBSET ViewName /\ {n} # {}
    OBVIOUS
  <2> QED BY <1>5, <2>3, <2>4
<1>27. CASE CmdMoveToN
  <2>1. PICK n \in ViewName : wm' = MoveToViewN(wm, n)
    BY <1>27 DEF CmdMoveToN
  <2>2. Distinct(MoveToViewN(wm, n))
    BY <2>1
  <2>3. /\ wm'.Outputs = wm.Outputs /\ wm'.FocusOutput = wm.FocusOutput
        /\ wm'.Tags = IF FocusedTags(wm) = {} THEN wm.Tags ELSE [wm.Tags EXCEPT ![wm.Focused] = {n}]
    BY <1>1, <2>1, <2>2, MoveToViewNSettles
  <2>4. {n} \in SUBSET ViewName /\ {n} # {}
    OBVIOUS
  <2> QED BY <1>5, <2>3, <2>4
<1>28. CASE CmdTag
  <2>1. PICK specs : \E order \in CreationOrders(wm, specTags(wm, specs)) :
                       wm' = TagSpec(wm, specs, order)
    BY <1>28 DEF CmdTag
  <2>2. PICK order \in CreationOrders(wm, specTags(wm, specs)) : wm' = TagSpec(wm, specs, order)
    BY <2>1
  <2>3. Distinct(TagSpec(wm, specs, order))
    BY <2>2
  <2>4. /\ wm'.Outputs = wm.Outputs /\ wm'.FocusOutput = wm.FocusOutput
        /\ wm'.Tags = IF FocusedTags(wm) = {} \/ specs = <<>> \/ specTags(wm, specs) = {}
                      THEN wm.Tags ELSE [wm.Tags EXCEPT ![wm.Focused] = specTags(wm, specs)]
    BY <1>1, <2>2, <2>3, TagSpecSettles
  <2>5. specTags(wm, specs) \in SUBSET ViewName
    BY <1>1, SpecTagsType
  <2>6. CASE FocusedTags(wm) = {} \/ specs = <<>> \/ specTags(wm, specs) = {}
    BY <2>4, <2>6, FocusMoves
  <2>7. CASE ~(FocusedTags(wm) = {} \/ specs = <<>> \/ specTags(wm, specs) = {})
    BY <2>4, <2>5, <2>7, RetagMoves
  <2> QED BY <2>6, <2>7
<1> QED BY <1>6, <1>7, <1>8, <1>10, <1>11, <1>12, <1>13, <1>14, <1>15, <1>16, <1>17, <1>18,
           <1>19, <1>20, <1>21, <1>22, <1>23, <1>24, <1>25, <1>26, <1>27, <1>28 DEF Next, Command

LEMMA InitIsPromised ==
  ASSUME Init
  PROVE  Promise!Init /\ RefInv
<1>1. /\ wm.Tags = [id \in WindowID |-> {}] /\ wm.Outputs = <<>> /\ wm.Focused = NoWindow
      /\ wm.Views = [n \in ViewName |-> NewView]
  BY DEF Init, NewState
<1>2. OutputNames = {}
  BY <1>1 DEF OutputNames
<1>3. [n \in ViewName |-> WindowsOf(wm.Views[n])] = [n \in ViewName |-> {}]
  BY <1>1, NewViewSound
<1>4. [o \in OutputNames |-> wm.Outputs[outputNamed(o)].View] = [o \in {} |-> {}]
  BY <1>2
<1>5. Promise!Init
  BY <1>1, <1>3, <1>4 DEF Promise!Init
<1>6. Named(wm.Outputs)
  BY <1>1 DEF Named
<1> QED BY <1>5, <1>6, InitSettled DEF RefInv

LEMMA StepIsPromised ==
  ASSUME RefInv, [Next]_wm
  PROVE  [Promise!Next]_(Promise!vars) /\ RefInv'
<1>1. CASE Next
  <2>1. WmInv'
    BY <1>1, WmInvKept DEF RefInv
  <2>2. Settled(wm') /\ Distinct(wm')
    BY <2>1 DEF WmInv, Settled, Tidy, Clean, Arranged, Fits, Distinct, activeOutput, activeView,
                activeName, exists
  <2>3. Moves /\ Named(wm'.Outputs)
    BY <1>1, <2>2, StepMoves
  <2>4. /\ Holding(wm') = [n \in ViewName |-> Carrying(wm'.Tags, n)]
        /\ \/ wm'.Focused = NoWindow
           \/ \E o \in Active(wm') : wm'.Focused \in Holding(wm')[Shown(wm'.Outputs)[o]]
    BY <2>2, <2>3, SettledConsistent
  <2>5. Promise!Consistent
    BY <2>4, ConsistentIsPromised
  <2>6. Promise!Next
    BY <2>3, <2>5 DEF Moves, Promise!Next
  <2>7. RefInv'
    BY <2>1, <2>3 DEF RefInv, Named
  <2> QED BY <2>6, <2>7
<1>2. CASE UNCHANGED wm
  <2>1. UNCHANGED Promise!vars
    BY <1>2 DEF Promise!vars, OutputNames, outputNamed
  <2>2. WmInv'
    BY <1>2, WmInvKept DEF RefInv
  <2>3. RefInv'
    BY <1>2, <2>2 DEF RefInv, Named
  <2> QED BY <2>1, <2>3
<1> QED BY <1>1, <1>2

\* Whatever the compositor reports and the user commands, in any order, the
\* model does what WmTags says of tags, outputs and focus: every operation of
\* State is one of its steps, or changes nothing of it.
THEOREM WmImplementsTags == Spec => ImplementsTags
<1>1. Init => Promise!Init /\ RefInv
  BY InitIsPromised
<1>2. RefInv /\ [Next]_wm => [Promise!Next]_(Promise!vars) /\ RefInv'
  BY StepIsPromised
<1> QED BY <1>1, <1>2, PTL DEF Spec, ImplementsTags, Promise!Spec

-----------------------------------------------------------------------------
(* Sequences of placements.                                                *)

\* A function on 1..n is a sequence of its values.
LEMMA SequenceOfValues ==
  ASSUME NEW n \in Nat, NEW f, f = [k \in 1..n |-> f[k]]
  PROVE  f \in Seq(ToSet(f)) /\ Len(f) = n /\ DOMAIN f = 1..n
<1>1. DOMAIN f = 1..n
  BY Zenon
<1>2. f \in [1..n -> ToSet(f)]
  BY <1>1, Zenon DEF ToSet
<1> QED BY <1>1, <1>2, IsASeq, LenProperties

LEMMA JoinedSequences ==
  ASSUME NEW a, NEW b, a \in Seq(ToSet(a)), b \in Seq(ToSet(b))
  PROVE  /\ a \o b \in Seq(ToSet(a \o b))
         /\ Len(a \o b) = Len(a) + Len(b)
         /\ ToSet(a \o b) = ToSet(a) \cup ToSet(b)
         /\ \A k \in 1..Len(a) : (a \o b)[k] = a[k]
         /\ \A k \in 1..Len(b) : (a \o b)[Len(a) + k] = b[k]
         /\ \A k \in 1..Len(a) + Len(b) : k \notin 1..Len(a) => k - Len(a) \in 1..Len(b)
<1> DEFINE U == ToSet(a) \cup ToSet(b)
           c == a \o b
<1>1. a \in Seq(U) /\ b \in Seq(U)
  BY SeqMonotonic, Zenon
<1>2. Len(a) \in Nat /\ Len(b) \in Nat /\ DOMAIN a = 1..Len(a) /\ DOMAIN b = 1..Len(b)
  BY <1>1, LenProperties
<1>3. /\ c \in Seq(U)
      /\ Len(c) = Len(a) + Len(b)
      /\ \A k \in 1..Len(a) + Len(b) : c[k] = IF k <= Len(a) THEN a[k] ELSE b[k - Len(a)]
  BY <1>1, ConcatProperties
<1> HIDE DEF c
<1>4. \A k \in 1..Len(a) : c[k] = a[k]
  BY <1>2, <1>3
<1>5. ASSUME NEW k \in 1..Len(b) PROVE c[Len(a) + k] = b[k]
  <2>1. Len(a) + k \in 1..Len(a) + Len(b) /\ ~(Len(a) + k <= Len(a)) /\ (Len(a) + k) - Len(a) = k
    BY <1>2
  <2> QED BY <1>3, <2>1
<1>6. DOMAIN c = 1..Len(a) + Len(b)
  BY <1>2, <1>3, LenProperties
<1>7. ToSet(c) \subseteq U
  BY <1>3, <1>6, ElementOfSeq DEF ToSet
<1>8. ToSet(a) \subseteq ToSet(c)
  <2>1. \A k \in 1..Len(a) : k \in DOMAIN c
    BY <1>2, <1>6
  <2> QED BY <1>2, <1>4, <2>1 DEF ToSet
<1>9. ToSet(b) \subseteq ToSet(c)
  <2>1. \A k \in 1..Len(b) : Len(a) + k \in DOMAIN c
    BY <1>2, <1>6
  <2> QED BY <1>2, <1>5, <2>1 DEF ToSet
<1>10. ToSet(c) = U
  BY <1>7, <1>8, <1>9
<1>11. \A k \in 1..Len(a) + Len(b) : k \notin 1..Len(a) => k - Len(a) \in 1..Len(b)
  BY <1>2
<1> QED BY <1>3, <1>4, <1>5, <1>10, <1>11 DEF c

\* A sequence of placements of different windows.
OneEach(ps) ==
  /\ ps \in Seq(ToSet(ps))
  /\ \A k, l \in 1..Len(ps) : ps[k].ID = ps[l].ID => k = l

LEMMA IdsOfSet ==
  ASSUME NEW ps
  PROVE  IdsOf(ps) = {p.ID : p \in ToSet(ps)}
BY DEF IdsOf, ToSet

LEMMA OneEachOf ==
  ASSUME NEW ps, OneEach(ps), NEW p \in ToSet(ps), NEW q \in ToSet(ps), p.ID = q.ID
  PROVE  p = q
<1>1. DOMAIN ps = 1..Len(ps)
  BY LenProperties DEF OneEach
<1> QED BY <1>1 DEF OneEach, ToSet

LEMMA OneEachOfNone == OneEach(<<>>) /\ ToSet(<<>>) = {} /\ IdsOf(<<>>) = {}
BY DEF OneEach, ToSet, IdsOf

LEMMA OneEachJoined ==
  ASSUME NEW a, NEW b, OneEach(a), OneEach(b), IdsOf(a) \cap IdsOf(b) = {}
  PROVE  /\ OneEach(a \o b)
         /\ ToSet(a \o b) = ToSet(a) \cup ToSet(b)
         /\ IdsOf(a \o b) = IdsOf(a) \cup IdsOf(b)
<1> DEFINE c == a \o b
<1>1. a \in Seq(ToSet(a)) /\ b \in Seq(ToSet(b))
  BY DEF OneEach
<1>2. Len(a) \in Nat /\ Len(b) \in Nat /\ DOMAIN a = 1..Len(a) /\ DOMAIN b = 1..Len(b)
  BY <1>1, LenProperties
<1>3. /\ c \in Seq(ToSet(c))
      /\ Len(c) = Len(a) + Len(b)
      /\ ToSet(c) = ToSet(a) \cup ToSet(b)
      /\ \A k \in 1..Len(a) : c[k] = a[k]
      /\ \A k \in 1..Len(b) : c[Len(a) + k] = b[k]
      /\ \A k \in 1..Len(a) + Len(b) : k \notin 1..Len(a) => k - Len(a) \in 1..Len(b)
  BY <1>1, JoinedSequences
<1> HIDE DEF c
<1>4. ASSUME NEW k \in 1..Len(a), NEW l \in 1..Len(b) PROVE a[k].ID # b[l].ID
  <2>1. a[k].ID \in IdsOf(a) /\ b[l].ID \in IdsOf(b)
    BY <1>2 DEF IdsOf
  <2> QED BY <2>1
<1>5. ASSUME NEW k \in 1..Len(c), NEW l \in 1..Len(c), c[k].ID = c[l].ID PROVE k = l
  <2>1. CASE k \in 1..Len(a) /\ l \in 1..Len(a)
    <3>1. c[k] = a[k] /\ c[l] = a[l]
      BY <1>3, <2>1
    <3> QED BY <1>5, <2>1, <3>1 DEF OneEach
  <2>2. CASE k \notin 1..Len(a) /\ l \notin 1..Len(a)
    <3>1. k - Len(a) \in 1..Len(b) /\ l - Len(a) \in 1..Len(b)
      BY <1>3, <2>2
    <3>2. c[k] = b[k - Len(a)] /\ c[l] = b[l - Len(a)]
      <4>1. Len(a) + (k - Len(a)) = k /\ Len(a) + (l - Len(a)) = l
        BY <1>2, <1>3
      <4> QED BY <1>3, <3>1, <4>1
    <3>3. k - Len(a) = l - Len(a)
      BY <1>5, <3>1, <3>2 DEF OneEach
    <3> QED BY <1>2, <1>3, <3>3
  <2>3. CASE k \in 1..Len(a) /\ l \notin 1..Len(a)
    <3>1. l - Len(a) \in 1..Len(b) /\ Len(a) + (l - Len(a)) = l
      BY <1>2, <1>3, <2>3
    <3>2. c[k] = a[k] /\ c[l] = b[l - Len(a)]
      BY <1>3, <2>3, <3>1
    <3> QED BY <1>4, <1>5, <2>3, <3>1, <3>2
  <2>4. CASE k \notin 1..Len(a) /\ l \in 1..Len(a)
    <3>1. k - Len(a) \in 1..Len(b) /\ Len(a) + (k - Len(a)) = k
      BY <1>2, <1>3, <2>4
    <3>2. c[l] = a[l] /\ c[k] = b[k - Len(a)]
      BY <1>3, <2>4, <3>1
    <3> QED BY <1>4, <1>5, <2>4, <3>1, <3>2
  <2> QED BY <2>1, <2>2, <2>3, <2>4
<1>6. IdsOf(c) = IdsOf(a) \cup IdsOf(b)
  BY <1>3, IdsOfSet
<1> QED BY <1>3, <1>5, <1>6 DEF c, OneEach

-----------------------------------------------------------------------------
(* Sequences joined one after the other.                                   *)

\* One round of FlattenSeq.
flattenNext(qs, flat, n) == IF n = 1 THEN qs[n] ELSE flat[n - 1] \o qs[n]

LEMMA FlattenDefined ==
  ASSUME NEW qs, NEW N \in Nat \ {0}, Len(qs) = N
  PROVE  \E flat : /\ flat = [n \in 1..N |-> flattenNext(qs, flat, n)]
                  /\ FlattenSeq(qs) = flat[N]
<1> DEFINE upTo(m, flat) == flat = [n \in 1..m |-> flattenNext(qs, flat, n)]
           OK == {m \in 0..N : \E flat : upTo(m, flat)}
<1>1. 0 \in OK
  <2>1. upTo(0, [n \in 1..0 |-> qs])
    OBVIOUS
  <2> HIDE DEF upTo
  <2> QED BY <2>1
<1>2. ASSUME NEW m \in 0..N - 1, m \in OK PROVE m + 1 \in OK
  <2>1. PICK flat : upTo(m, flat)
    BY <1>2
  <2> DEFINE longer == [n \in 1..m + 1 |-> IF n \in 1..m THEN flat[n] ELSE flattenNext(qs, flat, n)]
  <2>2. ASSUME NEW n \in 1..m + 1 PROVE longer[n] = flattenNext(qs, longer, n)
    <3>1. \A k \in 1..m : longer[k] = flat[k]
      OBVIOUS
    <3>2. n # 1 => n - 1 \in 1..m
      OBVIOUS
    <3>3. flattenNext(qs, longer, n) = flattenNext(qs, flat, n)
      BY <3>1, <3>2 DEF flattenNext
    <3>4. n \in 1..m => flat[n] = flattenNext(qs, flat, n)
      BY <2>1
    <3> QED BY <3>3, <3>4
  <2>3. upTo(m + 1, longer)
    BY <2>2
  <2>4. m + 1 \in 0..N /\ \E f : upTo(m + 1, f)
    <3> HIDE DEF longer
    <3> QED BY <2>3
  <2> QED BY <2>4
<1>3. N \in OK
  <2> HIDE DEF OK
  <2>1. 0..N \subseteq OK
    BY <1>1, <1>2, InductionUpTo
  <2> QED BY <2>1
<1> DEFINE flat == CHOOSE f : upTo(N, f)
<1>4. upTo(N, flat)
  BY <1>3
<1>5. FlattenSeq(qs) = flat[N]
  BY DEF FlattenSeq, flattenNext
<1> QED BY <1>4, <1>5

\* Joining sequences of placements that have no window in common.
LEMMA OneEachFlattened ==
  ASSUME NEW N \in Nat, NEW qs, qs = [n \in 1..N |-> qs[n]],
         \A n \in 1..N : OneEach(qs[n]),
         \A m, n \in 1..N : m # n => IdsOf(qs[m]) \cap IdsOf(qs[n]) = {}
  PROVE  /\ OneEach(FlattenSeq(qs))
         /\ ToSet(FlattenSeq(qs)) = UNION {ToSet(qs[n]) : n \in 1..N}
         /\ IdsOf(FlattenSeq(qs)) = UNION {IdsOf(qs[n]) : n \in 1..N}
<1>1. qs \in Seq(ToSet(qs)) /\ Len(qs) = N
  BY SequenceOfValues
<1>2. CASE N = 0
  <2>1. FlattenSeq(qs) = qs /\ qs = <<>>
    BY <1>1, <1>2 DEF FlattenSeq
  <2>2. UNION {ToSet(qs[n]) : n \in 1..0} = {} /\ UNION {IdsOf(qs[n]) : n \in 1..0} = {}
    OBVIOUS
  <2> QED BY <1>2, <2>1, <2>2, OneEachOfNone
<1>3. CASE N # 0
  <2>1. PICK flat : /\ flat = [n \in 1..N |-> flattenNext(qs, flat, n)]
                    /\ FlattenSeq(qs) = flat[N]
    BY <1>1, <1>3, FlattenDefined
  <2>2. \A n \in 1..N : flat[n] = flattenNext(qs, flat, n)
    BY <2>1, Zenon
  <2> DEFINE Joined(n) == /\ OneEach(flat[n])
                          /\ ToSet(flat[n]) = UNION {ToSet(qs[m]) : m \in 1..n}
                          /\ IdsOf(flat[n]) = UNION {IdsOf(qs[m]) : m \in 1..n}
             OK == {n \in 0..N : n = 0 \/ Joined(n)}
  <2>3. 0 \in OK
    OBVIOUS
  <2>4. ASSUME NEW n \in 0..N - 1, n \in OK PROVE n + 1 \in OK
    <3>1. n + 1 \in 1..N
      OBVIOUS
    <3>2. CASE n = 0
      <4>1. flat[n + 1] = qs[1] /\ 1..n + 1 = {1}
        BY <2>2, <3>1, <3>2 DEF flattenNext
      <4>2. Joined(n + 1)
        BY <3>1, <3>2, <4>1
      <4> QED BY <3>1, <4>2
    <3>3. CASE n # 0
      <4>1. Joined(n)
        BY <2>4, <3>3
      <4>2. flat[n + 1] = flat[n] \o qs[n + 1]
        <5>1. n + 1 # 1 /\ (n + 1) - 1 = n
          BY <3>3
        <5> QED BY <2>2, <3>1, <5>1 DEF flattenNext
      <4>3. IdsOf(flat[n]) \cap IdsOf(qs[n + 1]) = {}
        <5>1. \A m \in 1..n : m \in 1..N /\ m # n + 1
          BY <3>1
        <5> QED BY <3>1, <4>1, <5>1
      <4>4. /\ OneEach(flat[n + 1])
            /\ ToSet(flat[n + 1]) = ToSet(flat[n]) \cup ToSet(qs[n + 1])
            /\ IdsOf(flat[n + 1]) = IdsOf(flat[n]) \cup IdsOf(qs[n + 1])
        BY <3>1, <4>1, <4>2, <4>3, OneEachJoined
      <4>5. 1..n + 1 = 1..n \cup {n + 1}
        OBVIOUS
      <4>6. /\ UNION {ToSet(qs[m]) : m \in 1..n + 1} = (UNION {ToSet(qs[m]) : m \in 1..n}) \cup ToSet(qs[n + 1])
            /\ UNION {IdsOf(qs[m]) : m \in 1..n + 1} = (UNION {IdsOf(qs[m]) : m \in 1..n}) \cup IdsOf(qs[n + 1])
        BY <4>5
      <4>7. Joined(n + 1)
        BY <4>1, <4>4, <4>6
      <4> QED BY <3>1, <4>7
    <3> QED BY <3>2, <3>3
  <2>5. N \in OK
    <3> HIDE DEF OK
    <3>1. 0..N \subseteq OK
      BY <2>3, <2>4, InductionUpTo
    <3> QED BY <3>1
  <2> QED BY <1>3, <2>1, <2>5
<1> QED BY <1>2, <1>3

-----------------------------------------------------------------------------
(* What is left of a sequence of windows.                                  *)

LEMMA LeftOver ==
  ASSUME NEW q \in Seq(WindowID), IsInjective(q), NEW P
  PROVE  /\ Selected(q, WindowID \ P) \in Seq(WindowID)
         /\ IsInjective(Selected(q, WindowID \ P))
         /\ ToSet(Selected(q, WindowID \ P)) = ToSet(q) \ P
         /\ Len(Selected(q, WindowID \ P)) <= Len(q)
<1> DEFINE r == Selected(q, WindowID \ P)
<1>1. r \in Seq(WindowID) /\ SelectsFrom(r, q, WindowID \ P, Len(q))
  BY SelectedSelects
<1> HIDE DEF r
<1>2. /\ Len(q) \in Nat /\ DOMAIN q = 1..Len(q) /\ \A k \in 1..Len(q) : q[k] \in WindowID
      /\ Len(r) \in Nat /\ DOMAIN r = 1..Len(r)
  BY <1>1
<1>3. ASSUME NEW k \in 1..Len(r), NEW l \in 1..Len(r), k < l PROVE r[k] # r[l]
  <2>1. PICK i \in 1..Len(q), j \in 1..Len(q) : i < j /\ r[k] = q[i] /\ r[l] = q[j]
    BY <1>1, <1>3 DEF SelectsFrom
  <2> QED BY <1>2, <2>1 DEF IsInjective
<1>4. IsInjective(r)
  <2> SUFFICES ASSUME NEW k \in 1..Len(r), NEW l \in 1..Len(r), r[k] = r[l] PROVE k = l
    BY <1>2 DEF IsInjective
  <2>1. ~(k < l) /\ ~(l < k)
    BY <1>3
  <2> QED BY <1>2, <2>1
<1>5. ASSUME NEW k \in 1..Len(r) PROVE r[k] \in ToSet(q) \ P
  <2>1. r[k] \in WindowID \ P /\ \E i \in 1..Len(q) : r[k] = q[i]
    BY <1>1 DEF SelectsFrom
  <2> QED BY <1>2, <2>1 DEF ToSet
<1>6. ASSUME NEW i \in 1..Len(q), q[i] \notin P PROVE q[i] \in ToSet(r)
  <2>1. \E k \in 1..Len(r) : r[k] = q[i]
    BY <1>1, <1>2, <1>6 DEF SelectsFrom
  <2> QED BY <1>2, <2>1 DEF ToSet
<1>8. ToSet(r) = ToSet(q) \ P
  <2>1. \A id \in ToSet(r) : \E k \in 1..Len(r) : id = r[k]
    BY <1>2 DEF ToSet
  <2>2. \A id \in ToSet(q) : \E i \in 1..Len(q) : id = q[i]
    BY <1>2 DEF ToSet
  <2> QED BY <1>5, <1>6, <2>1, <2>2
<1>7. Len(r) <= Len(q)
  BY <1>1 DEF SelectsFrom
<1> QED BY <1>1, <1>4, <1>7, <1>8 DEF r

\* A placement for each of different windows.
LEMMA PlacementsOfIds ==
  ASSUME NEW ids \in Seq(WindowID), IsInjective(ids), NEW ps,
         ps = [k \in 1..Len(ids) |-> ps[k]], \A k \in 1..Len(ids) : ps[k].ID = ids[k]
  PROVE  OneEach(ps) /\ IdsOf(ps) = ToSet(ids) /\ DOMAIN ps = 1..Len(ids)
<1>1. Len(ids) \in Nat /\ DOMAIN ids = 1..Len(ids)
  OBVIOUS
<1>2. ps \in Seq(ToSet(ps)) /\ Len(ps) = Len(ids) /\ DOMAIN ps = 1..Len(ids)
  BY <1>1, SequenceOfValues
<1>3. \A k, l \in 1..Len(ps) : ps[k].ID = ps[l].ID => k = l
  BY <1>1, <1>2 DEF IsInjective
<1>4. IdsOf(ps) = ToSet(ids)
  BY <1>1, <1>2 DEF IdsOf, ToSet
<1> QED BY <1>2, <1>3, <1>4 DEF OneEach

LEMMA PutFields ==
  ASSUME NEW s, NEW scr, NEW i, NEW id, NEW layer, NEW r, NEW strip, NEW hidden
  PROVE  LET p == put(s, scr, i, id, layer, r, strip, hidden)
         IN /\ p.ID = id /\ p.Output = i /\ p.Layer = layer
            /\ p.Strip = strip /\ p.Hidden = hidden
            /\ p.Focused = (id = s.Focused) /\ ~p.Fullscreen
            /\ p.Rect = insetBar(scr, r) /\ p.Bar = (~hidden /\ scr.bar > 0)
BY DEF put

LEMMA ScreenFields ==
  ASSUME NEW scr \in Screens
  PROVE  /\ scr \in Screen
         /\ \A o \in OutputName : scr.area[o] \in Box
         /\ \A o \in OutputName : /\ scr.area[o].X \in Int /\ scr.area[o].Y \in Int
                                  /\ scr.area[o].W \in Int /\ scr.area[o].H \in Int
         /\ scr.factor \in Seq(Nat \ {0})
         /\ scr.bar \in Nat /\ scr.strip \in Nat
<1>1. scr \in Screen
  BY ScreensAssumption
<1>2. scr.area \in [OutputName -> Box] /\ scr.factor \in Seq(Nat \ {0})
  BY <1>1 DEF Screen
<1>3. scr.bar \in Nat /\ scr.strip \in Nat
  BY <1>1 DEF Screen
<1>4. \A r \in Box : r.X \in Int /\ r.Y \in Int /\ r.W \in Int /\ r.H \in Int
  BY DEF Box
<1> QED BY <1>1, <1>2, <1>3, <1>4

\* A strip is never nothing, nor more than half the box.
LEMMA StripIsSeen ==
  ASSUME NEW scr \in Screens, NEW box, box.H \in Int, NEW n \in Nat, n > 1
  PROVE  stripHeight(scr, box, n) \in Nat /\ stripHeight(scr, box, n) > 0
<1> DEFINE most == (box.H \div 2) \div (n - 1)
           wanted == Greater(IF scr.bar > 0 THEN scr.bar ELSE scr.strip, 1)
<1>1. scr.bar \in Nat /\ scr.strip \in Nat
  BY ScreenFields
<1>2. most \in Int
  OBVIOUS
<1>3. wanted \in Nat
  BY <1>1 DEF Greater
<1> HIDE DEF most, wanted
<1>4. Lesser(wanted, most) \in Int
  BY <1>2, <1>3 DEF Lesser
<1>5. stripHeight(scr, box, n) = Greater(1, Lesser(wanted, most))
  BY DEF stripHeight, most, wanted
<1> QED BY <1>4, <1>5 DEF Greater

-----------------------------------------------------------------------------
(* One column.                                                             *)

LEMMA ColumnTyped ==
  ASSUME NEW c \in Column
  PROVE  c.Windows \in Seq(WindowID) /\ c.Mode \in {"default", "stack", "max"} /\ c.Sel \in Nat
BY ModesAssumption DEF Column

\* The windows of q that are not placed yet.
Left(q, placed) == Selected(q, WindowID \ placed)

\* The three ways to lay out a column.
ColumnEntry(s, scr, i, c, box, placed, p, k) ==
  LET ids == Left(c.Windows, placed)
      n   == Len(ids)
      sel == selected(c)
      fi  == IF sel \in ToSet(ids) THEN IndexOf(ids, sel) ELSE 1
      strip == stripHeight(scr, box, n)
  IN IF n = 1 \/ c.Mode = "default"
     THEN p = put(s, scr, i, ids[k], "tiled", splitEvenly(box, n)[k], 0, FALSE)
     ELSE IF c.Mode = "stack"
     THEN p = put(s, scr, i, ids[k], "tiled", stackBoxes(box, n, fi, strip)[k],
                  IF k = fi THEN 0 ELSE strip, FALSE)
     ELSE p = put(s, scr, i, ids[k], "tiled", box, 0, ids[k] # sel)

LEMMA ColumnEntries ==
  ASSUME NEW s, NEW scr, NEW i, NEW c \in Column, IsInjective(c.Windows), NEW box, NEW placed,
         NEW ps, ps = layoutColumn(s, scr, i, c, box, placed),
         NEW ids, ids = Left(c.Windows, placed)
  PROVE  /\ OneEach(ps) /\ IdsOf(ps) = ToSet(ids) /\ DOMAIN ps = 1..Len(ids)
         /\ \A k \in 1..Len(ids) : /\ ColumnEntry(s, scr, i, c, box, placed, ps[k], k)
                                   /\ ps[k].ID = ids[k]
<1> DEFINE n   == Len(ids)
           sel == selected(c)
           fi  == IF sel \in ToSet(ids) THEN IndexOf(ids, sel) ELSE 1
           mode == IF n = 1 THEN "default" ELSE c.Mode
           strip == stripHeight(scr, box, n)
<1>1. ids \in Seq(WindowID) /\ IsInjective(ids) /\ n \in Nat
  BY ColumnTyped, LeftOver, LenProperties DEF Left
<1>2. mode \in {"default", "stack", "max"}
  BY ColumnTyped
<1>3. ps = CASE n = 0 -> <<>>
       [] n > 0 /\ mode = "default" ->
            [k \in 1..n |-> put(s, scr, i, ids[k], "tiled", splitEvenly(box, n)[k], 0, FALSE)]
       [] n > 0 /\ mode = "stack" ->
            [k \in 1..n |-> put(s, scr, i, ids[k], "tiled", stackBoxes(box, n, fi, strip)[k],
                                IF k = fi THEN 0 ELSE strip, FALSE)]
       [] n > 0 /\ mode = "max" ->
            [k \in 1..n |-> put(s, scr, i, ids[k], "tiled", box, 0, ids[k] # sel)]
  <2> HIDE DEF n, mode, fi, strip
  <2> QED BY DEF layoutColumn, expanded, n, mode, fi, strip, sel, Left
<1>4. SUFFICES /\ ps = [k \in 1..n |-> ps[k]]
               /\ \A k \in 1..n : ColumnEntry(s, scr, i, c, box, placed, ps[k], k) /\ ps[k].ID = ids[k]
  <2> HIDE DEF n
  <2> SUFFICES OneEach(ps) /\ IdsOf(ps) = ToSet(ids) /\ DOMAIN ps = 1..Len(ids)
    BY <1>4 DEF n
  <2> QED BY <1>1, <1>4, PlacementsOfIds DEF n
<1>5. CASE n = 0
  <2> HIDE DEF n, mode, fi, strip, sel
  <2>1. ps = <<>>
    BY <1>1, <1>3, <1>5
  <2> QED BY <1>5, <2>1
<1>6. CASE n > 0 /\ mode = "default"
  <2> DEFINE e(k) == put(s, scr, i, ids[k], "tiled", splitEvenly(box, n)[k], 0, FALSE)
  <2>1. ps = [k \in 1..n |-> e(k)]
    <3> HIDE DEF n, mode, fi, strip, sel
    <3>1. n # 0 /\ mode # "stack" /\ mode # "max"
      BY <1>1, <1>6
    <3> QED BY <1>3, <1>6, <3>1
  <2>2. \A k \in 1..n : ps[k] = e(k) /\ e(k).ID = ids[k]
    <3>1. \A k \in 1..n : e(k).ID = ids[k]
      <4> HIDE DEF n, sel, fi, strip
      <4> QED BY DEF put
    <3> HIDE DEF n, e
    <3> QED BY <2>1, <3>1
  <2>3. n = 1 \/ c.Mode = "default"
    BY <1>6
  <2>4. \A k \in 1..n : ColumnEntry(s, scr, i, c, box, placed, ps[k], k)
    <3> QED BY <2>2, <2>3 DEF ColumnEntry
  <2> HIDE DEF n, e
  <2> QED BY <2>1, <2>2, <2>4
<1>7. CASE n > 0 /\ mode = "stack"
  <2> DEFINE e(k) == put(s, scr, i, ids[k], "tiled", stackBoxes(box, n, fi, strip)[k],
                         IF k = fi THEN 0 ELSE strip, FALSE)
  <2>1. ps = [k \in 1..n |-> e(k)]
    <3> HIDE DEF n, mode, fi, strip, sel
    <3>1. n # 0 /\ mode # "default" /\ mode # "max"
      BY <1>1, <1>7
    <3> QED BY <1>3, <1>7, <3>1
  <2>2. \A k \in 1..n : ps[k] = e(k) /\ e(k).ID = ids[k]
    <3>1. \A k \in 1..n : e(k).ID = ids[k]
      <4> HIDE DEF n, sel, fi, strip
      <4> QED BY DEF put
    <3> HIDE DEF n, e
    <3> QED BY <2>1, <3>1
  <2>3. ~(n = 1 \/ c.Mode = "default") /\ c.Mode = "stack"
    BY <1>7
  <2>4. \A k \in 1..n : ColumnEntry(s, scr, i, c, box, placed, ps[k], k)
    <3> QED BY <2>2, <2>3 DEF ColumnEntry
  <2> HIDE DEF n, e
  <2> QED BY <2>1, <2>2, <2>4
<1>8. CASE n > 0 /\ mode = "max"
  <2> DEFINE e(k) == put(s, scr, i, ids[k], "tiled", box, 0, ids[k] # sel)
  <2>1. ps = [k \in 1..n |-> e(k)]
    <3> HIDE DEF n, mode, fi, strip, sel
    <3>1. n # 0 /\ mode # "default" /\ mode # "stack"
      BY <1>1, <1>8
    <3> QED BY <1>3, <1>8, <3>1
  <2>2. \A k \in 1..n : ps[k] = e(k) /\ e(k).ID = ids[k]
    <3>1. \A k \in 1..n : e(k).ID = ids[k]
      <4> HIDE DEF n, sel, fi, strip
      <4> QED BY DEF put
    <3> HIDE DEF n, e
    <3> QED BY <2>1, <3>1
  <2>3. ~(n = 1 \/ c.Mode = "default") /\ c.Mode # "stack"
    BY <1>8
  <2>4. \A k \in 1..n : ColumnEntry(s, scr, i, c, box, placed, ps[k], k)
    <3> QED BY <2>2, <2>3 DEF ColumnEntry
  <2> HIDE DEF n, e
  <2> QED BY <2>1, <2>2, <2>4
<1>9. n = 0 \/ n > 0
  BY <1>1
<1> HIDE DEF n, mode
<1> QED BY <1>2, <1>5, <1>6, <1>7, <1>8, <1>9

\* A placement on output i that is drawn as focused if its window has the focus.
RenderedOn(s, i, p) == p.Output = i /\ p.Focused = (p.ID = s.Focused)

\* One in a column.
TileOf(s, i, p) == RenderedOn(s, i, p) /\ p.Layer = "tiled" /\ p.Fullscreen = FALSE

\* A placement that is seen: neither hidden nor collapsed to a strip.
Seen(p) == ~p.Hidden /\ ~Collapsed(p)

\* The placements ps of column c: its selection is seen, and no other window if the
\* selection is there, unless the column splits its box.
ColumnSeen(s, i, c, ps) ==
  \A p \in ToSet(ps) :
    /\ TileOf(s, i, p)
    /\ p.ID = selected(c) => Seen(p)
    /\ c.Mode # "default" /\ selected(c) \in IdsOf(ps) /\ Seen(p) => p.ID = selected(c)

LEMMA ColumnShows ==
  ASSUME NEW s, NEW scr \in Screens, NEW i, NEW c \in Column, IsInjective(c.Windows),
         NEW box, box.H \in Int, NEW placed,
         NEW ps, ps = layoutColumn(s, scr, i, c, box, placed)
  PROVE  /\ OneEach(ps) /\ IdsOf(ps) = ToSet(Left(c.Windows, placed))
         /\ ColumnSeen(s, i, c, ps)
<1> DEFINE ids == Left(c.Windows, placed)
           n   == Len(ids)
           sel == selected(c)
           fi  == IF sel \in ToSet(ids) THEN IndexOf(ids, sel) ELSE 1
           strip == stripHeight(scr, box, n)
<1>1. /\ ids \in Seq(WindowID) /\ IsInjective(ids) /\ ToSet(ids) = ToSet(c.Windows) \ placed
      /\ n \in Nat /\ DOMAIN ids = 1..n
  BY ColumnTyped, LeftOver, LenProperties DEF Left
<1>2. /\ OneEach(ps) /\ IdsOf(ps) = ToSet(ids) /\ DOMAIN ps = 1..n
      /\ \A k \in 1..n : ColumnEntry(s, scr, i, c, box, placed, ps[k], k) /\ ps[k].ID = ids[k]
  BY ColumnEntries
<1>3. sel \in ToSet(ids) => fi \in 1..n /\ ids[fi] = sel
  <2> HIDE DEF ids, n, sel
  <2> QED BY <1>1 DEF IndexOf, ToSet
<1>4. \A k, l \in 1..n : ids[k] = ids[l] => k = l
  <2> HIDE DEF ids, n
  <2> QED BY <1>1 DEF IsInjective
<1>5. n > 1 => strip \in Nat /\ strip > 0
  <2> HIDE DEF n
  <2> QED BY <1>1, StripIsSeen
<1>6. ASSUME NEW k \in 1..n
      PROVE  /\ TileOf(s, i, ps[k])
             /\ ps[k].ID = sel => Seen(ps[k])
             /\ c.Mode # "default" /\ sel \in ToSet(ids) /\ Seen(ps[k]) => ps[k].ID = sel
  <2>1. ColumnEntry(s, scr, i, c, box, placed, ps[k], k) /\ ps[k].ID = ids[k]
    BY <1>2
  <2>2. CASE n = 1 \/ c.Mode = "default"
    <3>1. ps[k] = put(s, scr, i, ids[k], "tiled", splitEvenly(box, n)[k], 0, FALSE)
      <4> QED BY <2>1, <2>2 DEF ColumnEntry
    <3>2. n = 1 /\ sel \in ToSet(ids) => ids[k] = sel
      <4> HIDE DEF ids, sel, fi
      <4> QED BY <1>1, <1>3
    <3> HIDE DEF ids, n, sel
    <3>3. TileOf(s, i, ps[k])
      BY <3>1 DEF put, TileOf, RenderedOn
    <3>4. ps[k].Hidden = FALSE /\ ps[k].Strip = 0
      BY <3>1 DEF put
    <3>5. Seen(ps[k])
      BY <3>4 DEF Seen, Collapsed
    <3> QED BY <2>1, <2>2, <3>2, <3>3, <3>5
  <2>3. CASE ~(n = 1 \/ c.Mode = "default") /\ c.Mode = "stack"
    <3>1. ps[k] = put(s, scr, i, ids[k], "tiled", stackBoxes(box, n, fi, strip)[k],
                      IF k = fi THEN 0 ELSE strip, FALSE)
      <4> QED BY <2>1, <2>3 DEF ColumnEntry
    <3> HIDE DEF ids, n, sel, fi, strip
    <3>2. TileOf(s, i, ps[k])
      BY <3>1 DEF put, TileOf, RenderedOn
    <3>3. ps[k].Hidden = FALSE /\ ps[k].Strip = IF k = fi THEN 0 ELSE strip
      BY <3>1 DEF put
    <3>4. strip > 0
      BY <1>1, <1>5, <2>3
    <3>5. Seen(ps[k]) <=> k = fi
      BY <3>3, <3>4 DEF Seen, Collapsed
    <3>6. ids[k] = sel <=> k = fi /\ sel \in ToSet(ids)
      <4>1. ids[k] \in ToSet(ids)
        BY <1>1 DEF ToSet
      <4> QED BY <1>3, <1>4, <4>1
    <3> QED BY <2>1, <3>2, <3>5, <3>6
  <2>4. CASE ~(n = 1 \/ c.Mode = "default") /\ c.Mode # "stack"
    <3>1. ps[k] = put(s, scr, i, ids[k], "tiled", box, 0, ids[k] # sel)
      <4> QED BY <2>1, <2>4 DEF ColumnEntry
    <3> HIDE DEF ids, n, sel
    <3>2. TileOf(s, i, ps[k])
      BY <3>1 DEF put, TileOf, RenderedOn
    <3>3. ps[k].Hidden = (ids[k] # sel) /\ ps[k].Strip = 0
      BY <3>1 DEF put
    <3>4. Seen(ps[k]) <=> ids[k] = sel
      <4>1. ~Collapsed(ps[k])
        BY <3>3 DEF Collapsed
      <4> QED BY <3>3, <4>1, Zenon DEF Seen
    <3> QED BY <2>1, <3>2, <3>4
  <2> QED BY <2>2, <2>3, <2>4
<1> HIDE DEF ids, n, sel
<1>7. \A p \in ToSet(ps) : \E k \in 1..n : p = ps[k]
  BY <1>2 DEF ToSet
<1>8. ASSUME NEW p \in ToSet(ps)
      PROVE  /\ TileOf(s, i, p)
             /\ p.ID = sel => Seen(p)
             /\ c.Mode # "default" /\ sel \in IdsOf(ps) /\ Seen(p) => p.ID = sel
  <2>1. PICK k \in 1..n : p = ps[k]
    BY <1>7
  <2>2. IdsOf(ps) = ToSet(ids)
    BY <1>2
  <2> QED BY <1>6, <2>1, <2>2, Zenon
<1>9. ColumnSeen(s, i, c, ps)
  BY <1>8, Zenon DEF ColumnSeen, sel
<1> QED BY <1>2, <1>9 DEF ids

-----------------------------------------------------------------------------
(* One output.                                                             *)

\* The columns of a view.
LEMMA ColumnsOfSound ==
  ASSUME NEW v, Sound(v)
  PROVE  /\ v \in View /\ DOMAIN v.Columns = 1..Len(v.Columns) /\ Len(v.Columns) \in Nat
         /\ \A ci \in 1..Len(v.Columns) : v.Columns[ci] \in Column /\ IsInjective(v.Columns[ci].Windows)
         /\ \A ci, cj \in 1..Len(v.Columns) :
              ci # cj => ToSet(v.Columns[ci].Windows) \cap ToSet(v.Columns[cj].Windows) = {}
<1>1. v \in View /\ Apart(v.Columns)
  BY DEF Sound, Placed
<1>2. v.Columns \in Seq(Column) /\ DOMAIN v.Columns = 1..Len(v.Columns) /\ Len(v.Columns) \in Nat
  BY <1>1, ViewFields
<1>3. \A ci \in 1..Len(v.Columns) : v.Columns[ci] \in Column
  BY <1>2
<1> QED BY <1>1, <1>2, <1>3 DEF Apart

\* The placements of ts are those of the columns.
FromColumns(s, scr, i, v, boxes, placed, ts) ==
  /\ \A p \in ToSet(ts) : \E ci \in 1..Len(v.Columns) :
       p \in ToSet(layoutColumn(s, scr, i, v.Columns[ci], boxes[ci], placed))
  /\ \A ci \in 1..Len(v.Columns) :
       ToSet(layoutColumn(s, scr, i, v.Columns[ci], boxes[ci], placed)) \subseteq ToSet(ts)

\* There is a box for each column.
Boxed(v, boxes) == \A ci \in 1..Len(v.Columns) : boxes[ci].H \in Int

LEMMA TilesPlace ==
  ASSUME NEW s, NEW scr \in Screens, NEW i, NEW v, Sound(v), NEW boxes, NEW placed,
         Boxed(v, boxes),
         NEW ts, ts = tiles(s, scr, i, v, boxes, placed)
  PROVE  /\ OneEach(ts) /\ IdsOf(ts) = Held(v.Columns) \ placed
         /\ FromColumns(s, scr, i, v, boxes, placed, ts)
<1> DEFINE N  == Len(v.Columns)
           column(ci) == layoutColumn(s, scr, i, v.Columns[ci], boxes[ci], placed)
           qs == [ci \in 1..N |-> column(ci)]
<1>1. /\ DOMAIN v.Columns = 1..N /\ N \in Nat
      /\ \A ci \in 1..N : v.Columns[ci] \in Column /\ IsInjective(v.Columns[ci].Windows)
      /\ \A ci, cj \in 1..N :
           ci # cj => ToSet(v.Columns[ci].Windows) \cap ToSet(v.Columns[cj].Windows) = {}
  BY ColumnsOfSound
<1>2. ASSUME NEW ci \in 1..N
      PROVE  OneEach(column(ci)) /\ IdsOf(column(ci)) = ToSet(v.Columns[ci].Windows) \ placed
  <2>1. boxes[ci].H \in Int /\ v.Columns[ci] \in Column /\ IsInjective(v.Columns[ci].Windows)
    BY <1>1 DEF Boxed
  <2> DEFINE q == column(ci)
             c == v.Columns[ci]
             box == boxes[ci]
  <2>2. q = layoutColumn(s, scr, i, c, box, placed) /\ c \in Column /\ IsInjective(c.Windows) /\ box.H \in Int
    BY <2>1
  <2> HIDE DEF q, c, box
  <2>3. OneEach(q) /\ IdsOf(q) = ToSet(Left(c.Windows, placed))
    BY <2>2, ColumnShows
  <2>4. ToSet(Left(c.Windows, placed)) = ToSet(c.Windows) \ placed
    BY <2>2, ColumnTyped, LeftOver DEF Left
  <2> QED BY <2>3, <2>4 DEF q, c
<1>3. ts = FlattenSeq(qs)
  BY <1>1 DEF tiles
<1> HIDE DEF column, N
<1>4. qs = [ci \in 1..N |-> qs[ci]] /\ \A ci \in 1..N : qs[ci] = column(ci)
  OBVIOUS
<1> HIDE DEF qs
<1>5. \A ci, cj \in 1..N : ci # cj => IdsOf(qs[ci]) \cap IdsOf(qs[cj]) = {}
  <2>1. ASSUME NEW ci \in 1..N
        PROVE  IdsOf(qs[ci]) \subseteq ToSet(v.Columns[ci].Windows)
    BY <1>2, <1>4
  <2>2. ASSUME NEW ci \in 1..N, NEW cj \in 1..N, ci # cj
        PROVE  IdsOf(qs[ci]) \cap IdsOf(qs[cj]) = {}
    <3>1. ToSet(v.Columns[ci].Windows) \cap ToSet(v.Columns[cj].Windows) = {}
      BY <1>1, <2>2
    <3> QED BY <2>1, <3>1
  <2> QED BY <2>2
<1>6. /\ OneEach(FlattenSeq(qs))
      /\ ToSet(FlattenSeq(qs)) = UNION {ToSet(qs[ci]) : ci \in 1..N}
      /\ IdsOf(FlattenSeq(qs)) = UNION {IdsOf(qs[ci]) : ci \in 1..N}
  <2>1. N \in Nat /\ qs = [ci \in 1..N |-> qs[ci]]
    BY <1>1, <1>4
  <2>2. \A ci \in 1..N : OneEach(qs[ci])
    BY <1>2, <1>4
  <2> QED BY <1>5, <2>1, <2>2, OneEachFlattened, Zenon
<1>7. UNION {IdsOf(qs[ci]) : ci \in 1..N} = Held(v.Columns) \ placed
  BY <1>1, <1>2, <1>4 DEF Held
<1>8. /\ \A p \in ToSet(ts) : \E ci \in 1..N : p \in ToSet(column(ci))
      /\ \A ci \in 1..N : ToSet(column(ci)) \subseteq ToSet(ts)
  BY <1>3, <1>4, <1>6
<1>9. FromColumns(s, scr, i, v, boxes, placed, ts)
  BY <1>8, Zenon DEF FromColumns, column, N
<1> QED BY <1>3, <1>6, <1>7, <1>9

LEMMA FloatsPlace ==
  ASSUME NEW v, Sound(v), NEW placed
  PROVE  /\ floatsOf(v, placed) \in Seq(WindowID)
         /\ IsInjective(floatsOf(v, placed))
         /\ ToSet(floatsOf(v, placed)) = ToSet(v.Float) \ placed
<1> DEFINE f == focusedWindow(v)
           below == Selected(v.Float, WindowID \ (placed \cup {f}))
<1>1. /\ v \in View /\ v.Float \in Seq(WindowID) /\ IsInjective(v.Float)
      /\ Held(v.Columns) \cap ToSet(v.Float) = {} /\ v.FocusLayer \in {"tiled", "floating"}
      /\ ToSet(v.Float) \subseteq WindowID
  <2>1. v \in View /\ IsInjective(v.Float) /\ Held(v.Columns) \cap ToSet(v.Float) = {}
    BY DEF Sound, Placed
  <2>2. v.Float \in Seq(WindowID) /\ v.FocusLayer \in {"tiled", "floating"}
    BY <2>1, ViewFields DEF Layer
  <2>3. ToSet(v.Float) \subseteq WindowID
    BY <2>2 DEF ToSet
  <2> QED BY <2>1, <2>2, <2>3
<1>2. /\ below \in Seq(WindowID) /\ IsInjective(below)
      /\ ToSet(below) = ToSet(v.Float) \ (placed \cup {f})
  BY <1>1, LeftOver
<1>3. /\ v.FocusLayer = "floating" => f \in ToSet(v.Float)
      /\ v.FocusLayer = "tiled" => f \notin ToSet(v.Float)
  BY <1>1, FocusedIsThere, ViewAssumption
<1>4. f \in ToSet(v.Float) => f # NoWindow
  BY <1>1, ViewAssumption
<1> HIDE DEF f, below
<1>5. floatsOf(v, placed) =
        below \o (IF v.FocusLayer = "floating" /\ f \notin placed \cup {NoWindow} THEN <<f>> ELSE <<>>)
  BY DEF floatsOf, f, below
<1>6. CASE v.FocusLayer = "floating" /\ f \notin placed
  <2>1. floatsOf(v, placed) = Append(below, f) /\ f \in WindowID
    BY <1>1, <1>2, <1>3, <1>4, <1>5, <1>6
  <2>2. /\ Append(below, f) \in Seq(WindowID) /\ Len(Append(below, f)) = Len(below) + 1
        /\ \A k \in 1..Len(below) : Append(below, f)[k] = below[k]
        /\ Append(below, f)[Len(below) + 1] = f
    BY <1>2, <2>1, AppendProperties
  <2>3. Len(below) \in Nat /\ DOMAIN below = 1..Len(below)
    BY <1>2, LenProperties
  <2>4. DOMAIN Append(below, f) = 1..Len(below) + 1
    BY <2>2, <2>3, LenProperties
  <2>5. \A k \in 1..Len(below) : below[k] # f
    BY <1>2, <2>3 DEF ToSet
  <2>6. ASSUME NEW k \in 1..Len(below) + 1, NEW l \in 1..Len(below) + 1,
               Append(below, f)[k] = Append(below, f)[l]
        PROVE  k = l
    <3>1. CASE k \in 1..Len(below) /\ l \in 1..Len(below)
      BY <1>2, <2>2, <2>3, <2>6, <3>1 DEF IsInjective
    <3>2. CASE k \notin 1..Len(below)
      <4>1. k = Len(below) + 1
        BY <2>3, <3>2
      <4> QED BY <2>2, <2>3, <2>5, <2>6, <4>1
    <3>3. CASE l \notin 1..Len(below)
      <4>1. l = Len(below) + 1
        BY <2>3, <3>3
      <4> QED BY <2>2, <2>3, <2>5, <2>6, <4>1
    <3> QED BY <3>1, <3>2, <3>3
  <2>7. IsInjective(Append(below, f))
    BY <2>4, <2>6 DEF IsInjective
  <2>8. ToSet(Append(below, f)) = ToSet(below) \cup {f}
    BY <1>2, <2>1, AppendSet
  <2> QED BY <1>2, <1>3, <1>6, <2>1, <2>2, <2>7, <2>8
<1>7. CASE ~(v.FocusLayer = "floating" /\ f \notin placed)
  <2>1. floatsOf(v, placed) = below
    BY <1>2, <1>5, <1>7
  <2> QED BY <1>1, <1>2, <1>3, <1>7, <2>1
<1> QED BY <1>6, <1>7

\* The view and the area of output i, and whether nothing is laid out on it.
shownView(s, i) == s.Views[s.Outputs[i].View]

outputArea(s, scr, i) == scr.area[s.Outputs[i].Name]

Blank(s, scr, i) ==
  \/ ~exists(s, s.Outputs[i].View)
  \/ outputArea(s, scr, i).W <= 0 \/ outputArea(s, scr, i).H <= 0

\* The boxes of its columns, and the placements of its floating windows.
outputBoxes(s, scr, i) ==
  columnBoxes(scr, Len(shownView(s, i).Columns), outputArea(s, scr, i))

outputColumn(s, scr, i, placed, ci) ==
  layoutColumn(s, scr, i, shownView(s, i).Columns[ci], outputBoxes(s, scr, i)[ci], placed)

outputFloats(s, scr, i, placed) ==
  LET floats == floatsOf(shownView(s, i), placed)
  IN [k \in DOMAIN floats |-> put(s, scr, i, floats[k], "floating", scr.float, 0, FALSE)]

LEMMA OutputIs ==
  ASSUME NEW s, NEW scr, NEW i, NEW placed
  PROVE  /\ Blank(s, scr, i) => layoutOutput(s, scr, i, placed) = <<>>
         /\ ~Blank(s, scr, i) /\ fullscreenOn(shownView(s, i), placed)
              => layoutOutput(s, scr, i, placed) =
                   <<[put(s, scr, i, shownView(s, i).Fullscreen, shownView(s, i).FocusLayer,
                          outputArea(s, scr, i), 0, FALSE)
                        EXCEPT !.Rect = outputArea(s, scr, i), !.Bar = FALSE, !.Fullscreen = TRUE]>>
         /\ ~Blank(s, scr, i) /\ ~fullscreenOn(shownView(s, i), placed)
              => layoutOutput(s, scr, i, placed) =
                   tiles(s, scr, i, shownView(s, i), outputBoxes(s, scr, i), placed)
                   \o outputFloats(s, scr, i, placed)
BY DEF layoutOutput, Blank, shownView, outputArea, outputBoxes, outputFloats

LEMMA OutputTyped ==
  ASSUME NEW s \in State, NEW scr \in Screens, NEW i \in DOMAIN s.Outputs
  PROVE  /\ outputArea(s, scr, i) \in Box
         /\ \A ci \in 1..Len(shownView(s, i).Columns) : outputBoxes(s, scr, i)[ci].H \in Int
<1>1. s.Outputs[i].Name \in OutputName
  BY OutputsTyped DEF Output
<1>2. outputArea(s, scr, i) \in Box /\ outputArea(s, scr, i).H \in Int
  BY <1>1, ScreenFields DEF outputArea
<1>3. ASSUME NEW ci \in 1..Len(shownView(s, i).Columns)
      PROVE  outputBoxes(s, scr, i)[ci].H = outputArea(s, scr, i).H
  BY DEF outputBoxes, columnBoxes, Rect
<1> QED BY <1>2, <1>3

\* The placements ps of output i are all seen.
AllSeen(s, i, ps) == \A p \in ToSet(ps) : RenderedOn(s, i, p) /\ Seen(p)

\* A window fills the output.
LEMMA FullscreenPlaces ==
  ASSUME NEW s, NEW scr, NEW i, NEW placed,
         ~Blank(s, scr, i), fullscreenOn(shownView(s, i), placed),
         NEW ps, ps = layoutOutput(s, scr, i, placed)
  PROVE  /\ OneEach(ps)
         /\ IdsOf(ps) = {focusedWindow(shownView(s, i))}
         /\ focusedWindow(shownView(s, i)) \notin placed \cup {NoWindow}
         /\ AllSeen(s, i, ps) /\ \A p \in ToSet(ps) : p.Fullscreen
<1> DEFINE v == shownView(s, i)
           area == outputArea(s, scr, i)
           q == put(s, scr, i, v.Fullscreen, v.FocusLayer, area, 0, FALSE)
           p == [q EXCEPT !.Rect = area, !.Bar = FALSE, !.Fullscreen = TRUE]
<1>1. ps = <<p>>
  BY OutputIs
<1>2. v.Fullscreen = focusedWindow(v) /\ focusedWindow(v) \notin placed \cup {NoWindow}
  BY DEF fullscreenOn
<1>3. /\ p.ID = v.Fullscreen /\ p.Output = i /\ p.Focused = (v.Fullscreen = s.Focused)
      /\ p.Strip = 0
  <2> HIDE DEF v, area
  <2> QED BY DEF put
<1>4. p.Hidden = FALSE /\ p.Fullscreen = TRUE
  <2> HIDE DEF v, area
  <2> QED BY DEF put
<1> HIDE DEF p, v
<1>5. ToSet(ps) = {p} /\ IdsOf(ps) = {p.ID} /\ OneEach(ps)
  <2>1. Len(ps) = 1 /\ DOMAIN ps = 1..1 /\ ps[1] = p
    BY <1>1
  <2>2. ToSet(ps) = {p} /\ IdsOf(ps) = {p.ID}
    BY <2>1 DEF ToSet, IdsOf
  <2>3. ps \in Seq(ToSet(ps))
    BY <1>1, <2>2
  <2> QED BY <2>1, <2>2, <2>3 DEF OneEach
<1>6. RenderedOn(s, i, p)
  BY <1>3 DEF RenderedOn
<1>7. Seen(p) /\ p.Fullscreen
  BY <1>3, <1>4 DEF Seen, Collapsed
<1>8. AllSeen(s, i, ps)
  BY <1>5, <1>6, <1>7 DEF AllSeen
<1> QED BY <1>2, <1>3, <1>5, <1>7, <1>8 DEF v

LEMMA FloatingPlaces ==
  ASSUME NEW s, NEW scr, NEW i, NEW placed, Sound(shownView(s, i)),
         NEW ps, ps = outputFloats(s, scr, i, placed)
  PROVE  /\ OneEach(ps)
         /\ IdsOf(ps) = ToSet(shownView(s, i).Float) \ placed
         /\ AllSeen(s, i, ps)
<1> DEFINE floats == floatsOf(shownView(s, i), placed)
           e(k) == put(s, scr, i, floats[k], "floating", scr.float, 0, FALSE)
<1>1. /\ floats \in Seq(WindowID) /\ IsInjective(floats)
      /\ ToSet(floats) = ToSet(shownView(s, i).Float) \ placed
  BY FloatsPlace
<1>2. ps = [k \in DOMAIN floats |-> e(k)]
  BY DEF outputFloats
<1> HIDE DEF floats
<1>3. DOMAIN floats = 1..Len(floats)
  BY <1>1
<1>4. ASSUME NEW k \in 1..Len(floats)
      PROVE  /\ e(k).ID = floats[k] /\ RenderedOn(s, i, e(k))
             /\ e(k).Layer = "floating" /\ e(k).Fullscreen = FALSE
             /\ e(k).Hidden = FALSE /\ e(k).Strip = 0
  BY DEF put, RenderedOn
<1>5. ASSUME NEW k \in 1..Len(floats) PROVE Seen(e(k))
  <2>1. PICK p : p = e(k)
    OBVIOUS
  <2>2. p.Hidden = FALSE /\ p.Strip = 0
    BY <1>4, <2>1
  <2> HIDE DEF e
  <2>3. Seen(p)
    BY <2>2 DEF Seen, Collapsed
  <2> QED BY <2>1, <2>3
<1> HIDE DEF e
<1>6. ps = [k \in 1..Len(floats) |-> ps[k]] /\ \A k \in 1..Len(floats) : ps[k] = e(k)
  BY <1>2, <1>3
<1>7. OneEach(ps) /\ IdsOf(ps) = ToSet(floats) /\ DOMAIN ps = 1..Len(floats)
  <2>1. \A k \in 1..Len(floats) : ps[k].ID = floats[k]
    BY <1>4, <1>6
  <2> QED BY <1>1, <1>6, <2>1, PlacementsOfIds
<1>8. \A p \in ToSet(ps) : \E k \in 1..Len(floats) : p = e(k)
  BY <1>6, <1>7 DEF ToSet
<1>9. AllSeen(s, i, ps)
  BY <1>4, <1>5, <1>8 DEF AllSeen
<1> QED BY <1>1, <1>7, <1>9

\* A column that does not split its box shows its selection and no other window,
\* when the selection is among the placements ps.
ShowsSelection(ps, c) ==
  c.Mode # "default" /\ selected(c) \in IdsOf(ps) =>
    \A p \in ToSet(ps) : p.ID \in ToSet(c.Windows) => (Seen(p) <=> p.ID = selected(c))

\* The placements ps of output i, of which the one of window f is seen.
FocusShown(s, i, f, ps) ==
  \A p \in ToSet(ps) : RenderedOn(s, i, p) /\ (p.ID = f => Seen(p))

\* What the output renders when no window fills it.
LEMMA TiledPlaces ==
  ASSUME NEW s \in State, NEW scr \in Screens, NEW i \in DOMAIN s.Outputs, NEW placed,
         NEW v, v = shownView(s, i), Sound(v),
         ~Blank(s, scr, i), ~fullscreenOn(v, placed),
         NEW ps, ps = layoutOutput(s, scr, i, placed)
  PROVE  /\ OneEach(ps)
         /\ IdsOf(ps) = WindowsOf(v) \ placed
         /\ FocusShown(s, i, focusedWindow(v), ps)
         /\ \A ci \in 1..Len(v.Columns) : ShowsSelection(ps, v.Columns[ci])
<1> DEFINE N == Len(v.Columns)
           boxes == outputBoxes(s, scr, i)
           column(ci) == layoutColumn(s, scr, i, v.Columns[ci], boxes[ci], placed)
           ts == tiles(s, scr, i, v, boxes, placed)
           fs == outputFloats(s, scr, i, placed)
<1>1. ps = ts \o fs
  BY OutputIs
<1>2. /\ v \in View /\ Held(v.Columns) \cap ToSet(v.Float) = {}
      /\ WindowsOf(v) = Held(v.Columns) \cup ToSet(v.Float)
      /\ v.FocusLayer \in {"tiled", "floating"}
      /\ v.Columns \in Seq(Column)
      /\ WindowsOf(v) \subseteq WindowID
  <2>1. v \in View /\ Held(v.Columns) \cap ToSet(v.Float) = {}
    BY DEF Sound, Placed
  <2>2. v.FocusLayer \in {"tiled", "floating"} /\ v.Columns \in Seq(Column) /\ v.Float \in Seq(WindowID)
    BY <2>1, ViewFields DEF Layer
  <2>3. WindowsOf(v) = Held(v.Columns) \cup ToSet(v.Float) /\ Tiled(v) = Held(v.Columns)
    BY WindowsOfView
  <2>4. Tiled(v) \subseteq WindowID /\ ToSet(v.Float) \subseteq WindowID
    BY <2>1, <2>2, TiledType, ToSetOf
  <2> QED BY <2>1, <2>2, <2>3, <2>4
<1>3. /\ N \in Nat /\ DOMAIN v.Columns = 1..N
      /\ \A ci \in 1..N : v.Columns[ci] \in Column /\ IsInjective(v.Columns[ci].Windows)
      /\ \A ci, cj \in 1..N :
           ci # cj => ToSet(v.Columns[ci].Windows) \cap ToSet(v.Columns[cj].Windows) = {}
  BY ColumnsOfSound
<1>4. \A ci \in 1..N : boxes[ci].H \in Int
  BY OutputTyped
<1>5. /\ OneEach(ts) /\ IdsOf(ts) = Held(v.Columns) \ placed
      /\ \A p \in ToSet(ts) : \E ci \in 1..N : p \in ToSet(column(ci))
  <2>1. ts = tiles(s, scr, i, v, boxes, placed) /\ Boxed(v, boxes)
    BY <1>4 DEF Boxed
  <2> HIDE DEF boxes, ts
  <2>2. /\ OneEach(ts) /\ IdsOf(ts) = Held(v.Columns) \ placed
        /\ FromColumns(s, scr, i, v, boxes, placed, ts)
    BY <2>1, TilesPlace
  <2> QED BY <2>2, Zenon DEF FromColumns
<1>6. /\ OneEach(fs) /\ IdsOf(fs) = ToSet(v.Float) \ placed
      /\ \A p \in ToSet(fs) : RenderedOn(s, i, p) /\ Seen(p)
  <2>1. fs = outputFloats(s, scr, i, placed)
    OBVIOUS
  <2> HIDE DEF fs
  <2>2. /\ OneEach(fs) /\ IdsOf(fs) = ToSet(shownView(s, i).Float) \ placed
        /\ AllSeen(s, i, fs)
    BY <2>1, FloatingPlaces
  <2> QED BY <2>2 DEF AllSeen
<1>7. ASSUME NEW ci \in 1..N
      PROVE  /\ IdsOf(column(ci)) = ToSet(v.Columns[ci].Windows) \ placed
             /\ ColumnSeen(s, i, v.Columns[ci], column(ci))
  <2> DEFINE c == v.Columns[ci]
             box == boxes[ci]
             q == column(ci)
  <2>1. q = layoutColumn(s, scr, i, c, box, placed) /\ c \in Column /\ IsInjective(c.Windows) /\ box.H \in Int
    BY <1>3, <1>4
  <2> HIDE DEF c, box, q
  <2>2. IdsOf(q) = ToSet(Left(c.Windows, placed)) /\ ColumnSeen(s, i, c, q)
    BY <2>1, ColumnShows
  <2>3. ToSet(Left(c.Windows, placed)) = ToSet(c.Windows) \ placed
    BY <2>1, ColumnTyped, LeftOver DEF Left
  <2> QED BY <2>2, <2>3 DEF c, q
<1> HIDE DEF column, boxes, N, ts, fs
<1>8. OneEach(ps) /\ ToSet(ps) = ToSet(ts) \cup ToSet(fs) /\ IdsOf(ps) = IdsOf(ts) \cup IdsOf(fs)
  <2>1. IdsOf(ts) \cap IdsOf(fs) = {}
    BY <1>2, <1>5, <1>6
  <2> QED BY <1>1, <1>5, <1>6, <2>1, OneEachJoined
<1>9. IdsOf(ps) = WindowsOf(v) \ placed
  BY <1>2, <1>5, <1>6, <1>8
<1>10. ASSUME NEW p \in ToSet(fs) PROVE p.ID \in ToSet(v.Float)
  BY <1>6, IdsOfSet
<1>11. ASSUME NEW p \in ToSet(ts)
       PROVE  \E ci \in 1..N : p \in ToSet(column(ci)) /\ p.ID \in ToSet(v.Columns[ci].Windows)
  <2>1. PICK ci \in 1..N : p \in ToSet(column(ci))
    BY <1>5
  <2>2. p.ID \in IdsOf(column(ci))
    BY <2>1, IdsOfSet
  <2> QED BY <1>7, <2>1, <2>2
<1>12. ASSUME NEW ci \in 1..N
       PROVE  ToSet(v.Columns[ci].Windows) \subseteq Held(v.Columns)
  BY <1>3 DEF Held
<1>13. ASSUME NEW p \in ToSet(ps), NEW ci \in 1..N, p.ID \in ToSet(v.Columns[ci].Windows)
       PROVE  p \in ToSet(column(ci))
  <2>1. p \in ToSet(ts)
    BY <1>2, <1>8, <1>10, <1>12, <1>13
  <2>2. PICK cj \in 1..N : p \in ToSet(column(cj)) /\ p.ID \in ToSet(v.Columns[cj].Windows)
    BY <1>11, <2>1
  <2>3. ci = cj
    BY <1>3, <1>13, <2>2
  <2> QED BY <2>2, <2>3
<1>14. ASSUME NEW p \in ToSet(ps) PROVE RenderedOn(s, i, p)
  <2>1. CASE p \in ToSet(fs)
    BY <1>6, <2>1
  <2>2. CASE p \in ToSet(ts)
    <3>1. PICK ci \in 1..N : p \in ToSet(column(ci))
      BY <1>11, <2>2
    <3> QED BY <1>7, <3>1 DEF ColumnSeen, TileOf
  <2> QED BY <1>8, <2>1, <2>2
<1>15. ASSUME NEW p \in ToSet(ps), p.ID = focusedWindow(v) PROVE Seen(p)
  <2>1. CASE p \in ToSet(fs)
    BY <1>6, <2>1
  <2>2. CASE p \in ToSet(ts)
    <3>1. PICK ci \in 1..N : p \in ToSet(column(ci)) /\ p.ID \in ToSet(v.Columns[ci].Windows)
      BY <1>11, <2>2
    <3>2. p.ID \in Held(v.Columns) /\ p.ID # NoWindow
      BY <1>2, <1>12, <3>1, ViewAssumption
    <3>3. v.FocusLayer = "tiled"
      BY <1>2, <1>15, <3>2, FocusedIsThere
    <3>4. /\ focusedWindow(v) = selected(v.Columns[v.FocusCol])
          /\ v.Columns[v.FocusCol].Sel \in DOMAIN v.Columns[v.FocusCol].Windows
      BY <1>15, <3>2, <3>3, FocusedIsThere
    <3>5. v.FocusCol \in 1..N
      BY <1>3 DEF Sound, InRange
    <3>6. selected(v.Columns[v.FocusCol]) \in ToSet(v.Columns[v.FocusCol].Windows)
      BY <3>4 DEF selected, ToSet
    <3>7. p \in ToSet(column(v.FocusCol))
      BY <1>13, <1>15, <3>4, <3>5, <3>6
    <3> QED BY <1>7, <1>15, <3>4, <3>5, <3>7 DEF ColumnSeen
  <2> QED BY <1>8, <2>1, <2>2
<1>16. ASSUME NEW ci \in 1..N PROVE ShowsSelection(ps, v.Columns[ci])
  <2> SUFFICES ASSUME v.Columns[ci].Mode # "default", selected(v.Columns[ci]) \in IdsOf(ps),
                      NEW p \in ToSet(ps), p.ID \in ToSet(v.Columns[ci].Windows)
               PROVE  Seen(p) <=> p.ID = selected(v.Columns[ci])
    BY DEF ShowsSelection
  <2>1. p \in ToSet(column(ci))
    BY <1>13
  <2>2. PICK q \in ToSet(ps) : q.ID = selected(v.Columns[ci])
    BY IdsOfSet
  <2>3. selected(v.Columns[ci]) \in ToSet(v.Columns[ci].Windows)
    <3>1. q.ID # NoWindow
      <4>1. q.ID \in IdsOf(ps)
        BY IdsOfSet
      <4> QED BY <1>2, <1>9, <4>1, ViewAssumption
    <3> QED BY <2>2, <3>1 DEF selected, ToSet
  <2>4. selected(v.Columns[ci]) \in IdsOf(column(ci))
    BY <1>7, <1>9, <2>3
  <2> QED BY <1>7, <2>1, <2>4 DEF ColumnSeen
<1>17. FocusShown(s, i, focusedWindow(v), ps)
  BY <1>14, <1>15 DEF FocusShown
<1> QED BY <1>8, <1>9, <1>16, <1>17 DEF N

\* What an output renders, in every case.
LEMMA OutputPlaces ==
  ASSUME NEW s \in State, NEW scr \in Screens, NEW i \in DOMAIN s.Outputs, NEW placed,
         NEW v, v = shownView(s, i), Sound(v),
         NEW ps, ps = layoutOutput(s, scr, i, placed)
  PROVE  /\ OneEach(ps)
         /\ IdsOf(ps) \subseteq WindowsOf(v) \ placed
         /\ FocusShown(s, i, focusedWindow(v), ps)
         /\ ~Blank(s, scr, i) /\ focusedWindow(v) \notin placed \cup {NoWindow}
              => focusedWindow(v) \in IdsOf(ps)
         /\ (\A p \in ToSet(ps) : ~p.Fullscreen) =>
              \A ci \in 1..Len(v.Columns) : ShowsSelection(ps, v.Columns[ci])
<1> DEFINE f == focusedWindow(v)
<1>1. f # NoWindow => f \in WindowsOf(v)
  BY FocusedIsThere
<1>2. CASE Blank(s, scr, i)
  <2>1. ps = <<>>
    BY <1>2, OutputIs
  <2>2. OneEach(ps) /\ ToSet(ps) = {} /\ IdsOf(ps) = {}
    BY <2>1, OneEachOfNone
  <2>3. FocusShown(s, i, f, ps) /\ \A c : ShowsSelection(ps, c)
    BY <2>2 DEF FocusShown, ShowsSelection
  <2> QED BY <1>2, <2>2, <2>3
<1>3. CASE ~Blank(s, scr, i) /\ fullscreenOn(v, placed)
  <2>1. /\ OneEach(ps) /\ IdsOf(ps) = {f} /\ f \notin placed \cup {NoWindow}
        /\ AllSeen(s, i, ps) /\ \A p \in ToSet(ps) : p.Fullscreen
    BY <1>3, FullscreenPlaces
  <2>2. \E p \in ToSet(ps) : p.ID = f
    BY <2>1, IdsOfSet
  <2> HIDE DEF f
  <2>3. \E p \in ToSet(ps) : p.Fullscreen
    BY <2>1, <2>2
  <2>4. IdsOf(ps) \subseteq WindowsOf(v) \ placed
    BY <1>1, <2>1
  <2>5. FocusShown(s, i, f, ps)
    BY <2>1 DEF AllSeen, FocusShown
  <2> QED BY <2>1, <2>3, <2>4, <2>5 DEF f
<1>4. CASE ~Blank(s, scr, i) /\ ~fullscreenOn(v, placed)
  <2>1. /\ OneEach(ps)
        /\ IdsOf(ps) = WindowsOf(v) \ placed
        /\ FocusShown(s, i, focusedWindow(v), ps)
        /\ \A ci \in 1..Len(v.Columns) : ShowsSelection(ps, v.Columns[ci])
    BY <1>4, TiledPlaces
  <2> QED BY <1>1, <2>1
<1> QED BY <1>2, <1>3, <1>4

-----------------------------------------------------------------------------
(* All outputs.                                                            *)

\* One round of shownUpTo.
shownNext(s, scr, shown, n) ==
  IF n = 0 THEN <<>> ELSE shown[n - 1] \o layoutOutput(s, scr, n, IdsOf(shown[n - 1]))

\* What output i renders, after those before it.
outputPlacements(s, scr, i) == layoutOutput(s, scr, i, IdsOf(shownUpTo(s, scr)[i - 1]))

LEMMA ShownDefined ==
  ASSUME NEW s \in State, NEW scr
  PROVE  /\ shownUpTo(s, scr)[0] = <<>>
         /\ \A n \in 1..Len(s.Outputs) :
              shownUpTo(s, scr)[n] = shownUpTo(s, scr)[n - 1] \o outputPlacements(s, scr, n)
<1> DEFINE N == Len(s.Outputs)
           upTo(m, shown) == shown = [n \in 0..m |-> shownNext(s, scr, shown, n)]
           OK == {m \in 0..N : \E shown : upTo(m, shown)}
<1>0. N \in Nat
  BY OutputsTyped
<1> HIDE DEF N
<1>1. 0 \in OK
  <2> DEFINE none == [n \in 0..0 |-> <<>>]
  <2>1. ASSUME NEW n \in 0..0 PROVE shownNext(s, scr, none, n) = <<>>
    BY DEF shownNext
  <2>2. upTo(0, none)
    <3> DEFINE other == [n \in 0..0 |-> shownNext(s, scr, none, n)]
    <3>1. other = [n \in 0..0 |-> <<>>]
      BY <2>1
    <3> QED BY <3>1
  <2>3. \E f : upTo(0, f)
    <3> HIDE DEF none, upTo
    <3> QED BY <2>2
  <2> QED BY <1>0, <2>3
<1>2. ASSUME NEW m \in 0..N - 1, m \in OK PROVE m + 1 \in OK
  <2>1. PICK shown : upTo(m, shown)
    BY <1>2
  <2> DEFINE longer == [n \in 0..m + 1 |-> IF n \in 0..m THEN shown[n] ELSE shownNext(s, scr, shown, n)]
  <2>2. ASSUME NEW n \in 0..m + 1 PROVE longer[n] = shownNext(s, scr, longer, n)
    <3>1. \A k \in 0..m : longer[k] = shown[k]
      OBVIOUS
    <3>2. n # 0 => n - 1 \in 0..m
      OBVIOUS
    <3>3. shownNext(s, scr, longer, n) = shownNext(s, scr, shown, n)
      <4> HIDE DEF longer
      <4> QED BY <3>1, <3>2 DEF shownNext
    <3>4. n \in 0..m => shown[n] = shownNext(s, scr, shown, n)
      BY <2>1
    <3> QED BY <3>3, <3>4
  <2>3. upTo(m + 1, longer)
    BY <2>2
  <2>4. m + 1 \in 0..N /\ \E f : upTo(m + 1, f)
    <3>1. m + 1 \in 0..N
      BY <1>0
    <3> HIDE DEF longer
    <3> QED BY <2>3, <3>1
  <2> QED BY <2>4
<1>3. N \in OK
  <2> HIDE DEF OK
  <2>1. 0..N \subseteq OK
    BY <1>0, <1>1, <1>2, InductionUpTo
  <2> QED BY <1>0, <2>1
<1> DEFINE shown == CHOOSE f : upTo(N, f)
<1>4. upTo(N, shown)
  BY <1>3
<1>5. shownUpTo(s, scr) = shown
  BY DEF shownUpTo, shownNext, N
<1> HIDE DEF shown
<1>6. \A n \in 0..N : shown[n] = shownNext(s, scr, shown, n)
  BY <1>4
<1>7. shown[0] = <<>>
  <2>1. 0 \in 0..N
    BY <1>0
  <2> QED BY <1>6, <2>1 DEF shownNext
<1>8. ASSUME NEW n \in 1..N
      PROVE  shown[n] = shown[n - 1] \o layoutOutput(s, scr, n, IdsOf(shown[n - 1]))
  <2>1. n \in 0..N /\ n # 0
    BY <1>0
  <2> QED BY <1>6, <2>1 DEF shownNext
<1> QED BY <1>5, <1>7, <1>8 DEF outputPlacements, N

\* Every placement of ps is one that its output, one of the first n, renders.
FromOutputs(s, scr, n, ps) ==
  \A p \in ToSet(ps) :
    p.Output \in 1..n /\ p \in ToSet(outputPlacements(s, scr, p.Output))

\* The views on the outputs are sound.
SoundOutputs(s) == \A i \in DOMAIN s.Outputs : Sound(shownView(s, i))

LEMMA PlacementsOfOutput ==
  ASSUME NEW s \in State, NEW scr \in Screens, SoundOutputs(s), NEW i \in DOMAIN s.Outputs,
         NEW ps, ps = outputPlacements(s, scr, i)
  PROVE  /\ OneEach(ps)
         /\ IdsOf(ps) \subseteq WindowsOf(shownView(s, i))
         /\ IdsOf(ps) \cap IdsOf(shownUpTo(s, scr)[i - 1]) = {}
         /\ FocusShown(s, i, focusedWindow(shownView(s, i)), ps)
         /\ ~Blank(s, scr, i) /\ focusedWindow(shownView(s, i)) # NoWindow
              => focusedWindow(shownView(s, i)) \in IdsOf(ps) \cup IdsOf(shownUpTo(s, scr)[i - 1])
         /\ (\A p \in ToSet(ps) : ~p.Fullscreen) =>
              \A ci \in 1..Len(shownView(s, i).Columns) : ShowsSelection(ps, shownView(s, i).Columns[ci])
<1> DEFINE v == shownView(s, i)
           placed == IdsOf(shownUpTo(s, scr)[i - 1])
<1>1. Sound(v)
  BY DEF SoundOutputs
<1>2. ps = layoutOutput(s, scr, i, placed)
  BY DEF outputPlacements
<1>3. v = shownView(s, i)
  OBVIOUS
<1> HIDE DEF placed, v
<1>4. /\ OneEach(ps)
      /\ IdsOf(ps) \subseteq WindowsOf(v) \ placed
      /\ FocusShown(s, i, focusedWindow(v), ps)
      /\ ~Blank(s, scr, i) /\ focusedWindow(v) \notin placed \cup {NoWindow}
           => focusedWindow(v) \in IdsOf(ps)
      /\ (\A p \in ToSet(ps) : ~p.Fullscreen) =>
           \A ci \in 1..Len(v.Columns) : ShowsSelection(ps, v.Columns[ci])
  BY <1>1, <1>2, <1>3, OutputPlaces
<1> QED BY <1>4 DEF placed, v

LEMMA ShownPlaces ==
  ASSUME NEW s \in State, NEW scr \in Screens, SoundOutputs(s), NEW n \in 0..Len(s.Outputs),
         NEW ps, ps = shownUpTo(s, scr)[n]
  PROVE  /\ OneEach(ps)
         /\ FromOutputs(s, scr, n, ps)
         /\ \A i \in 1..n : ToSet(outputPlacements(s, scr, i)) \subseteq ToSet(ps)
<1> DEFINE N == Len(s.Outputs)
           shown == shownUpTo(s, scr)
           Right(m) == /\ OneEach(shown[m])
                       /\ FromOutputs(s, scr, m, shown[m])
                       /\ \A i \in 1..m : ToSet(outputPlacements(s, scr, i)) \subseteq ToSet(shown[m])
           OK == {m \in 0..N : Right(m)}
<1>1. N \in Nat /\ DOMAIN s.Outputs = 1..N
  BY OutputsTyped
<1>2. shown[0] = <<>> /\ \A m \in 1..N : shown[m] = shown[m - 1] \o outputPlacements(s, scr, m)
  BY ShownDefined
<1> HIDE DEF N, shown
<1>3. 0 \in OK
  <2>1. OneEach(shown[0]) /\ ToSet(shown[0]) = {}
    BY <1>2, OneEachOfNone
  <2>2. FromOutputs(s, scr, 0, shown[0])
    BY <2>1 DEF FromOutputs
  <2> QED BY <1>1, <2>1, <2>2
<1>4. ASSUME NEW m \in 0..N - 1, m \in OK PROVE m + 1 \in OK
  <2> DEFINE k == m + 1
             out == outputPlacements(s, scr, k)
  <2>1. k \in 1..N /\ k \in DOMAIN s.Outputs /\ k - 1 = m /\ k \in 0..N
    BY <1>1
  <2>2. shown[k] = shown[m] \o out
    BY <1>2, <2>1
  <2>3. Right(m)
    BY <1>4
  <2>4. OneEach(out) /\ IdsOf(out) \cap IdsOf(shown[m]) = {} /\ FocusShown(s, k, focusedWindow(shownView(s, k)), out)
    <3> HIDE DEF k
    <3>1. OneEach(out) /\ IdsOf(out) \cap IdsOf(shownUpTo(s, scr)[k - 1]) = {}
          /\ FocusShown(s, k, focusedWindow(shownView(s, k)), out)
      BY <2>1, PlacementsOfOutput
    <3> QED BY <2>1, <3>1 DEF shown
  <2>5. OneEach(shown[k]) /\ ToSet(shown[k]) = ToSet(shown[m]) \cup ToSet(out)
    <3> HIDE DEF out, k
    <3> QED BY <2>2, <2>3, <2>4, OneEachJoined
  <2>6. FromOutputs(s, scr, k, shown[k])
    <3> SUFFICES ASSUME NEW p \in ToSet(shown[k])
                 PROVE  p.Output \in 1..k /\ p \in ToSet(outputPlacements(s, scr, p.Output))
      BY DEF FromOutputs
    <3>1. CASE p \in ToSet(shown[m])
      <4>1. p.Output \in 1..m /\ p \in ToSet(outputPlacements(s, scr, p.Output))
        BY <2>3, <3>1 DEF FromOutputs
      <4> QED BY <4>1
    <3>2. CASE p \in ToSet(out)
      <4>1. p.Output = k
        BY <2>4, <3>2 DEF FocusShown, RenderedOn
      <4> QED BY <3>2, <4>1
    <3> QED BY <2>5, <3>1, <3>2
  <2>7. \A i \in 1..k : ToSet(outputPlacements(s, scr, i)) \subseteq ToSet(shown[k])
    <3> SUFFICES ASSUME NEW i \in 1..k
                 PROVE  ToSet(outputPlacements(s, scr, i)) \subseteq ToSet(shown[k])
      OBVIOUS
    <3>1. CASE i = k
      BY <2>5, <3>1
    <3>2. CASE i # k
      <4>1. i \in 1..m
        BY <3>2
      <4> QED BY <2>3, <2>5, <4>1
    <3> QED BY <3>1, <3>2
  <2>8. Right(k)
    BY <2>5, <2>6, <2>7
  <2> HIDE DEF Right
  <2> QED BY <2>1, <2>8
<1>5. 0..N \subseteq OK
  <2> HIDE DEF OK
  <2> QED BY <1>1, <1>3, <1>4, InductionUpTo
<1>6. n \in OK
  BY <1>5 DEF N
<1> QED BY <1>6 DEF shown

-----------------------------------------------------------------------------
(* The whole layout.                                                       *)

\* The sequence of a finite set holds each of its elements once.
LEMMA SequenceOfSet ==
  ASSUME NEW S \in SUBSET WindowID, NEW q, q = SetToSeq(S)
  PROVE  q \in Seq(WindowID) /\ IsInjective(q) /\ ToSet(q) = S
<1> DEFINE n == Cardinality(S)
<1>1. IsFiniteSet(S)
  BY WindowsAssumption, FS_Subset
<1>2. n \in Nat /\ ExistsBijection(1..n, S)
  BY <1>1, FS_CardinalityType
<1>3. q = CHOOSE f \in [1..n -> S] : IsInjective(f)
  BY DEF SetToSeq
<1> HIDE DEF n
<1>4. \E f \in [1..n -> S] : IsInjective(f)
  BY <1>2 DEF ExistsBijection, Bijection, Injection
<1>5. q \in [1..n -> S] /\ IsInjective(q)
  BY <1>3, <1>4
<1>6. q \in Injection(1..n, S)
  BY <1>5 DEF Injection
<1>7. Cardinality(1..n) = n
  BY <1>2, FS_Interval
<1>8. q \in Surjection(1..n, S)
  BY <1>1, <1>6, <1>7, FS_Injection DEF n
<1>9. ToSet(q) = S
  BY <1>5, <1>8 DEF Surjection, ToSet
<1>10. q \in [1..n -> WindowID]
  BY <1>5
<1> QED BY <1>2, <1>5, <1>9, <1>10, IsASeq

\* The managed windows.
ManagedWindows(s) == {id \in WindowID : Managed(s, id)}

\* The windows shown on an output are managed.
LEMMA ShownAreManaged ==
  ASSUME NEW s, Tidy(s), NEW i \in DOMAIN s.Outputs
  PROVE  /\ Sound(shownView(s, i))
         /\ WindowsOf(shownView(s, i)) \subseteq ManagedWindows(s)
<1>1. s \in State
  BY TidyParts
<1>2. s.Outputs[i].View \in ViewName
  BY <1>1, OutputsTyped
<1>3. Sound(shownView(s, i)) /\ WindowsOf(shownView(s, i)) = Carried(s, s.Outputs[i].View)
  BY <1>2, TidyParts DEF shownView
<1>4. Carried(s, s.Outputs[i].View) \subseteq ManagedWindows(s)
  BY DEF Carried, Carrying, ManagedWindows, Managed
<1> QED BY <1>3, <1>4

\* What output 0 stands for: a window that no output renders.
LeftHidden(p) == p.Output = 0 /\ p.Focused = FALSE /\ ~Seen(p)

LEMMA HiddenPlaces ==
  ASSUME NEW q \in Seq(WindowID), IsInjective(q),
         NEW hs, hs = [k \in DOMAIN q |-> hiddenPlacement(q[k])]
  PROVE  OneEach(hs) /\ IdsOf(hs) = ToSet(q) /\ \A p \in ToSet(hs) : LeftHidden(p)
<1>1. DOMAIN q = 1..Len(q) /\ Len(q) \in Nat
  OBVIOUS
<1>2. hs = [k \in 1..Len(q) |-> hs[k]] /\ \A k \in 1..Len(q) : hs[k] = hiddenPlacement(q[k])
  BY <1>1
<1>3. ASSUME NEW id PROVE hiddenPlacement(id).ID = id /\ LeftHidden(hiddenPlacement(id))
  <2> DEFINE p == hiddenPlacement(id)
  <2>1. p.ID = id /\ p.Output = 0
    BY DEF hiddenPlacement
  <2>2. p.Focused = FALSE
    BY DEF hiddenPlacement
  <2>3. p.Hidden = TRUE
    BY DEF hiddenPlacement
  <2> HIDE DEF p
  <2>4. ~Seen(p)
    BY <2>3 DEF Seen
  <2>5. LeftHidden(p)
    BY <2>1, <2>2, <2>4 DEF LeftHidden
  <2> QED BY <2>1, <2>5 DEF p
<1>4. OneEach(hs) /\ IdsOf(hs) = ToSet(q) /\ DOMAIN hs = 1..Len(q)
  BY <1>2, <1>3, PlacementsOfIds
<1>5. \A p \in ToSet(hs) : LeftHidden(p)
  BY <1>2, <1>3, <1>4 DEF ToSet
<1> QED BY <1>4, <1>5

\* Every placement of ps is one that its output renders, or out of sight.
LaidOut(s, scr, ps) ==
  \A p \in ToSet(ps) :
    \/ LeftHidden(p)
    \/ p.Output \in DOMAIN s.Outputs /\ p \in ToSet(outputPlacements(s, scr, p.Output))

LEMMA LayoutPlaces ==
  ASSUME NEW s, Tidy(s), NEW scr \in Screens, NEW ps, ps = Layout(s, scr)
  PROVE  /\ OneEach(ps) /\ IdsOf(ps) = ManagedWindows(s)
         /\ LaidOut(s, scr, ps)
         /\ \A i \in DOMAIN s.Outputs : ToSet(outputPlacements(s, scr, i)) \subseteq ToSet(ps)
<1> DEFINE N == Len(s.Outputs)
           shown == shownUpTo(s, scr)[N]
           others == ManagedWindows(s) \ IdsOf(shown)
           q  == SetToSeq(others)
           hs == [k \in DOMAIN q |-> hiddenPlacement(q[k])]
<1>1. s \in State
  BY TidyParts
<1>2. N \in Nat /\ DOMAIN s.Outputs = 1..N
  BY <1>1, OutputsTyped
<1>3. ps = shown \o hs
  BY DEF Layout, ManagedWindows
<1>4. SoundOutputs(s)
  BY ShownAreManaged DEF SoundOutputs
<1>5. /\ OneEach(shown) /\ FromOutputs(s, scr, N, shown)
      /\ \A i \in 1..N : ToSet(outputPlacements(s, scr, i)) \subseteq ToSet(shown)
  <2>1. N \in 0..Len(s.Outputs)
    BY <1>2
  <2> HIDE DEF N
  <2> QED BY <1>1, <1>4, <2>1, ShownPlaces
<1>6. others \in SUBSET WindowID
  BY DEF ManagedWindows
<1>7. q \in Seq(WindowID) /\ IsInjective(q) /\ ToSet(q) = others
  <2> HIDE DEF others
  <2> QED BY <1>6, SequenceOfSet
<1>8. OneEach(hs) /\ IdsOf(hs) = others /\ \A p \in ToSet(hs) : LeftHidden(p)
  <2>1. hs = [k \in DOMAIN q |-> hiddenPlacement(q[k])]
    OBVIOUS
  <2> HIDE DEF hs, q, others
  <2> QED BY <1>7, <2>1, HiddenPlaces
<1> HIDE DEF hs, q, shown, N
<1>9. IdsOf(shown) \subseteq ManagedWindows(s)
  <2> SUFFICES ASSUME NEW p \in ToSet(shown) PROVE p.ID \in ManagedWindows(s)
    BY IdsOfSet
  <2>1. p.Output \in DOMAIN s.Outputs /\ p \in ToSet(outputPlacements(s, scr, p.Output))
    BY <1>2, <1>5 DEF FromOutputs
  <2> DEFINE i == p.Output
  <2> HIDE DEF i
  <2>2. i \in DOMAIN s.Outputs /\ p \in ToSet(outputPlacements(s, scr, i))
    BY <2>1 DEF i
  <2>3. IdsOf(outputPlacements(s, scr, i)) \subseteq WindowsOf(shownView(s, i))
    BY <1>1, <1>4, <2>2, PlacementsOfOutput
  <2>4. WindowsOf(shownView(s, i)) \subseteq ManagedWindows(s)
    BY <2>2, ShownAreManaged
  <2>5. p.ID \in IdsOf(outputPlacements(s, scr, i))
    BY <2>2, IdsOfSet
  <2> QED BY <2>3, <2>4, <2>5
<1>10. OneEach(ps) /\ ToSet(ps) = ToSet(shown) \cup ToSet(hs) /\ IdsOf(ps) = IdsOf(shown) \cup IdsOf(hs)
  <2>1. IdsOf(shown) \cap IdsOf(hs) = {}
    BY <1>8
  <2> QED BY <1>3, <1>5, <1>8, <2>1, OneEachJoined
<1>11. IdsOf(ps) = ManagedWindows(s)
  BY <1>8, <1>9, <1>10
<1>12. LaidOut(s, scr, ps)
  BY <1>2, <1>5, <1>8, <1>10 DEF LaidOut, FromOutputs
<1> QED BY <1>2, <1>5, <1>10, <1>11, <1>12

\* The placement of a window, when it has one.
LEMMA PlacementOfId ==
  ASSUME NEW ps, OneEach(ps), NEW id
  PROVE  /\ id \notin IdsOf(ps) => PlacementsOf(ps, id) = {} /\ Cardinality(PlacementsOf(ps, id)) = 0
         /\ id \in IdsOf(ps) =>
              /\ Cardinality(PlacementsOf(ps, id)) = 1
              /\ placementOf(ps, id) \in ToSet(ps) /\ placementOf(ps, id).ID = id
              /\ Hoverable(ps, id) <=> Seen(placementOf(ps, id))
<1>1. DOMAIN ps = 1..Len(ps)
  BY LenProperties DEF OneEach
<1>2. CASE id \notin IdsOf(ps)
  <2>1. PlacementsOf(ps, id) = {}
    BY <1>2 DEF PlacementsOf, IdsOf
  <2> QED BY <1>2, <2>1, FS_EmptySet
<1>3. CASE id \in IdsOf(ps)
  <2>1. PICK k \in DOMAIN ps : ps[k].ID = id
    BY <1>3 DEF IdsOf
  <2>2. PlacementsOf(ps, id) = {k}
    BY <1>1, <2>1 DEF PlacementsOf, OneEach
  <2>3. Cardinality(PlacementsOf(ps, id)) = 1
    BY <2>2, FS_Singleton
  <2>4. placementOf(ps, id) = ps[k]
    BY <2>2 DEF placementOf
  <2>5. Hoverable(ps, id) <=> Seen(ps[k])
    BY <2>2 DEF Hoverable, Seen
  <2> QED BY <1>3, <2>1, <2>3, <2>4, <2>5 DEF ToSet
<1> QED BY <1>2, <1>3

-----------------------------------------------------------------------------
(* The theorems.                                                           *)

LEMMA PlacedOnceIn ==
  ASSUME WmInv
  PROVE  EachWindowPlacedOnce
<1> SUFFICES ASSUME NEW scr \in Screens, NEW id \in WindowID
             PROVE  Cardinality(PlacementsOf(Layout(wm, scr), id)) = IF Managed(wm, id) THEN 1 ELSE 0
  BY DEF EachWindowPlacedOnce
<1> DEFINE ps == Layout(wm, scr)
<1>1. Tidy(wm)
  BY DEF WmInv, Settled
<1>2. OneEach(ps) /\ IdsOf(ps) = ManagedWindows(wm)
  BY <1>1, LayoutPlaces
<1>3. id \in IdsOf(ps) <=> Managed(wm, id)
  BY <1>2 DEF ManagedWindows
<1> HIDE DEF ps
<1>4. Cardinality(PlacementsOf(ps, id)) = IF Managed(wm, id) THEN 1 ELSE 0
  BY <1>2, <1>3, PlacementOfId
<1> QED BY <1>4 DEF ps

LEMMA FocusIsSeenIn ==
  ASSUME WmInv
  PROVE  FocusIsSeen
<1> SUFFICES ASSUME wm.Focused # NoWindow, NEW scr \in Screens
             PROVE  LET ps == Layout(wm, scr)
                        p  == placementOf(ps, wm.Focused)
                    IN /\ p.Output = wm.FocusOutput => Hoverable(ps, wm.Focused)
                       /\ {k \in DOMAIN ps : ps[k].Focused} \subseteq PlacementsOf(ps, wm.Focused)
                       /\ /\ \A i \in 1..wm.FocusOutput - 1 : ~contains(viewOn(i), wm.Focused)
                          /\ HasArea(scr, wm.FocusOutput)
                          => p.Output = wm.FocusOutput /\ p.Focused
  BY DEF FocusIsSeen
<1> DEFINE ps == Layout(wm, scr)
           f  == wm.Focused
           p  == placementOf(ps, f)
           a  == wm.FocusOutput
           v  == shownView(wm, a)
           out == outputPlacements(wm, scr, a)
<1>1. Tidy(wm) /\ wm \in State /\ Distinct(wm)
  BY TidyParts DEF WmInv, Settled
<1>2. wm.Outputs # <<>> /\ a = activeOutput(wm) /\ f = focusedWindow(activeView(wm))
  BY DEF WmInv, Settled
<1>3. a \in DOMAIN wm.Outputs /\ a \in 1..Len(wm.Outputs) /\ Len(wm.Outputs) \in Nat
  BY <1>1, <1>2, ActiveOutputType, OutputsTyped
<1>4. f = focusedWindow(v)
  BY <1>2 DEF activeView, activeName, shownView
<1>5. SoundOutputs(wm)
  BY <1>1, ShownAreManaged DEF SoundOutputs
<1>6. /\ OneEach(ps) /\ IdsOf(ps) = ManagedWindows(wm)
      /\ LaidOut(wm, scr, ps)
      /\ ToSet(out) \subseteq ToSet(ps)
  <2> HIDE DEF a
  <2> QED BY <1>1, <1>3, LayoutPlaces
<1>7. f \in WindowsOf(v) /\ WindowsOf(v) \subseteq ManagedWindows(wm)
  <2>1. Sound(v)
    BY <1>3, <1>5 DEF SoundOutputs
  <2>2. focusedWindow(v) \in WindowsOf(v)
    BY <1>4, <2>1, FocusedIsThere
  <2> QED BY <1>1, <1>3, <1>4, <2>2, ShownAreManaged
<1> HIDE DEF ps, f, p, a, v, out
<1>8. /\ p \in ToSet(ps) /\ p.ID = f
      /\ Hoverable(ps, f) <=> Seen(p)
  BY <1>6, <1>7, PlacementOfId DEF p
<1>9. ASSUME NEW i \in DOMAIN wm.Outputs
      PROVE  FocusShown(wm, i, focusedWindow(shownView(wm, i)), outputPlacements(wm, scr, i))
  BY <1>1, <1>5, PlacementsOfOutput
<1>10. FocusShown(wm, a, f, out)
  BY <1>3, <1>4, <1>9 DEF out, v
<1>11. p.Output = a => Hoverable(ps, f)
  <2> SUFFICES ASSUME p.Output = a PROVE Hoverable(ps, f)
    OBVIOUS
  <2>1. p \in ToSet(out)
    BY <1>3, <1>6, <1>8 DEF LaidOut, LeftHidden, out
  <2> QED BY <1>8, <1>10, <2>1 DEF FocusShown
<1>12. {k \in DOMAIN ps : ps[k].Focused} \subseteq PlacementsOf(ps, f)
  <2> SUFFICES ASSUME NEW k \in DOMAIN ps, ps[k].Focused PROVE ps[k].ID = f
    BY DEF PlacementsOf
  <2>1. PICK r : r = ps[k]
    OBVIOUS
  <2>2. r \in ToSet(ps) /\ r.Focused
    BY <2>1 DEF ToSet
  <2>3. ~LeftHidden(r)
    BY <2>2, Zenon DEF LeftHidden
  <2>4. r.Output \in DOMAIN wm.Outputs /\ r \in ToSet(outputPlacements(wm, scr, r.Output))
    BY <1>6, <2>2, <2>3 DEF LaidOut
  <2>5. RenderedOn(wm, r.Output, r)
    BY <1>9, <2>4 DEF FocusShown
  <2>6. r.ID = f
    BY <2>2, <2>5, Zenon DEF RenderedOn, f
  <2> QED BY <2>1, <2>6
<1>13. ASSUME \A i \in 1..a - 1 : ~contains(viewOn(i), f), HasArea(scr, a)
       PROVE  p.Output = a /\ p.Focused
  <2>1. ~Blank(wm, scr, a)
    <3>1. exists(wm, wm.Outputs[a].View)
      BY <1>1, <1>3 DEF Distinct
    <3>2. areaOf(scr, a) = outputArea(wm, scr, a)
      BY DEF areaOf, outputArea
    <3>3. outputArea(wm, scr, a) \in Box
      BY <1>1, <1>3, OutputTyped
    <3>4. outputArea(wm, scr, a).W > 0 /\ outputArea(wm, scr, a).H > 0
      BY <1>13, <3>2 DEF HasArea
    <3> QED BY <3>1, <3>3, <3>4 DEF Blank, Box
  <2> DEFINE before == shownUpTo(wm, scr)[a - 1]
  <2>2. f \in IdsOf(out) \cup IdsOf(before)
    <3>1. ~Blank(wm, scr, a) /\ focusedWindow(shownView(wm, a)) # NoWindow
            => focusedWindow(shownView(wm, a)) \in IdsOf(out) \cup IdsOf(shownUpTo(wm, scr)[a - 1])
      BY <1>1, <1>3, <1>5, PlacementsOfOutput DEF out
    <3>2. focusedWindow(shownView(wm, a)) = f /\ f # NoWindow
      BY <1>4 DEF v, f
    <3> QED BY <2>1, <3>1, <3>2
  <2>3. f \notin IdsOf(before)
    <3>1. a - 1 \in 0..Len(wm.Outputs)
      BY <1>3
    <3>2. FromOutputs(wm, scr, a - 1, before)
      <4> DEFINE m == a - 1
      <4>1. m \in 0..Len(wm.Outputs) /\ before = shownUpTo(wm, scr)[m]
        BY <3>1
      <4> HIDE DEF m, before
      <4>2. FromOutputs(wm, scr, m, before)
        BY <1>1, <1>5, <4>1, ShownPlaces
      <4> QED BY <4>2 DEF m
    <3> HIDE DEF before
    <3> SUFFICES ASSUME NEW r \in ToSet(before), r.ID = f PROVE FALSE
      BY IdsOfSet
    <3>3. PICK i : i = r.Output
      OBVIOUS
    <3>4. i \in 1..a - 1 /\ r \in ToSet(outputPlacements(wm, scr, i))
      BY <3>2, <3>3 DEF FromOutputs
    <3>5. i \in DOMAIN wm.Outputs
      BY <1>1, <1>3, <3>4, OutputsTyped
    <3>6. IdsOf(outputPlacements(wm, scr, i)) \subseteq WindowsOf(shownView(wm, i))
      BY <1>1, <1>5, <3>5, PlacementsOfOutput
    <3>7. r.ID \in IdsOf(outputPlacements(wm, scr, i))
      BY <3>4, IdsOfSet
    <3>8. contains(shownView(wm, i), r.ID)
      BY <3>6, <3>7, WindowsOfView
    <3>9. shownView(wm, i) = viewOn(i)
      BY DEF shownView, viewOn
    <3> QED BY <1>13, <3>4, <3>8, <3>9
  <2>4. PICK r \in ToSet(out) : r.ID = f
    BY <2>2, <2>3, IdsOfSet
  <2>5. r = p
    BY <1>6, <1>8, <2>4, OneEachOf
  <2>6. RenderedOn(wm, a, p)
    BY <1>10, <2>4, <2>5 DEF FocusShown
  <2>7. p.Output = a
    BY <2>6 DEF RenderedOn
  <2>8. p.Focused
    <3>1. p.Focused = (p.ID = wm.Focused)
      BY <2>6 DEF RenderedOn
    <3>2. p.ID = wm.Focused
      BY <1>8 DEF f
    <3> QED BY <3>1, <3>2, Zenon
  <2> QED BY <2>7, <2>8
<1> QED BY <1>11, <1>12, <1>13, Zenon DEF ps, f, p, a

LEMMA SelectionsShownIn ==
  ASSUME WmInv
  PROVE  ColumnsShowTheirSelection
<1> SUFFICES ASSUME NEW scr \in Screens, NEW i \in DOMAIN wm.Outputs,
                    ~(\E k \in DOMAIN Layout(wm, scr) :
                        Layout(wm, scr)[k].Output = i /\ Layout(wm, scr)[k].Fullscreen),
                    NEW c \in ToSet(viewOn(i).Columns), c.Mode # "default", c.Windows # <<>>,
                    placementOf(Layout(wm, scr), selected(c)).Output = i
             PROVE  {id \in ToSet(c.Windows) : placementOf(Layout(wm, scr), id).Output = i
                                               /\ Hoverable(Layout(wm, scr), id)} = {selected(c)}
  BY DEF ColumnsShowTheirSelection
<1> DEFINE ps == Layout(wm, scr)
           v == shownView(wm, i)
           out == outputPlacements(wm, scr, i)
           sel == selected(c)
<1>1. Tidy(wm) /\ wm \in State
  BY TidyParts DEF WmInv, Settled
<1>2. SoundOutputs(wm) /\ Sound(v) /\ WindowsOf(v) \subseteq ManagedWindows(wm)
  BY <1>1, ShownAreManaged DEF SoundOutputs
<1>3. PICK ci \in 1..Len(v.Columns) : c = v.Columns[ci]
  <2>1. c \in ToSet(v.Columns)
    BY DEF viewOn, shownView
  <2>2. DOMAIN v.Columns = 1..Len(v.Columns)
    BY <1>2, ColumnsOfSound
  <2> QED BY <2>1, <2>2 DEF ToSet
<1>4. ToSet(c.Windows) \subseteq ManagedWindows(wm) /\ sel \in ToSet(c.Windows)
  <2>1. ToSet(c.Windows) \subseteq WindowsOf(v) /\ ColumnInRange(c, Len(v.Columns) = 1)
    BY <1>2, <1>3, SelectionOf
  <2>2. sel \in ToSet(c.Windows)
    BY <2>1 DEF ColumnInRange, selected, ToSet
  <2> QED BY <1>2, <2>1, <2>2
<1>5. /\ OneEach(ps) /\ IdsOf(ps) = ManagedWindows(wm)
      /\ LaidOut(wm, scr, ps)
      /\ ToSet(out) \subseteq ToSet(ps)
  BY <1>1, LayoutPlaces
<1>6. /\ OneEach(out) /\ FocusShown(wm, i, focusedWindow(v), out)
      /\ (\A p \in ToSet(out) : ~p.Fullscreen) =>
           \A cj \in 1..Len(v.Columns) : ShowsSelection(out, v.Columns[cj])
  BY <1>1, <1>2, PlacementsOfOutput
<1>7. ~(\E k \in DOMAIN ps : ps[k].Output = i /\ ps[k].Fullscreen) /\ placementOf(ps, sel).Output = i
  OBVIOUS
<1> HIDE DEF ps, v, out, sel
<1>8. \A p \in ToSet(out) : ~p.Fullscreen
  <2> SUFFICES ASSUME NEW p \in ToSet(out), p.Fullscreen PROVE FALSE
    OBVIOUS
  <2>1. p.Output = i /\ p \in ToSet(ps)
    BY <1>5, <1>6 DEF FocusShown, RenderedOn
  <2>2. PICK k \in DOMAIN ps : p = ps[k]
    BY <2>1 DEF ToSet
  <2> QED BY <1>7, <2>1, <2>2
<1>9. ShowsSelection(out, c)
  BY <1>3, <1>6, <1>8
<1>10. ASSUME NEW id \in ToSet(c.Windows), placementOf(ps, id).Output = i
       PROVE  /\ placementOf(ps, id) \in ToSet(out) /\ placementOf(ps, id).ID = id
              /\ Hoverable(ps, id) <=> Seen(placementOf(ps, id))
  <2>1. id \in IdsOf(ps)
    BY <1>4, <1>5
  <2> DEFINE p == placementOf(ps, id)
  <2>2. p \in ToSet(ps) /\ p.ID = id /\ (Hoverable(ps, id) <=> Seen(p))
    BY <1>5, <2>1, PlacementOfId
  <2>3. p.Output = i /\ i # 0
    BY <1>1, <1>10, OutputsTyped
  <2> HIDE DEF p
  <2>4. p \in ToSet(out)
    BY <1>5, <2>2, <2>3 DEF LaidOut, LeftHidden, out
  <2> QED BY <2>2, <2>4 DEF p
<1>11. sel \in IdsOf(out)
  BY <1>4, <1>7, <1>10, IdsOfSet
<1>12. ASSUME NEW id \in ToSet(c.Windows), placementOf(ps, id).Output = i
       PROVE  Hoverable(ps, id) <=> id = sel
  <2> DEFINE p == placementOf(ps, id)
  <2>1. p \in ToSet(out) /\ p.ID = id /\ (Hoverable(ps, id) <=> Seen(p))
    BY <1>10, <1>12
  <2> HIDE DEF p
  <2>2. Seen(p) <=> p.ID = selected(c)
    BY <1>9, <1>11, <2>1 DEF ShowsSelection, sel
  <2> QED BY <2>1, <2>2 DEF sel
<1>13. {id \in ToSet(c.Windows) : placementOf(ps, id).Output = i /\ Hoverable(ps, id)} = {sel}
  BY <1>4, <1>7, <1>12
<1> QED BY <1>13 DEF ps, sel

\* "A window appears at most once", and every managed window does, whatever the
\* number of outputs, the views they share windows with and the screens.
THEOREM WindowsArePlacedOnce == Spec => []EachWindowPlacedOnce
<1>1. WmInv => EachWindowPlacedOnce
  BY PlacedOnceIn
<1> QED BY <1>1, WmInvHolds, PTL

\* The focus is on something the user sees: the focused window is neither hidden,
\* nor a strip, nor behind a fullscreen window of the active output, and it is the
\* only one drawn as focused.
THEOREM FocusIsOnScreen == Spec => []FocusIsSeen
<1>1. WmInv => FocusIsSeen
  BY FocusIsSeenIn
<1> QED BY <1>1, WmInvHolds, PTL

\* A column in stack or max mode shows the window it selects and no other, on
\* every output, with or without the focus.
THEOREM SelectionsAreShown == Spec => []ColumnsShowTheirSelection
<1>1. WmInv => ColumnsShowTheirSelection
  BY SelectionsShownIn
<1> QED BY <1>1, WmInvHolds, PTL

-----------------------------------------------------------------------------
(* Going round the views.                                                  *)

\* The remainder of what is less than one round before or beyond 0..N-1.
LEMMA Wraps ==
  ASSUME NEW N \in Nat, N > 0, NEW x \in Int, -N <= x, x < N + N
  PROVE  x % N = IF x < 0 THEN x + N ELSE IF x < N THEN x ELSE x - N
<1> DEFINE q == x \div N
           m == x % N
<1>1. q \in Int /\ m \in 0..N - 1 /\ x = N * q + m
  OBVIOUS
<1> HIDE DEF q, m
<1>2. q \in {-1, 0, 1}
  <2>1. q >= -1
    <3> SUFFICES ASSUME q <= -2 PROVE FALSE
      BY <1>1
    <3>1. N * q <= N * (-2)
      <4>1. -2 - q \in Nat
        BY <1>1
      <4>2. N * (-2 - q) >= 0
        BY <4>1
      <4> QED BY <1>1, <4>2
    <3> QED BY <1>1, <3>1
  <2>2. q <= 1
    <3> SUFFICES ASSUME q >= 2 PROVE FALSE
      BY <1>1
    <3>1. N * q >= N * 2
      <4>1. q - 2 \in Nat
        BY <1>1
      <4>2. N * (q - 2) >= 0
        BY <4>1
      <4> QED BY <1>1, <4>2
    <3> QED BY <1>1, <3>1
  <2> QED BY <1>1, <2>1, <2>2
<1>3. CASE q = -1
  <2>1. x = m - N
    BY <1>1, <1>3
  <2> QED BY <1>1, <2>1 DEF m
<1>4. CASE q = 0
  <2>1. x = m
    BY <1>1, <1>4
  <2> QED BY <1>1, <2>1 DEF m
<1>5. CASE q = 1
  <2>1. x = m + N
    BY <1>1, <1>5
  <2> QED BY <1>1, <2>1 DEF m
<1> QED BY <1>2, <1>3, <1>4, <1>5

\* Going from the place a in the direction delta, y comes no later than x.
Passed(delta, a, y, x) ==
  IF delta = 1
  THEN IF a < x THEN a < y /\ y <= x ELSE a < y \/ y <= x
  ELSE IF x < a THEN y < a /\ x <= y ELSE y < a \/ x <= y

\* Any place is some steps away, and the places on the way are fewer steps away.
LEMMA StepsAway ==
  ASSUME NEW delta \in {-1, 1}, NEW N \in Nat, NEW a \in 0..N - 1, NEW x \in 0..N - 1, x # a
  PROVE  \E d \in 1..N - 1 :
           /\ (a + delta * d) % N = x
           /\ \A p \in 1..d : /\ (a + delta * p) % N \in 0..N - 1
                              /\ (a + delta * p) % N # a
                              /\ Passed(delta, a, (a + delta * p) % N, x)
<1> DEFINE rem(y) == IF y < 0 THEN y + N ELSE IF y < N THEN y ELSE y - N
<1>1. ASSUME NEW p \in 1..N - 1
      PROVE  (a + delta * p) % N = rem(IF delta = 1 THEN a + p ELSE a - p)
  <2> DEFINE y == a + delta * p
  <2>1. y \in Int /\ -N <= y /\ y < N + N /\ y = IF delta = 1 THEN a + p ELSE a - p
    BY <1>1
  <2> HIDE DEF y
  <2>2. y % N = rem(y)
    BY <2>1, Wraps
  <2> QED BY <2>1, <2>2 DEF y
<1>2. CASE delta = 1
  <2> DEFINE d == IF a < x THEN x - a ELSE x - a + N
  <2>1. d \in 1..N - 1 /\ rem(a + d) = x
    OBVIOUS
  <2>2. ASSUME NEW p \in 1..d
        PROVE  rem(a + p) \in 0..N - 1 /\ rem(a + p) # a /\ Passed(delta, a, rem(a + p), x)
    BY <1>2, <2>1 DEF Passed
  <2> HIDE DEF d, rem
  <2>3. \A p \in 1..d : p \in 1..N - 1
    BY <2>1
  <2>4. (a + delta * d) % N = x
    BY <1>1, <1>2, <2>1
  <2>5. ASSUME NEW p \in 1..d
        PROVE  /\ (a + delta * p) % N \in 0..N - 1
               /\ (a + delta * p) % N # a
               /\ Passed(delta, a, (a + delta * p) % N, x)
    <3>1. (a + delta * p) % N = rem(a + p)
      BY <1>1, <1>2, <2>3
    <3> QED BY <2>2, <3>1
  <2> QED BY <2>1, <2>4, <2>5
<1>3. CASE delta = -1
  <2> DEFINE d == IF x < a THEN a - x ELSE a - x + N
  <2>1. d \in 1..N - 1 /\ rem(a - d) = x
    OBVIOUS
  <2>2. ASSUME NEW p \in 1..d
        PROVE  rem(a - p) \in 0..N - 1 /\ rem(a - p) # a /\ Passed(delta, a, rem(a - p), x)
    BY <1>3, <2>1 DEF Passed
  <2> HIDE DEF d, rem
  <2>3. \A p \in 1..d : p \in 1..N - 1
    BY <2>1
  <2>4. (a + delta * d) % N = x
    BY <1>1, <1>3, <2>1
  <2>5. ASSUME NEW p \in 1..d
        PROVE  /\ (a + delta * p) % N \in 0..N - 1
               /\ (a + delta * p) % N # a
               /\ Passed(delta, a, (a + delta * p) % N, x)
    <3>1. (a + delta * p) % N = rem(a - p)
      BY <1>1, <1>3, <2>3
    <3> QED BY <2>2, <3>1
  <2> QED BY <2>1, <2>4, <2>5
<1> QED BY <1>2, <1>3

-----------------------------------------------------------------------------
(* One command.                                                            *)

\* The views that going in the direction delta comes by after m, up to n.
Ahead(s, delta, m, n) ==
  {k \in ViewSet(s) : Passed(delta, s.viewIndex[m], s.viewIndex[k], s.viewIndex[n])}

\* n is a view with a window that no output shows.
Hiding(s, n) ==
  /\ Settled(s) /\ Distinct(s) /\ s.Outputs # <<>>
  /\ Carried(s, n) # {} /\ Showing(s, n) = {}

LEMMA HidingParts ==
  ASSUME NEW s, NEW n \in ViewName, Hiding(s, n)
  PROVE  /\ s \in State /\ Clean(s) /\ Tidy(s) /\ Ranked(s)
         /\ n \in ViewSet(s) /\ activeName(s) \in ViewSet(s) /\ activeName(s) # n
         /\ activeOutput(s) \in DOMAIN s.Outputs
         /\ s.viewIndex \in [ViewName -> Nat]
         /\ s.viewIndex[n] # s.viewIndex[activeName(s)]
<1>1. s \in State /\ Clean(s) /\ Tidy(s) /\ Ranked(s)
  BY TidyParts DEF Hiding, Settled, Distinct, Tidy
<1>2. n \in ViewSet(s)
  BY <1>1, CarriedExist DEF Hiding, ViewSet
<1>3. activeOutput(s) \in DOMAIN s.Outputs
  BY <1>1, ActiveOutputType, OutputsTyped DEF Hiding
<1>4. activeName(s) \in ViewSet(s)
  <2>1. hasActiveView(s) /\ activeName(s) \in ViewName
    BY <1>1, ActiveViewExists, ActiveOutputType DEF Hiding
  <2> QED BY <2>1 DEF hasActiveView, ViewSet
<1>5. activeName(s) # n
  BY <1>3 DEF Hiding, Showing, activeName
<1>6. s.viewIndex[n] # s.viewIndex[activeName(s)]
  BY <1>1, <1>2, <1>4, <1>5 DEF Ranked
<1> QED BY <1>1, <1>2, <1>3, <1>4, <1>5, <1>6, StateFields

\* CycleView stops at a view on the way to any hidden one.
LEMMA StopsOnTheWay ==
  ASSUME NEW s, NEW n \in ViewName, Hiding(s, n), NEW delta \in {-1, 1}
  PROVE  \E m \in ViewSet(s) : /\ m # activeName(s)
                               /\ CycleView(s, delta) = SelectView(s, m)
                               /\ m \in Ahead(s, delta, activeName(s), n)
<1> DEFINE V   == ViewSet(s)
           N   == Cardinality(V)
           idx == s.viewIndex
           b   == activeName(s)
           a   == idx[b] - 1
           x   == idx[n] - 1
           stops == CycleStops(s, delta)
           stop  == CHOOSE p \in stops : \A q \in stops : p[1] <= q[1]
           steps == {p[1] : p \in stops}
<1>1. /\ V \in SUBSET ViewName /\ n \in V /\ b \in V /\ N \in Nat
      /\ idx[n] # idx[b]
      /\ \A k \in V : idx[k] \in 1..N
  BY HidingParts, ViewSetCardinality DEF Ranked, ViewSet
<1>2. a \in 0..N - 1 /\ x \in 0..N - 1 /\ x # a
  <2> HIDE DEF V, N, idx, b
  <2>1. idx[n] \in 1..N /\ idx[b] \in 1..N
    BY <1>1
  <2> QED BY <1>1, <2>1
<1>3. \A p : p \in stops <=>
        /\ p \in (1..N) \X V
        /\ idx[p[2]] = ((a + delta * p[1]) % N) + 1
        /\ Showing(s, p[2]) = {} \/ outputShowing(s, p[2]) = activeOutput(s)
  BY DEF CycleStops
<1> HIDE DEF a, x, idx, N, V, b
<1>4. PICK d \in 1..N - 1 :
           /\ (a + delta * d) % N = x
           /\ \A p \in 1..d : /\ (a + delta * p) % N \in 0..N - 1
                              /\ (a + delta * p) % N # a
                              /\ Passed(delta, a, (a + delta * p) % N, x)
  BY <1>1, <1>2, StepsAway
<1>5. <<d, n>> \in stops
  <2>1. d \in 1..N /\ idx[n] = x + 1
    BY <1>1, <1>4 DEF x
  <2> HIDE DEF stops
  <2> QED BY <1>1, <1>3, <1>4, <2>1 DEF Hiding
<1> HIDE DEF stops
<1>6. stops \subseteq (1..N) \X V
  BY <1>3
<1>7. \E p \in stops : \A q \in stops : p[1] <= q[1]
  <2>1. steps \subseteq Nat /\ steps # {}
    BY <1>1, <1>5, <1>6
  <2>2. \E i \in steps : \A j \in steps : i <= j
    BY <2>1, LeastExists
  <2> QED BY <2>2
<1>8. stop \in stops /\ stop[1] <= d
  <2>1. stop \in stops /\ \A q \in stops : stop[1] <= q[1]
    BY <1>7
  <2>2. stop[1] <= <<d, n>>[1]
    BY <1>5, <2>1
  <2> QED BY <2>1, <2>2
<1>9. CycleView(s, delta) = SelectView(s, stop[2])
  BY <1>1, <1>5 DEF CycleView, stops, Hiding, V
<1> HIDE DEF stop
<1>10. PICK p \in 1..d, m \in V : stop = <<p, m>>
  <2>1. PICK p \in 1..N, m \in V : stop = <<p, m>>
    BY <1>6, <1>8
  <2>2. p <= d
    BY <1>8, <2>1
  <2> QED BY <1>4, <2>1, <2>2
<1>11. idx[m] - 1 = (a + delta * p) % N /\ idx[m] \in 1..N
  <2>1. idx[m] = ((a + delta * p) % N) + 1
    BY <1>3, <1>8, <1>10
  <2>2. idx[m] \in 1..N /\ (a + delta * p) % N \in 0..N - 1
    BY <1>1, <1>4
  <2> QED BY <1>1, <2>1, <2>2
<1>12. idx[m] - 1 # a /\ Passed(delta, a, idx[m] - 1, x)
  BY <1>4, <1>11
<1>13. m # b /\ Passed(delta, idx[b], idx[m], idx[n])
  <2>1. idx[m] \in Nat /\ idx[b] \in Nat /\ idx[n] \in Nat
    BY <1>1, <1>11
  <2> QED BY <1>12, <2>1 DEF a, x, Passed
<1> QED BY <1>9, <1>10, <1>13 DEF Ahead, V, idx, b

\* Selecting a view that exists changes the order of none of the views it keeps.
LEMMA SelectKeepsOrder ==
  ASSUME NEW s, Settled(s), Distinct(s), s.Outputs # <<>>,
         NEW m \in ViewSet(s), m # activeName(s), NEW r, r = SelectView(s, m)
  PROVE  /\ ViewSet(r) \subseteq ViewSet(s)
         /\ \A k, l \in ViewSet(r) :
              r.viewIndex[k] < r.viewIndex[l] <=> s.viewIndex[k] < s.viewIndex[l]
<1> DEFINE a    == activeOutput(s)
           outs == SelectedOutputs(s, m)
           x    == [s EXCEPT !.Outputs = outs, !.FocusOutput = a]
           g    == gcViews(x)
<1>1. s \in State /\ Clean(s) /\ Ranked(s) /\ m \in ViewName /\ exists(s, m)
  BY TidyParts DEF Settled, Distinct, Tidy, ViewSet
<1>2. r = refocus(g)
  BY <1>1 DEF SelectView, SelectedOutputs, ensureView
<1>3. outs \in Seq(Output) /\ a \in Nat
  BY <1>1, SelectedOutputsType, ActiveOutputType, OutputsTyped
<1> HIDE DEF outs, a
<1>4. Clean(x) /\ x.viewIndex = s.viewIndex
  <2>1. Clean(x)
    BY <1>1, <1>3, SetOutputsType
  <2> QED BY <1>1, <2>1 DEF State
<1> HIDE DEF x
<1>5. Ranked(x) /\ ViewSet(x) = ViewSet(s)
  BY <1>1, <1>4, SameRanked DEF ViewSet, exists
<1>6. /\ Clean(g)
      /\ ViewSet(g) \subseteq ViewSet(x)
      /\ \A k, l \in ViewSet(g) : g.viewIndex[k] < g.viewIndex[l] <=> x.viewIndex[k] < x.viewIndex[l]
  BY <1>4, <1>5, GcViewsType, GcViewsRanked
<1> HIDE DEF g
<1>7. r.viewIndex = g.viewIndex
  <2>1. g \in State
    BY <1>6 DEF Clean
  <2> QED BY <1>2, <2>1 DEF refocus, State
<1>8. ViewSet(r) = ViewSet(g)
  BY <1>7 DEF ViewSet, exists
<1> QED BY <1>4, <1>5, <1>6, <1>7, <1>8

\* The places on the way from m to n are on that from a to n, if m is.
LEMMA PassedFurther ==
  ASSUME NEW delta \in {-1, 1}, NEW a \in Nat, NEW m \in Nat, NEW n \in Nat, NEW k \in Nat,
         m # n, a # n, Passed(delta, a, m, n), Passed(delta, m, k, n)
  PROVE  Passed(delta, a, k, n)
BY DEF Passed

\* After the step to m, a view on the way from a to n, less of the way is left.
LEMMA AheadShrinks ==
  ASSUME NEW s, NEW r, Ranked(s), s.viewIndex \in [ViewName -> Nat],
         r.viewIndex \in [ViewName -> Nat], ViewSet(r) \subseteq ViewSet(s),
         \A k, l \in ViewSet(r) : r.viewIndex[k] < r.viewIndex[l] <=> s.viewIndex[k] < s.viewIndex[l],
         NEW delta \in {-1, 1}, NEW a \in ViewSet(s), NEW n \in ViewSet(r), NEW m \in ViewSet(r),
         m # n, a # n, m \in Ahead(s, delta, a, n)
  PROVE  Ahead(r, delta, m, n) \subseteq Ahead(s, delta, a, n) \ {m}
<1>1. ViewSet(s) \subseteq ViewName
  BY DEF ViewSet
<1> SUFFICES ASSUME NEW k \in ViewSet(r),
                    Passed(delta, r.viewIndex[m], r.viewIndex[k], r.viewIndex[n])
             PROVE  /\ Passed(delta, s.viewIndex[a], s.viewIndex[k], s.viewIndex[n])
                    /\ k # m /\ k \in ViewSet(s)
  BY DEF Ahead
<1>2. /\ s.viewIndex[m] # s.viewIndex[n] /\ s.viewIndex[a] # s.viewIndex[n]
      /\ Passed(delta, s.viewIndex[a], s.viewIndex[m], s.viewIndex[n])
  BY DEF Ranked, Ahead
<1> DEFINE i(l) == s.viewIndex[l]
           j(l) == r.viewIndex[l]
<1>3. /\ i(a) \in Nat /\ i(m) \in Nat /\ i(n) \in Nat /\ i(k) \in Nat
      /\ j(m) \in Nat /\ j(n) \in Nat /\ j(k) \in Nat
  BY <1>1
<1>4. /\ j(m) < j(n) <=> i(m) < i(n)
      /\ j(n) < j(m) <=> i(n) < i(m)
      /\ j(m) < j(k) <=> i(m) < i(k)
      /\ j(k) < j(m) <=> i(k) < i(m)
      /\ j(n) < j(k) <=> i(n) < i(k)
      /\ j(k) < j(n) <=> i(k) < i(n)
  OBVIOUS
<1>5. Passed(delta, i(m), i(k), i(n)) /\ i(k) # i(m)
  BY <1>2, <1>3, <1>4 DEF Passed
<1> HIDE DEF i, j
<1>6. Passed(delta, i(a), i(k), i(n))
  BY <1>2, <1>3, <1>5, PassedFurther DEF i
<1> QED BY <1>5, <1>6 DEF i

\* How many views there are to come by on the way from the active view to n.
Distance(s, delta, n) == Cardinality(Ahead(s, delta, activeName(s), n))

LEMMA DistanceBounds ==
  ASSUME NEW s, NEW n \in ViewName, Hiding(s, n), NEW delta \in {-1, 1}
  PROVE  Distance(s, delta, n) \in 1..Cardinality(ViewSet(s)) - 1
<1> DEFINE V == ViewSet(s)
           b == activeName(s)
           A == Ahead(s, delta, b, n)
<1>1. /\ V \in SUBSET ViewName /\ A \in SUBSET V /\ b \in V
      /\ s.viewIndex \in [ViewName -> Nat] /\ s.viewIndex[n] # s.viewIndex[b] /\ n \in V
  BY HidingParts DEF ViewSet, Ahead
<1>2. n \in A /\ b \notin A
  <2>1. s.viewIndex[n] \in Nat /\ s.viewIndex[b] \in Nat
    BY <1>1
  <2> HIDE DEF b
  <2> QED BY <1>1, <2>1 DEF Ahead, Passed
<1> HIDE DEF V, b, A
<1>3. IsFiniteSet(V) /\ Cardinality(V) \in Nat /\ Cardinality(A) \in Nat /\ Cardinality(A) > 0
  <2>1. A \in SUBSET ViewName /\ A # {}
    BY <1>1, <1>2
  <2> QED BY <1>1, <2>1, ViewSetCardinality
<1>4. Cardinality(A) <= Cardinality(V) /\ Cardinality(A) # Cardinality(V)
  BY <1>1, <1>2, <1>3, FS_Subset
<1>5. Cardinality(A) \in 1..Cardinality(V) - 1
  BY <1>3, <1>4
<1> QED BY <1>5 DEF Distance, A, V, b

\* CycleView comes to the view n, or nearer to it.
LEMMA CyclingComesNearer ==
  ASSUME NEW s, NEW n \in ViewName, Hiding(s, n), NEW delta \in {-1, 1},
         NEW r, r = CycleView(s, delta)
  PROVE  \/ activeName(r) = n
         \/ Hiding(r, n) /\ Distance(r, delta, n) < Distance(s, delta, n)
<1> DEFINE b == activeName(s)
<1>1. PICK m \in ViewSet(s) : m # b /\ r = SelectView(s, m) /\ m \in Ahead(s, delta, b, n)
  BY StopsOnTheWay
<1>2. /\ Settled(s) /\ Distinct(s) /\ s.Outputs # <<>> /\ m \in ViewName
      /\ Carried(s, n) # {} /\ Showing(s, n) = {}
  BY DEF Hiding, ViewSet
<1>3. /\ s \in State /\ Clean(s) /\ Ranked(s) /\ b \in ViewSet(s) /\ b # n
      /\ activeOutput(s) \in DOMAIN s.Outputs /\ s.viewIndex \in [ViewName -> Nat]
  BY HidingParts
<1>4. Distinct(r)
  BY <1>1, <1>2, <1>3, SelectViewDistinct
<1>5. /\ Settled(r) /\ r.Tags = s.Tags /\ r.Outputs = SelectedOutputs(s, m)
      /\ hasActiveView(r) /\ activeName(r) = m
  BY <1>1, <1>2, <1>4, SelectViewSettles, SelectViewActive
<1>6. CASE m = n
  BY <1>5, <1>6
<1>7. CASE m # n
  <2>1. Hiding(r, n)
    <3>1. Showing(r, n) = {}
      <4>1. /\ DOMAIN r.Outputs = DOMAIN s.Outputs
            /\ \A i \in DOMAIN s.Outputs : r.Outputs[i].View \in {m, b, s.Outputs[i].View}
        BY <1>1, <1>2, <1>3, <1>5, SelectedOutputsViews
      <4>2. \A i \in DOMAIN s.Outputs : s.Outputs[i].View # n
        BY <1>2 DEF Showing
      <4> HIDE DEF b
      <4> QED BY <1>3, <1>7, <4>1, <4>2 DEF Showing
    <3>2. r.Outputs # <<>>
      BY <1>5 DEF hasActiveView
    <3>3. Carried(r, n) # {}
      BY <1>2, <1>5 DEF Carried
    <3> QED BY <1>4, <1>5, <3>1, <3>2, <3>3 DEF Hiding
  <2>2. /\ n \in ViewSet(r) /\ m \in ViewSet(r) /\ r.viewIndex \in [ViewName -> Nat]
    BY <1>5, <2>1, HidingParts
  <2>3. /\ ViewSet(r) \subseteq ViewSet(s)
        /\ \A k, l \in ViewSet(r) :
             r.viewIndex[k] < r.viewIndex[l] <=> s.viewIndex[k] < s.viewIndex[l]
    BY <1>1, <1>2, SelectKeepsOrder
  <2>4. Ahead(r, delta, m, n) \subseteq Ahead(s, delta, b, n) \ {m}
    <3> HIDE DEF b
    <3> QED BY <1>1, <1>3, <1>7, <2>2, <2>3, AheadShrinks
  <2> DEFINE A == Ahead(s, delta, b, n)
             B == Ahead(r, delta, m, n)
  <2>5. A \in SUBSET ViewName /\ B \in SUBSET ViewName
    BY DEF Ahead, ViewSet
  <2>6. Cardinality(B) = Distance(r, delta, n) /\ Cardinality(A) = Distance(s, delta, n)
    BY <1>5 DEF Distance
  <2>7. m \in A /\ B \in SUBSET A /\ B # A
    BY <1>1, <2>4
  <2> HIDE DEF A, B
  <2>8. IsFiniteSet(A) /\ Cardinality(A) \in Nat /\ Cardinality(B) \in Nat
    BY <2>5, ViewSetCardinality
  <2>9. Cardinality(B) <= Cardinality(A) /\ Cardinality(B) # Cardinality(A)
    BY <2>7, <2>8, FS_Subset
  <2> QED BY <2>1, <2>6, <2>8, <2>9
<1> QED BY <1>6, <1>7

-----------------------------------------------------------------------------
(* All of them.                                                            *)

\* One round of cycled.
cycledNext(s, delta, after, k) == IF k = 0 THEN s ELSE CycleView(after[k - 1], delta)

LEMMA CycledDefined ==
  ASSUME NEW s \in State, NEW delta
  PROVE  /\ cycled(s, delta)[0] = s
         /\ \A k \in 1..Cardinality(ViewSet(s)) :
              cycled(s, delta)[k] = CycleView(cycled(s, delta)[k - 1], delta)
<1> DEFINE N == Cardinality(ViewSet(s))
           upTo(m, after) == after = [k \in 0..m |-> cycledNext(s, delta, after, k)]
           OK == {m \in 0..N : \E after : upTo(m, after)}
<1>0. N \in Nat
  BY ViewSetCardinality DEF ViewSet
<1> HIDE DEF N
<1>1. 0 \in OK
  <2> DEFINE one == [k \in 0..0 |-> s]
  <2>1. ASSUME NEW k \in 0..0 PROVE cycledNext(s, delta, one, k) = s
    BY DEF cycledNext
  <2>2. upTo(0, one)
    <3> DEFINE other == [k \in 0..0 |-> cycledNext(s, delta, one, k)]
    <3>1. other = [k \in 0..0 |-> s]
      BY <2>1
    <3> QED BY <3>1
  <2>3. \E f : upTo(0, f)
    <3> HIDE DEF one, upTo
    <3> QED BY <2>2
  <2> QED BY <1>0, <2>3
<1>2. ASSUME NEW m \in 0..N - 1, m \in OK PROVE m + 1 \in OK
  <2>1. PICK after : upTo(m, after)
    BY <1>2
  <2> DEFINE longer == [k \in 0..m + 1 |-> IF k \in 0..m THEN after[k] ELSE cycledNext(s, delta, after, k)]
  <2>2. ASSUME NEW k \in 0..m + 1 PROVE longer[k] = cycledNext(s, delta, longer, k)
    <3>1. \A j \in 0..m : longer[j] = after[j]
      OBVIOUS
    <3>2. k # 0 => k - 1 \in 0..m
      OBVIOUS
    <3>3. cycledNext(s, delta, longer, k) = cycledNext(s, delta, after, k)
      <4> HIDE DEF longer
      <4> QED BY <3>1, <3>2 DEF cycledNext
    <3>4. k \in 0..m => after[k] = cycledNext(s, delta, after, k)
      BY <2>1
    <3> QED BY <3>3, <3>4
  <2>3. upTo(m + 1, longer)
    BY <2>2
  <2>4. m + 1 \in 0..N /\ \E f : upTo(m + 1, f)
    <3>1. m + 1 \in 0..N
      BY <1>0
    <3> HIDE DEF longer
    <3> QED BY <2>3, <3>1
  <2> QED BY <2>4
<1>3. N \in OK
  <2> HIDE DEF OK
  <2>1. 0..N \subseteq OK
    BY <1>0, <1>1, <1>2, InductionUpTo
  <2> QED BY <1>0, <2>1
<1> DEFINE after == CHOOSE f : upTo(N, f)
<1>4. upTo(N, after)
  BY <1>3
<1>5. cycled(s, delta) = after
  BY DEF cycled, cycledNext, N
<1> HIDE DEF after
<1>6. \A k \in 0..N : after[k] = cycledNext(s, delta, after, k)
  BY <1>4
<1>7. after[0] = s
  <2>1. 0 \in 0..N
    BY <1>0
  <2> QED BY <1>6, <2>1 DEF cycledNext
<1>8. ASSUME NEW k \in 1..N
      PROVE  after[k] = CycleView(after[k - 1], delta)
  <2>1. k \in 0..N /\ k # 0
    BY <1>0
  <2> QED BY <1>6, <2>1 DEF cycledNext
<1> QED BY <1>5, <1>7, <1>8 DEF N

\* n has been the active view, or each step so far has come nearer to it.
Approaches(after, delta, n, N, k) ==
  \/ \E j \in 0..k : activeName(after[j]) = n
  \/ Hiding(after[k], n) /\ Distance(after[k], delta, n) + k <= N - 1

LEMMA CyclingArrives ==
  ASSUME NEW s, NEW n \in ViewName, Hiding(s, n), NEW delta \in {-1, 1}
  PROVE  \E k \in 0..Cardinality(ViewSet(s)) : activeName(cycled(s, delta)[k]) = n
<1> DEFINE N     == Cardinality(ViewSet(s))
           after == cycled(s, delta)
           T     == {k \in 0..N : Approaches(after, delta, n, N, k)}
<1>1. s \in State /\ N \in Nat /\ N > 0
  <2>1. ViewSet(s) \in SUBSET ViewName /\ n \in ViewSet(s) /\ s \in State
    BY HidingParts DEF ViewSet
  <2> QED BY <2>1, ViewSetCardinality
<1>2. after[0] = s /\ \A k \in 1..N : after[k] = CycleView(after[k - 1], delta)
  BY <1>1, CycledDefined
<1> HIDE DEF after
<1>3. 0 \in T
  <2>1. Distance(s, delta, n) \in 1..N - 1
    BY DistanceBounds
  <2> HIDE DEF N
  <2>2. Approaches(after, delta, n, N, 0)
    BY <1>1, <1>2, <2>1 DEF Approaches
  <2> QED BY <1>1, <2>2
<1> HIDE DEF N
<1>4. ASSUME NEW k \in 0..N - 1, k \in T PROVE k + 1 \in T
  <2>1. k + 1 \in 0..N /\ k + 1 \in 1..N /\ k \in 0..k /\ k + 1 \in 0..k + 1
    BY <1>1
  <2>2. after[k + 1] = CycleView(after[k], delta)
    <3>1. (k + 1) - 1 = k
      OBVIOUS
    <3> QED BY <1>2, <2>1, <3>1
  <2>3. CASE \E j \in 0..k : activeName(after[j]) = n
    <3>1. \E j \in 0..k + 1 : activeName(after[j]) = n
      BY <2>3
    <3> QED BY <2>1, <3>1 DEF Approaches
  <2>4. CASE Hiding(after[k], n) /\ Distance(after[k], delta, n) + k <= N - 1
    <3> DEFINE r == after[k + 1]
               d == Distance(after[k], delta, n)
               e == Distance(r, delta, n)
    <3>1. activeName(r) = n \/ (Hiding(r, n) /\ e < d)
      BY <2>2, <2>4, CyclingComesNearer
    <3>2. CASE activeName(r) = n
      <4>1. Approaches(after, delta, n, N, k + 1)
        BY <2>1, <3>2 DEF Approaches
      <4> QED BY <2>1, <4>1
    <3>3. CASE Hiding(r, n) /\ e < d
      <4>1. d \in Nat /\ e \in Nat
        <5>1. ASSUME NEW t, Hiding(t, n) PROVE Distance(t, delta, n) \in Nat
          <6>1. Cardinality(ViewSet(t)) \in Nat
            BY ViewSetCardinality DEF ViewSet
          <6>2. Distance(t, delta, n) \in 1..Cardinality(ViewSet(t)) - 1
            BY <5>1, DistanceBounds
          <6> QED BY <6>1, <6>2
        <5> QED BY <2>4, <3>3, <5>1
      <4>2. d + k <= N - 1
        BY <2>4
      <4> HIDE DEF d, e
      <4>3. e + (k + 1) <= N - 1
        BY <1>1, <3>3, <4>1, <4>2
      <4>4. Approaches(after, delta, n, N, k + 1)
        BY <3>3, <4>3 DEF Approaches, e
      <4> QED BY <2>1, <4>4
    <3> QED BY <3>1, <3>2, <3>3
  <2> QED BY <1>4, <2>3, <2>4 DEF Approaches
<1>5. N \in T
  <2> HIDE DEF T
  <2>1. 0..N \subseteq T
    BY <1>1, <1>3, <1>4, InductionUpTo
  <2> QED BY <1>1, <2>1
<1>6. \E j \in 0..N : activeName(after[j]) = n
  <2>1. SUFFICES ASSUME Hiding(after[N], n), Distance(after[N], delta, n) + N <= N - 1
                 PROVE  FALSE
    BY <1>5 DEF Approaches
  <2>2. Cardinality(ViewSet(after[N])) \in Nat
    BY ViewSetCardinality DEF ViewSet
  <2>3. Distance(after[N], delta, n) \in 1..Cardinality(ViewSet(after[N])) - 1
    BY <2>1, DistanceBounds
  <2> QED BY <1>1, <2>1, <2>2, <2>3
<1> QED BY <1>6 DEF N, after

LEMMA CyclingReachesIn ==
  ASSUME WmInv
  PROVE  CyclingReachesEveryView
<1> SUFFICES ASSUME hasActiveView(wm), NEW delta \in {-1, 1}, NEW n \in ViewSet(wm),
                    ~empty(wm.Views[n]), Showing(wm, n) \subseteq {wm.FocusOutput}
             PROVE  \E k \in 0..Cardinality(ViewSet(wm)) : activeName(cycled(wm, delta)[k]) = n
  BY DEF CyclingReachesEveryView
<1>1. /\ wm \in State /\ n \in ViewName /\ wm.Outputs # <<>>
      /\ wm.FocusOutput = activeOutput(wm) /\ Settled(wm) /\ Distinct(wm)
  BY TidyParts DEF WmInv, Settled, ViewSet, hasActiveView
<1>2. CASE Showing(wm, n) # {}
  <2>1. activeName(wm) = n
    BY <1>1, <1>2 DEF Showing, activeName
  <2>2. cycled(wm, delta)[0] = wm
    BY <1>1, CycledDefined
  <2>3. 0 \in 0..Cardinality(ViewSet(wm))
    <3>1. Cardinality(ViewSet(wm)) \in Nat
      BY ViewSetCardinality DEF ViewSet
    <3> QED BY <3>1
  <2> QED BY <2>1, <2>2, <2>3
<1>3. CASE Showing(wm, n) = {}
  <2>1. Carried(wm, n) # {}
    <3>1. Sound(wm.Views[n]) /\ WindowsOf(wm.Views[n]) = Carried(wm, n)
      BY <1>1, TidyParts DEF Settled
    <3> QED BY <3>1, EmptyView
  <2>2. Hiding(wm, n)
    BY <1>1, <1>3, <2>1 DEF Hiding
  <2> QED BY <1>1, <2>2, CyclingArrives
<1> QED BY <1>2, <1>3

\* view-next and view-prev come by every view with windows that is not on
\* another output, whatever empty views are destroyed on the way.
THEOREM CyclingAlwaysReachesEveryView == Spec => []CyclingReachesEveryView
BY WmInvHolds, CyclingReachesIn, PTL

-----------------------------------------------------------------------------
(* A length cut into pieces.                                               *)

\* The edges between n pieces of a length, which may be of no size.
Edges(e, n, length) ==
  /\ \A k \in 0..n : e[k] \in Int
  /\ \A k \in 1..n : e[k - 1] <= e[k]
  /\ e[0] = 0 /\ e[n] = length

Between(e, k, x) == e[k - 1] <= x /\ x < e[k]

LEMMA EdgesRise ==
  ASSUME NEW n \in Nat, NEW length, NEW e, Edges(e, n, length)
  PROVE  \A k, l \in 0..n : k <= l => e[k] <= e[l]
<1> SUFFICES ASSUME NEW k \in 0..n PROVE \A l \in 0..n : k <= l => e[k] <= e[l]
  OBVIOUS
<1> DEFINE T == {l \in 0..n : k <= l => e[k] <= e[l]}
<1>1. 0 \in T
  BY DEF Edges
<1>2. ASSUME NEW l \in 0..n - 1, l \in T PROVE l + 1 \in T
  <2>1. l + 1 \in 1..n /\ (l + 1) - 1 = l
    OBVIOUS
  <2>2. e[l] <= e[l + 1]
    BY <2>1 DEF Edges
  <2>3. e[k] \in Int /\ e[l] \in Int /\ e[l + 1] \in Int
    BY <2>1 DEF Edges
  <2> QED BY <1>2, <2>1, <2>2, <2>3
<1> HIDE DEF T
<1>3. 0..n \subseteq T
  BY <1>1, <1>2, InductionUpTo
<1> QED BY <1>3 DEF T

\* Every point of the length is in one piece.
LEMMA OneBetween ==
  ASSUME NEW n \in Nat \ {0}, NEW length \in Int, NEW e, Edges(e, n, length),
         NEW x \in 0..length - 1
  PROVE  \E k \in 1..n : \A l \in 1..n : Between(e, l, x) <=> l = k
<1> DEFINE S == {k \in 1..n : x < e[k]}
<1>1. n \in S
  BY DEF Edges
<1>2. PICK k \in S : \A l \in S : k <= l
  <2>1. S \subseteq Nat /\ S # {}
    BY <1>1
  <2> HIDE DEF S
  <2> QED BY <2>1, LeastExists
<1>3. k \in 1..n /\ x < e[k] /\ e[k - 1] <= x
  <2>1. k \in 1..n /\ x < e[k]
    OBVIOUS
  <2>2. CASE k = 1
    BY <2>1, <2>2 DEF Edges
  <2>3. CASE k # 1
    <3>1. k - 1 \in 1..n /\ k - 1 \notin S
      BY <1>2, <2>1, <2>3
    <3>2. e[k - 1] \in Int
      BY <3>1 DEF Edges
    <3> QED BY <2>1, <3>1, <3>2
  <2> QED BY <2>1, <2>2, <2>3
<1>4. ASSUME NEW l \in 1..n, Between(e, l, x) PROVE l = k
  <2>1. l \in S
    BY <1>4 DEF Between
  <2>2. k <= l
    BY <1>2, <2>1
  <2>3. SUFFICES ASSUME k <= l - 1 PROVE FALSE
    BY <1>3, <2>2
  <2>4. k \in 0..n /\ l - 1 \in 0..n
    BY <1>3
  <2>5. e[k] <= e[l - 1] /\ e[k] \in Int /\ e[l - 1] \in Int
    BY <2>3, <2>4, EdgesRise DEF Edges
  <2> QED BY <1>3, <1>4, <2>5 DEF Between
<1> QED BY <1>3, <1>4 DEF Between

\* A rounded share, multiplied again, is not more than the whole.
LEMMA RoundedDown ==
  ASSUME NEW a \in Nat, NEW b \in Nat \ {0}
  PROVE  a \div b \in Nat /\ (a \div b) * b <= a /\ a < (a \div b + 1) * b
<1> DEFINE q == a \div b
           m == a % b
<1>1. q \in Int /\ m \in 0..b - 1 /\ a = b * q + m
  OBVIOUS
<1> HIDE DEF q, m
<1>2. q \in Nat
  <2> SUFFICES ASSUME q <= -1 PROVE FALSE
    BY <1>1
  <2>1. b * (-1 - q) >= 0
    BY <1>1
  <2>2. b * (-1 - q) = -b - b * q
    BY <1>1
  <2> QED BY <1>1, <2>1, <2>2
<1>3. q * b <= a
  BY <1>1
<1>4. (q + 1) * b = b * q + b
  BY <1>1
<1> QED BY <1>1, <1>2, <1>3, <1>4 DEF q

-----------------------------------------------------------------------------
(* The widths of the columns.                                              *)

sumNext(q, sum, k) == IF k = 0 THEN 0 ELSE sum[k - 1] + q[k]

LEMMA SumsDefined ==
  ASSUME NEW q, NEW N \in Nat, Len(q) = N
  PROVE  /\ sums(q)[0] = 0
         /\ \A k \in 1..N : sums(q)[k] = sums(q)[k - 1] + q[k]
<1> DEFINE upTo(m, sum) == sum = [k \in 0..m |-> sumNext(q, sum, k)]
           OK == {m \in 0..N : \E sum : upTo(m, sum)}
<1>1. 0 \in OK
  <2> DEFINE one == [k \in 0..0 |-> 0]
  <2>1. ASSUME NEW k \in 0..0 PROVE sumNext(q, one, k) = 0
    BY DEF sumNext
  <2>2. upTo(0, one)
    <3> DEFINE other == [k \in 0..0 |-> sumNext(q, one, k)]
    <3>1. other = [k \in 0..0 |-> 0]
      BY <2>1
    <3> QED BY <3>1
  <2>3. \E f : upTo(0, f)
    <3> HIDE DEF one, upTo
    <3> QED BY <2>2
  <2> QED BY <2>3
<1>2. ASSUME NEW m \in 0..N - 1, m \in OK PROVE m + 1 \in OK
  <2>1. PICK sum : upTo(m, sum)
    BY <1>2
  <2> DEFINE longer == [k \in 0..m + 1 |-> IF k \in 0..m THEN sum[k] ELSE sumNext(q, sum, k)]
  <2>2. ASSUME NEW k \in 0..m + 1 PROVE longer[k] = sumNext(q, longer, k)
    <3>1. \A j \in 0..m : longer[j] = sum[j]
      OBVIOUS
    <3>2. k # 0 => k - 1 \in 0..m
      OBVIOUS
    <3>3. sumNext(q, longer, k) = sumNext(q, sum, k)
      <4> HIDE DEF longer
      <4> QED BY <3>1, <3>2 DEF sumNext
    <3>4. k \in 0..m => sum[k] = sumNext(q, sum, k)
      BY <2>1
    <3> QED BY <3>3, <3>4
  <2>3. upTo(m + 1, longer)
    BY <2>2
  <2>4. m + 1 \in 0..N /\ \E f : upTo(m + 1, f)
    <3> HIDE DEF longer
    <3> QED BY <2>3
  <2> QED BY <2>4
<1>3. N \in OK
  <2> HIDE DEF OK
  <2>1. 0..N \subseteq OK
    BY <1>1, <1>2, InductionUpTo
  <2> QED BY <2>1
<1> DEFINE sum == CHOOSE f : upTo(N, f)
<1>4. upTo(N, sum)
  BY <1>3
<1>5. sums(q) = sum
  BY DEF sums, sumNext
<1> HIDE DEF sum
<1>6. \A k \in 0..N : sum[k] = sumNext(q, sum, k)
  BY <1>4
<1>7. sum[0] = 0
  BY <1>6 DEF sumNext
<1>8. ASSUME NEW k \in 1..N
      PROVE  sum[k] = sum[k - 1] + q[k]
  <2>1. k \in 0..N /\ k # 0
    OBVIOUS
  <2> QED BY <1>6, <2>1 DEF sumNext
<1> QED BY <1>5, <1>7, <1>8

LEMMA SumsTyped ==
  ASSUME NEW q, NEW N \in Nat, Len(q) = N, \A k \in 1..N : q[k] \in Nat
  PROVE  \A k \in 0..N : sums(q)[k] \in Nat
<1> DEFINE T == {k \in 0..N : sums(q)[k] \in Nat}
<1>1. 0 \in T
  BY SumsDefined
<1>2. ASSUME NEW k \in 0..N - 1, k \in T PROVE k + 1 \in T
  <2>1. k + 1 \in 1..N /\ (k + 1) - 1 = k
    OBVIOUS
  <2>2. sums(q)[k + 1] = sums(q)[k] + q[k + 1]
    BY <2>1, SumsDefined
  <2> QED BY <1>2, <2>1, <2>2
<1> HIDE DEF T
<1>3. 0..N \subseteq T
  BY <1>1, <1>2, InductionUpTo
<1> QED BY <1>3 DEF T

\* The left edges of the columns, and the right one of the last.
columnEdges(scr, n, width) ==
  [k \in 0..n |-> IF k = n THEN width ELSE sums(shares(scr, n, width))[k]]

LEMMA ColumnEdges ==
  ASSUME NEW scr \in Screens, NEW n \in Nat \ {0}, n <= Len(scr.factor), NEW width \in Nat
  PROVE  /\ Edges(columnEdges(scr, n, width), n, width)
         /\ \A k \in 1..n : /\ shares(scr, n, width)[k] \in Nat
                            /\ columnEdges(scr, n, width)[k - 1] = sums(shares(scr, n, width))[k - 1]
                            /\ k < n => columnEdges(scr, n, width)[k] =
                                          columnEdges(scr, n, width)[k - 1] + shares(scr, n, width)[k]
<1> DEFINE f == SubSeq(scr.factor, 1, n)
           share == shares(scr, n, width)
           F == sums(f)
           A == sums(share)
           total == F[n]
<1>1. Len(f) = n /\ \A k \in 1..n : f[k] \in Nat \ {0}
  <2>1. scr.factor \in Seq(Nat \ {0})
    BY ScreenFields
  <2> QED BY <2>1
<1>2. share = [k \in 1..n |-> (width * f[k]) \div total]
  BY DEF shares
<1> HIDE DEF f, share
<1>3. /\ F[0] = 0 /\ \A k \in 1..n : F[k] = F[k - 1] + f[k]
      /\ \A k \in 0..n : F[k] \in Nat
  BY <1>1, SumsDefined, SumsTyped
<1> HIDE DEF F
<1>4. total \in Nat \ {0} /\ F[n - 1] <= total
  BY <1>1, <1>3
<1> HIDE DEF total
<1>5. ASSUME NEW k \in 1..n
      PROVE  share[k] \in Nat /\ share[k] * total <= width * f[k]
  <2>1. width * f[k] \in Nat /\ share[k] = (width * f[k]) \div total
    BY <1>1, <1>2
  <2> QED BY <1>4, <2>1, RoundedDown
<1>6. Len(share) = n
  BY <1>2, SequenceOfValues
<1>7. /\ A[0] = 0 /\ \A k \in 1..n : A[k] = A[k - 1] + share[k]
      /\ \A k \in 0..n : A[k] \in Nat
  BY <1>5, <1>6, SumsDefined, SumsTyped
<1> HIDE DEF A
<1>8. A[n - 1] * total <= width * F[n - 1]
  <2> DEFINE T == {k \in 0..n : A[k] * total <= width * F[k]}
  <2>1. 0 \in T
    BY <1>3, <1>4, <1>7
  <2>2. ASSUME NEW k \in 0..n - 1, k \in T PROVE k + 1 \in T
    <3> DEFINE a == A[k]
               b == share[k + 1]
               c == F[k]
               d == f[k + 1]
    <3>1. k + 1 \in 1..n /\ (k + 1) - 1 = k
      OBVIOUS
    <3>2. A[k + 1] = a + b /\ F[k + 1] = c + d
      BY <1>3, <1>7, <3>1
    <3>3. a \in Nat /\ b \in Nat /\ c \in Nat /\ d \in Nat
      BY <1>1, <1>3, <1>5, <1>7, <3>1
    <3>4. a * total <= width * c /\ b * total <= width * d
      BY <1>5, <2>2, <3>1
    <3> HIDE DEF a, b, c, d
    <3>5. (a + b) * total = a * total + b * total /\ width * (c + d) = width * c + width * d
      BY <1>4, <3>3
    <3>6. a * total \in Nat /\ b * total \in Nat /\ width * c \in Nat /\ width * d \in Nat
      BY <1>4, <3>3
    <3>7. (a + b) * total <= width * (c + d)
      BY <3>4, <3>5, <3>6
    <3> QED BY <3>1, <3>2, <3>7
  <2> HIDE DEF T
  <2>3. 0..n \subseteq T
    BY <2>1, <2>2, InductionUpTo
  <2>4. n - 1 \in T
    BY <2>3
  <2> QED BY <2>4 DEF T
<1>9. A[n - 1] <= width
  <2> DEFINE a == A[n - 1]
             c == F[n - 1]
  <2>1. a \in Nat /\ c \in Nat /\ c <= total /\ a * total <= width * c
    BY <1>3, <1>4, <1>7, <1>8
  <2> HIDE DEF a, c
  <2>2. width * (total - c) >= 0 /\ width * (total - c) = width * total - width * c
    BY <1>4, <2>1
  <2>3. a * total <= width * total
    <3>1. a * total \in Nat /\ width * total \in Nat /\ width * c \in Nat
      BY <1>4, <2>1
    <3> QED BY <2>1, <2>2, <3>1
  <2>4. SUFFICES ASSUME a - width >= 1 PROVE FALSE
    BY <2>1 DEF a
  <2>5. (a - width) * total >= total
    <3>1. (a - width - 1) * total >= 0
      BY <1>4, <2>1, <2>4
    <3>2. (a - width - 1) * total = (a - width) * total - total
      BY <1>4, <2>1
    <3> QED BY <1>4, <2>1, <3>1, <3>2
  <2>6. (a - width) * total = a * total - width * total
    BY <1>4, <2>1
  <2> QED BY <1>4, <2>1, <2>3, <2>5, <2>6
<1> DEFINE e == columnEdges(scr, n, width)
<1>10. e[n] = width /\ \A k \in 0..n - 1 : e[k] = A[k]
  BY DEF columnEdges, A, share
<1> HIDE DEF e
<1>11. e[0] = 0
  BY <1>7, <1>10
<1>12. \A k \in 0..n : e[k] \in Int
  BY <1>7, <1>10
<1>13. ASSUME NEW k \in 1..n PROVE e[k - 1] <= e[k]
  <2>1. k - 1 \in 0..n - 1 /\ e[k - 1] = A[k - 1]
    BY <1>10
  <2>2. CASE k = n
    BY <1>9, <1>10, <2>1, <2>2
  <2>3. CASE k # n
    <3>1. e[k] = A[k] /\ A[k] = A[k - 1] + share[k] /\ A[k - 1] \in Nat /\ share[k] \in Nat
      BY <1>5, <1>7, <1>10, <2>1, <2>3
    <3> QED BY <2>1, <3>1
  <2> QED BY <2>2, <2>3
<1>14. Edges(e, n, width)
  BY <1>10, <1>11, <1>12, <1>13 DEF Edges
<1>15. ASSUME NEW k \in 1..n
       PROVE  /\ share[k] \in Nat
              /\ e[k - 1] = A[k - 1]
              /\ k < n => e[k] = e[k - 1] + share[k]
  <2>1. k - 1 \in 0..n - 1 /\ (k < n => k \in 0..n - 1)
    OBVIOUS
  <2> QED BY <1>5, <1>7, <1>10, <2>1
<1> QED BY <1>14, <1>15 DEF e, A, share

-----------------------------------------------------------------------------
(* The tiles of a column.                                                  *)

\* The placements in T, and no others, fill the box r.
Fills(scr, T, r) ==
  /\ \A p \in T : Extent(scr, p) \in Box /\ Inside(Extent(scr, p), r)
  /\ \A x \in r.X..(r.X + r.W - 1), y \in r.Y..(r.Y + r.H - 1) :
       \E p \in T : \A q \in T : Covers(Extent(scr, q), x, y) <=> q = p

NotHidden(ps) == {p \in ToSet(ps) : ~p.Hidden}

LEMMA RectFields ==
  ASSUME NEW x, NEW y, NEW w, NEW h
  PROVE  Rect(x, y, w, h).X = x /\ Rect(x, y, w, h).Y = y
         /\ Rect(x, y, w, h).W = w /\ Rect(x, y, w, h).H = h
BY DEF Rect

LEMMA BoxFields ==
  ASSUME NEW r \in Box
  PROVE  r.X \in Int /\ r.Y \in Int /\ r.W \in Int /\ r.H \in Int
         /\ r = Rect(r.X, r.Y, r.W, r.H)
BY DEF Box, Rect

LEMMA RectTyped ==
  ASSUME NEW x \in Int, NEW y \in Int, NEW w \in Int, NEW h \in Int
  PROVE  Rect(x, y, w, h) \in Box
BY DEF Box, Rect

LEMMA RectLower ==
  ASSUME NEW x, NEW y, NEW w, NEW h, NEW g
  PROVE  [Rect(x, y, w, h) EXCEPT !.H = g] = Rect(x, y, w, g)
BY DEF Rect

\* p is put in box r, and is not hidden.
PutIn(s, scr, i, id, layer, r, strip, p) == p = put(s, scr, i, id, layer, r, strip, FALSE)

\* What a tile covers: its box, or the strip that shows of it.
LEMMA ExtentOfPut ==
  ASSUME NEW s, NEW scr \in Screens, NEW i, NEW id, NEW layer,
         NEW x \in Int, NEW y \in Int, NEW w \in Int, NEW h \in Int, NEW strip \in Nat,
         strip = 0 => scr.bar < h,
         NEW r, r = Rect(x, y, w, h), NEW p, PutIn(s, scr, i, id, layer, r, strip, p)
  PROVE  Extent(scr, p) = Rect(x, y, w, IF strip = 0 THEN h ELSE strip)
<1> DEFINE in == insetBar(scr, r)
           top == IF p.Bar THEN scr.bar ELSE 0
           full == Rect(p.Rect.X, p.Rect.Y - top, p.Rect.W, p.Rect.H + top)
<1>1. scr.bar \in Nat
  BY ScreenFields
<1>2. r.X = x /\ r.Y = y /\ r.W = w /\ r.H = h
  BY RectFields
<1>3. p.Rect = in /\ p.Strip = strip /\ p.Bar = (~FALSE /\ scr.bar > 0)
  BY DEF PutIn, put
<1>4. /\ in.X = x /\ in.W = w
      /\ in.Y = IF scr.bar = 0 THEN y ELSE y + scr.bar
      /\ in.H = IF scr.bar = 0 THEN h ELSE Greater(h - scr.bar, 1)
  <2>1. CASE scr.bar = 0
    BY <1>2, <2>1 DEF insetBar
  <2>2. CASE scr.bar # 0
    <3>1. in = [r EXCEPT !.Y = @ + scr.bar, !.H = Greater(@ - scr.bar, 1)]
      BY <2>2 DEF insetBar
    <3>2. in = [X |-> x, Y |-> y + scr.bar, W |-> w, H |-> Greater(h - scr.bar, 1)]
      BY <3>1 DEF Rect
    <3> QED BY <2>2, <3>2
  <2> QED BY <2>1, <2>2
<1> HIDE DEF in
<1>5. Extent(scr, p) = IF strip > 0 THEN [full EXCEPT !.H = strip] ELSE full
  BY <1>3 DEF Extent, Collapsed
<1>6. top = scr.bar
  <2>1. CASE scr.bar > 0
    <3>1. p.Bar
      BY <1>3, <2>1
    <3> QED BY <3>1
  <2>2. CASE scr.bar = 0
    BY <2>2
  <2> QED BY <1>1, <2>1, <2>2
<1>7. p.Rect.X = x /\ p.Rect.W = w /\ p.Rect.Y - top = y
  <2> HIDE DEF top
  <2> QED BY <1>1, <1>3, <1>4, <1>6
<1>8. CASE strip > 0
  <2> HIDE DEF top
  <2>1. [full EXCEPT !.H = strip] = Rect(p.Rect.X, p.Rect.Y - top, p.Rect.W, strip)
    BY RectLower
  <2> HIDE DEF full
  <2> QED BY <1>5, <1>7, <1>8, <2>1
<1>9. CASE strip = 0
  <2> HIDE DEF top
  <2>1. p.Rect.H + top = h
    BY <1>1, <1>3, <1>4, <1>6, <1>9 DEF Greater
  <2> QED BY <1>5, <1>7, <1>9, <2>1
<1> QED BY <1>8, <1>9

\* The tiles ps stand one on the other from y on, with the edges e.
PiledUp(scr, ps, n, e, x, y, w) ==
  /\ DOMAIN ps = 1..n
  /\ \A k \in 1..n : /\ ~ps[k].Hidden
                     /\ Extent(scr, ps[k]) = Rect(x, y + e[k - 1], w, e[k] - e[k - 1])

LEMMA PileFills ==
  ASSUME NEW scr, NEW n \in Nat \ {0}, NEW h \in Int, NEW e, Edges(e, n, h),
         NEW x \in Int, NEW y \in Int, NEW w \in Int,
         NEW ps, PiledUp(scr, ps, n, e, x, y, w)
  PROVE  Fills(scr, NotHidden(ps), Rect(x, y, w, h))
<1> DEFINE r == Rect(x, y, w, h)
           tile(k) == Extent(scr, ps[k])
<1>1. r.X = x /\ r.Y = y /\ r.W = w /\ r.H = h
  BY RectFields
<1>2. NotHidden(ps) = {ps[k] : k \in 1..n}
  BY DEF PiledUp, NotHidden, ToSet
<1>3. \A k \in 0..n : e[k] \in Int
  BY DEF Edges
<1>4. ASSUME NEW k \in 1..n
      PROVE  /\ tile(k).X = x /\ tile(k).Y = y + e[k - 1]
             /\ tile(k).W = w /\ tile(k).H = e[k] - e[k - 1]
  BY RectFields DEF PiledUp
<1>4a. ASSUME NEW k \in 1..n PROVE tile(k) \in Box
  <2>1. k - 1 \in 0..n /\ k \in 0..n
    OBVIOUS
  <2>2. y + e[k - 1] \in Int /\ e[k] - e[k - 1] \in Int
    BY <1>3, <2>1
  <2>3. tile(k) = Rect(x, y + e[k - 1], w, e[k] - e[k - 1])
    BY DEF PiledUp
  <2> HIDE DEF tile
  <2> QED BY <2>2, <2>3, RectTyped
<1> HIDE DEF r, tile
<1>5. ASSUME NEW k \in 1..n PROVE Inside(tile(k), r)
  <2>1. k - 1 \in 0..n /\ k \in 0..n /\ 0 \in 0..n /\ n \in 0..n
    OBVIOUS
  <2>2. e[0] <= e[k - 1] /\ e[k] <= e[n] /\ e[0] = 0 /\ e[n] = h
    BY <2>1, EdgesRise DEF Edges
  <2> QED BY <1>1, <1>3, <1>4, <2>1, <2>2 DEF Inside
<1>6. ASSUME NEW a \in r.X..(r.X + r.W - 1), NEW b \in r.Y..(r.Y + r.H - 1)
      PROVE  \E p \in NotHidden(ps) : \A q \in NotHidden(ps) : Covers(Extent(scr, q), a, b) <=> q = p
  <2>1. a \in Int /\ b \in Int /\ x <= a /\ a <= x + w - 1 /\ b - y \in 0..h - 1
    BY <1>1
  <2>2. PICK k \in 1..n : \A l \in 1..n : Between(e, l, b - y) <=> l = k
    BY <2>1, OneBetween
  <2>3. ASSUME NEW l \in 1..n PROVE Covers(tile(l), a, b) <=> l = k
    <3>1. l - 1 \in 0..n /\ e[l - 1] \in Int /\ e[l] \in Int
      BY <1>3
    <3>2. Covers(tile(l), a, b) <=> Between(e, l, b - y)
      BY <1>4, <2>1, <3>1 DEF Covers, Between
    <3> QED BY <2>2, <3>2
  <2>4. ps[k] \in NotHidden(ps)
    BY <1>2
  <2>5. ASSUME NEW q \in NotHidden(ps) PROVE Covers(Extent(scr, q), a, b) <=> q = ps[k]
    <3>1. PICK l \in 1..n : q = ps[l]
      BY <1>2
    <3>2. Covers(Extent(scr, q), a, b) <=> l = k
      BY <2>3, <3>1 DEF tile
    <3>3. Covers(Extent(scr, ps[k]), a, b)
      BY <2>3 DEF tile
    <3> QED BY <3>1, <3>2, <3>3
  <2> QED BY <2>4, <2>5
<1> QED BY <1>2, <1>4a, <1>5, <1>6 DEF Fills, r, tile

LEMMA OneMore ==
  ASSUME NEW k \in Int, NEW q \in Int
  PROVE  k * q \in Int /\ (k - 1) * q \in Int /\ k * q = (k - 1) * q + q
OBVIOUS

\* Default mode.
LEMMA SplitFills ==
  ASSUME NEW s, NEW scr \in Screens, NEW i, NEW ids,
         NEW x \in Int, NEW y \in Int, NEW w \in Int, NEW h \in Int,
         NEW n \in Nat \ {0}, n * (scr.bar + 1) <= h,
         NEW ps, DOMAIN ps = 1..n,
         \A k \in 1..n :
           PutIn(s, scr, i, ids[k], "tiled", splitEvenly(Rect(x, y, w, h), n)[k], 0, ps[k])
  PROVE  Fills(scr, NotHidden(ps), Rect(x, y, w, h))
<1> DEFINE q == h \div n
           e == [k \in 0..n |-> IF k = n THEN h ELSE k * q]
<1>1. scr.bar \in Nat
  BY ScreenFields
<1>2. q \in Nat /\ q * n <= h /\ scr.bar < q
  <2>1. n * (scr.bar + 1) \in Nat
    BY <1>1
  <2>2. h \in Nat
    BY <2>1
  <2>3. q \in Nat /\ q * n <= h /\ h < (q + 1) * n
    BY <2>2, RoundedDown
  <2> HIDE DEF q
  <2>4. SUFFICES ASSUME q + 1 <= scr.bar + 1 PROVE FALSE
    BY <1>1, <2>3
  <2>5. n * (scr.bar + 1 - (q + 1)) >= 0
    BY <1>1, <2>3, <2>4
  <2>6. n * (scr.bar + 1 - (q + 1)) = n * (scr.bar + 1) - (q + 1) * n
    BY <1>1, <2>3
  <2> QED BY <1>1, <2>3, <2>5, <2>6
<1>3. ASSUME NEW k \in 1..n
      PROVE  splitEvenly(Rect(x, y, w, h), n)[k] =
               Rect(x, y + (k - 1) * q, w, IF k = n THEN h - (n - 1) * q ELSE q)
  <2> DEFINE box == Rect(x, y, w, h)
  <2>1. box.X = x /\ box.Y = y /\ box.W = w /\ box.H = h
    BY RectFields
  <2> HIDE DEF box
  <2>2. splitEvenly(box, n)[k] = Rect(x, y + (k - 1) * q, w, IF k = n THEN h - (n - 1) * q ELSE q)
    BY <2>1 DEF splitEvenly
  <2> QED BY <2>2 DEF box
<1> HIDE DEF q
<1>4. /\ e[0] = 0 /\ e[n] = h
      /\ \A k \in 1..n : e[k - 1] = (k - 1) * q /\ e[k] = IF k = n THEN h ELSE k * q
      /\ \A k \in 0..n : e[k] \in Int
  BY <1>2
<1> HIDE DEF e
<1>5. (n - 1) * q = q * n - q
  BY <1>2
<1>6. ASSUME NEW k \in 1..n
      PROVE  /\ e[k] - e[k - 1] = IF k = n THEN h - (n - 1) * q ELSE q
             /\ scr.bar < e[k] - e[k - 1] /\ (k - 1) * q \in Int
  <2>1. k * q \in Int /\ (k - 1) * q \in Int /\ k * q = (k - 1) * q + q
    BY <1>2, OneMore
  <2>2. CASE k = n
    <3>1. e[k] = h /\ e[k - 1] = (n - 1) * q
      BY <1>4, <2>2
    <3>2. (n - 1) * q \in Int /\ q * n \in Int
      BY <1>2
    <3> QED BY <1>1, <1>2, <1>5, <2>1, <2>2, <3>1, <3>2
  <2>3. CASE k # n
    <3>1. e[k] = k * q /\ e[k - 1] = (k - 1) * q
      BY <1>4, <2>3
    <3>2. e[k] - e[k - 1] = q
      BY <1>2, <2>1, <3>1
    <3> QED BY <1>2, <2>1, <2>3, <3>2
  <2> QED BY <2>2, <2>3
<1>7. Edges(e, n, h)
  <2>1. ASSUME NEW k \in 1..n PROVE e[k - 1] <= e[k]
    <3>1. k - 1 \in 0..n /\ k \in 0..n
      BY <1>1
    <3>2. e[k - 1] \in Int /\ e[k] \in Int
      BY <1>4, <3>1
    <3>3. scr.bar < e[k] - e[k - 1]
      BY <1>6
    <3> QED BY <1>1, <3>2, <3>3
  <2> QED BY <1>4, <2>1 DEF Edges
<1>8. ASSUME NEW k \in 1..n
      PROVE  /\ ~ps[k].Hidden
             /\ Extent(scr, ps[k]) = Rect(x, y + e[k - 1], w, e[k] - e[k - 1])
  <2> DEFINE r == splitEvenly(Rect(x, y, w, h), n)[k]
             a == y + e[k - 1]
             b == e[k] - e[k - 1]
  <2>1. r = Rect(x, a, w, b) /\ a \in Int /\ b \in Int /\ scr.bar < b
    <3>1. a = y + (k - 1) * q /\ b = (IF k = n THEN h - (n - 1) * q ELSE q)
      BY <1>4, <1>6
    <3>2. e[k - 1] \in Int /\ e[k] \in Int /\ scr.bar < b
      BY <1>4, <1>6
    <3>3. a \in Int /\ b \in Int
      BY <3>2
    <3>4. r = Rect(x, a, w, b)
      <4> HIDE DEF a, b
      <4> QED BY <1>3, <3>1
    <3> QED BY <3>2, <3>3, <3>4
  <2>2. PutIn(s, scr, i, ids[k], "tiled", r, 0, ps[k])
    OBVIOUS
  <2> HIDE DEF r, a, b
  <2>3. Extent(scr, ps[k]) = Rect(x, a, w, b)
    BY <2>1, <2>2, ExtentOfPut
  <2>4. ~ps[k].Hidden
    BY <2>2 DEF PutIn, put
  <2> QED BY <2>3, <2>4 DEF a, b
<1>9. PiledUp(scr, ps, n, e, x, y, w)
  BY <1>8 DEF PiledUp
<1> QED BY <1>7, <1>9, PileFills

\* The window a stack expands has a row of pixels under its titlebar.
LEMMA ExpandedIsSeen ==
  ASSUME NEW scr \in Screens, NEW box, NEW h \in Int, box.H = h,
         NEW n \in Nat, n > 1, n * (scr.bar + 1) <= h
  PROVE  scr.bar < h - (n - 1) * stripHeight(scr, box, n)
<1> DEFINE half == h \div 2
           m == n - 1
           most == half \div m
           wanted == Greater(IF scr.bar > 0 THEN scr.bar ELSE scr.strip, 1)
           strip == stripHeight(scr, box, n)
           b == scr.bar
<1>0. SUFFICES b < h - m * strip
  OBVIOUS
<1>1. b \in Nat /\ scr.strip \in Nat
  BY ScreenFields
<1>2. m \in Nat \ {0} /\ n * (b + 1) = m * b + m + b + 1 /\ m * b \in Nat
  BY <1>1
<1>3. h \in Nat /\ h >= m + b + 1 /\ h >= m * b + m + b + 1
  BY <1>1, <1>2
<1>4. half \in Nat /\ half + half <= h
  BY <1>3
<1>5. strip = Greater(1, Lesser(wanted, most))
  BY DEF stripHeight
<1> HIDE DEF half, strip
<1>6. most \in Nat /\ most * m <= half
  BY <1>2, <1>4, RoundedDown
<1> HIDE DEF most
<1>7. wanted \in Nat /\ (b > 0 => wanted = b)
  BY <1>1 DEF Greater
<1> HIDE DEF wanted
<1>8. strip = 1 \/ (strip \in Nat /\ strip <= wanted /\ strip <= most)
  BY <1>5, <1>6, <1>7 DEF Greater, Lesser
<1> HIDE DEF m, b
<1>9. CASE strip = 1
  <2>1. m * strip = m
    BY <1>2, <1>9
  <2> QED BY <1>1, <1>2, <1>3, <2>1
<1>10. CASE strip \in Nat /\ strip <= wanted /\ strip <= most
  <2>1. CASE b > 0
    <3>1. m * (b - strip) >= 0
      BY <1>1, <1>2, <1>7, <1>10, <2>1
    <3>2. m * (b - strip) = m * b - m * strip /\ m * strip \in Nat
      BY <1>1, <1>2, <1>10
    <3> QED BY <1>1, <1>2, <1>3, <3>1, <3>2
  <2>2. CASE b = 0
    <3>1. m * (most - strip) >= 0
      BY <1>2, <1>6, <1>10
    <3>2. m * (most - strip) = most * m - m * strip /\ m * strip \in Nat /\ most * m \in Nat
      BY <1>2, <1>6, <1>10
    <3>3. m * strip <= half
      BY <1>4, <1>6, <3>1, <3>2
    <3>4. half > 0 \/ m * strip = 0
      BY <1>4, <3>2, <3>3
    <3> QED BY <1>2, <1>3, <1>4, <2>2, <3>2, <3>3, <3>4
  <2> QED BY <1>1, <2>1, <2>2
<1> QED BY <1>8, <1>9, <1>10

\* Stack mode.
LEMMA StackFills ==
  ASSUME NEW s, NEW scr \in Screens, NEW i, NEW ids,
         NEW x \in Int, NEW y \in Int, NEW w \in Int, NEW h \in Int,
         NEW n \in Nat, n > 1, n * (scr.bar + 1) <= h, NEW fi \in 1..n,
         NEW strip, strip = stripHeight(scr, Rect(x, y, w, h), n),
         NEW ps, DOMAIN ps = 1..n,
         \A k \in 1..n :
           PutIn(s, scr, i, ids[k], "tiled", stackBoxes(Rect(x, y, w, h), n, fi, strip)[k],
                 IF k = fi THEN 0 ELSE strip, ps[k])
  PROVE  Fills(scr, NotHidden(ps), Rect(x, y, w, h))
<1> DEFINE high == h - (n - 1) * strip
           e == [k \in 0..n |-> IF k < fi THEN k * strip ELSE (k - 1) * strip + high]
           box == Rect(x, y, w, h)
<1>1. scr.bar \in Nat
  BY ScreenFields
<1>2. box.X = x /\ box.Y = y /\ box.W = w /\ box.H = h
  BY RectFields
<1>3. strip \in Nat /\ strip > 0 /\ scr.bar < high
  <2>1. strip = stripHeight(scr, box, n) /\ box.H = h
    BY <1>2
  <2> HIDE DEF box
  <2>2. strip \in Nat /\ strip > 0
    BY <2>1, StripIsSeen
  <2> QED BY <2>1, <2>2, ExpandedIsSeen
<1>4. high \in Int /\ (n - 1) * strip + high = h
  BY <1>3
<1>5. ASSUME NEW k \in 1..n
      PROVE  stackBoxes(box, n, fi, strip)[k] =
               Rect(x, y + (IF k <= fi THEN (k - 1) * strip ELSE (k - 2) * strip + high), w, high)
  <2> HIDE DEF box
  <2> QED BY <1>2 DEF stackBoxes
<1> HIDE DEF high
<1>6. /\ e[0] = 0 /\ e[n] = h
      /\ \A k \in 0..n : e[k] \in Int
  <2>1. e[0] = 0 * strip /\ 0 * strip = 0
    BY <1>3
  <2>2. e[n] = h
    BY <1>4
  <2>3. ASSUME NEW k \in 0..n PROVE e[k] \in Int
    <3>1. k * strip \in Int /\ (k - 1) * strip \in Int
      BY <1>3
    <3> QED BY <1>4, <3>1
  <2> QED BY <2>1, <2>2, <2>3
<1>7. ASSUME NEW k \in 1..n
      PROVE  /\ e[k - 1] = IF k <= fi THEN (k - 1) * strip ELSE (k - 2) * strip + high
             /\ e[k] - e[k - 1] = IF k = fi THEN high ELSE strip
  <2>1. k - 1 \in 0..n /\ k \in 0..n /\ (k - 1 < fi <=> k <= fi) /\ (k - 1) - 1 = k - 2
    OBVIOUS
  <2>2. e[k - 1] = IF k <= fi THEN (k - 1) * strip ELSE (k - 2) * strip + high
    BY <2>1
  <2>3. e[k] = IF k < fi THEN k * strip ELSE (k - 1) * strip + high
    OBVIOUS
  <2> DEFINE a == k * strip
             b == (k - 1) * strip
             c == (k - 2) * strip
  <2>4. a \in Int /\ b \in Int /\ c \in Int /\ a = b + strip /\ b = c + strip
    <3>1. k \in Int /\ k - 1 \in Int /\ strip \in Int /\ (k - 1) - 1 = k - 2
      BY <1>3
    <3>2. k * strip \in Int /\ (k - 1) * strip \in Int /\ k * strip = (k - 1) * strip + strip
      BY <3>1, OneMore
    <3>3. /\ ((k - 1) - 1) * strip \in Int
          /\ (k - 1) * strip = ((k - 1) - 1) * strip + strip
      BY <3>1, OneMore
    <3> QED BY <3>1, <3>2, <3>3
  <2>5. /\ e[k - 1] = IF k <= fi THEN b ELSE c + high
        /\ e[k] = IF k < fi THEN a ELSE b + high
    BY <2>2, <2>3
  <2> HIDE DEF e, a, b, c
  <2>6. e[k] - e[k - 1] = IF k = fi THEN high ELSE strip
    <3>1. CASE k < fi
      <4>1. e[k] = a /\ e[k - 1] = b /\ k # fi
        BY <2>5, <3>1
      <4>2. a - b = strip
        BY <1>3, <2>4
      <4> QED BY <4>1, <4>2
    <3>2. CASE k = fi
      BY <1>4, <2>4, <2>5, <3>2
    <3>3. CASE k > fi
      <4>1. e[k] = b + high /\ e[k - 1] = c + high /\ k # fi
        BY <2>5, <3>3
      <4>2. (b + high) - (c + high) = strip
        <5>1. high \in Int /\ strip \in Int
          BY <1>3, <1>4
        <5>2. b \in Int /\ c \in Int /\ b = c + strip
          BY <2>4
        <5> QED BY <5>1, <5>2
      <4> QED BY <4>1, <4>2
    <3> QED BY <3>1, <3>2, <3>3
  <2> QED BY <2>2, <2>6
<1> HIDE DEF e
<1>8. Edges(e, n, h)
  <2>1. ASSUME NEW k \in 1..n PROVE e[k - 1] <= e[k]
    <3>1. e[k - 1] \in Int /\ e[k] \in Int
      BY <1>6
    <3>2. e[k] - e[k - 1] = IF k = fi THEN high ELSE strip
      BY <1>7
    <3>3. high >= 0 /\ strip >= 0
      BY <1>1, <1>3, <1>4
    <3>4. e[k] - e[k - 1] >= 0
      BY <3>2, <3>3
    <3> QED BY <3>1, <3>4
  <2> QED BY <1>6, <2>1 DEF Edges
<1>9. ASSUME NEW k \in 1..n
      PROVE  /\ ~ps[k].Hidden
             /\ Extent(scr, ps[k]) = Rect(x, y + e[k - 1], w, e[k] - e[k - 1])
  <2> DEFINE r == stackBoxes(box, n, fi, strip)[k]
             a == y + e[k - 1]
             b == IF k = fi THEN 0 ELSE strip
  <2>1. r = Rect(x, a, w, high) /\ a \in Int /\ b \in Nat /\ (b = 0 => scr.bar < high)
    <3>1. e[k - 1] \in Int
      BY <1>6
    <3>2. r = Rect(x, a, w, high)
      BY <1>5, <1>7
    <3> QED BY <1>3, <3>1, <3>2
  <2>2. PutIn(s, scr, i, ids[k], "tiled", r, b, ps[k])
    OBVIOUS
  <2>3. (IF b = 0 THEN high ELSE b) = e[k] - e[k - 1]
    BY <1>3, <1>7
  <2> HIDE DEF r, a, b
  <2>4. Extent(scr, ps[k]) = Rect(x, a, w, IF b = 0 THEN high ELSE b)
    BY <1>4, <2>1, <2>2, ExtentOfPut
  <2>5. ~ps[k].Hidden
    BY <2>2 DEF PutIn, put
  <2> QED BY <2>3, <2>4, <2>5 DEF a
<1>10. PiledUp(scr, ps, n, e, x, y, w)
  BY <1>9 DEF PiledUp
<1> QED BY <1>8, <1>10, PileFills

\* p is put in box r, and hidden unless it is sel.
PutUnless(s, scr, i, id, r, sel, p) == p = put(s, scr, i, id, "tiled", r, 0, id # sel)

LEMMA PutWhenSelected ==
  ASSUME NEW s, NEW scr, NEW i, NEW id, NEW r, NEW sel, NEW p,
         PutUnless(s, scr, i, id, r, sel, p)
  PROVE  /\ id = sel => PutIn(s, scr, i, id, "tiled", r, 0, p)
         /\ ~p.Hidden <=> id = sel
<1>1. ASSUME id = sel PROVE PutIn(s, scr, i, id, "tiled", r, 0, p)
  <2>1. (id # sel) = FALSE
    BY <1>1
  <2> QED BY <2>1, Zenon DEF PutIn, PutUnless
<1>2. p.Hidden = (id # sel)
  BY DEF put, PutUnless
<1> QED BY <1>1, <1>2

LEMMA TimesMore ==
  ASSUME NEW n \in Nat, NEW m \in Nat, n <= m, NEW b \in Nat
  PROVE  n * b <= m * b /\ n * b \in Nat /\ m * b \in Nat
<1>1. (m - n) * b >= 0 /\ (m - n) * b = m * b - n * b
  OBVIOUS
<1>2. n * b \in Nat /\ m * b \in Nat
  OBVIOUS
<1> QED BY <1>1, <1>2

\* A window fills a box by itself.
LEMMA OneFills ==
  ASSUME NEW scr, NEW T, NEW p \in T, \A q \in T : q = p,
         NEW x \in Int, NEW y \in Int, NEW w \in Int, NEW h \in Int,
         Extent(scr, p) = Rect(x, y, w, h)
  PROVE  Fills(scr, T, Rect(x, y, w, h))
<1> DEFINE r == Rect(x, y, w, h)
<1>1. r.X = x /\ r.Y = y /\ r.W = w /\ r.H = h /\ r \in Box
  BY RectFields, RectTyped
<1> HIDE DEF r
<1>2. Inside(r, r)
  BY <1>1 DEF Inside
<1>3. ASSUME NEW a \in r.X..(r.X + r.W - 1), NEW b \in r.Y..(r.Y + r.H - 1)
      PROVE  Covers(r, a, b)
  BY DEF Covers
<1>4. \A q \in T : Extent(scr, q) = r
  BY DEF r
<1>5. Fills(scr, T, r)
  BY <1>1, <1>2, <1>3, <1>4 DEF Fills
<1> QED BY <1>5 DEF r

\* Max mode.
LEMMA MaxFills ==
  ASSUME NEW s, NEW scr \in Screens, NEW i, NEW ids, NEW sel,
         NEW x \in Int, NEW y \in Int, NEW w \in Int, NEW h \in Int,
         NEW n \in Nat, scr.bar < h, \A k, l \in 1..n : ids[k] = ids[l] => k = l,
         NEW f \in 1..n, ids[f] = sel,
         NEW ps, DOMAIN ps = 1..n,
         NEW r, r = Rect(x, y, w, h),
         \A k \in 1..n : PutUnless(s, scr, i, ids[k], r, sel, ps[k])
  PROVE  Fills(scr, NotHidden(ps), r)
<1>0. \A k \in 1..n : /\ ids[k] = sel => PutIn(s, scr, i, ids[k], "tiled", r, 0, ps[k])
                      /\ ~ps[k].Hidden <=> ids[k] = sel
  BY PutWhenSelected
<1>1. ps[f] \in NotHidden(ps)
  BY <1>0 DEF NotHidden, ToSet
<1>2. ASSUME NEW q \in NotHidden(ps) PROVE q = ps[f]
  <2>1. PICK k \in 1..n : q = ps[k] /\ ~ps[k].Hidden
    BY DEF NotHidden, ToSet
  <2>2. ids[k] = sel
    BY <1>0, <2>1
  <2> QED BY <2>1, <2>2
<1> DEFINE p == ps[f]
<1>3. PutIn(s, scr, i, ids[f], "tiled", r, 0, p)
  BY <1>0
<1> HIDE DEF p
<1>5. Extent(scr, p) = Rect(x, y, w, h)
  BY <1>3, ExtentOfPut
<1> QED BY <1>1, <1>2, <1>5, OneFills DEF p

\* The box is high enough for the windows of column c, each with a titlebar and
\* a row of pixels.
Roomy(scr, c, h) == Len(c.Windows) * (scr.bar + 1) <= h

LEMMA ColumnFills ==
  ASSUME NEW s, NEW scr \in Screens, NEW i, NEW c \in Column, IsInjective(c.Windows),
         NEW x \in Int, NEW y \in Int, NEW w \in Int, NEW h \in Int, Roomy(scr, c, h),
         NEW box, box = Rect(x, y, w, h), NEW placed,
         NEW ps, ps = layoutColumn(s, scr, i, c, box, placed), selected(c) \in IdsOf(ps)
  PROVE  Fills(scr, NotHidden(ps), box)
<1> DEFINE ids == Left(c.Windows, placed)
           n   == Len(ids)
           sel == selected(c)
           fi  == IF sel \in ToSet(ids) THEN IndexOf(ids, sel) ELSE 1
           strip == stripHeight(scr, box, n)
<1>1. ids \in Seq(WindowID) /\ IsInjective(ids) /\ n \in Nat /\ n <= Len(c.Windows)
  BY ColumnTyped, LeftOver, LenProperties DEF Left
<1>2. /\ IdsOf(ps) = ToSet(ids) /\ DOMAIN ps = 1..n
      /\ \A k \in 1..n : ColumnEntry(s, scr, i, c, box, placed, ps[k], k)
  BY ColumnEntries
<1>3. sel \in ToSet(ids) /\ fi \in 1..n /\ ids[fi] = sel
  BY <1>1, <1>2, IndexOfType
<1>4. scr.bar \in Nat /\ Len(c.Windows) \in Nat
  BY ScreenFields, ColumnTyped
<1>5. n \in Nat \ {0} /\ n * (scr.bar + 1) <= h
  <2>1. n \in Nat \ {0}
    BY <1>1, <1>3
  <2> DEFINE m == Len(c.Windows)
  <2>2. m \in Nat /\ m * (scr.bar + 1) <= h /\ n <= m
    BY <1>1, <1>4 DEF Roomy
  <2> DEFINE b == scr.bar + 1
  <2>3. b \in Nat /\ m * b <= h
    BY <1>4, <2>2
  <2> HIDE DEF m, n, b
  <2>4. n * b <= m * b /\ n * b \in Nat /\ m * b \in Nat
    BY <2>1, <2>2, <2>3, TimesMore
  <2>5. n * b <= h
    BY <2>3, <2>4
  <2> QED BY <2>1, <2>5 DEF b
<1>6. c.Mode \in {"default", "stack", "max"}
  BY ColumnTyped
<1> HIDE DEF ids, n, fi, strip, sel
<1>7. CASE n = 1 \/ c.Mode = "default"
  <2>1. ASSUME NEW k \in 1..n
        PROVE  PutIn(s, scr, i, ids[k], "tiled", splitEvenly(Rect(x, y, w, h), n)[k], 0, ps[k])
    BY <1>2, <1>7 DEF ColumnEntry, PutIn, ids, n
  <2> QED BY <1>2, <1>5, <2>1, SplitFills
<1>8. CASE n # 1 /\ c.Mode = "stack"
  <2>1. ASSUME NEW k \in 1..n
        PROVE  PutIn(s, scr, i, ids[k], "tiled", stackBoxes(Rect(x, y, w, h), n, fi, strip)[k],
                     IF k = fi THEN 0 ELSE strip, ps[k])
    BY <1>2, <1>8 DEF ColumnEntry, PutIn, ids, n, fi, strip, sel
  <2>2. strip = stripHeight(scr, Rect(x, y, w, h), n) /\ n \in Nat /\ n > 1
    BY <1>5, <1>8 DEF strip
  <2> QED BY <1>2, <1>3, <1>5, <2>1, <2>2, StackFills
<1>9. CASE n # 1 /\ c.Mode = "max"
  <2>1. ASSUME NEW k \in 1..n
        PROVE  PutUnless(s, scr, i, ids[k], box, sel, ps[k])
    BY <1>2, <1>9 DEF ColumnEntry, PutUnless, ids, n, sel
  <2>3. \A k, l \in 1..n : ids[k] = ids[l] => k = l
    BY <1>1 DEF IsInjective, n
  <2>4. scr.bar < h
    <3> DEFINE b == scr.bar + 1
    <3>1. b \in Nat /\ n * b <= h /\ 1 <= n
      BY <1>4, <1>5
    <3> HIDE DEF b
    <3>2. 1 * b <= n * b /\ n * b \in Nat
      BY <1>5, <3>1, TimesMore
    <3>3. b <= h
      BY <3>1, <3>2
    <3> QED BY <1>4, <3>3 DEF b
  <2> QED BY <1>2, <1>3, <1>5, <2>1, <2>3, <2>4, MaxFills
<1> QED BY <1>6, <1>7, <1>8, <1>9

-----------------------------------------------------------------------------
(* The tiles of an output.                                                 *)

\* q[k] fills the k-th of n boxes side by side, from x on, with the edges e.
SideBySide(scr, q, n, e, x, y, h) ==
  \A k \in 1..n : Fills(scr, q[k], Rect(x + e[k - 1], y, e[k] - e[k - 1], h))

Together(q, n) == UNION {q[k] : k \in 1..n}

LEMMA RowFills ==
  ASSUME NEW scr, NEW n \in Nat \ {0}, NEW w \in Int, NEW e, Edges(e, n, w),
         NEW x \in Int, NEW y \in Int, NEW h \in Int, NEW q, SideBySide(scr, q, n, e, x, y, h)
  PROVE  Fills(scr, Together(q, n), Rect(x, y, w, h))
<1> DEFINE T == UNION {q[k] : k \in 1..n}
           r == Rect(x, y, w, h)
           box(k) == Rect(x + e[k - 1], y, e[k] - e[k - 1], h)
<1>1. r.X = x /\ r.Y = y /\ r.W = w /\ r.H = h
  BY RectFields
<1>2. \A k \in 0..n : e[k] \in Int
  BY DEF Edges
<1>3. ASSUME NEW k \in 1..n
      PROVE  /\ box(k).X = x + e[k - 1] /\ box(k).Y = y /\ box(k).W = e[k] - e[k - 1] /\ box(k).H = h
             /\ Fills(scr, q[k], box(k))
  BY RectFields DEF SideBySide
<1> HIDE DEF r, box
<1>4. ASSUME NEW k \in 1..n, NEW p \in q[k]
      PROVE  Extent(scr, p) \in Box /\ Inside(Extent(scr, p), box(k))
  BY <1>3 DEF Fills
<1>5. ASSUME NEW k \in 1..n, NEW t \in Box, Inside(t, box(k)) PROVE Inside(t, r)
  <2>1. k - 1 \in 0..n /\ k \in 0..n /\ 0 \in 0..n /\ n \in 0..n
    OBVIOUS
  <2>2. e[0] <= e[k - 1] /\ e[k] <= e[n] /\ e[0] = 0 /\ e[n] = w
    BY <2>1, EdgesRise DEF Edges
  <2>3. e[k - 1] \in Int /\ e[k] \in Int
    BY <1>2, <2>1
  <2>4. t.X \in Int /\ t.Y \in Int /\ t.W \in Int /\ t.H \in Int
    BY BoxFields
  <2> QED BY <1>1, <1>3, <1>5, <2>2, <2>3, <2>4 DEF Inside
<1>6. ASSUME NEW a \in r.X..(r.X + r.W - 1), NEW b \in r.Y..(r.Y + r.H - 1)
      PROVE  \E p \in T : \A u \in T : Covers(Extent(scr, u), a, b) <=> u = p
  <2>1. a \in Int /\ b \in y..(y + h - 1) /\ a - x \in 0..w - 1
    BY <1>1
  <2>2. PICK k \in 1..n : \A l \in 1..n : Between(e, l, a - x) <=> l = k
    BY <2>1, OneBetween
  <2>3. ASSUME NEW l \in 1..n
        PROVE  a \in box(l).X..(box(l).X + box(l).W - 1) <=> l = k
    <3>1. l - 1 \in 0..n /\ e[l - 1] \in Int /\ e[l] \in Int
      BY <1>2
    <3>2. Between(e, l, a - x) <=> a \in (x + e[l - 1])..(x + e[l] - 1)
      BY <2>1, <3>1 DEF Between
    <3>3. box(l).X = x + e[l - 1] /\ box(l).X + box(l).W - 1 = x + e[l] - 1
      BY <1>3, <3>1
    <3> QED BY <2>2, <3>2, <3>3
  <2>4. a \in box(k).X..(box(k).X + box(k).W - 1) /\ b \in box(k).Y..(box(k).Y + box(k).H - 1)
    BY <1>3, <2>1, <2>3
  <2>5. PICK p \in q[k] : \A u \in q[k] : Covers(Extent(scr, u), a, b) <=> u = p
    BY <1>3, <2>4 DEF Fills
  <2>6. p \in T
    OBVIOUS
  <2>7. ASSUME NEW u \in T PROVE Covers(Extent(scr, u), a, b) <=> u = p
    <3>1. PICK l \in 1..n : u \in q[l]
      OBVIOUS
    <3>2. CASE l = k
      BY <2>5, <3>1, <3>2
    <3>3. CASE l # k
      <4>1. ~Covers(Extent(scr, u), a, b)
        <5> DEFINE t == Extent(scr, u)
        <5>1. t \in Box /\ Inside(t, box(l))
          BY <1>4, <3>1
        <5> HIDE DEF t
        <5>2. t.X \in Int /\ t.W \in Int
          BY <5>1, BoxFields
        <5>3. box(l).X \in Int /\ box(l).W \in Int
          <6>1. l - 1 \in 0..n /\ e[l - 1] \in Int /\ e[l] \in Int
            BY <1>2
          <6> QED BY <1>3, <6>1
        <5>4. a \notin box(l).X..(box(l).X + box(l).W - 1)
          BY <2>3, <3>3
        <5>5. a \notin t.X..(t.X + t.W - 1)
          BY <2>1, <5>1, <5>2, <5>3, <5>4 DEF Inside
        <5> QED BY <5>5 DEF Covers, t
      <4>2. Covers(Extent(scr, p), a, b)
        BY <2>5
      <4> QED BY <4>1, <4>2
    <3> QED BY <3>2, <3>3
  <2> QED BY <2>6, <2>7
<1>7. ASSUME NEW p \in T PROVE Extent(scr, p) \in Box /\ Inside(Extent(scr, p), r)
  <2>1. PICK k \in 1..n : p \in q[k]
    OBVIOUS
  <2> QED BY <1>4, <1>5, <2>1
<1> HIDE DEF T
<1>8. Fills(scr, T, r)
  BY <1>6, <1>7 DEF Fills
<1> QED BY <1>8 DEF T, r, Together

\* The tiles that show.
ShownTiles(ps) == {p \in ToSet(ps) : ~p.Hidden /\ (p.Layer = "tiled" \/ p.Fullscreen)}

LEMMA FullscreenFills ==
  ASSUME NEW s, NEW scr \in Screens, NEW i, NEW placed,
         ~Blank(s, scr, i), fullscreenOn(shownView(s, i), placed),
         NEW ps, ps = layoutOutput(s, scr, i, placed), outputArea(s, scr, i) \in Box
  PROVE  Fills(scr, ShownTiles(ps), outputArea(s, scr, i))
<1> DEFINE v == shownView(s, i)
           area == outputArea(s, scr, i)
           q == put(s, scr, i, v.Fullscreen, v.FocusLayer, area, 0, FALSE)
           p == [q EXCEPT !.Rect = area, !.Bar = FALSE, !.Fullscreen = TRUE]
<1>1. ps = <<p>>
  BY OutputIs
<1>2. p.Rect = area /\ p.Strip = 0
  <2> HIDE DEF v, area
  <2> QED BY DEF put
<1>3. p.Bar = FALSE /\ p.Hidden = FALSE /\ p.Fullscreen = TRUE
  <2> HIDE DEF v, area
  <2> QED BY DEF put
<1>4. area \in Box
  OBVIOUS
<1> HIDE DEF p, area
<1>5. ToSet(ps) = {p}
  <2>1. DOMAIN ps = 1..1 /\ ps[1] = p
    BY <1>1
  <2> QED BY <2>1 DEF ToSet
<1>6. ShownTiles(ps) = {p}
  BY <1>3, <1>5 DEF ShownTiles
<1>7. /\ area.X \in Int /\ area.Y \in Int /\ area.W \in Int /\ area.H \in Int
      /\ area = Rect(area.X, area.Y, area.W, area.H)
  BY <1>4, BoxFields
<1>8. Extent(scr, p) = area
  <2>1. area.Y - 0 = area.Y /\ area.H + 0 = area.H
    BY <1>7
  <2>2. ~Collapsed(p) /\ ~p.Bar
    BY <1>2, <1>3 DEF Collapsed
  <2>3. Extent(scr, p) = Rect(area.X, area.Y - 0, area.W, area.H + 0)
    BY <1>2, <2>2 DEF Extent
  <2> QED BY <1>7, <2>1, <2>3
<1>9. Fills(scr, {p}, area)
  <2>1. p \in {p} /\ \A u \in {p} : u = p
    OBVIOUS
  <2>2. Extent(scr, p) = Rect(area.X, area.Y, area.W, area.H)
    BY <1>7, <1>8
  <2>3. Fills(scr, {p}, Rect(area.X, area.Y, area.W, area.H))
    BY <1>7, <2>1, <2>2, OneFills
  <2> QED BY <1>7, <2>3
<1> QED BY <1>6, <1>9 DEF area

\* The box of a column lies between its edges.
LEMMA ColumnBox ==
  ASSUME NEW scr \in Screens, NEW n \in Nat \ {0}, n <= Len(scr.factor),
         NEW area \in Box, area.W >= 0, NEW ci \in 1..n,
         NEW e, e = columnEdges(scr, n, area.W)
  PROVE  columnBoxes(scr, n, area)[ci] = Rect(area.X + e[ci - 1], area.Y, e[ci] - e[ci - 1], area.H)
<1> DEFINE width == area.W
           share == shares(scr, n, width)
           acc == sums(share)
<1>1. width \in Nat
  BY BoxFields
<1>2. columnBoxes(scr, n, area)[ci] =
        Rect(area.X + acc[ci - 1], area.Y, IF ci < n THEN share[ci] ELSE width - acc[n - 1], area.H)
  BY DEF columnBoxes
<1>3. /\ Edges(e, n, width)
      /\ \A k \in 1..n : share[k] \in Nat /\ e[k - 1] = acc[k - 1] /\ (k < n => e[k] = e[k - 1] + share[k])
  <2>1. e = columnEdges(scr, n, width)
    OBVIOUS
  <2> HIDE DEF width
  <2> QED BY <1>1, <2>1, ColumnEdges
<1> HIDE DEF width, share, acc
<1>4. /\ e[n] = width /\ e[ci - 1] = acc[ci - 1] /\ e[ci - 1] \in Int /\ e[ci] \in Int
      /\ ci < n => e[ci] = e[ci - 1] + share[ci]
  BY <1>3 DEF Edges
<1>5. share[ci] \in Int
  BY <1>3
<1>6. e[ci] - e[ci - 1] = IF ci < n THEN share[ci] ELSE width - acc[n - 1]
  BY <1>4, <1>5
<1> QED BY <1>2, <1>4, <1>6

\* A height h has room for the columns of v, and ps has the selection of each.
RoomFor(scr, v, h) ==
  /\ Len(v.Columns) <= Len(scr.factor)
  /\ \A ci \in 1..Len(v.Columns) : Roomy(scr, v.Columns[ci], h)

HasSelections(ps, v) == \A ci \in 1..Len(v.Columns) : selected(v.Columns[ci]) \in IdsOf(ps)

LEMMA TilesOfOutput ==
  ASSUME NEW s \in State, NEW scr \in Screens, NEW i \in DOMAIN s.Outputs, NEW placed,
         NEW v, v = shownView(s, i), Sound(v), NEW boxes, boxes = outputBoxes(s, scr, i),
         NEW ts, ts = tiles(s, scr, i, v, boxes, placed)
  PROVE  /\ OneEach(ts) /\ IdsOf(ts) = Held(v.Columns) \ placed
         /\ FromColumns(s, scr, i, v, boxes, placed, ts)
         /\ Boxed(v, boxes)
<1>1. Boxed(v, boxes)
  BY OutputTyped DEF Boxed
<1> QED BY <1>1, TilesPlace

LEMMA TiledFills ==
  ASSUME NEW s \in State, NEW scr \in Screens, NEW i \in DOMAIN s.Outputs, NEW placed,
         NEW v, v = shownView(s, i), Sound(v),
         ~Blank(s, scr, i), ~fullscreenOn(v, placed),
         NEW area, area = outputArea(s, scr, i),
         RoomFor(scr, v, area.H),
         NEW ps, ps = layoutOutput(s, scr, i, placed), HasSelections(ps, v)
  PROVE  Fills(scr, ShownTiles(ps), area)
<1> DEFINE n == Len(v.Columns)
           boxes == outputBoxes(s, scr, i)
           column(ci) == layoutColumn(s, scr, i, v.Columns[ci], boxes[ci], placed)
           ts == tiles(s, scr, i, v, boxes, placed)
           fs == outputFloats(s, scr, i, placed)
           e == columnEdges(scr, n, area.W)
           q == [ci \in 1..n |-> NotHidden(column(ci))]
<1>1. ps = ts \o fs
  BY OutputIs
<1>2. /\ v \in View /\ n \in Nat \ {0} /\ DOMAIN v.Columns = 1..n
      /\ \A ci \in 1..n : v.Columns[ci] \in Column /\ IsInjective(v.Columns[ci].Windows)
  <2>1. /\ v \in View /\ DOMAIN v.Columns = 1..n /\ n \in Nat
        /\ \A ci \in 1..n : v.Columns[ci] \in Column /\ IsInjective(v.Columns[ci].Windows)
    BY ColumnsOfSound
  <2>2. v.FocusCol \in DOMAIN v.Columns
    BY DEF Sound, InRange
  <2> QED BY <2>1, <2>2
<1>2a. n <= Len(scr.factor)
  BY DEF RoomFor
<1>3. area \in Box /\ area.W > 0 /\ area.H > 0 /\ \A ci \in 1..n : boxes[ci].H \in Int
  <2>1. area \in Box /\ \A ci \in 1..Len(shownView(s, i).Columns) : boxes[ci].H \in Int
    BY OutputTyped
  <2>2. area.W \in Int /\ area.H \in Int
    BY <2>1, BoxFields
  <2>3. ~(area.W <= 0) /\ ~(area.H <= 0)
    BY Zenon DEF Blank
  <2> QED BY <2>1, <2>2, <2>3
<1>4. area.X \in Int /\ area.Y \in Int /\ area.W \in Int /\ area.H \in Int
      /\ area = Rect(area.X, area.Y, area.W, area.H)
  BY <1>3, BoxFields
<1>5. /\ OneEach(ts) /\ IdsOf(ts) = Held(v.Columns) \ placed
      /\ \A p \in ToSet(ts) : \E ci \in 1..n : p \in ToSet(column(ci))
      /\ \A ci \in 1..n : ToSet(column(ci)) \subseteq ToSet(ts)
  <2>1. ts = tiles(s, scr, i, v, boxes, placed) /\ boxes = outputBoxes(s, scr, i)
    OBVIOUS
  <2> HIDE DEF boxes, ts
  <2>2. /\ OneEach(ts) /\ IdsOf(ts) = Held(v.Columns) \ placed
        /\ FromColumns(s, scr, i, v, boxes, placed, ts)
    BY <2>1, TilesOfOutput
  <2> QED BY <2>2, Zenon DEF FromColumns
<1>6. OneEach(fs) /\ IdsOf(fs) = ToSet(v.Float) \ placed
  <2>1. fs = outputFloats(s, scr, i, placed)
    OBVIOUS
  <2> HIDE DEF fs
  <2> QED BY <2>1, FloatingPlaces
<1>7. \A p \in ToSet(fs) : p.Layer = "floating" /\ p.Fullscreen = FALSE
  <2> DEFINE floats == floatsOf(v, placed)
  <2>1. fs = [k \in DOMAIN floats |-> put(s, scr, i, floats[k], "floating", scr.float, 0, FALSE)]
    BY DEF outputFloats
  <2> HIDE DEF floats, fs
  <2>2. \A k \in DOMAIN floats : fs[k].Layer = "floating" /\ fs[k].Fullscreen = FALSE
    BY <2>1 DEF put
  <2>3. DOMAIN fs = DOMAIN floats
    BY <2>1
  <2> QED BY <2>2, <2>3 DEF ToSet
<1>8. IdsOf(ps) \cap placed = {} /\ IdsOf(ps) \subseteq WindowID
  <2>1. IdsOf(ps) = WindowsOf(v) \ placed
    BY TiledPlaces
  <2>2. WindowsOf(v) = Held(v.Columns) \cup ToSet(v.Float) /\ Tiled(v) = Held(v.Columns)
    BY WindowsOfView
  <2>3. Tiled(v) \subseteq WindowID /\ ToSet(v.Float) \subseteq WindowID
    BY <1>2, ViewFields, TiledType, ToSetOf
  <2> QED BY <2>1, <2>2, <2>3
<1>9. ASSUME NEW ci \in 1..n
      PROVE  /\ selected(v.Columns[ci]) \in IdsOf(column(ci))
             /\ \A p \in ToSet(column(ci)) : p.Layer = "tiled"
  <2> DEFINE c == v.Columns[ci]
             box == boxes[ci]
             cs == column(ci)
  <2>1. cs = layoutColumn(s, scr, i, c, box, placed) /\ c \in Column /\ IsInjective(c.Windows) /\ box.H \in Int
    BY <1>2, <1>3
  <2>2. selected(c) \in IdsOf(ps)
    BY DEF HasSelections
  <2> HIDE DEF c, box, cs
  <2>3. IdsOf(cs) = ToSet(Left(c.Windows, placed)) /\ ColumnSeen(s, i, c, cs)
    BY <2>1, ColumnShows
  <2>4. ToSet(Left(c.Windows, placed)) = ToSet(c.Windows) \ placed
    BY <2>1, ColumnTyped, LeftOver DEF Left
  <2>5. selected(c) # NoWindow /\ selected(c) \notin placed
    BY <1>8, <2>2, ViewAssumption
  <2>6. selected(c) \in ToSet(c.Windows)
    BY <2>5 DEF selected, ToSet
  <2>7. \A p \in ToSet(cs) : p.Layer = "tiled"
    BY <2>3 DEF ColumnSeen, TileOf
  <2> QED BY <2>3, <2>4, <2>5, <2>6, <2>7 DEF c, cs
<1>10. ASSUME NEW ci \in 1..n
       PROVE  Fills(scr, q[ci], Rect(area.X + e[ci - 1], area.Y, e[ci] - e[ci - 1], area.H))
  <2> DEFINE c == v.Columns[ci]
             box == boxes[ci]
             cs == column(ci)
             x == area.X + e[ci - 1]
             w == e[ci] - e[ci - 1]
  <2>1. cs = layoutColumn(s, scr, i, c, box, placed) /\ c \in Column /\ IsInjective(c.Windows)
    BY <1>2
  <2>2. Roomy(scr, c, area.H) /\ selected(c) \in IdsOf(cs)
    BY <1>9 DEF RoomFor
  <2>3. box = Rect(x, area.Y, w, area.H)
    <3>1. box = columnBoxes(scr, n, area)[ci]
      BY DEF outputBoxes
    <3>2. area.W >= 0
      BY <1>3, <1>4
    <3>3. columnBoxes(scr, n, area)[ci] = Rect(area.X + e[ci - 1], area.Y, e[ci] - e[ci - 1], area.H)
      <4>1. e = columnEdges(scr, n, area.W)
        OBVIOUS
      <4> HIDE DEF e, n
      <4> QED BY <1>2, <1>2a, <1>3, <3>2, <4>1, ColumnBox
    <3> QED BY <3>1, <3>3
  <2>4. x \in Int /\ w \in Int
    <3>1. Edges(e, n, area.W)
      <4>1. area.W \in Nat
        BY <1>3, <1>4
      <4> HIDE DEF n
      <4> QED BY <1>2, <1>2a, <4>1, ColumnEdges
    <3> HIDE DEF e
    <3>2. ci - 1 \in 0..n /\ ci \in 0..n
      BY <1>2
    <3>3. e[ci - 1] \in Int /\ e[ci] \in Int
      BY <3>1, <3>2 DEF Edges
    <3> QED BY <1>4, <3>3
  <2> HIDE DEF c, box, cs, x, w
  <2>5. Fills(scr, NotHidden(cs), box)
    BY <1>4, <2>1, <2>2, <2>3, <2>4, ColumnFills
  <2>6. q[ci] = NotHidden(cs)
    BY DEF cs
  <2> HIDE DEF q
  <2> QED BY <2>3, <2>5, <2>6 DEF x, w
<1>11. ToSet(ps) = ToSet(ts) \cup ToSet(fs)
  <2>1. IdsOf(ts) \cap IdsOf(fs) = {}
    BY <1>5, <1>6 DEF Sound, Placed
  <2> HIDE DEF ts, fs
  <2> QED BY <1>1, <1>5, <1>6, <2>1, OneEachJoined
<1>12. ShownTiles(ps) = Together(q, n)
  <2>1. \A ci \in 1..n : q[ci] = NotHidden(column(ci))
    OBVIOUS
  <2> HIDE DEF q, column, ts, fs
  <2>2. ASSUME NEW p \in ShownTiles(ps) PROVE \E ci \in 1..n : p \in q[ci]
    <3>1. p \in ToSet(ps) /\ ~p.Hidden /\ (p.Layer = "tiled" \/ p.Fullscreen)
      BY DEF ShownTiles
    <3>2. p \in ToSet(ts)
      BY <1>7, <1>11, <3>1
    <3>3. PICK ci \in 1..n : p \in ToSet(column(ci))
      BY <1>5, <3>2
    <3> QED BY <2>1, <3>1, <3>3 DEF NotHidden
  <2>3. ASSUME NEW ci \in 1..n, NEW p \in q[ci] PROVE p \in ShownTiles(ps)
    <3>1. p \in ToSet(column(ci)) /\ ~p.Hidden
      BY <2>1 DEF NotHidden
    <3>2. p \in ToSet(ps) /\ p.Layer = "tiled"
      BY <1>5, <1>9, <1>11, <3>1
    <3> QED BY <3>1, <3>2 DEF ShownTiles
  <2> QED BY <2>2, <2>3 DEF Together
<1>13. SideBySide(scr, q, n, e, area.X, area.Y, area.H)
  <2> HIDE DEF q, e
  <2> QED BY <1>10 DEF SideBySide
<1>14. Edges(e, n, area.W)
  <2>1. area.W \in Nat
    BY <1>3, <1>4
  <2> HIDE DEF n
  <2> QED BY <1>2, <1>2a, <2>1, ColumnEdges
<1> HIDE DEF q, e, n
<1>15. Fills(scr, Together(q, n), Rect(area.X, area.Y, area.W, area.H))
  <2> DEFINE x == area.X
             y == area.Y
             w == area.W
             h == area.H
  <2>1. /\ n \in Nat \ {0} /\ x \in Int /\ y \in Int /\ w \in Int /\ h \in Int
        /\ SideBySide(scr, q, n, e, x, y, h) /\ Edges(e, n, w)
    BY <1>2, <1>4, <1>13, <1>14
  <2> HIDE DEF x, y, w, h
  <2>2. Fills(scr, Together(q, n), Rect(x, y, w, h))
    BY <2>1, RowFills
  <2> QED BY <2>2 DEF x, y, w, h
<1> QED BY <1>4, <1>12, <1>15

LEMMA OutputFills ==
  ASSUME NEW s \in State, NEW scr \in Screens, NEW i \in DOMAIN s.Outputs, NEW placed,
         NEW v, v = shownView(s, i), Sound(v),
         NEW area, area = outputArea(s, scr, i), area.W > 0, area.H > 0,
         RoomFor(scr, v, area.H),
         NEW ps, ps = layoutOutput(s, scr, i, placed), HasSelections(ps, v)
  PROVE  Fills(scr, ShownTiles(ps), area)
<1>1. area \in Box
  BY OutputTyped
<1>2. ~Blank(s, scr, i)
  <2> SUFFICES ASSUME Blank(s, scr, i) PROVE FALSE
    OBVIOUS
  <2>1. ps = <<>>
    BY OutputIs
  <2>2. IdsOf(ps) = {}
    BY <2>1, OneEachOfNone
  <2>3. 1 \in 1..Len(v.Columns)
    BY ColumnsOfSound DEF Sound, InRange
  <2> QED BY <2>2, <2>3 DEF HasSelections
<1>3. CASE fullscreenOn(v, placed)
  BY <1>1, <1>2, <1>3, FullscreenFills
<1>4. CASE ~fullscreenOn(v, placed)
  BY <1>2, <1>4, TiledFills
<1> QED BY <1>3, <1>4

LEMMA TilesFillIn ==
  ASSUME WmInv
  PROVE  TilesFillTheArea
<1> SUFFICES ASSUME NEW scr \in Screens, NEW i \in DOMAIN wm.Outputs,
                    HasArea(scr, i), HasRoom(scr, i), RendersSelections(Layout(wm, scr), i)
             PROVE  LET ps == Layout(wm, scr)
                        tile == [k \in DOMAIN ps |-> Extent(scr, ps[k])]
                    IN /\ \A k \in Tiles(ps, i) : Inside(tile[k], areaOf(scr, i))
                       /\ \A p \in Pixels(areaOf(scr, i)) :
                            \E k \in Tiles(ps, i) :
                              \A l \in Tiles(ps, i) : Covers(tile[l], p[1], p[2]) <=> l = k
  BY DEF TilesFillTheArea
<1> DEFINE ps == Layout(wm, scr)
           tile == [k \in DOMAIN ps |-> Extent(scr, ps[k])]
           v == shownView(wm, i)
           area == outputArea(wm, scr, i)
           out == outputPlacements(wm, scr, i)
           T == Tiles(ps, i)
<1>1. Tidy(wm) /\ wm \in State
  BY TidyParts DEF WmInv, Settled
<1>2. SoundOutputs(wm) /\ Sound(v)
  BY <1>1, ShownAreManaged DEF SoundOutputs
<1>3. /\ OneEach(ps) /\ LaidOut(wm, scr, ps) /\ ToSet(out) \subseteq ToSet(ps)
  BY <1>1, LayoutPlaces
<1>4. \A p \in ToSet(out) : p.Output = i
  <2>1. FocusShown(wm, i, focusedWindow(v), out)
    BY <1>1, <1>2, PlacementsOfOutput
  <2> HIDE DEF out, v
  <2> QED BY <2>1 DEF FocusShown, RenderedOn
<1>5. areaOf(scr, i) = area /\ viewOn(i) = v /\ v.Columns = viewOn(i).Columns
  BY DEF areaOf, viewOn, outputArea, shownView
<1>6. i # 0
  BY <1>1, OutputsTyped
<1>7. HasArea(scr, i) /\ HasRoom(scr, i) /\ RendersSelections(ps, i)
  OBVIOUS
<1> HIDE DEF ps, v, area
<1>8. ASSUME NEW k \in DOMAIN ps, ps[k].Output = i PROVE ps[k] \in ToSet(out)
  <2>1. ps[k] \in ToSet(ps)
    BY DEF ToSet
  <2> QED BY <1>3, <1>6, <1>8, <2>1 DEF LaidOut, LeftHidden
<1>9. area.W > 0 /\ area.H > 0
  BY <1>5, <1>7 DEF HasArea
<1>10. DOMAIN v.Columns = 1..Len(v.Columns)
  BY <1>2, ColumnsOfSound
<1>11. RoomFor(scr, v, area.H)
  <2>1. Len(v.Columns) <= Len(scr.factor)
    BY <1>5, <1>7 DEF HasRoom
  <2>2. ASSUME NEW ci \in 1..Len(v.Columns) PROVE Roomy(scr, v.Columns[ci], area.H)
    <3>1. v.Columns[ci] \in ToSet(viewOn(i).Columns)
      BY <1>5, <1>10 DEF ToSet
    <3>2. Len(v.Columns[ci].Windows) * (scr.bar + 1) <= areaOf(scr, i).H
      BY <1>7, <3>1 DEF HasRoom
    <3> QED BY <1>5, <3>2 DEF Roomy
  <2> QED BY <2>1, <2>2 DEF RoomFor
<1>12. HasSelections(out, v)
  <2> SUFFICES ASSUME NEW ci \in 1..Len(v.Columns) PROVE selected(v.Columns[ci]) \in IdsOf(out)
    BY DEF HasSelections
  <2>1. v.Columns[ci] \in ToSet(viewOn(i).Columns)
    BY <1>5, <1>10 DEF ToSet
  <2>2. PICK k \in PlacementsOf(ps, selected(v.Columns[ci])) : ps[k].Output = i
    BY <1>7, <2>1 DEF RendersSelections
  <2>3. k \in DOMAIN ps /\ ps[k].ID = selected(v.Columns[ci])
    BY DEF PlacementsOf
  <2>4. ps[k] \in ToSet(out)
    BY <1>8, <2>2, <2>3
  <2> HIDE DEF out
  <2> QED BY <2>3, <2>4, IdsOfSet
<1>13. Fills(scr, ShownTiles(out), area)
  <2> DEFINE placed == IdsOf(shownUpTo(wm, scr)[i - 1])
  <2>1. out = layoutOutput(wm, scr, i, placed)
    BY DEF outputPlacements
  <2>2. v = shownView(wm, i) /\ area = outputArea(wm, scr, i)
    BY DEF v, area
  <2> HIDE DEF placed, out
  <2> QED BY <1>1, <1>2, <1>9, <1>11, <1>12, <2>1, <2>2, OutputFills
<1> HIDE DEF out, tile, T
<1>14. ASSUME NEW k \in T
       PROVE  k \in DOMAIN ps /\ ps[k] \in ShownTiles(out) /\ tile[k] = Extent(scr, ps[k])
  <2>1. /\ k \in DOMAIN ps /\ ps[k].Output = i /\ ~ps[k].Hidden
        /\ ps[k].Layer = "tiled" \/ ps[k].Fullscreen
    BY DEF T, Tiles
  <2>2. ps[k] \in ToSet(out)
    BY <1>8, <2>1
  <2> QED BY <2>1, <2>2 DEF ShownTiles, tile
<1>15. ASSUME NEW p \in ShownTiles(out) PROVE \E k \in T : ps[k] = p
  <2>1. /\ p \in ToSet(ps) /\ p.Output = i /\ ~p.Hidden
        /\ p.Layer = "tiled" \/ p.Fullscreen
    BY <1>3, <1>4 DEF ShownTiles
  <2>2. PICK k \in DOMAIN ps : ps[k] = p
    BY <2>1 DEF ToSet
  <2>3. k \in T
    BY <2>1, <2>2 DEF T, Tiles
  <2> QED BY <2>2, <2>3
<1>16. ASSUME NEW k \in DOMAIN ps, NEW l \in DOMAIN ps, ps[k] = ps[l] PROVE k = l
  <2>1. ps \in Seq(ToSet(ps)) /\ \A a, b \in 1..Len(ps) : ps[a].ID = ps[b].ID => a = b
    BY <1>3 DEF OneEach
  <2>2. DOMAIN ps = 1..Len(ps)
    BY <2>1
  <2> QED BY <1>16, <2>1, <2>2
<1>17. \A k \in T : Inside(tile[k], area)
  BY <1>13, <1>14 DEF Fills
<1>18. ASSUME NEW p \in Pixels(area)
       PROVE  \E k \in T : \A l \in T : Covers(tile[l], p[1], p[2]) <=> l = k
  <2>1. p[1] \in area.X..(area.X + area.W - 1) /\ p[2] \in area.Y..(area.Y + area.H - 1)
    BY DEF Pixels
  <2>2. PICK u \in ShownTiles(out) :
          \A w \in ShownTiles(out) : Covers(Extent(scr, w), p[1], p[2]) <=> w = u
    BY <1>13, <2>1 DEF Fills
  <2>3. PICK k \in T : ps[k] = u
    BY <1>15
  <2>4. ASSUME NEW l \in T PROVE Covers(tile[l], p[1], p[2]) <=> l = k
    <3>1. l \in DOMAIN ps /\ ps[l] \in ShownTiles(out) /\ tile[l] = Extent(scr, ps[l]) /\ k \in DOMAIN ps
      BY <1>14
    <3>2. Covers(tile[l], p[1], p[2]) <=> ps[l] = u
      BY <2>2, <3>1
    <3> QED BY <1>16, <2>3, <3>1, <3>2
  <2> QED BY <2>4
<1> QED BY <1>5, <1>17, <1>18 DEF ps, tile, T

\* The tiles of an output fit together, for columns of any widths and modes: they
\* leave no pixel of the tiling area bare, cover none twice and none outside it,
\* whatever is left over by the divisions of layoutColumn and columnWidths.
THEOREM TilesAlwaysFillTheArea == Spec => []TilesFillTheArea
<1>1. WmInv => TilesFillTheArea
  BY TilesFillIn
<1> QED BY <1>1, WmInvHolds, PTL
=============================================================================
