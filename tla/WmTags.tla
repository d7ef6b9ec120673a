------------------------------- MODULE WmTags -------------------------------
(***************************************************************************)
(* What the window-management model promises its user, without columns,    *)
(* layers, markers or slices: windows carry tags, every output shows a tag *)
(* of its own, what a view holds is what carries its tag, and the focus is *)
(* on the view of the active output.  Wm implements this specification     *)
(* (WmRefinement).                                                         *)
(***************************************************************************)
EXTENDS FiniteSets

CONSTANTS WindowID, NoWindow, ViewName, OutputName

VARIABLES
  tags,      \* the tag set of each window, {} for a window that is not open
  arranged,  \* the windows of each view
  shown,     \* the view of each output that is plugged in
  active,    \* the active output: a set of one output, or of none
  focus      \* the focused window

vars == <<tags, arranged, shown, active, focus>>

Carrying(t, n) == {id \in WindowID : n \in t[id]}

ActiveWindows == UNION {arranged[shown[o]] : o \in active}

Init ==
  /\ tags = [id \in WindowID |-> {}]
  /\ arranged = [n \in ViewName |-> {}]
  /\ shown = [o \in {} |-> {}]
  /\ active = {}
  /\ focus = NoWindow

\* Views follow the tags, and the focus, on a window or on none, follows the
\* active view.
Consistent ==
  /\ arranged' = [n \in ViewName |-> Carrying(tags', n)]
  /\ focus' \in ActiveWindows' \cup {NoWindow}

Hidden(n) == \A o \in DOMAIN shown : shown[o] # n

-----------------------------------------------------------------------------
(* Outputs.                                                                *)

Plug(o) ==
  /\ o \notin DOMAIN shown
  /\ \E n \in {m \in ViewName : Hidden(m)} :
       shown' = [p \in DOMAIN shown \cup {o} |-> IF p = o THEN n ELSE shown[p]]
  /\ active' = IF active = {} THEN {o} ELSE active
  /\ UNCHANGED tags

Unplug(o) ==
  /\ o \in DOMAIN shown
  /\ shown' = [p \in DOMAIN shown \ {o} |-> shown[p]]
  /\ \/ DOMAIN shown' = {} /\ active' = {}
     \/ \E p \in DOMAIN shown' : active' = {p}
  /\ UNCHANGED tags

Rename(o, p) ==
  LET now(q) == IF q = o THEN p ELSE q
  IN /\ o \in DOMAIN shown /\ p \in OutputName \ DOMAIN shown
     /\ shown' = [q \in {now(r) : r \in DOMAIN shown} |->
                    IF q = p THEN shown[o] ELSE shown[q]]
     /\ active' = {now(q) : q \in active}
     /\ UNCHANGED <<tags, focus>>

Activate(o) ==
  /\ o \in DOMAIN shown
  /\ active' = {o}
  /\ UNCHANGED <<tags, shown>>

-----------------------------------------------------------------------------
(* Windows.                                                                *)

\* A window that opens takes the focus exactly if the active view shows it.
Open(id, T) ==
  /\ tags[id] = {}
  /\ T # {}
  /\ tags' = [tags EXCEPT ![id] = T]
  /\ focus' = IF \E o \in active : shown[o] \in T THEN id ELSE focus
  /\ UNCHANGED <<shown, active>>

Close(id) ==
  /\ tags[id] # {}
  /\ tags' = [tags EXCEPT ![id] = {}]
  /\ UNCHANGED <<shown, active>>

Replace(old, nu) ==
  /\ tags[old] # {} /\ tags[nu] = {}
  /\ tags' = [tags EXCEPT ![nu] = tags[old], ![old] = {}]
  /\ focus' = IF focus = old THEN nu ELSE focus
  /\ UNCHANGED <<shown, active>>

\* Only the focused window is retagged, and never to nothing.
Retag(T) ==
  /\ focus # NoWindow
  /\ T # {}
  /\ tags' = [tags EXCEPT ![focus] = T]
  /\ UNCHANGED <<shown, active>>

Refocus == UNCHANGED <<tags, shown, active>>

-----------------------------------------------------------------------------
(* Views.                                                                  *)

\* The active output shows n; an output that showed n gets its view in return.
Select(n) ==
  /\ \E a \in active :
       shown' = [o \in DOMAIN shown |->
                   IF o = a THEN n ELSE IF shown[o] = n THEN shown[a] ELSE shown[o]]
  /\ UNCHANGED <<tags, active>>

Next ==
  /\ Consistent
  /\ \/ \E o \in OutputName : Plug(o) \/ Unplug(o) \/ Activate(o)
     \/ \E o, p \in OutputName : Rename(o, p)
     \/ \E id \in WindowID : Close(id) \/ (\E T \in SUBSET ViewName : Open(id, T))
     \/ \E old, nu \in WindowID : Replace(old, nu)
     \/ \E T \in SUBSET ViewName : Retag(T)
     \/ \E n \in ViewName : Select(n)
     \/ Refocus

Spec == Init /\ [][Next]_vars
=============================================================================
