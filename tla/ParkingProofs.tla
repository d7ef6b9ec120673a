---------------------------- MODULE ParkingProofs ----------------------------
(***************************************************************************)
(* For any windows, frames, retry budget and refusals: no window is moved  *)
(* into the corner before the store says where it was.                     *)
(***************************************************************************)
EXTENDS Parking, TLAPS

Maps == [WindowID -> OnScreen \cup {Corner, None}]

MapsOK ==
  /\ os \in [WindowID -> {"new", "open", "minimized", "closed"}]
  /\ at \in Maps /\ store \in Maps /\ hidden \in Maps /\ restore \in Maps /\ lastShown \in Maps
  /\ handoff # None => handoff.hidden \in Maps /\ handoff.lastShown \in Maps

\* The window a handler is at is one, and a process that is down is at none.
HandlersOK ==
  /\ todo \subseteq WindowID /\ known \subseteq WindowID
  /\ pc \in {"putback", "drop", "park"} => cur \in WindowID
  /\ phase = "down" => pc = "idle"

\* A window that moves next, or whenever the screens change, has a frame in
\* memory.
MovedAreHidden ==
  /\ \A w \in parked : w \in WindowID /\ hidden[w] # None
  /\ pc = "park" => hidden[cur] # None

\* A frame in memory, or found by start() and not yet used, is in the store, and so is one that is handed over, by
\* a process that cannot write the store before its successor has taken it.
HiddenAreStored ==
  /\ \A w \in WindowID : hidden[w] # None \/ restore[w] # None => store[w] # None
  /\ handoff # None =>
       /\ phase = "down" \/ pc = "exec"
       /\ \A w \in WindowID : handoff.hidden[w] # None => store[w] # None
       /\ \A w \in handoff.parked : w \in WindowID /\ handoff.hidden[w] # None

\* A window is somewhere, so that hide has a frame to record, and what is put
\* back has one.
WindowsSomewhere ==
  /\ \A w \in WindowID : Exists(w) => at[w] # None
  /\ pc = "unhide" => \A w \in todo : hidden[w] # None

StoreInv == MapsOK /\ HandlersOK /\ WindowsSomewhere /\ MovedAreHidden /\ HiddenAreStored

LEMMA NoFramesType == NoFrames \in Maps /\ \A w \in WindowID : NoFrames[w] = None
BY DEF NoFrames, Maps

LEMMA SavedType ==
  \A h \in Maps, r \in Maps :
    /\ saved(h, r) \in Maps
    /\ \A w \in WindowID : h[w] # None \/ r[w] # None => saved(h, r)[w] # None
BY DEF saved, Maps

LEMMA PlacedType ==
  at \in Maps => \A w \in WindowID, f \in OnScreen \cup {Corner, None}, taken \in BOOLEAN :
                    Placed(w, f, taken) \in Maps
BY DEF Placed, Maps

LEMMA PlacedSomewhere ==
  at \in Maps /\ WindowsSomewhere =>
    \A w \in WindowID, f \in OnScreen \cup {Corner}, taken \in BOOLEAN :
      \A v \in WindowID : Exists(v) => Placed(w, f, taken)[v] # None
BY ParkingAssumption DEF Placed, Maps, WindowsSomewhere, OnScreen

LEMMA TakenType == \A what : Taken(what) \subseteq BOOLEAN
BY DEF Taken

LEMMA StoreInvStart == Init => StoreInv
BY NoFramesType DEF Init, StoreInv, MapsOK, HandlersOK, WindowsSomewhere, Exists, MovedAreHidden, HiddenAreStored

LEMMA StoreInvKept == StoreInv /\ [Next]_vars => StoreInv'
<1> SUFFICES ASSUME StoreInv, [Next]_vars PROVE StoreInv'
  OBVIOUS
<1> USE ParkingAssumption, NoFramesType, SavedType, PlacedType, PlacedSomewhere, TakenType
<1> USE DEF StoreInv, system, disk, control, frames, marks, wakeups
<1>1. CASE WindowOpens
  <2>1. MapsOK'
    BY <1>1 DEF WindowOpens, HandlersOK, MapsOK, Maps, OnScreen
  <2>2. HandlersOK'
    BY <1>1 DEF WindowOpens, HandlersOK
  <2>3. MovedAreHidden'
    BY <1>1 DEF WindowOpens, HandlersOK, MapsOK, Maps, MovedAreHidden, HiddenAreStored
  <2>4. HiddenAreStored'
    BY <1>1, <2>1 DEF WindowOpens, HandlersOK, MapsOK, Maps, MovedAreHidden, HiddenAreStored
  <2>5. WindowsSomewhere'
    BY <1>1 DEF WindowOpens, HandlersOK, MapsOK, Maps, WindowsSomewhere, Exists, OnScreen
  <2> QED BY <2>1, <2>2, <2>3, <2>4, <2>5
<1>2. CASE WindowMinimizes
  <2>1. MapsOK'
    BY <1>2 DEF WindowMinimizes, HandlersOK, MapsOK, Maps, OnScreen
  <2>2. HandlersOK'
    BY <1>2 DEF WindowMinimizes, HandlersOK
  <2>3. MovedAreHidden'
    BY <1>2 DEF WindowMinimizes, HandlersOK, MapsOK, Maps, MovedAreHidden, HiddenAreStored
  <2>4. HiddenAreStored'
    BY <1>2, <2>1 DEF WindowMinimizes, HandlersOK, MapsOK, Maps, MovedAreHidden, HiddenAreStored
  <2>5. WindowsSomewhere'
    BY <1>2 DEF WindowMinimizes, HandlersOK, MapsOK, Maps, WindowsSomewhere, Exists, OnScreen
  <2> QED BY <2>1, <2>2, <2>3, <2>4, <2>5
<1>3. CASE WindowReturns
  <2>1. MapsOK'
    BY <1>3 DEF WindowReturns, HandlersOK, MapsOK, Maps, OnScreen
  <2>2. HandlersOK'
    BY <1>3 DEF WindowReturns, HandlersOK
  <2>3. MovedAreHidden'
    BY <1>3, SMTT(30) DEF WindowReturns, MovedAreHidden
  <2>4. HiddenAreStored'
    BY <1>3, <2>1 DEF WindowReturns, HandlersOK, MapsOK, Maps, MovedAreHidden, HiddenAreStored
  <2>5. WindowsSomewhere'
    BY <1>3 DEF WindowReturns, HandlersOK, MapsOK, Maps, WindowsSomewhere, Exists, OnScreen
  <2> QED BY <2>1, <2>2, <2>3, <2>4, <2>5
<1>4. CASE WindowCloses
  <2>1. MapsOK'
    BY <1>4 DEF WindowCloses, HandlersOK, MapsOK, Maps, OnScreen
  <2>2. HandlersOK'
    BY <1>4 DEF WindowCloses, HandlersOK
  <2>3. MovedAreHidden'
    BY <1>4, SMTT(30) DEF WindowCloses, MovedAreHidden
  <2>4. HiddenAreStored'
    BY <1>4, <2>1 DEF WindowCloses, HandlersOK, MapsOK, Maps, MovedAreHidden, HiddenAreStored
  <2>5. WindowsSomewhere'
    BY <1>4 DEF WindowCloses, HandlersOK, MapsOK, Maps, WindowsSomewhere, Exists, OnScreen
  <2> QED BY <2>1, <2>2, <2>3, <2>4, <2>5
<1>5. CASE ScreensChange
  <2>1. MapsOK'
    BY <1>5 DEF ScreensChange, HandlersOK, MapsOK, Maps, OnScreen
  <2>2. HandlersOK'
    BY <1>5 DEF ScreensChange, HandlersOK
  <2>3. MovedAreHidden'
    BY <1>5, SMTT(30) DEF ScreensChange, MovedAreHidden
  <2>4. HiddenAreStored'
    BY <1>5, <2>1 DEF ScreensChange, HandlersOK, MapsOK, Maps, MovedAreHidden, HiddenAreStored
  <2>5. WindowsSomewhere'
    BY <1>5 DEF ScreensChange, HandlersOK, MapsOK, Maps, WindowsSomewhere, Exists, OnScreen
  <2> QED BY <2>1, <2>2, <2>3, <2>4, <2>5
<1>6. CASE Launch
  <2>1. MapsOK'
    BY <1>6 DEF Launch, HandlersOK, MapsOK, Maps, OnScreen
  <2>2. HandlersOK'
    BY <1>6 DEF Launch, HandlersOK
  <2>3. MovedAreHidden'
    <3>1. pc' = pc /\ pc = "idle" /\ phase = "down"
      BY <1>6 DEF Launch, HandlersOK
    <3>2. CASE hidden' = hidden /\ parked' = parked
      BY <3>1, <3>2 DEF MovedAreHidden
    <3>3. CASE handoff # None /\ hidden' = handoff.hidden /\ parked' = handoff.parked
      BY <3>1, <3>3 DEF MovedAreHidden, HiddenAreStored
    <3>4. \/ hidden' = hidden /\ parked' = parked
          \/ handoff # None /\ hidden' = handoff.hidden /\ parked' = handoff.parked
      BY <1>6 DEF Launch
    <3> QED BY <3>2, <3>3, <3>4
  <2>4. HiddenAreStored'
    BY <1>6, <2>1 DEF Launch, HandlersOK, MapsOK, Maps, MovedAreHidden, HiddenAreStored
  <2>5. WindowsSomewhere'
    BY <1>6 DEF Launch, HandlersOK, MapsOK, Maps, WindowsSomewhere, Exists, OnScreen
  <2> QED BY <2>1, <2>2, <2>3, <2>4, <2>5
<1>7. CASE Start
  <2>1. MapsOK'
    BY <1>7 DEF Start, HandlersOK, MapsOK, Maps, OnScreen
  <2>2. HandlersOK'
    BY <1>7 DEF Start, HandlersOK
  <2>3. MovedAreHidden'
    BY <1>7 DEF Start, HandlersOK, MapsOK, Maps, MovedAreHidden, HiddenAreStored
  <2>4. HiddenAreStored'
    BY <1>7, <2>1 DEF Start, HandlersOK, MapsOK, Maps, MovedAreHidden, HiddenAreStored
  <2>5. WindowsSomewhere'
    BY <1>7 DEF Start, HandlersOK, MapsOK, Maps, WindowsSomewhere, Exists, OnScreen
  <2> QED BY <2>1, <2>2, <2>3, <2>4, <2>5
<1>8. CASE ModelChanges
  <2>1. MapsOK'
    BY <1>8 DEF ModelChanges, Idle, HandlersOK, MapsOK, Maps, OnScreen
  <2>2. HandlersOK'
    BY <1>8 DEF ModelChanges, Idle, HandlersOK
  <2>3. MovedAreHidden'
    BY <1>8 DEF ModelChanges, Idle, HandlersOK, MapsOK, Maps, MovedAreHidden, HiddenAreStored
  <2>4. HiddenAreStored'
    BY <1>8, <2>1 DEF ModelChanges, Idle, HandlersOK, MapsOK, Maps, MovedAreHidden, HiddenAreStored
  <2>5. WindowsSomewhere'
    BY <1>8 DEF ModelChanges, Idle, HandlersOK, MapsOK, Maps, WindowsSomewhere, Exists, OnScreen
  <2> QED BY <2>1, <2>2, <2>3, <2>4, <2>5
<1>9. CASE Quit
  <2>1. MapsOK'
    BY <1>9 DEF Quit, Ends, Idle, HandlersOK, MapsOK, Maps, OnScreen
  <2>2. HandlersOK'
    BY <1>9 DEF Quit, Ends, Idle, HandlersOK
  <2>3. MovedAreHidden'
    BY <1>9 DEF Quit, Ends, Idle, HandlersOK, MapsOK, Maps, MovedAreHidden, HiddenAreStored
  <2>4. HiddenAreStored'
    BY <1>9, <2>1 DEF Quit, Ends, Idle, HandlersOK, MapsOK, Maps, MovedAreHidden, HiddenAreStored
  <2>5. WindowsSomewhere'
    BY <1>9 DEF Quit, Ends, Idle, HandlersOK, MapsOK, Maps, WindowsSomewhere, Exists, OnScreen
  <2> QED BY <2>1, <2>2, <2>3, <2>4, <2>5
<1>10. CASE Panic
  <2>1. MapsOK'
    BY <1>10 DEF Panic, HandlersOK, MapsOK, Maps, OnScreen
  <2>2. HandlersOK'
    BY <1>10 DEF Panic, HandlersOK
  <2>3. MovedAreHidden'
    BY <1>10 DEF Panic, HandlersOK, MapsOK, Maps, MovedAreHidden, HiddenAreStored
  <2>4. HiddenAreStored'
    BY <1>10, <2>1 DEF Panic, HandlersOK, MapsOK, Maps, MovedAreHidden, HiddenAreStored
  <2>5. WindowsSomewhere'
    BY <1>10 DEF Panic, HandlersOK, MapsOK, Maps, WindowsSomewhere, Exists, OnScreen
  <2> QED BY <2>1, <2>2, <2>3, <2>4, <2>5
<1>11. CASE Crash
  <2>1. MapsOK'
    BY <1>11 DEF Crash, Ends, HandlersOK, MapsOK, Maps, OnScreen
  <2>2. HandlersOK'
    BY <1>11 DEF Crash, Ends, HandlersOK
  <2>3. MovedAreHidden'
    BY <1>11 DEF Crash, Ends, HandlersOK, MapsOK, Maps, MovedAreHidden, HiddenAreStored
  <2>4. HiddenAreStored'
    BY <1>11, <2>1 DEF Crash, Ends, HandlersOK, MapsOK, Maps, MovedAreHidden, HiddenAreStored
  <2>5. WindowsSomewhere'
    BY <1>11 DEF Crash, Ends, HandlersOK, MapsOK, Maps, WindowsSomewhere, Exists, OnScreen
  <2> QED BY <2>1, <2>2, <2>3, <2>4, <2>5
<1>12. CASE Restart
  <2>1. MapsOK'
    BY <1>12 DEF Restart, handedOver, HandlersOK, MapsOK, Maps, OnScreen
  <2>2. HandlersOK'
    BY <1>12 DEF Restart, handedOver, HandlersOK
  <2>3. MovedAreHidden'
    BY <1>12 DEF Restart, handedOver, HandlersOK, MapsOK, Maps, MovedAreHidden, HiddenAreStored
  <2>4. HiddenAreStored'
    BY <1>12, <2>1 DEF Restart, handedOver, HandlersOK, MapsOK, Maps, MovedAreHidden, HiddenAreStored
  <2>5. WindowsSomewhere'
    BY <1>12 DEF Restart, handedOver, HandlersOK, MapsOK, Maps, WindowsSomewhere, Exists, OnScreen
  <2> QED BY <2>1, <2>2, <2>3, <2>4, <2>5
<1>13. CASE WindowFound
  <2>0. at' = at \/ \E w \in WindowID, f \in OnScreen \cup {Corner}, taken \in BOOLEAN : at' = Placed(w, f, taken)
    <3>1. at' = at \/ \E w \in WindowID : windowAdded(w)
      BY <1>13 DEF WindowFound, HandlersOK
    <3>2. ASSUME NEW w \in WindowID, windowAdded(w)
          PROVE  at' = at \/ \E f \in {restore[w], Centre} \ {None}, taken \in BOOLEAN : at' = Placed(w, f, taken)
      BY <3>2 DEF windowAdded, OnScreen
    <3>3. \A w \in WindowID : {restore[w], Centre} \ {None} \subseteq OnScreen \cup {Corner}
      BY DEF MapsOK, Maps, OnScreen
    <3> QED BY <3>1, <3>2, <3>3
  <2>1. MapsOK'
    <3>1. at' \in Maps
      BY <2>0 DEF MapsOK
    <3> QED BY <1>13, <3>1 DEF WindowFound, MapsOK
  <2>2. HandlersOK'
    BY <1>13 DEF WindowFound, windowAdded, AddWindow, HandlersOK
  <2>3. MovedAreHidden'
    BY <1>13 DEF WindowFound, windowAdded, AddWindow, HandlersOK, MapsOK, Maps, MovedAreHidden, HiddenAreStored
  <2>4. HiddenAreStored'
    BY <1>13, <2>1 DEF WindowFound, windowAdded, AddWindow, HandlersOK, MapsOK, Maps, MovedAreHidden, HiddenAreStored
  <2>5. WindowsSomewhere'
    <3>1. \A w \in WindowID : Exists(w) => at'[w] # None
      BY <2>0 DEF MapsOK, WindowsSomewhere
    <3> QED BY <1>13, <3>1 DEF WindowFound, windowAdded, WindowsSomewhere, Exists, Idle
  <2> QED BY <2>1, <2>2, <2>3, <2>4, <2>5
<1>14. CASE PutBackForgets
  <2>1. MapsOK'
    BY <1>14 DEF PutBackForgets, HandlersOK, MapsOK, Maps, OnScreen
  <2>2. HandlersOK'
    BY <1>14 DEF PutBackForgets, HandlersOK
  <2>3. MovedAreHidden'
    BY <1>14 DEF PutBackForgets, HandlersOK, MapsOK, Maps, MovedAreHidden, HiddenAreStored
  <2>4. HiddenAreStored'
    <3>1. restore' \in Maps /\ store' = saved(hidden, restore')
      BY <1>14, <2>1 DEF PutBackForgets, MapsOK
    <3>2. \A w \in WindowID : hidden[w] # None \/ restore'[w] # None => store'[w] # None
      BY <3>1 DEF MapsOK
    <3> QED BY <1>14, <3>2 DEF PutBackForgets, HandlersOK, HiddenAreStored
  <2>5. WindowsSomewhere'
    BY <1>14 DEF PutBackForgets, HandlersOK, MapsOK, Maps, WindowsSomewhere, Exists, OnScreen
  <2> QED BY <2>1, <2>2, <2>3, <2>4, <2>5
<1>15. CASE StartEnds
  <2>1. MapsOK'
    BY <1>15 DEF StartEnds, InModel, HandlersOK, MapsOK, Maps, OnScreen
  <2>2. HandlersOK'
    BY <1>15 DEF StartEnds, InModel, HandlersOK
  <2>3. MovedAreHidden'
    BY <1>15 DEF StartEnds, InModel, HandlersOK, MapsOK, Maps, MovedAreHidden, HiddenAreStored
  <2>4. HiddenAreStored'
    BY <1>15, <2>1 DEF StartEnds, InModel, HandlersOK, MapsOK, Maps, MovedAreHidden, HiddenAreStored
  <2>5. WindowsSomewhere'
    BY <1>15 DEF StartEnds, InModel, HandlersOK, MapsOK, Maps, WindowsSomewhere, Exists, OnScreen
  <2> QED BY <2>1, <2>2, <2>3, <2>4, <2>5
<1>16. CASE ReportsAdded
  <2>0. at' = at \/ \E w \in WindowID, f \in OnScreen \cup {Corner}, taken \in BOOLEAN : at' = Placed(w, f, taken)
    <3>1. at' = at \/ \E w \in WindowID : windowAdded(w)
      BY <1>16 DEF ReportsAdded, HandlersOK
    <3>2. ASSUME NEW w \in WindowID, windowAdded(w)
          PROVE  at' = at \/ \E f \in {restore[w], Centre} \ {None}, taken \in BOOLEAN : at' = Placed(w, f, taken)
      BY <3>2 DEF windowAdded, OnScreen
    <3>3. \A w \in WindowID : {restore[w], Centre} \ {None} \subseteq OnScreen \cup {Corner}
      BY DEF MapsOK, Maps, OnScreen
    <3> QED BY <3>1, <3>2, <3>3
  <2>1. MapsOK'
    <3>1. at' \in Maps
      BY <2>0 DEF MapsOK
    <3> QED BY <1>16, <3>1 DEF ReportsAdded, MapsOK
  <2>2. HandlersOK'
    BY <1>16 DEF ReportsAdded, windowAdded, Idle, HandlersOK
  <2>3. MovedAreHidden'
    BY <1>16 DEF ReportsAdded, windowAdded, Idle, HandlersOK, MapsOK, Maps, MovedAreHidden, HiddenAreStored
  <2>4. HiddenAreStored'
    BY <1>16, <2>1 DEF ReportsAdded, windowAdded, Idle, HandlersOK, MapsOK, Maps, MovedAreHidden, HiddenAreStored
  <2>5. WindowsSomewhere'
    <3>1. \A w \in WindowID : Exists(w) => at'[w] # None
      BY <2>0 DEF MapsOK, WindowsSomewhere
    <3> QED BY <1>16, <3>1 DEF ReportsAdded, windowAdded, WindowsSomewhere, Exists, Idle
  <2> QED BY <2>1, <2>2, <2>3, <2>4, <2>5
<1>17. CASE ReportsGone
  <2>1. MapsOK'
    <3>0. PICK v \in WindowID : forgetWindow(v)
      BY <1>17 DEF ReportsGone, HandlersOK
    <3>1. hidden' \in Maps /\ lastShown' \in Maps
      BY <3>0 DEF forgetWindow, MapsOK, Maps
    <3>2. store' \in Maps
      BY <3>0, <3>1 DEF forgetWindow, MapsOK
    <3> QED BY <1>17, <3>1, <3>2 DEF ReportsGone, forgetWindow, MapsOK
  <2>2. HandlersOK'
    BY <1>17 DEF ReportsGone, forgetWindow, Idle, HandlersOK
  <2>3. MovedAreHidden'
    BY <1>17 DEF ReportsGone, forgetWindow, Idle, HandlersOK, MapsOK, Maps, MovedAreHidden, HiddenAreStored
  <2>4. HiddenAreStored'
    <3>1. PICK v \in WindowID : forgetWindow(v)
      BY <1>17 DEF ReportsGone, HandlersOK
    <3>2. \A w \in WindowID : hidden'[w] # None => hidden[w] # None
      BY <3>1 DEF forgetWindow, MapsOK, Maps
    <3>3. hidden' \in Maps /\ restore \in Maps
      BY <2>1 DEF MapsOK
    <3>4. \A w \in WindowID : hidden'[w] # None \/ restore[w] # None => store'[w] # None
      BY <3>1, <3>2, <3>3 DEF forgetWindow, HiddenAreStored
    <3> QED BY <1>17, <3>1, <3>4 DEF ReportsGone, Idle, forgetWindow, HandlersOK, HiddenAreStored
  <2>5. WindowsSomewhere'
    BY <1>17 DEF ReportsGone, forgetWindow, Idle, HandlersOK, MapsOK, Maps, WindowsSomewhere, Exists, OnScreen
  <2> QED BY <2>1, <2>2, <2>3, <2>4, <2>5
<1>18. CASE ReportsHiddenGone
  <2>1. MapsOK'
    <3>1. PICK w \in WindowID : \E taken \in BOOLEAN : at' = Placed(w, hidden[w], taken)
      BY <1>18 DEF ReportsHiddenGone, HandlersOK
    <3>2. hidden[w] \in OnScreen \cup {Corner, None}
      BY DEF MapsOK, Maps
    <3>3. at' \in Maps
      BY <3>1, <3>2 DEF MapsOK
    <3> QED BY <1>18, <3>3 DEF ReportsHiddenGone, MapsOK
  <2>2. HandlersOK'
    BY <1>18 DEF ReportsHiddenGone, Idle, HandlersOK
  <2>3. MovedAreHidden'
    BY <1>18 DEF ReportsHiddenGone, Idle, HandlersOK, MapsOK, Maps, MovedAreHidden, HiddenAreStored
  <2>4. HiddenAreStored'
    BY <1>18, <2>1 DEF ReportsHiddenGone, Idle, HandlersOK, MapsOK, Maps, MovedAreHidden, HiddenAreStored
  <2>5. WindowsSomewhere'
    <3>1. PICK w \in WindowID : hidden[w] # None /\ \E taken \in BOOLEAN : at' = Placed(w, hidden[w], taken)
      BY <1>18 DEF ReportsHiddenGone, HandlersOK
    <3>2. hidden[w] \in OnScreen \cup {Corner}
      BY <3>1 DEF MapsOK, Maps
    <3>3. \A v \in WindowID : Exists(v) => at'[v] # None
      BY <3>1, <3>2 DEF MapsOK
    <3> QED BY <1>18, <3>3 DEF ReportsHiddenGone, WindowsSomewhere, Exists
  <2> QED BY <2>1, <2>2, <2>3, <2>4, <2>5
<1>19. CASE DropForgets
  <2>1. MapsOK'
    <3>0. PICK v \in WindowID : forgetWindow(v)
      BY <1>19 DEF DropForgets, HandlersOK
    <3>1. hidden' \in Maps /\ lastShown' \in Maps
      BY <3>0 DEF forgetWindow, MapsOK, Maps
    <3>2. store' \in Maps
      BY <3>0, <3>1 DEF forgetWindow, MapsOK
    <3> QED BY <1>19, <3>1, <3>2 DEF DropForgets, forgetWindow, MapsOK
  <2>2. HandlersOK'
    BY <1>19 DEF DropForgets, forgetWindow, HandlersOK
  <2>3. MovedAreHidden'
    BY <1>19 DEF DropForgets, forgetWindow, HandlersOK, MapsOK, Maps, MovedAreHidden, HiddenAreStored
  <2>4. HiddenAreStored'
    <3>1. PICK v \in WindowID : forgetWindow(v)
      BY <1>19 DEF DropForgets, HandlersOK
    <3>2. \A w \in WindowID : hidden'[w] # None => hidden[w] # None
      BY <3>1 DEF forgetWindow, MapsOK, Maps
    <3>3. hidden' \in Maps /\ restore \in Maps
      BY <2>1 DEF MapsOK
    <3>4. \A w \in WindowID : hidden'[w] # None \/ restore[w] # None => store'[w] # None
      BY <3>1, <3>2, <3>3 DEF forgetWindow, HiddenAreStored
    <3> QED BY <1>19, <3>1, <3>4 DEF DropForgets, forgetWindow, HandlersOK, HiddenAreStored
  <2>5. WindowsSomewhere'
    BY <1>19 DEF DropForgets, forgetWindow, HandlersOK, MapsOK, Maps, WindowsSomewhere, Exists, OnScreen
  <2> QED BY <2>1, <2>2, <2>3, <2>4, <2>5
<1>20. CASE ReportsScreens
  <2>1. MapsOK'
    BY <1>20 DEF ReportsScreens, reparks, Idle, HandlersOK, MapsOK, Maps, OnScreen
  <2>2. HandlersOK'
    BY <1>20 DEF ReportsScreens, reparks, Idle, HandlersOK
  <2>3. MovedAreHidden'
    BY <1>20 DEF ReportsScreens, reparks, Idle, HandlersOK, MapsOK, Maps, MovedAreHidden, HiddenAreStored
  <2>4. HiddenAreStored'
    BY <1>20, <2>1 DEF ReportsScreens, reparks, Idle, HandlersOK, MapsOK, Maps, MovedAreHidden, HiddenAreStored
  <2>5. WindowsSomewhere'
    BY <1>20 DEF ReportsScreens, reparks, Idle, HandlersOK, MapsOK, Maps, WindowsSomewhere, Exists, OnScreen
  <2> QED BY <2>1, <2>2, <2>3, <2>4, <2>5
<1>21. CASE PassBegins
  <2>1. MapsOK'
    BY <1>21 DEF PassBegins, Idle, InModel, HandlersOK, MapsOK, Maps, OnScreen
  <2>2. HandlersOK'
    BY <1>21 DEF PassBegins, Idle, InModel, HandlersOK
  <2>3. MovedAreHidden'
    BY <1>21 DEF PassBegins, Idle, InModel, HandlersOK, MapsOK, Maps, MovedAreHidden, HiddenAreStored
  <2>4. HiddenAreStored'
    BY <1>21, <2>1 DEF PassBegins, Idle, InModel, HandlersOK, MapsOK, Maps, MovedAreHidden, HiddenAreStored
  <2>5. WindowsSomewhere'
    BY <1>21 DEF PassBegins, Idle, InModel, HandlersOK, MapsOK, Maps, WindowsSomewhere, Exists, OnScreen
  <2> QED BY <2>1, <2>2, <2>3, <2>4, <2>5
<1>22. CASE PassSkips
  <2>1. MapsOK'
    BY <1>22 DEF PassSkips, HandlersOK, MapsOK, Maps, OnScreen
  <2>2. HandlersOK'
    BY <1>22 DEF PassSkips, HandlersOK
  <2>3. MovedAreHidden'
    BY <1>22 DEF PassSkips, HandlersOK, MapsOK, Maps, MovedAreHidden, HiddenAreStored
  <2>4. HiddenAreStored'
    BY <1>22, <2>1 DEF PassSkips, HandlersOK, MapsOK, Maps, MovedAreHidden, HiddenAreStored
  <2>5. WindowsSomewhere'
    BY <1>22 DEF PassSkips, HandlersOK, MapsOK, Maps, WindowsSomewhere, Exists, OnScreen
  <2> QED BY <2>1, <2>2, <2>3, <2>4, <2>5
<1>23. CASE PassHides
  <2>1. MapsOK'
    <3>1. hidden' \in Maps
      BY <1>23 DEF PassHides, HandlersOK, MapsOK, Maps
    <3>2. store' \in Maps
      BY <1>23, <3>1 DEF PassHides, hideSaves, MapsOK
    <3> QED BY <1>23, <3>1, <3>2 DEF PassHides, MapsOK
  <2>2. HandlersOK'
    BY <1>23 DEF PassHides, hideSaves, HandlersOK
  <2>3. MovedAreHidden'
    <3>1. PICK v \in WindowID : /\ Exists(v) \/ lastShown[v] # None
                               /\ hidden' = [hidden EXCEPT ![v] = IF lastShown[v] # None THEN lastShown[v] ELSE at[v]]
                               /\ parked' = parked \cup {v} /\ cur' = v
      BY <1>23 DEF PassHides, HandlersOK
    <3>2. hidden'[v] # None /\ \A w \in WindowID : hidden[w] # None => hidden'[w] # None
      BY <3>1 DEF MapsOK, Maps, WindowsSomewhere
    <3> QED BY <3>1, <3>2 DEF MovedAreHidden
  <2>4. HiddenAreStored'
    <3>1. hidden' \in Maps /\ restore \in Maps
      BY <1>23, <2>1 DEF MapsOK
    <3>2. store' = saved(hidden', restore)
      BY <1>23 DEF PassHides, hideSaves
    <3>3. \A w \in WindowID : hidden'[w] # None \/ restore[w] # None => store'[w] # None
      BY <3>1, <3>2
    <3> QED BY <1>23, <3>3 DEF PassHides, HandlersOK, HiddenAreStored
  <2>5. WindowsSomewhere'
    BY <1>23 DEF PassHides, hideSaves, HandlersOK, MapsOK, Maps, WindowsSomewhere, Exists, OnScreen
  <2> QED BY <2>1, <2>2, <2>3, <2>4, <2>5
<1>24. CASE HideParks
  <2>1. MapsOK'
    BY <1>24 DEF HideParks, forget, HandlersOK, MapsOK, Maps, OnScreen
  <2>2. HandlersOK'
    BY <1>24 DEF HideParks, forget, HandlersOK
  <2>3. MovedAreHidden'
    BY <1>24 DEF HideParks, forget, HandlersOK, MapsOK, Maps, MovedAreHidden, HiddenAreStored
  <2>4. HiddenAreStored'
    BY <1>24, <2>1 DEF HideParks, forget, HandlersOK, MapsOK, Maps, MovedAreHidden, HiddenAreStored
  <2>5. WindowsSomewhere'
    BY <1>24 DEF HideParks, forget, HandlersOK, MapsOK, Maps, WindowsSomewhere, Exists, OnScreen
  <2> QED BY <2>1, <2>2, <2>3, <2>4, <2>5
<1>25. CASE PassShows
  <2>1. MapsOK'
    BY <1>25 DEF PassShows, unparked, HandlersOK, MapsOK, Maps, OnScreen
  <2>2. HandlersOK'
    BY <1>25 DEF PassShows, unparked, HandlersOK
  <2>3. MovedAreHidden'
    BY <1>25 DEF PassShows, unparked, HandlersOK, MapsOK, Maps, MovedAreHidden, HiddenAreStored
  <2>4. HiddenAreStored'
    BY <1>25, <2>1 DEF PassShows, unparked, HandlersOK, MapsOK, Maps, MovedAreHidden, HiddenAreStored
  <2>5. WindowsSomewhere'
    BY <1>25 DEF PassShows, unparked, HandlersOK, MapsOK, Maps, WindowsSomewhere, Exists, OnScreen
  <2> QED BY <2>1, <2>2, <2>3, <2>4, <2>5
<1>26. CASE CheckFrames
  <2>1. MapsOK'
    BY <1>26 DEF CheckFrames, HandlersOK, MapsOK, Maps, OnScreen
  <2>2. HandlersOK'
    BY <1>26 DEF CheckFrames, HandlersOK
  <2>3. MovedAreHidden'
    BY <1>26 DEF CheckFrames, HandlersOK, MapsOK, Maps, MovedAreHidden, HiddenAreStored
  <2>4. HiddenAreStored'
    BY <1>26, <2>1 DEF CheckFrames, HandlersOK, MapsOK, Maps, MovedAreHidden, HiddenAreStored
  <2>5. WindowsSomewhere'
    BY <1>26 DEF CheckFrames, HandlersOK, MapsOK, Maps, WindowsSomewhere, Exists, OnScreen
  <2> QED BY <2>1, <2>2, <2>3, <2>4, <2>5
<1>27. CASE UnhidesOne
  <2>1. MapsOK'
    BY <1>27 DEF UnhidesOne, HandlersOK, MapsOK, Maps, OnScreen
  <2>2. HandlersOK'
    BY <1>27 DEF UnhidesOne, HandlersOK
  <2>3. MovedAreHidden'
    BY <1>27 DEF UnhidesOne, HandlersOK, MapsOK, Maps, MovedAreHidden, HiddenAreStored
  <2>4. HiddenAreStored'
    BY <1>27, <2>1 DEF UnhidesOne, HandlersOK, MapsOK, Maps, MovedAreHidden, HiddenAreStored
  <2>5. WindowsSomewhere'
    <3>1. PICK w \in WindowID : hidden[w] # None /\ \E taken \in BOOLEAN : at' = Placed(w, hidden[w], taken)
      BY <1>27 DEF UnhidesOne, HandlersOK, WindowsSomewhere
    <3>2. hidden[w] \in OnScreen \cup {Corner}
      BY <3>1 DEF MapsOK, Maps
    <3>3. \A v \in WindowID : Exists(v) => at'[v] # None
      BY <3>1, <3>2 DEF MapsOK
    <3> QED BY <1>27, <3>3 DEF UnhidesOne, WindowsSomewhere, Exists
  <2> QED BY <2>1, <2>2, <2>3, <2>4, <2>5
<1>28. CASE UnhideEnds
  <2>1. MapsOK'
    BY <1>28 DEF UnhideEnds, Ends, HandlersOK, MapsOK, Maps, OnScreen
  <2>2. HandlersOK'
    BY <1>28 DEF UnhideEnds, Ends, HandlersOK
  <2>3. MovedAreHidden'
    BY <1>28 DEF UnhideEnds, Ends, HandlersOK, MapsOK, Maps, MovedAreHidden, HiddenAreStored
  <2>4. HiddenAreStored'
    BY <1>28, <2>1 DEF UnhideEnds, Ends, HandlersOK, MapsOK, Maps, MovedAreHidden, HiddenAreStored
  <2>5. WindowsSomewhere'
    BY <1>28 DEF UnhideEnds, Ends, HandlersOK, MapsOK, Maps, WindowsSomewhere, Exists, OnScreen
  <2> QED BY <2>1, <2>2, <2>3, <2>4, <2>5
<1>29. CASE ExecSucceeds
  <2>1. MapsOK'
    BY <1>29 DEF ExecSucceeds, Ends, HandlersOK, MapsOK, Maps, OnScreen
  <2>2. HandlersOK'
    BY <1>29 DEF ExecSucceeds, Ends, HandlersOK
  <2>3. MovedAreHidden'
    BY <1>29 DEF ExecSucceeds, Ends, HandlersOK, MapsOK, Maps, MovedAreHidden, HiddenAreStored
  <2>4. HiddenAreStored'
    BY <1>29, <2>1 DEF ExecSucceeds, Ends, HandlersOK, MapsOK, Maps, MovedAreHidden, HiddenAreStored
  <2>5. WindowsSomewhere'
    BY <1>29 DEF ExecSucceeds, Ends, HandlersOK, MapsOK, Maps, WindowsSomewhere, Exists, OnScreen
  <2> QED BY <2>1, <2>2, <2>3, <2>4, <2>5
<1>30. CASE ExecFails
  <2>1. MapsOK'
    BY <1>30 DEF ExecFails, HandlersOK, MapsOK, Maps, OnScreen
  <2>2. HandlersOK'
    BY <1>30 DEF ExecFails, HandlersOK
  <2>3. MovedAreHidden'
    BY <1>30 DEF ExecFails, HandlersOK, MapsOK, Maps, MovedAreHidden, HiddenAreStored
  <2>4. HiddenAreStored'
    BY <1>30, <2>1 DEF ExecFails, HandlersOK, MapsOK, Maps, MovedAreHidden, HiddenAreStored
  <2>5. WindowsSomewhere'
    BY <1>30 DEF ExecFails, HandlersOK, MapsOK, Maps, WindowsSomewhere, Exists, OnScreen
  <2> QED BY <2>1, <2>2, <2>3, <2>4, <2>5
<1>31. CASE UNCHANGED vars
  BY <1>31 DEF vars, MapsOK, HandlersOK, WindowsSomewhere, Exists, MovedAreHidden, HiddenAreStored
<1> QED
  BY <1>1, <1>2, <1>3, <1>4, <1>5, <1>6, <1>7, <1>8, <1>9, <1>10, <1>11, <1>12, <1>13, <1>14, <1>15, <1>16, <1>17, <1>18, <1>19, <1>20, <1>21, <1>22, <1>23, <1>24, <1>25, <1>26, <1>27, <1>28, <1>29, <1>30, <1>31 DEF Next, Environment, MainThread

\* The step of SavedBeforeMoved.
MovesAreSaved == \A w \in WindowID : at[w] # Corner /\ at'[w] = Corner => store[w] # None

LEMMA MovesStep == StoreInv /\ [Next]_vars => MovesAreSaved
<1> SUFFICES ASSUME StoreInv, [Next]_vars PROVE MovesAreSaved
  OBVIOUS
<1> USE ParkingAssumption DEF StoreInv, MovesAreSaved
<1>1. CASE UNCHANGED at
  BY <1>1
<1>2. CASE WindowOpens \/ WindowCloses \/ ScreensChange
  BY <1>2 DEF WindowOpens, WindowCloses, ScreensChange, MapsOK, Maps, OnScreen
<1>3. ASSUME NEW w \in WindowID, NEW taken, at' = Placed(w, hidden[w], taken)
      PROVE  MovesAreSaved
  BY <1>3 DEF Placed, MapsOK, Maps, HiddenAreStored
<1>4. CASE WindowFound \/ ReportsAdded
  <2>1. at' = at \/ \E w \in WindowID, taken \in BOOLEAN :
           at' = Placed(w, Centre, taken) \/ (restore[w] # None /\ at' = Placed(w, restore[w], taken))
    BY <1>4, TakenType DEF WindowFound, ReportsAdded, windowAdded, HandlersOK
  <2> QED BY <2>1 DEF Placed, MapsOK, Maps, HiddenAreStored, OnScreen
<1>5. CASE ReportsHiddenGone
  BY <1>3, <1>5 DEF ReportsHiddenGone, HandlersOK
<1>6. CASE UnhidesOne
  BY <1>3, <1>6 DEF UnhidesOne, HandlersOK
<1>7. CASE ReportsScreens
  BY <1>7 DEF ReportsScreens, reparks, MovedAreHidden, HiddenAreStored
<1>8. CASE HideParks
  BY <1>8 DEF HideParks, Placed, HandlersOK, MapsOK, Maps, MovedAreHidden, HiddenAreStored
<1>9. CASE PassShows
  BY <1>9 DEF PassShows, Placed, MapsOK, Maps, OnScreen
<1> QED
  BY <1>1, <1>2, <1>4, <1>5, <1>6, <1>7, <1>8, <1>9
  DEF Next, Environment, MainThread, vars, system, WindowMinimizes, WindowReturns, Launch, Start,
      ModelChanges, Quit, Panic, Crash, Restart, PutBackForgets, StartEnds, ReportsGone,
      DropForgets, PassBegins, PassSkips, PassHides, CheckFrames, UnhideEnds, ExecSucceeds, ExecFails

\* SavedBeforeMoved, for any windows, frames, retry budget and refusals: hide
\* saves before it parks, goScreensChanged parks again what is saved, and what
\* a handoff or the store carries over to a successor stays saved until then.
THEOREM NoWindowIsLost == Spec => SavedBeforeMoved
<1>1. Spec => []StoreInv
  BY StoreInvStart, StoreInvKept, PTL DEF Spec
<1>2. StoreInv /\ [Next]_vars
      => [\A w \in WindowID : at[w] # Corner /\ at'[w] = Corner => store[w] # None]_vars
  BY MovesStep DEF MovesAreSaved
<1> QED BY <1>1, <1>2, PTL DEF Spec, SavedBeforeMoved

-----------------------------------------------------------------------------
(***************************************************************************)
(* Where windows are and what is recorded of them, for any windows, frames *)
(* and retry budget: no record ever holds the corner, a window in the      *)
(* corner is in the store, a start puts back what it finds there, and at   *)
(* rest every window is where the layout wants it.                         *)
(*                                                                         *)
(* PlacesInv adds to StoreInv what the first three rest on; it needs apps  *)
(* that let their windows be put back.  RestInv, in the second half, adds  *)
(* what the last one does; it needs apps that refuse nothing but to be     *)
(* shown.  Each conjunct has a lemma of its own: every step keeps it.      *)
(***************************************************************************)

\* A window that exists is in the corner.
Cornered(w) == Exists(w) /\ at[w] = Corner

\* TypeOK in parts.
SystemTypes ==
  /\ os \in [WindowID -> {"new", "open", "minimized", "closed"}]
  /\ at \in [WindowID -> OnScreen \cup {Corner, None}]

MapTypes ==
  /\ store \in MapOfFrames /\ hidden \in MapOfFrames /\ restore \in MapOfFrames
  /\ lastShown \in MapOfFrames /\ applied \in MapOfFrames

HandoffType ==
  handoff \in {None} \cup [want : [WindowID -> Frame \cup {Hidden, Out}], hidden : MapOfFrames,
                           parked : SUBSET WindowID, lastShown : MapOfFrames]

ModelTypes ==
  /\ want \in [WindowID -> Frame \cup {Hidden, Out}]
  /\ known \in SUBSET WindowID /\ parked \in SUBSET WindowID

HandlerTypes ==
  /\ phase \in {"down", "waiting", "starting", "up"}
  /\ pc \in {"idle", "tracking", "putback", "drop", "pass", "park", "unhide", "exec"}
  /\ cur \in WindowID \cup {None}
  /\ todo \in SUBSET WindowID /\ moved \in SUBSET WindowID
  /\ restarted \in BOOLEAN

FrameTypes ==
  /\ stale \in SUBSET WindowID
  /\ retries \in [WindowID -> 0..MaxRetries]
  /\ scheduled \in BOOLEAN /\ timer \in BOOLEAN /\ shifted \in BOOLEAN

Types == SystemTypes /\ MapTypes /\ HandoffType /\ ModelTypes /\ HandlerTypes /\ FrameTypes

LEMMA NoRetries == 0 \in 0..MaxRetries
BY ParkingAssumption

LEMMA TypesAreTypeOK == Types <=> TypeOK
BY DEF Types, SystemTypes, MapTypes, HandoffType, ModelTypes, HandlerTypes, FrameTypes, TypeOK

\* Which handler may be under way in which phase, and which windows it is at.
HandlersIn ==
  /\ phase = "down" => pc = "idle" /\ known = {} /\ InModel = {}
  /\ phase = "waiting" => pc \in {"idle", "exec"} /\ known = {}
  /\ phase = "starting" => pc \in {"tracking", "putback", "unhide"}
  /\ phase = "up" => pc \notin {"tracking", "putback"} /\ \A w \in WindowID : restore[w] = None
  /\ pc \in {"putback", "drop", "park"} => cur \in WindowID
  /\ pc = "putback" => cur \in known
  /\ pc = "park" => cur \in parked
  /\ pc \in {"pass", "park"} => todo \subseteq InModel

\* What has a frame saved in memory is in the model, also across a restart.
HiddenInModel ==
  /\ \A w \in WindowID : hidden[w] # None => w \in InModel
  /\ handoff # None => \A w \in WindowID : handoff.hidden[w] # None => handoff.want[w] # Out

\* A window in the corner has a frame saved, and when it is to be hidden it is
\* parked already or was shown before: hide never takes the corner for its frame.
CornerHasFrame ==
  /\ \A w \in InModel : Cornered(w) => w \in parked \/ lastShown[w] # None
  /\ \A w \in InModel \cup known : Cornered(w) => hidden[w] # None
  /\ pc = "putback" => ~Cornered(cur)
  /\ handoff # None =>
       \A w \in WindowID : handoff.want[w] # Out /\ Cornered(w)
         => handoff.hidden[w] # None /\ (w \in handoff.parked \/ handoff.lastShown[w] # None)

\* A start goes by the store it found, and leaves nothing in the corner unless
\* a handoff says that it is parked.
StartingPutsBack ==
  /\ \A w \in WindowID : os[w] = "new" => at[w] = None
  /\ phase = "starting" => \A w \in WindowID : hidden[w] = None => store[w] = restore[w]
  /\ phase \in {"waiting", "starting"} /\ ~restarted => InModel \subseteq known
  /\ phase = "starting" /\ ~restarted => \A w \in known : ~Cornered(w)

PlacesInv == StoreInv /\ Types /\ HandlersIn /\ HiddenInModel /\ CornerHasFrame /\ StartingPutsBack


\* Where windowAdded leaves the window, when its app lets it be put back.
LEMMA AddedMoves ==
  ASSUME PlacesInv, "putback" \notin Refusals, NEW w \in WindowID, os[w] = "open", windowAdded(w)
  PROVE  \/ w \in InModel /\ UNCHANGED <<at, want, pc, cur>>
         \/ /\ w \notin InModel /\ restore[w] \in OnScreen
            /\ at' = [at EXCEPT ![w] = restore[w]] /\ UNCHANGED want
            /\ pc' = "putback" /\ cur' = w
         \/ /\ w \notin InModel /\ restore[w] = None
            /\ at' = [at EXCEPT ![w] = IF at[w] = Corner THEN Centre ELSE at[w]]
            /\ \E place \in Frame \cup {Hidden} : want' = [want EXCEPT ![w] = place]
            /\ UNCHANGED <<pc, cur>>
<1>1. \A f : \A taken \in Taken("putback") : Placed(w, f, taken) = [at EXCEPT ![w] = f]
  BY DEF Taken, Placed, Exists
<1>2. restore[w] # None => restore[w] \in OnScreen
  BY DEF PlacesInv, Types, MapTypes, MapOfFrames
<1>3. at[w] # Corner => at = [at EXCEPT ![w] = at[w]]
  BY DEF PlacesInv, Types, SystemTypes
<1> QED BY <1>1, <1>2, <1>3 DEF windowAdded, AddWindow

\* Both handlers that add a window leave all windows alone or run windowAdded.
LEMMA AddedWindow ==
  ASSUME todo \subseteq WindowID, WindowFound \/ ReportsAdded
  PROVE  \E w \in WindowID :
           \/ UNCHANGED <<at, want, pc, cur, known>>
           \/ os[w] = "open" /\ windowAdded(w)
<1>1. CASE ReportsAdded
  BY <1>1 DEF ReportsAdded
<1>2. CASE WindowFound
  <2>1. PICK v \in todo : IF os[v] = "open" THEN windowAdded(v)
                          ELSE UNCHANGED <<at, pc, cur, want, known, scheduled>>
    BY <1>2 DEF WindowFound
  <2>2. CASE os[v] = "open"
    BY <2>1, <2>2
  <2>3. CASE os[v] # "open"
    BY <2>1, <2>3
  <2> QED BY <2>2, <2>3
<1> QED BY <1>1, <1>2

LEMMA PlacedTypes ==
  ASSUME SystemTypes, NEW w \in WindowID, NEW f \in OnScreen \cup {Corner, None}, NEW taken
  PROVE  Placed(w, f, taken) \in [WindowID -> OnScreen \cup {Corner, None}]
BY DEF SystemTypes, Placed

\* Showing a window does not put it, or any other, into the corner.
LEMMA ShownMoves ==
  ASSUME PlacesInv, PassShows
  PROVE  \E w \in WindowID : /\ want[w] \in Frame
                             /\ at' = at \/ at' = [at EXCEPT ![w] = want[w]]
                             /\ parked' = parked \ {w}
                             /\ lastShown' = [lastShown EXCEPT ![w] = want[w]]
BY DEF PassShows, Placed, unparked, PlacesInv, Types, HandlerTypes

LEMMA SystemTypesKept ==
  ASSUME PlacesInv, "putback" \notin Refusals, [Next]_vars PROVE SystemTypes'
<1>1. CASE WindowFound \/ ReportsAdded
  <2>1. PICK w \in WindowID :
          \/ UNCHANGED <<at, want, pc, cur, known>>
          \/ os[w] = "open" /\ windowAdded(w)
    <3>1. todo \subseteq WindowID
      BY DEF PlacesInv, Types, HandlerTypes
    <3> QED BY <1>1, <3>1, AddedWindow
  <2>2. at' \in [WindowID -> OnScreen \cup {Corner, None}]
    BY <2>1, AddedMoves DEF PlacesInv, Types, SystemTypes, OnScreen
  <2> QED BY <1>1, <2>2 DEF WindowFound, ReportsAdded, PlacesInv, Types, SystemTypes
<1>2. CASE PassShows
  <2>1. at' \in [WindowID -> OnScreen \cup {Corner, None}]
    BY <1>2, ShownMoves DEF PlacesInv, Types, SystemTypes, OnScreen
  <2> QED BY <1>2, <2>1 DEF PassShows, PlacesInv, Types, SystemTypes
<1> USE ParkingAssumption DEF PlacesInv, Types, SystemTypes, MapTypes, HandlerTypes, HandlersIn,
           InModel, Placed, Taken, MapOfFrames, OnScreen, ModelTypes, system, disk, control,
           frames, marks, wakeups
<1>3. CASE WindowOpens \/ WindowMinimizes \/ WindowReturns \/ WindowCloses \/ ScreensChange \/
         ModelChanges
  BY <1>3 DEF WindowOpens, WindowMinimizes, WindowReturns, WindowCloses, ScreensChange,
      ModelChanges, Idle
<1>4. CASE PassBegins
  BY <1>4 DEF PassBegins, Idle
<1>5. CASE PassSkips
  BY <1>5 DEF PassSkips
<1>6. CASE ReportsScreens
  BY <1>6 DEF ReportsScreens, reparks, Idle
<1>7. CASE ReportsHiddenGone
  BY <1>7 DEF ReportsHiddenGone, Idle
<1>8. CASE UnhidesOne
  BY <1>8 DEF UnhidesOne
<1>9. CASE HideParks
  BY <1>9 DEF HideParks, forget
<1>10. CASE PutBackForgets
  BY <1>10 DEF PutBackForgets, AddWindow
<1>11. CASE PassHides \/ CheckFrames \/ Start \/ Panic \/ Restart \/ ExecFails \/ ReportsGone \/
         DropForgets \/ StartEnds \/ Launch \/ Quit \/ Crash \/ UnhideEnds \/ ExecSucceeds
  BY <1>11 DEF PassHides, hideSaves, CheckFrames, backOnScreen, Start, Panic, Restart,
      handedOver, ExecFails, ReportsGone, forgetWindow, Idle, DropForgets, StartEnds, Launch,
      Quit, Ends, Crash, UnhideEnds, ExecSucceeds
<1>12. CASE UNCHANGED vars
  BY <1>12 DEF vars
<1> QED BY <1>1, <1>2, <1>3, <1>4, <1>5, <1>6, <1>7, <1>8, <1>9, <1>10, <1>11, <1>12 DEF Next,
    Environment, MainThread

LEMMA MapTypesKept ==
  ASSUME PlacesInv, "putback" \notin Refusals, [Next]_vars PROVE MapTypes'
<1> USE ParkingAssumption DEF PlacesInv, Types, SystemTypes, MapTypes, HandlerTypes, HandlersIn,
           HandoffType, ModelTypes, InModel, saved, MapOfFrames, OnScreen, NoFrames,
           CornerHasFrame, Cornered, StoreInv, WindowsSomewhere, system, disk, control, frames,
           marks, wakeups
<1>1. CASE WindowOpens \/ WindowMinimizes \/ WindowReturns \/ WindowCloses \/ ScreensChange \/
         ModelChanges \/ PassBegins
  BY <1>1 DEF WindowOpens, WindowMinimizes, WindowReturns, WindowCloses, ScreensChange,
      ModelChanges, Idle, PassBegins
<1>2. CASE PassSkips
  BY <1>2 DEF PassSkips
<1>3. CASE ReportsScreens
  BY <1>3 DEF ReportsScreens, reparks, Idle
<1>4. CASE ReportsHiddenGone \/ UnhidesOne
  BY <1>4 DEF ReportsHiddenGone, Idle, UnhidesOne
<1>5. CASE HideParks \/ PassShows \/ WindowFound \/ ReportsAdded
  BY <1>5 DEF HideParks, forget, PassShows, unparked, changed, budgetAfter, WindowFound,
      windowAdded, AddWindow, ReportsAdded, Idle
<1>6. CASE PutBackForgets \/ PassHides \/ CheckFrames \/ Start \/ Panic \/ Restart \/ ExecFails
  BY <1>6 DEF PutBackForgets, AddWindow, PassHides, hideSaves, CheckFrames, backOnScreen, Start,
      Panic, Restart, handedOver, ExecFails
<1>7. CASE ReportsGone \/ DropForgets
  BY <1>7 DEF ReportsGone, forgetWindow, Idle, DropForgets
<1>8. CASE StartEnds
  BY <1>8 DEF StartEnds
<1>9. CASE Launch
  BY <1>9 DEF Launch
<1>10. CASE Quit \/ Crash \/ UnhideEnds \/ ExecSucceeds
  BY <1>10 DEF Quit, Idle, Ends, Crash, UnhideEnds, ExecSucceeds
<1>11. CASE UNCHANGED vars
  BY <1>11 DEF vars
<1> QED BY <1>1, <1>2, <1>3, <1>4, <1>5, <1>6, <1>7, <1>8, <1>9, <1>10, <1>11 DEF Next,
    Environment, MainThread

LEMMA HandoffTypeKept ==
  ASSUME PlacesInv, "putback" \notin Refusals, [Next]_vars PROVE HandoffType'
<1> USE ParkingAssumption DEF PlacesInv, Types, MapTypes, HandoffType, ModelTypes, system, disk,
           control, frames, marks, wakeups
<1>1. CASE WindowOpens \/ WindowMinimizes \/ WindowReturns \/ WindowCloses \/ ScreensChange \/
         ModelChanges \/ PassBegins \/ PassSkips \/ ReportsScreens \/ ReportsHiddenGone \/
         UnhidesOne \/ HideParks \/ PassShows \/ WindowFound \/ ReportsAdded
  BY <1>1 DEF WindowOpens, WindowMinimizes, WindowReturns, WindowCloses, ScreensChange,
      ModelChanges, Idle, PassBegins, PassSkips, ReportsScreens, reparks, ReportsHiddenGone,
      UnhidesOne, HideParks, forget, PassShows, unparked, changed, budgetAfter, WindowFound,
      windowAdded, AddWindow, ReportsAdded
<1>2. CASE PutBackForgets \/ PassHides \/ CheckFrames \/ Start \/ Panic \/ Restart \/ ExecFails
  BY <1>2 DEF PutBackForgets, AddWindow, PassHides, hideSaves, CheckFrames, backOnScreen, Start,
      Panic, Restart, handedOver, ExecFails
<1>3. CASE ReportsGone \/ DropForgets \/ StartEnds \/ Launch \/ Quit \/ Crash \/ UnhideEnds \/
         ExecSucceeds
  BY <1>3 DEF ReportsGone, forgetWindow, Idle, DropForgets, StartEnds, Launch, Quit, Ends, Crash,
      UnhideEnds, ExecSucceeds
<1>4. CASE UNCHANGED vars
  BY <1>4 DEF vars
<1> QED BY <1>1, <1>2, <1>3, <1>4 DEF Next, Environment, MainThread

LEMMA ModelTypesKept ==
  ASSUME PlacesInv, "putback" \notin Refusals, [Next]_vars PROVE ModelTypes'
<1> USE ParkingAssumption DEF PlacesInv, Types, HandoffType, ModelTypes, HandlerTypes,
           HandlersIn, InModel, OnScreen, system, disk, control, frames, marks, wakeups
<1>1. CASE WindowOpens \/ WindowMinimizes \/ WindowReturns \/ WindowCloses \/ ScreensChange \/
         ModelChanges \/ PassBegins
  BY <1>1 DEF WindowOpens, WindowMinimizes, WindowReturns, WindowCloses, ScreensChange,
      ModelChanges, Idle, PassBegins
<1>2. CASE PassSkips \/ ReportsScreens \/ ReportsHiddenGone \/ UnhidesOne
  BY <1>2 DEF PassSkips, ReportsScreens, reparks, Idle, ReportsHiddenGone, UnhidesOne
<1>3. CASE HideParks \/ PassShows \/ WindowFound \/ ReportsAdded
  BY <1>3 DEF HideParks, forget, PassShows, unparked, changed, budgetAfter, WindowFound,
      windowAdded, AddWindow, ReportsAdded, Idle
<1>4. CASE PutBackForgets \/ PassHides \/ CheckFrames \/ Start \/ Panic \/ Restart \/ ExecFails
  BY <1>4 DEF PutBackForgets, AddWindow, PassHides, hideSaves, CheckFrames, backOnScreen, Start,
      Panic, Restart, handedOver, ExecFails
<1>5. CASE ReportsGone \/ DropForgets \/ StartEnds \/ Launch \/ Quit \/ Crash \/ UnhideEnds \/
         ExecSucceeds
  BY <1>5 DEF ReportsGone, forgetWindow, Idle, DropForgets, StartEnds, Launch, Quit, Ends, Crash,
      UnhideEnds, ExecSucceeds
<1>6. CASE UNCHANGED vars
  BY <1>6 DEF vars
<1> QED BY <1>1, <1>2, <1>3, <1>4, <1>5, <1>6 DEF Next, Environment, MainThread

LEMMA HandlerTypesKept ==
  ASSUME PlacesInv, "putback" \notin Refusals, [Next]_vars PROVE HandlerTypes'
<1> USE ParkingAssumption DEF PlacesInv, Types, ModelTypes, HandlerTypes, HandlersIn, InModel,
           system, disk, control, frames, marks, wakeups
<1>1. CASE WindowOpens \/ WindowMinimizes \/ WindowReturns \/ WindowCloses \/ ScreensChange \/
         ModelChanges \/ PassBegins
  BY <1>1 DEF WindowOpens, WindowMinimizes, WindowReturns, WindowCloses, ScreensChange,
      ModelChanges, Idle, PassBegins
<1>2. CASE PassSkips \/ ReportsScreens \/ ReportsHiddenGone \/ UnhidesOne
  BY <1>2 DEF PassSkips, ReportsScreens, reparks, Idle, ReportsHiddenGone, UnhidesOne
<1>3. CASE HideParks \/ PassShows \/ WindowFound \/ ReportsAdded
  BY <1>3 DEF HideParks, forget, PassShows, unparked, changed, budgetAfter, WindowFound,
      windowAdded, AddWindow, ReportsAdded, Idle
<1>4. CASE PutBackForgets \/ PassHides \/ CheckFrames \/ Start \/ Panic \/ Restart \/ ExecFails
  BY <1>4 DEF PutBackForgets, AddWindow, PassHides, hideSaves, CheckFrames, backOnScreen, Start,
      Panic, Restart, handedOver, ExecFails
<1>5. CASE ReportsGone \/ DropForgets \/ StartEnds \/ Launch \/ Quit \/ Crash \/ UnhideEnds \/
         ExecSucceeds
  BY <1>5 DEF ReportsGone, forgetWindow, Idle, DropForgets, StartEnds, Launch, Quit, Ends, Crash,
      UnhideEnds, ExecSucceeds
<1>6. CASE UNCHANGED vars
  BY <1>6 DEF vars
<1> QED BY <1>1, <1>2, <1>3, <1>4, <1>5, <1>6 DEF Next, Environment, MainThread

LEMMA FrameTypesKept ==
  ASSUME PlacesInv, "putback" \notin Refusals, [Next]_vars PROVE FrameTypes'
<1>1. CASE Quit
  BY <1>1, NoRetries DEF Quit, Ends, frames, wakeups, PlacesInv, Types, FrameTypes
<1> USE ParkingAssumption, NoRetries DEF PlacesInv, Types, HandlerTypes, ModelTypes, FrameTypes,
           HandlersIn, system, disk, control, frames, marks, wakeups
<1>2. CASE WindowOpens \/ WindowMinimizes \/ WindowReturns \/ WindowCloses \/ ScreensChange \/
         ModelChanges \/ PassBegins
  BY <1>2 DEF WindowOpens, WindowMinimizes, WindowReturns, WindowCloses, ScreensChange,
      ModelChanges, Idle, PassBegins
<1>3. CASE PassSkips \/ ReportsScreens \/ ReportsHiddenGone \/ UnhidesOne
  BY <1>3 DEF PassSkips, ReportsScreens, reparks, Idle, ReportsHiddenGone, UnhidesOne
<1>4. CASE HideParks \/ PassShows
  BY <1>4 DEF HideParks, forget, PassShows, unparked, changed, budgetAfter
<1>5. CASE WindowFound \/ ReportsAdded
  BY <1>5 DEF WindowFound, windowAdded, AddWindow, ReportsAdded, Idle
<1>6. CASE PutBackForgets
  BY <1>6 DEF PutBackForgets, AddWindow
<1>7. CASE PassHides
  BY <1>7 DEF PassHides, hideSaves
<1>8. CASE CheckFrames
  BY <1>8 DEF CheckFrames, backOnScreen
<1>9. CASE Start \/ Panic \/ Restart \/ ExecFails
  BY <1>9 DEF Start, Panic, Restart, handedOver, ExecFails
<1>10. CASE ReportsGone
  BY <1>10 DEF ReportsGone, forgetWindow, Idle
<1>11. CASE DropForgets
  BY <1>11 DEF DropForgets, forgetWindow
<1>12. CASE StartEnds \/ Launch
  BY <1>12 DEF StartEnds, Launch
<1>13. CASE Crash
  BY <1>13 DEF Crash, Ends
<1>14. CASE UnhideEnds
  BY <1>14 DEF UnhideEnds, Ends
<1>15. CASE ExecSucceeds
  BY <1>15 DEF ExecSucceeds, Ends
<1>16. CASE UNCHANGED vars
  BY <1>16 DEF vars
<1> QED BY <1>1, <1>2, <1>3, <1>4, <1>5, <1>6, <1>7, <1>8, <1>9, <1>10, <1>11, <1>12, <1>13,
    <1>14, <1>15, <1>16 DEF Next, Environment, MainThread

LEMMA HandlersInKept ==
  ASSUME PlacesInv, "putback" \notin Refusals, [Next]_vars PROVE HandlersIn'
<1> USE ParkingAssumption DEF PlacesInv, Types, HandlerTypes, ModelTypes, MapTypes, NoFrames,
           HandlersIn, InModel, system, disk, control, frames, marks, wakeups
<1>1. CASE WindowOpens \/ WindowMinimizes \/ WindowReturns \/ WindowCloses \/ ScreensChange \/
         ModelChanges \/ PassBegins
  BY <1>1 DEF WindowOpens, WindowMinimizes, WindowReturns, WindowCloses, ScreensChange,
      ModelChanges, Idle, PassBegins
<1>2. CASE PassSkips \/ ReportsScreens \/ ReportsHiddenGone \/ UnhidesOne
  BY <1>2 DEF PassSkips, ReportsScreens, reparks, Idle, ReportsHiddenGone, UnhidesOne
<1>3. CASE HideParks \/ PassShows \/ WindowFound \/ ReportsAdded
  BY <1>3 DEF HideParks, forget, PassShows, unparked, changed, budgetAfter, WindowFound,
      windowAdded, AddWindow, ReportsAdded, Idle
<1>4. CASE PutBackForgets \/ PassHides \/ CheckFrames \/ Start \/ Panic \/ Restart \/ ExecFails
  BY <1>4 DEF PutBackForgets, AddWindow, PassHides, hideSaves, CheckFrames, backOnScreen, Start,
      Panic, Restart, handedOver, ExecFails
<1>5. CASE ReportsGone \/ DropForgets \/ StartEnds \/ Launch \/ Quit \/ Crash \/ UnhideEnds \/
         ExecSucceeds
  BY <1>5 DEF ReportsGone, forgetWindow, Idle, DropForgets, StartEnds, Launch, Quit, Ends, Crash,
      UnhideEnds, ExecSucceeds
<1>6. CASE UNCHANGED vars
  BY <1>6 DEF vars
<1> QED BY <1>1, <1>2, <1>3, <1>4, <1>5, <1>6 DEF Next, Environment, MainThread

LEMMA HiddenInModelKept ==
  ASSUME PlacesInv, "putback" \notin Refusals, [Next]_vars PROVE HiddenInModel'
<1> USE ParkingAssumption DEF PlacesInv, Types, HandlerTypes, ModelTypes, MapTypes, HandoffType,
           HandlersIn, HiddenInModel, InModel, NoFrames, MapOfFrames, system, disk, control,
           frames, marks, wakeups
<1>1. CASE WindowOpens \/ WindowMinimizes \/ WindowReturns \/ WindowCloses \/ ScreensChange \/
         ModelChanges \/ PassBegins
  BY <1>1 DEF WindowOpens, WindowMinimizes, WindowReturns, WindowCloses, ScreensChange,
      ModelChanges, Idle, PassBegins
<1>2. CASE PassSkips \/ ReportsScreens \/ ReportsHiddenGone \/ UnhidesOne
  BY <1>2 DEF PassSkips, ReportsScreens, reparks, Idle, ReportsHiddenGone, UnhidesOne
<1>3. CASE HideParks \/ PassShows \/ WindowFound \/ ReportsAdded
  BY <1>3 DEF HideParks, forget, PassShows, unparked, changed, budgetAfter, WindowFound,
      windowAdded, AddWindow, ReportsAdded, Idle
<1>4. CASE PutBackForgets \/ PassHides \/ CheckFrames \/ Start \/ Panic \/ Restart \/ ExecFails
  BY <1>4 DEF PutBackForgets, AddWindow, PassHides, hideSaves, CheckFrames, backOnScreen, Start,
      Panic, Restart, handedOver, ExecFails
<1>5. CASE ReportsGone \/ DropForgets
  BY <1>5 DEF ReportsGone, forgetWindow, Idle, DropForgets
<1>6. CASE StartEnds
  BY <1>6 DEF StartEnds
<1>7. CASE Launch
  BY <1>7 DEF Launch
<1>8. CASE Quit \/ Crash \/ UnhideEnds \/ ExecSucceeds
  BY <1>8 DEF Quit, Idle, Ends, Crash, UnhideEnds, ExecSucceeds
<1>9. CASE UNCHANGED vars
  BY <1>9 DEF vars
<1> QED BY <1>1, <1>2, <1>3, <1>4, <1>5, <1>6, <1>7, <1>8, <1>9 DEF Next, Environment, MainThread

LEMMA CornerHasFrameKept ==
  ASSUME PlacesInv, "putback" \notin Refusals, [Next]_vars PROVE CornerHasFrame'
<1>1. CASE WindowFound \/ ReportsAdded
  <2>1. PICK w \in WindowID :
          \/ UNCHANGED <<at, want, pc, cur, known>>
          \/ os[w] = "open" /\ windowAdded(w)
    <3>1. todo \subseteq WindowID
      BY DEF PlacesInv, Types, HandlerTypes
    <3> QED BY <1>1, <3>1, AddedWindow
  <2>2. UNCHANGED <<os, hidden, parked, lastShown, handoff>>
    BY <1>1 DEF WindowFound, ReportsAdded, disk, marks
  <2>3. CASE UNCHANGED <<at, want, pc, cur, known>>
    BY <2>2, <2>3 DEF PlacesInv, CornerHasFrame, Cornered, Exists, InModel
  <2>4. CASE os[w] = "open" /\ windowAdded(w)
    <3>0. known' = known \cup {w}
      BY <2>4 DEF windowAdded
    <3>1. CASE w \in InModel /\ UNCHANGED <<at, want, pc, cur>>
      BY <2>2, <3>0, <3>1 DEF PlacesInv, CornerHasFrame, Cornered, Exists, InModel, StoreInv,
         HandlersOK
    <3>2. CASE w \notin InModel /\ UNCHANGED want /\ \E f \in OnScreen : at' = [at EXCEPT ![w] = f]
      <4>1. \A v \in WindowID : Cornered(v)' => Cornered(v) /\ v # w
        BY <2>2, <3>2, ParkingAssumption DEF Cornered, Exists, OnScreen, PlacesInv, Types,
           SystemTypes
      <4>2. pc' = "putback" => cur' = w \/ UNCHANGED <<pc, cur>>
        BY <2>1, <2>4, AddedMoves
      <4> QED BY <2>2, <3>0, <3>2, <4>1, <4>2
      DEF PlacesInv, CornerHasFrame, InModel, Cornered, Exists, HandlersIn, StoreInv, HandlersOK
    <3>3. CASE /\ w \notin InModel
               /\ at' = [at EXCEPT ![w] = IF at[w] = Corner THEN Centre ELSE at[w]]
               /\ \E place \in Frame \cup {Hidden} : want' = [want EXCEPT ![w] = place]
               /\ UNCHANGED <<pc, cur>>
      <4>1. \A v \in WindowID : Cornered(v)' => Cornered(v) /\ v # w
        BY <2>2, <3>3, ParkingAssumption DEF Cornered, Exists, OnScreen, PlacesInv, Types,
           SystemTypes
      <4>2. \A v \in WindowID : v # w => want'[v] = want[v]
        BY <3>3 DEF PlacesInv, Types, ModelTypes
      <4> QED BY <2>2, <3>0, <3>3, <4>1, <4>2
      DEF PlacesInv, CornerHasFrame, InModel, Cornered, Exists, HandlersIn, StoreInv, HandlersOK
    <3> QED BY <2>4, <3>1, <3>2, <3>3, AddedMoves
  <2> QED BY <2>1, <2>3, <2>4
<1>2. CASE PassShows
  <2>1. PICK w \in WindowID : /\ want[w] \in Frame
                              /\ at' = at \/ at' = [at EXCEPT ![w] = want[w]]
                              /\ parked' = parked \ {w}
                              /\ lastShown' = [lastShown EXCEPT ![w] = want[w]]
    BY <1>2, ShownMoves
  <2>2. UNCHANGED <<os, hidden, handoff, want, known, pc, cur>>
    BY <1>2 DEF PassShows, disk
  <2>3. \A v \in WindowID : Cornered(v)' => Cornered(v)
    BY <2>1, <2>2, ParkingAssumption DEF Cornered, Exists, OnScreen, PlacesInv, Types, SystemTypes
  <2>4. \A v \in WindowID : lastShown[v] # None => lastShown'[v] # None
    BY <2>1, ParkingAssumption DEF PlacesInv, Types, MapTypes, MapOfFrames
  <2>5. lastShown'[w] # None
    BY <2>1, ParkingAssumption DEF PlacesInv, Types, MapTypes, MapOfFrames
  <2> QED BY <2>1, <2>2, <2>3, <2>4, <2>5 DEF PlacesInv, CornerHasFrame, InModel, StoreInv,
     HandlersOK
<1>3. CASE HideParks \/ ReportsScreens
  <2>1. UNCHANGED <<os, hidden, parked, lastShown, handoff, want, known>> /\ pc' # "putback"
    BY <1>3 DEF HideParks, ReportsScreens, Idle, marks, disk, control, HandlersIn, PlacesInv
  <2>2. \A v \in WindowID : Cornered(v)' => Cornered(v) \/ v \in parked
    BY <1>3, <2>1 DEF Cornered, Exists, HideParks, ReportsScreens, reparks, Placed, PlacesInv,
       HandlersIn, Types, SystemTypes
  <2>3. \A v \in parked : hidden[v] # None
    BY DEF PlacesInv, StoreInv, MovedAreHidden
  <2>4. handoff # None => phase = "down" \/ pc = "exec"
    BY DEF PlacesInv, StoreInv, HiddenAreStored
  <2>5. handoff = None
    BY <1>3, <2>4 DEF HideParks, ReportsScreens, Idle, PlacesInv, HandlersIn
  <2> QED BY <2>1, <2>2, <2>3, <2>5 DEF PlacesInv, CornerHasFrame, InModel, StoreInv, HandlersOK
<1>4. CASE Launch
  <2>1. /\ UNCHANGED <<os, at, pc, cur, known>> /\ handoff' = None
        /\ pc = "idle" /\ known = {} /\ InModel = {}
    BY <1>4 DEF Launch, system, PlacesInv, HandlersIn
  <2>2. CASE UNCHANGED <<want, hidden, parked, lastShown>>
    BY <2>1, <2>2 DEF PlacesInv, CornerHasFrame, Cornered, Exists, InModel
  <2>3. CASE /\ handoff # None
             /\ want' = handoff.want /\ hidden' = handoff.hidden
             /\ parked' = handoff.parked /\ lastShown' = handoff.lastShown
    BY <2>1, <2>3 DEF PlacesInv, CornerHasFrame, Cornered, Exists, InModel
  <2> QED BY <1>4, <2>2, <2>3 DEF Launch
<1> USE ParkingAssumption DEF PlacesInv, Types, HandlerTypes, SystemTypes, ModelTypes, MapTypes,
           HandoffType, HandlersIn, CornerHasFrame, Cornered, Exists, Placed, Taken, InModel,
           NoFrames, MapOfFrames, OnScreen, StoreInv, MovedAreHidden, system, disk, control,
           frames, marks, wakeups
<1>5. CASE WindowOpens \/ WindowMinimizes \/ WindowReturns \/ WindowCloses \/ ScreensChange \/
         ModelChanges
  BY <1>5 DEF WindowOpens, WindowMinimizes, WindowReturns, WindowCloses, ScreensChange,
      ModelChanges, Idle
<1>6. CASE PassBegins
  BY <1>6 DEF PassBegins, Idle
<1>7. CASE PassSkips
  BY <1>7 DEF PassSkips
<1>8. CASE ReportsHiddenGone
  BY <1>8 DEF ReportsHiddenGone, Idle
<1>9. CASE UnhidesOne
  BY <1>9 DEF UnhidesOne
<1>10. CASE PutBackForgets \/ PassHides
  BY <1>10 DEF PutBackForgets, AddWindow, PassHides, hideSaves
<1>11. CASE CheckFrames \/ Start \/ Panic \/ Restart \/ ExecFails \/ ReportsGone \/ DropForgets
         \/ StartEnds \/ Quit \/ Crash \/ UnhideEnds \/ ExecSucceeds
  BY <1>11 DEF CheckFrames, backOnScreen, Start, Panic, Restart, handedOver, ExecFails,
      ReportsGone, forgetWindow, Idle, DropForgets, StartEnds, Quit, Ends, Crash, UnhideEnds,
      ExecSucceeds
<1>12. CASE UNCHANGED vars
  BY <1>12 DEF vars
<1> QED BY <1>1, <1>2, <1>3, <1>4, <1>5, <1>6, <1>7, <1>8, <1>9, <1>10, <1>11, <1>12 DEF Next,
    Environment, MainThread

LEMMA StartingPutsBackKept ==
  ASSUME PlacesInv, "putback" \notin Refusals, [Next]_vars PROVE StartingPutsBack'
<1>1. CASE WindowFound \/ ReportsAdded
  <2>1. PICK w \in WindowID :
          \/ UNCHANGED <<at, want, pc, cur, known>>
          \/ os[w] = "open" /\ windowAdded(w)
    <3>1. todo \subseteq WindowID
      BY DEF PlacesInv, Types, HandlerTypes
    <3> QED BY <1>1, <3>1, AddedWindow
  <2>2. UNCHANGED <<os, hidden, store, restore, phase, restarted>>
    BY <1>1 DEF WindowFound, ReportsAdded, disk, marks
  <2>3. CASE UNCHANGED <<at, want, pc, cur, known>>
    BY <2>2, <2>3 DEF PlacesInv, StartingPutsBack, Cornered, Exists, InModel
  <2>4. CASE os[w] = "open" /\ windowAdded(w)
    <3>0. known' = known \cup {w}
      BY <2>4 DEF windowAdded
    <3>1. \A v \in WindowID : Cornered(v)' => Cornered(v) /\ (v = w => w \in InModel)
      BY <2>2, <2>4, AddedMoves, ParkingAssumption DEF Cornered, Exists, OnScreen, PlacesInv,
         Types, SystemTypes
    <3>2. \A v \in WindowID : v # w => want'[v] = want[v]
      BY <2>4, AddedMoves DEF PlacesInv, Types, ModelTypes
    <3>3. \A v \in WindowID : os[v] = "new" => at'[v] = None
      BY <2>4, AddedMoves DEF PlacesInv, StartingPutsBack, Types, SystemTypes
    <3> QED BY <2>2, <3>0, <3>1, <3>2, <3>3 DEF PlacesInv, StartingPutsBack, InModel, StoreInv,
       HandlersOK
  <2> QED BY <2>1, <2>3, <2>4
<1>2. CASE PassShows
  <2>1. UNCHANGED <<os, phase>> /\ phase \notin {"waiting", "starting"}
    BY <1>2 DEF PassShows, PlacesInv, HandlersIn
  <2>2. \A v \in WindowID : os[v] = "new" => at'[v] = None
    BY <1>2 DEF PassShows, Placed, Taken, Exists, PlacesInv, StartingPutsBack, Types, SystemTypes
  <2> QED BY <2>1, <2>2 DEF StartingPutsBack
<1>3. CASE PutBackForgets
  <2>1. UNCHANGED <<os, at, known, hidden, phase, restarted>> /\ cur \in WindowID
    BY <1>3 DEF PutBackForgets, system, PlacesInv, HandlersIn
  <2>2. \A v \in WindowID : hidden[v] = None => store'[v] = restore'[v]
    BY <1>3 DEF PutBackForgets, saved
  <2>3. phase = "starting" => InModel' \subseteq InModel \cup {cur}
    BY <1>3, <2>1 DEF PutBackForgets, AddWindow, InModel, PlacesInv, Types, ModelTypes
  <2>4. phase = "starting" =>
          /\ cur \in known /\ known \subseteq WindowID
          /\ \A v \in WindowID : hidden[v] = None => store'[v] = restore'[v]
    BY <1>3, <2>2 DEF PutBackForgets, PlacesInv, HandlersIn, StoreInv, HandlersOK
  <2>5. phase # "waiting"
    BY <1>3 DEF PutBackForgets, PlacesInv, HandlersIn
  <2> QED BY <2>1, <2>2, <2>3, <2>4, <2>5 DEF PlacesInv, StartingPutsBack, Cornered, Exists,
     PutBackForgets, HandlersIn, StoreInv, HandlersOK
<1> USE ParkingAssumption DEF PlacesInv, Types, HandlerTypes, SystemTypes, ModelTypes, MapTypes,
           HandlersIn, StartingPutsBack, Cornered, Exists, Placed, Taken, InModel, NoFrames,
           MapOfFrames, OnScreen, saved, HiddenInModel, system, disk, control, frames, marks,
           wakeups
<1>4. CASE WindowOpens \/ WindowMinimizes \/ WindowReturns \/ WindowCloses \/ ScreensChange \/
         ModelChanges
  BY <1>4 DEF WindowOpens, WindowMinimizes, WindowReturns, WindowCloses, ScreensChange,
      ModelChanges, Idle
<1>5. CASE PassBegins \/ PassSkips \/ ReportsScreens
  BY <1>5 DEF PassBegins, Idle, PassSkips, ReportsScreens, reparks
<1>6. CASE ReportsHiddenGone
  BY <1>6 DEF ReportsHiddenGone, Idle
<1>7. CASE UnhidesOne
  BY <1>7 DEF UnhidesOne
<1>8. CASE HideParks
  BY <1>8 DEF HideParks, forget
<1>9. CASE PassHides
  BY <1>9 DEF PassHides, hideSaves
<1>10. CASE CheckFrames \/ Start \/ Panic \/ Restart \/ ExecFails \/ ReportsGone \/ DropForgets
         \/ StartEnds \/ Launch \/ Quit \/ Crash \/ UnhideEnds \/ ExecSucceeds
  BY <1>10 DEF CheckFrames, backOnScreen, Start, Panic, Restart, handedOver, ExecFails,
      ReportsGone, forgetWindow, Idle, DropForgets, StartEnds, Launch, Quit, Ends, Crash,
      UnhideEnds, ExecSucceeds
<1>11. CASE UNCHANGED vars
  BY <1>11 DEF vars
<1> QED BY <1>1, <1>2, <1>3, <1>4, <1>5, <1>6, <1>7, <1>8, <1>9, <1>10, <1>11 DEF Next,
    Environment, MainThread
LEMMA PlacesInvStart == Init => PlacesInv
<1> SUFFICES ASSUME Init PROVE PlacesInv
  OBVIOUS
<1>1. StoreInv
  BY StoreInvStart
<1>2. Types
  <2>1. NoFrames \in MapOfFrames
    BY DEF NoFrames, MapOfFrames
  <2>2. SystemTypes /\ MapTypes /\ HandoffType
    BY <2>1 DEF Init, NoFrames, SystemTypes, MapTypes, HandoffType
  <2>3. ModelTypes /\ HandlerTypes
    BY DEF Init, ModelTypes, HandlerTypes
  <2>4. FrameTypes
    BY NoRetries DEF Init, FrameTypes
  <2> QED BY <2>2, <2>3, <2>4 DEF Types
<1>3. HandlersIn /\ HiddenInModel /\ CornerHasFrame /\ StartingPutsBack
  BY ParkingAssumption DEF Init, HandlersIn, HiddenInModel, CornerHasFrame, Cornered, Exists,
     StartingPutsBack, InModel, NoFrames
<1> QED BY <1>1, <1>2, <1>3 DEF PlacesInv

LEMMA PlacesInvKept ==
  ASSUME PlacesInv, "putback" \notin Refusals, [Next]_vars PROVE PlacesInv'
<1>1. StoreInv'
  BY StoreInvKept DEF PlacesInv
<1>2. Types'
  BY SystemTypesKept, MapTypesKept, HandoffTypeKept, ModelTypesKept, HandlerTypesKept,
     FrameTypesKept
  DEF Types
<1> QED BY <1>1, <1>2, HandlersInKept, HiddenInModelKept, CornerHasFrameKept, StartingPutsBackKept
    DEF PlacesInv

LEMMA PlacesInvAlways == ASSUME "putback" \notin Refusals PROVE Spec => []PlacesInv
<1>1. PlacesInv /\ [Next]_vars => PlacesInv'
  BY PlacesInvKept
<1> QED BY PlacesInvStart, <1>1, PTL DEF Spec

\* TypeOK, for any windows, frames and retry budget: as long as apps let their
\* windows be put back, no map of frames ever has the corner in it.
THEOREM ParkingTypes == ASSUME "putback" \notin Refusals PROVE Spec => []TypeOK
<1>1. PlacesInv => TypeOK
  BY TypesAreTypeOK DEF PlacesInv
<1> QED BY <1>1, PlacesInvAlways, PTL

\* CornerIsStored, for any windows, frames and retry budget, also when apps
\* refuse to show or to park their windows.
THEOREM CornerIsAlwaysStored == ASSUME "putback" \notin Refusals PROVE Spec => []CornerIsStored
<1>1. PlacesInv => CornerIsStored
  BY DEF PlacesInv, StoreInv, HiddenAreStored, HandlersOK, CornerHasFrame, Cornered,
     CornerIsStored,
         Types, MapTypes, MapOfFrames
<1> QED BY <1>1, PlacesInvAlways, PTL

\* The two halves of StartPutsBack.
NoneLeftInCorner ==
  phase = "starting" /\ phase' = "up" /\ ~restarted
    => \A w \in known : os[w] = "open" => at[w] # Corner

BackWhereStored ==
  phase = "starting" /\ pc = "tracking"
    => \A w \in WindowID : at[w] = Corner /\ at'[w] \in OnScreen
         => at'[w] = IF store[w] \in OnScreen THEN store[w] ELSE Centre

LEMMA StartStep ==
  ASSUME PlacesInv, "putback" \notin Refusals, [Next]_vars
  PROVE  NoneLeftInCorner /\ BackWhereStored
<1>1. NoneLeftInCorner
  BY DEF NoneLeftInCorner, PlacesInv, StartingPutsBack, Cornered, Exists
<1>2. ASSUME phase = "starting" /\ pc = "tracking" PROVE BackWhereStored
  <2>1. CASE UNCHANGED at
    BY <2>1, ParkingAssumption DEF BackWhereStored, OnScreen
  <2>2. CASE WindowOpens \/ WindowCloses
    BY <2>2, ParkingAssumption DEF WindowOpens, WindowCloses, BackWhereStored, OnScreen,
       PlacesInv,
       StartingPutsBack, Types, SystemTypes
  <2>3. CASE WindowFound
    <3>1. PICK w \in WindowID :
            \/ UNCHANGED <<at, want, pc, cur, known>>
            \/ os[w] = "open" /\ windowAdded(w)
      BY <2>3, AddedWindow DEF PlacesInv, Types, HandlerTypes
    <3>2. w \notin InModel => hidden[w] = None /\ store[w] = restore[w]
      BY <1>2 DEF PlacesInv, HiddenInModel, StartingPutsBack
    <3>3. CASE UNCHANGED <<at, want, pc, cur, known>>
      BY <2>1, <3>3
    <3>4. CASE os[w] = "open" /\ windowAdded(w)
      BY <3>2, <3>4, AddedMoves, ParkingAssumption
      DEF BackWhereStored, OnScreen, PlacesInv, Types, SystemTypes, MapTypes, MapOfFrames
    <3> QED BY <3>1, <3>3, <3>4
  <2> QED
    BY <1>2, <2>1, <2>2, <2>3
    DEF Next, Environment, MainThread, vars, system, WindowMinimizes, WindowReturns, ScreensChange,
        Launch, Start, ModelChanges, Idle, Quit, Panic, Crash, Restart, PutBackForgets, StartEnds,
        ReportsAdded, ReportsGone, ReportsHiddenGone, DropForgets, ReportsScreens, PassBegins,
        PassSkips, PassHides, HideParks, PassShows, CheckFrames, UnhidesOne, UnhideEnds,
        ExecSucceeds, ExecFails
<1> QED BY <1>1, <1>2 DEF BackWhereStored

\* StartPutsBack, for any windows, frames and retry budget: a start without a
\* handoff leaves nothing in the corner, and puts back to where the store says.
THEOREM StartsPutBack == ASSUME "putback" \notin Refusals PROVE Spec => StartPutsBack
<1>1. PlacesInv /\ [Next]_vars => [NoneLeftInCorner /\ BackWhereStored]_vars
  BY StartStep
<1> QED BY <1>1, PlacesInvAlways, PTL DEF Spec, StartPutsBack, NoneLeftInCorner, BackWhereStored
-----------------------------------------------------------------------------
(* What is in place once wimy has come to rest.                            *)

\* A pass is due that will come to window w.
Coming(w) == scheduled \/ (pc \in {"pass", "park"} /\ w \in todo)

\* The handler that has stopped at window w.
AtStep(p, w) == pc = p /\ cur = w

\* Windows of wimy's have been opened, and what a handler or a pass keeps is
\* kept by no other, and by no process that is down.
KeptInPass ==
  /\ \A w \in InModel \cup known : os[w] # "new"
  /\ handoff # None => \A w \in WindowID : handoff.want[w] # Out => os[w] # "new"
  /\ phase # "up" => ~shifted
  /\ phase # "up" => stale = {} /\ moved = {} /\ \A w \in WindowID : applied[w] = None
  /\ pc = "park" => want[cur] = Hidden
  /\ pc \notin {"pass", "park", "unhide"} => moved = {}
  /\ pc # "unhide" => \A w \in moved : w \in InModel /\ want[w] \in Frame /\ applied[w] = want[w]

\* What is marked as parked is in the corner, but for the window about to be
\* parked, the one put back before it is dropped, and those being put back.
ParkedInCorner ==
  /\ parked \subseteq InModel
  /\ ~shifted /\ pc # "unhide" =>
       \A w \in parked : Exists(w) => at[w] = Corner \/ AtStep("park", w) \/ AtStep("drop", w)
  /\ handoff # None =>
       \A w \in handoff.parked : handoff.want[w] # Out /\ (Exists(w) => at[w] = Corner)

\* What is to be hidden is parked, or a pass comes to it.
HiddenAreParked ==
  phase = "up" /\ pc # "unhide" =>
    \A w \in InModel : Exists(w) /\ want[w] = Hidden => w \in parked \/ Coming(w)

\* A frame that was sent and is not to be sent again has taken, or was sent as
\* often as it is.
FramesAreTaken ==
  /\ \A w \in WindowID : applied[w] # None => w \in InModel /\ lastShown[w] # None
  /\ pc # "unhide" => \A w \in WindowID : applied[w] # None => w \notin parked \/ AtStep("park", w)
  /\ pc # "unhide" =>
       \A w \in WindowID :
         /\ applied[w] # None /\ Exists(w)
         /\ w \notin stale \cup moved /\ ~AtStep("drop", w)
         => at[w] = applied[w] \/ retries[w] = MaxRetries

\* A frame that is to be sent again is: a pass is due, now or later.
StaleAreSent ==
  /\ \A w \in stale : applied[w] # None
  /\ pc # "unhide" => \A w \in stale : timer \/ Coming(w) \/ AtStep("park", w)

\* What is to be shown has been sent its frame, or a pass comes to it.
ShownAreSent ==
  phase = "up" /\ pc # "unhide" =>
    \A w \in InModel : want[w] \in Frame => applied[w] = want[w] \/ Coming(w)

RestInv ==
  /\ PlacesInv /\ KeptInPass /\ ParkedInCorner /\ HiddenAreParked
  /\ FramesAreTaken /\ StaleAreSent /\ ShownAreSent

\* AddedMoves for a process whose apps refuse nothing but to be shown.
LEMMA OthersStay ==
  ASSUME PlacesInv, Refusals \subseteq {"show"}, WindowFound \/ ReportsAdded
  PROVE  \E w \in WindowID :
           /\ \A v \in WindowID : v # w \/ w \in InModel => at'[v] = at[v] /\ want'[v] = want[v]
           /\ InModel \subseteq InModel'
           /\ \/ UNCHANGED <<pc, cur>>
              \/ pc' = "putback" /\ cur' = w /\ w \notin InModel
           /\ os[w] # "new" \/ (UNCHANGED <<at, want, known>>)
<1>1. PICK w \in WindowID :
        \/ UNCHANGED <<at, want, pc, cur, known>>
        \/ os[w] = "open" /\ windowAdded(w)
  BY AddedWindow DEF PlacesInv, Types, HandlerTypes
<1>2. CASE UNCHANGED <<at, want, pc, cur, known>>
  BY <1>2 DEF InModel
<1>3. CASE os[w] = "open" /\ windowAdded(w)
  <2>1. "putback" \notin Refusals
    OBVIOUS
  <2>2. \A v \in WindowID : v # w \/ w \in InModel => at'[v] = at[v] /\ want'[v] = want[v]
    BY <1>3, <2>1, AddedMoves DEF PlacesInv, Types, SystemTypes, ModelTypes
  <2>3. InModel \subseteq InModel'
    BY <2>2 DEF InModel
  <2> QED BY <1>3, <2>1, <2>2, <2>3, AddedMoves
<1> QED BY <1>1, <1>2, <1>3

LEMMA KeptInPassKept ==
  ASSUME RestInv, Refusals \subseteq {"show"}, [Next]_vars PROVE KeptInPass'
<1> USE ParkingAssumption DEF RestInv, PlacesInv, Types, HandlersIn, HandlerTypes, SystemTypes,
           ModelTypes, MapTypes, HandoffType, FrameTypes, KeptInPass, Placed, InModel, NoFrames,
           MapOfFrames, FramesAreTaken, StaleAreSent, StoreInv, HandlersOK, HiddenAreStored,
           system, disk, control, frames, marks, wakeups
<1>1. CASE WindowOpens \/ WindowMinimizes \/ WindowReturns \/ WindowCloses \/ ScreensChange \/
         ModelChanges \/ PassBegins
  BY <1>1 DEF WindowOpens, WindowMinimizes, WindowReturns, WindowCloses, ScreensChange,
      ModelChanges, Idle, PassBegins
<1>2. CASE PassSkips \/ ReportsScreens
  BY <1>2 DEF PassSkips, ReportsScreens, reparks, Idle
<1>3. CASE ReportsHiddenGone \/ UnhidesOne
  BY <1>3 DEF ReportsHiddenGone, Idle, UnhidesOne
<1>4. CASE HideParks \/ PassShows \/ WindowFound \/ ReportsAdded
  BY <1>4 DEF HideParks, forget, PassShows, unparked, changed, budgetAfter, WindowFound,
      windowAdded, AddWindow, ReportsAdded, Idle
<1>5. CASE PutBackForgets \/ PassHides \/ CheckFrames \/ Start \/ Panic \/ Restart \/ ExecFails
  BY <1>5 DEF PutBackForgets, AddWindow, PassHides, hideSaves, CheckFrames, backOnScreen, Start,
      Panic, Restart, handedOver, ExecFails
<1>6. CASE ReportsGone \/ DropForgets
  BY <1>6 DEF ReportsGone, forgetWindow, Idle, DropForgets
<1>7. CASE StartEnds
  BY <1>7 DEF StartEnds
<1>8. CASE Launch
  BY <1>8 DEF Launch
<1>9. CASE Quit \/ Crash \/ UnhideEnds \/ ExecSucceeds
  BY <1>9 DEF Quit, Idle, Ends, Crash, UnhideEnds, ExecSucceeds
<1>10. CASE UNCHANGED vars
  BY <1>10 DEF vars
<1> QED BY <1>1, <1>2, <1>3, <1>4, <1>5, <1>6, <1>7, <1>8, <1>9, <1>10 DEF Next, Environment,
    MainThread

LEMMA ParkedInCornerKept ==
  ASSUME RestInv, Refusals \subseteq {"show"}, [Next]_vars PROVE ParkedInCorner'
<1>1. CASE WindowFound \/ ReportsAdded
  <2>1. PICK w \in WindowID :
          /\ \A v \in WindowID : v # w \/ w \in InModel => at'[v] = at[v] /\ want'[v] = want[v]
          /\ InModel \subseteq InModel'
          /\ \/ UNCHANGED <<pc, cur>>
             \/ pc' = "putback" /\ cur' = w /\ w \notin InModel
    BY <1>1, OthersStay DEF RestInv
  <2>2. UNCHANGED <<os, parked, shifted, handoff>>
    BY <1>1 DEF WindowFound, ReportsAdded, disk, marks
  <2>3. pc \notin {"park", "drop", "unhide"} /\ (handoff # None => phase = "down" \/ pc = "exec")
    BY <1>1 DEF WindowFound, ReportsAdded, Idle, RestInv, PlacesInv, StoreInv, HiddenAreStored
  <2>4. handoff = None
    BY <1>1, <2>3 DEF WindowFound, ReportsAdded, Idle, RestInv, PlacesInv, HandlersIn
  <2> QED BY <2>1, <2>2, <2>3, <2>4 DEF RestInv, ParkedInCorner, AtStep, Exists, InModel
<1>2. CASE PassShows
  <2>1. PICK w \in WindowID : /\ want[w] \in Frame
                              /\ at' = at \/ at' = [at EXCEPT ![w] = want[w]]
                              /\ parked' = parked \ {w}
                              /\ lastShown' = [lastShown EXCEPT ![w] = want[w]]
    BY <1>2, ShownMoves DEF RestInv
  <2>2. UNCHANGED <<os, want, shifted, handoff, pc, cur>>
    BY <1>2 DEF PassShows, disk, wakeups
  <2>3. \A v \in WindowID : v # w => at'[v] = at[v]
    BY <2>1 DEF RestInv, PlacesInv, Types, SystemTypes
  <2>4. handoff = None
    BY <1>2 DEF PassShows, RestInv, PlacesInv, StoreInv, HiddenAreStored, HandlersIn
  <2> QED BY <2>1, <2>2, <2>3, <2>4 DEF RestInv, ParkedInCorner, AtStep, Exists, InModel
<1>3. CASE HideParks
  <2>1. UNCHANGED <<os, parked, want, shifted>> /\ cur \in WindowID
    BY <1>3 DEF HideParks, marks, wakeups, RestInv, PlacesInv, HandlersIn
  <2>2. \A w \in WindowID : at'[w] = IF w = cur /\ Exists(w) THEN Corner ELSE at[w]
    BY <1>3, <2>1 DEF HideParks, Placed, Taken, RestInv, PlacesInv, Types, SystemTypes
  <2>3. handoff' = None
    BY <1>3 DEF HideParks, disk, RestInv, PlacesInv, StoreInv, HiddenAreStored, HandlersIn
  <2> QED BY <1>3, <2>1, <2>2, <2>3 DEF HideParks, RestInv, ParkedInCorner, AtStep, Exists,
     InModel
<1>4. CASE Launch
  <2>1. /\ UNCHANGED <<os, at, pc, cur>> /\ handoff' = None
        /\ \/ UNCHANGED <<want, parked>>
           \/ handoff # None /\ want' = handoff.want /\ parked' = handoff.parked
    BY <1>4 DEF Launch, system
  <2>2. pc = "idle" /\ InModel = {}
    BY <1>4 DEF Launch, RestInv, PlacesInv, HandlersIn
  <2>3. handoff # None => handoff.parked \in SUBSET WindowID
    BY DEF RestInv, PlacesInv, Types, HandoffType
  <2> QED BY <2>1, <2>2, <2>3 DEF RestInv, ParkedInCorner, AtStep, Exists, InModel
<1> USE ParkingAssumption DEF RestInv, PlacesInv, Types, HandlersIn, HandlerTypes, SystemTypes,
           ModelTypes, MapTypes, HandoffType, HiddenInModel, KeptInPass, ParkedInCorner, AtStep,
           Exists, Placed, Taken, InModel, NoFrames, OnScreen, StoreInv, HandlersOK,
           HiddenAreStored, MovedAreHidden, system, disk, control, frames, marks, wakeups
<1>5. CASE WindowOpens \/ WindowMinimizes \/ WindowReturns \/ WindowCloses \/ ScreensChange \/
         ModelChanges
  BY <1>5 DEF WindowOpens, WindowMinimizes, WindowReturns, WindowCloses, ScreensChange,
      ModelChanges, Idle
<1>6. CASE PassBegins
  BY <1>6 DEF PassBegins, Idle
<1>7. CASE PassSkips
  BY <1>7 DEF PassSkips
<1>8. CASE ReportsScreens
  BY <1>8 DEF ReportsScreens, reparks, Idle
<1>9. CASE ReportsHiddenGone
  BY <1>9 DEF ReportsHiddenGone, Idle
<1>10. CASE UnhidesOne
  BY <1>10 DEF UnhidesOne
<1>11. CASE PutBackForgets
  BY <1>11 DEF PutBackForgets, AddWindow
<1>12. CASE PassHides \/ CheckFrames \/ Start \/ Panic \/ Restart \/ ExecFails \/ ReportsGone \/
         DropForgets \/ StartEnds \/ Quit \/ Crash \/ UnhideEnds \/ ExecSucceeds
  BY <1>12 DEF PassHides, hideSaves, CheckFrames, backOnScreen, Start, Panic, Restart,
      handedOver, ExecFails, ReportsGone, forgetWindow, Idle, DropForgets, StartEnds, Quit, Ends,
      Crash, UnhideEnds, ExecSucceeds
<1>13. CASE UNCHANGED vars
  BY <1>13 DEF vars
<1> QED BY <1>1, <1>2, <1>3, <1>4, <1>5, <1>6, <1>7, <1>8, <1>9, <1>10, <1>11, <1>12, <1>13 DEF
    Next, Environment, MainThread

LEMMA HiddenAreParkedKept ==
  ASSUME RestInv, Refusals \subseteq {"show"}, [Next]_vars PROVE HiddenAreParked'
<1> USE ParkingAssumption DEF RestInv, PlacesInv, Types, HandlersIn, HandlerTypes, SystemTypes,
           ModelTypes, MapTypes, KeptInPass, HiddenAreParked, Coming, AtStep, Exists, InModel,
           NoFrames, system, disk, control, frames, marks, wakeups
<1>1. CASE WindowOpens \/ WindowMinimizes \/ WindowReturns \/ WindowCloses \/ ScreensChange \/
         ModelChanges \/ PassBegins
  BY <1>1 DEF WindowOpens, WindowMinimizes, WindowReturns, WindowCloses, ScreensChange,
      ModelChanges, Idle, PassBegins
<1>2. CASE PassSkips
  BY <1>2 DEF PassSkips
<1>3. CASE ReportsScreens
  BY <1>3 DEF ReportsScreens, reparks, Idle
<1>4. CASE ReportsHiddenGone \/ UnhidesOne
  BY <1>4 DEF ReportsHiddenGone, Idle, UnhidesOne
<1>5. CASE HideParks \/ PassShows \/ WindowFound \/ ReportsAdded
  BY <1>5 DEF HideParks, forget, PassShows, unparked, changed, budgetAfter, WindowFound,
      windowAdded, AddWindow, ReportsAdded, Idle
<1>6. CASE PutBackForgets \/ PassHides \/ CheckFrames \/ Start \/ Panic \/ Restart \/ ExecFails
         \/ ReportsGone \/ DropForgets \/ StartEnds \/ Launch \/ Quit \/ Crash \/ UnhideEnds \/
         ExecSucceeds
  BY <1>6 DEF PutBackForgets, AddWindow, PassHides, hideSaves, CheckFrames, backOnScreen, Start,
      Panic, Restart, handedOver, ExecFails, ReportsGone, forgetWindow, Idle, DropForgets,
      StartEnds, Launch, Quit, Ends, Crash, UnhideEnds, ExecSucceeds
<1>7. CASE UNCHANGED vars
  BY <1>7 DEF vars
<1> QED BY <1>1, <1>2, <1>3, <1>4, <1>5, <1>6, <1>7 DEF Next, Environment, MainThread

LEMMA FramesAreTakenKept ==
  ASSUME RestInv, Refusals \subseteq {"show"}, [Next]_vars PROVE FramesAreTaken'
<1>1. CASE WindowFound \/ ReportsAdded
  <2>1. PICK w \in WindowID :
          /\ \A v \in WindowID : v # w \/ w \in InModel => at'[v] = at[v] /\ want'[v] = want[v]
          /\ InModel \subseteq InModel'
          /\ \/ UNCHANGED <<pc, cur>>
             \/ pc' = "putback" /\ cur' = w /\ w \notin InModel
    BY <1>1, OthersStay DEF RestInv
  <2>2. UNCHANGED <<os, parked, lastShown, applied, stale, retries, moved>>
    BY <1>1 DEF WindowFound, ReportsAdded, frames, marks
  <2>3. pc \notin {"park", "drop", "unhide"}
    BY <1>1 DEF WindowFound, ReportsAdded, Idle
  <2> QED BY <2>1, <2>2, <2>3 DEF RestInv, FramesAreTaken, AtStep, Exists, InModel
<1>2. CASE PassShows
  <2>1. PICK w \in todo : /\ pc = "pass" /\ want[w] \in Frame
                          /\ parked' = parked \ {w}
                          /\ lastShown' = [lastShown EXCEPT ![w] = want[w]]
                          /\ IF changed(w)
                             THEN /\ applied' = [applied EXCEPT ![w] = want[w]]
                                  /\ stale' = stale \ {w}
                                  /\ retries' = [retries EXCEPT ![w] = budgetAfter(w)]
                                  /\ moved' = moved \cup {w}
                                  /\ \E taken \in Taken("show") : at' = Placed(w, want[w], taken)
                             ELSE UNCHANGED <<frames, moved, at>>
    BY <1>2 DEF PassShows, unparked
  <2>2. UNCHANGED <<os, want, pc, cur>> /\ w \in InModel /\ w \in WindowID
    BY <1>2 DEF PassShows, RestInv, PlacesInv, HandlersIn, InModel
  <2>3. \A v \in WindowID : v # w => /\ lastShown'[v] = lastShown[v] /\ applied'[v] = applied[v]
                                     /\ retries'[v] = retries[v] /\ at'[v] = at[v]
                                     /\ (v \in stale' \cup moved' <=> v \in stale \cup moved)
                                     /\ (v \in parked' <=> v \in parked)
    BY <2>1 DEF Placed, frames, RestInv, PlacesInv, Types, SystemTypes, MapTypes, MapOfFrames,
       FrameTypes
  <2>4. lastShown'[w] # None /\ w \notin parked'
    BY <2>1, <2>2, ParkingAssumption DEF RestInv, PlacesInv, Types, MapTypes, MapOfFrames
  <2>5. w \in moved' \/ (UNCHANGED <<applied, stale, retries, moved, at>>)
    BY <2>1 DEF frames
  <2> QED BY <2>1, <2>2, <2>3, <2>4, <2>5 DEF RestInv, FramesAreTaken, AtStep, Exists, InModel
<1> USE ParkingAssumption DEF RestInv, PlacesInv, Types, HandlersIn, HandlerTypes, SystemTypes,
           ModelTypes, MapTypes, FrameTypes, KeptInPass, ParkedInCorner, FramesAreTaken,
           MapOfFrames, OnScreen, AtStep, Exists, InModel, NoFrames, Placed, Taken, StoreInv,
           HandlersOK, system, disk, control, frames, marks, wakeups
<1>3. CASE WindowOpens \/ WindowMinimizes \/ WindowReturns \/ WindowCloses \/ ScreensChange \/
         ModelChanges
  BY <1>3 DEF WindowOpens, WindowMinimizes, WindowReturns, WindowCloses, ScreensChange,
      ModelChanges, Idle
<1>4. CASE PassBegins
  BY <1>4 DEF PassBegins, Idle
<1>5. CASE PassSkips
  BY <1>5 DEF PassSkips
<1>6. CASE ReportsScreens
  BY <1>6 DEF ReportsScreens, reparks, Idle
<1>7. CASE ReportsHiddenGone
  BY <1>7 DEF ReportsHiddenGone, Idle
<1>8. CASE UnhidesOne
  BY <1>8 DEF UnhidesOne
<1>9. CASE HideParks
  BY <1>9 DEF HideParks, forget
<1>10. CASE PutBackForgets
  BY <1>10 DEF PutBackForgets, AddWindow
<1>11. CASE PassHides \/ CheckFrames \/ Start
  BY <1>11 DEF PassHides, hideSaves, CheckFrames, backOnScreen, Start
<1>12. CASE Panic \/ Restart \/ ExecFails \/ ReportsGone
  BY <1>12 DEF Panic, Restart, handedOver, ExecFails, ReportsGone, forgetWindow, Idle
<1>13. CASE DropForgets
  BY <1>13 DEF DropForgets, forgetWindow
<1>14. CASE StartEnds \/ Launch
  BY <1>14 DEF StartEnds, Launch
<1>15. CASE Quit \/ Crash \/ UnhideEnds \/ ExecSucceeds
  BY <1>15 DEF Quit, Idle, Ends, Crash, UnhideEnds, ExecSucceeds
<1>16. CASE UNCHANGED vars
  BY <1>16 DEF vars
<1> QED BY <1>1, <1>2, <1>3, <1>4, <1>5, <1>6, <1>7, <1>8, <1>9, <1>10, <1>11, <1>12, <1>13,
    <1>14, <1>15, <1>16 DEF Next, Environment, MainThread

LEMMA StaleAreSentKept ==
  ASSUME RestInv, Refusals \subseteq {"show"}, [Next]_vars PROVE StaleAreSent'
<1>1. CASE CheckFrames
  <2>1. pc = "pass" /\ todo = {} /\ UNCHANGED <<applied, scheduled>> /\ (timer => timer')
    BY <1>1 DEF CheckFrames
  <2>2. \A w \in stale' \ stale : w \in moved /\ timer'
    BY <1>1 DEF CheckFrames
  <2>3. \A w \in moved : applied[w] # None
    BY <2>1, ParkingAssumption DEF RestInv, KeptInPass
  <2> QED BY <2>1, <2>2, <2>3 DEF RestInv, StaleAreSent, Coming, AtStep
<1> USE ParkingAssumption DEF RestInv, PlacesInv, Types, HandlersIn, HandlerTypes, SystemTypes,
           ModelTypes, MapTypes, FrameTypes, StaleAreSent, FramesAreTaken, KeptInPass,
           MapOfFrames, OnScreen, Coming, AtStep, Exists, InModel, NoFrames, system, disk,
           control, frames, marks, wakeups
<1>2. CASE WindowOpens \/ WindowMinimizes \/ WindowReturns \/ WindowCloses \/ ScreensChange \/
         ModelChanges \/ PassBegins
  BY <1>2 DEF WindowOpens, WindowMinimizes, WindowReturns, WindowCloses, ScreensChange,
      ModelChanges, Idle, PassBegins
<1>3. CASE PassSkips
  BY <1>3 DEF PassSkips
<1>4. CASE ReportsScreens
  BY <1>4 DEF ReportsScreens, reparks, Idle
<1>5. CASE ReportsHiddenGone \/ UnhidesOne
  BY <1>5 DEF ReportsHiddenGone, Idle, UnhidesOne
<1>6. CASE HideParks \/ PassShows \/ WindowFound \/ ReportsAdded
  BY <1>6 DEF HideParks, forget, PassShows, unparked, changed, budgetAfter, WindowFound,
      windowAdded, AddWindow, ReportsAdded, Idle
<1>7. CASE PutBackForgets
  BY <1>7 DEF PutBackForgets, AddWindow
<1>8. CASE PassHides
  BY <1>8 DEF PassHides, hideSaves
<1>9. CASE Start \/ Panic \/ Restart \/ ExecFails
  BY <1>9 DEF Start, Panic, Restart, handedOver, ExecFails
<1>10. CASE ReportsGone \/ DropForgets
  BY <1>10 DEF ReportsGone, forgetWindow, Idle, DropForgets
<1>11. CASE StartEnds \/ Launch
  BY <1>11 DEF StartEnds, Launch
<1>12. CASE Quit \/ Crash \/ UnhideEnds \/ ExecSucceeds
  BY <1>12 DEF Quit, Idle, Ends, Crash, UnhideEnds, ExecSucceeds
<1>13. CASE UNCHANGED vars
  BY <1>13 DEF vars
<1> QED BY <1>1, <1>2, <1>3, <1>4, <1>5, <1>6, <1>7, <1>8, <1>9, <1>10, <1>11, <1>12, <1>13 DEF
    Next, Environment, MainThread

LEMMA ShownAreSentKept ==
  ASSUME RestInv, Refusals \subseteq {"show"}, [Next]_vars PROVE ShownAreSent'
<1> USE ParkingAssumption DEF RestInv, PlacesInv, Types, HandlersIn, HandlerTypes, SystemTypes,
           ModelTypes, MapTypes, ShownAreSent, FramesAreTaken, MapOfFrames, OnScreen, KeptInPass,
           Coming, AtStep, InModel, NoFrames, StoreInv, HandlersOK, system, disk, control,
           frames, marks, wakeups
<1>1. CASE WindowOpens \/ WindowMinimizes \/ WindowReturns \/ WindowCloses \/ ScreensChange \/
         ModelChanges \/ PassBegins
  BY <1>1 DEF WindowOpens, WindowMinimizes, WindowReturns, WindowCloses, ScreensChange,
      ModelChanges, Idle, PassBegins
<1>2. CASE PassSkips
  BY <1>2 DEF PassSkips
<1>3. CASE ReportsScreens
  BY <1>3 DEF ReportsScreens, reparks, Idle
<1>4. CASE ReportsHiddenGone \/ UnhidesOne
  BY <1>4 DEF ReportsHiddenGone, Idle, UnhidesOne
<1>5. CASE HideParks \/ PassShows \/ WindowFound \/ ReportsAdded
  BY <1>5 DEF HideParks, forget, PassShows, unparked, changed, budgetAfter, WindowFound,
      windowAdded, AddWindow, ReportsAdded, Idle
<1>6. CASE PutBackForgets \/ PassHides \/ CheckFrames \/ Start \/ Panic \/ Restart \/ ExecFails
         \/ ReportsGone \/ DropForgets \/ StartEnds \/ Launch \/ Quit \/ Crash \/ UnhideEnds \/
         ExecSucceeds
  BY <1>6 DEF PutBackForgets, AddWindow, PassHides, hideSaves, CheckFrames, backOnScreen, Start,
      Panic, Restart, handedOver, ExecFails, ReportsGone, forgetWindow, Idle, DropForgets,
      StartEnds, Launch, Quit, Ends, Crash, UnhideEnds, ExecSucceeds
<1>7. CASE UNCHANGED vars
  BY <1>7 DEF vars
<1> QED BY <1>1, <1>2, <1>3, <1>4, <1>5, <1>6, <1>7 DEF Next, Environment, MainThread

LEMMA RestInvAlways == ASSUME Refusals \subseteq {"show"} PROVE Spec => []RestInv
<1>1. Init => RestInv
  BY PlacesInvStart
  DEF Init, RestInv, KeptInPass, ParkedInCorner, HiddenAreParked, FramesAreTaken, StaleAreSent,
      ShownAreSent, InModel, NoFrames
<1>2. RestInv /\ [Next]_vars => RestInv'
  <2> SUFFICES ASSUME RestInv, [Next]_vars PROVE RestInv'
    OBVIOUS
  <2>1. PlacesInv'
    BY PlacesInvKept DEF RestInv
  <2> QED BY <2>1, KeptInPassKept, ParkedInCornerKept, HiddenAreParkedKept, FramesAreTakenKept,
             StaleAreSentKept, ShownAreSentKept DEF RestInv
<1> QED BY <1>1, <1>2, PTL DEF Spec

\* AtRestInPlace, for any windows, frames and retry budget, when apps refuse
\* nothing but to be shown.
THEOREM RestsInPlace == ASSUME Refusals \subseteq {"show"} PROVE Spec => []AtRestInPlace
<1>1. RestInv => AtRestInPlace
  <2> SUFFICES ASSUME RestInv, Quiet, NEW w \in known
               PROVE  /\ want[w] = Hidden => at[w] = Corner
                      /\ want[w] \in Frame /\ at[w] # want[w] => retries[w] = MaxRetries
    BY DEF AtRestInPlace
  <2>1. /\ phase = "up" /\ pc = "idle" /\ w \in WindowID /\ Exists(w)
        /\ ~timer /\ ~shifted /\ \A v \in WindowID : ~Coming(v)
    BY DEF Quiet, Idle, Coming, Exists, RestInv, PlacesInv, StoreInv, HandlersOK
  <2>2. ASSUME want[w] = Hidden PROVE at[w] = Corner
    <3>1. w \in parked
      BY <2>1, <2>2, ParkingAssumption DEF RestInv, HiddenAreParked, InModel
    <3> QED BY <2>1, <3>1 DEF RestInv, ParkedInCorner, AtStep
  <2>3. ASSUME want[w] \in Frame, at[w] # want[w] PROVE retries[w] = MaxRetries
    <3>1. applied[w] = want[w]
      BY <2>1, <2>3, ParkingAssumption DEF RestInv, ShownAreSent, InModel
    <3>2. w \notin stale /\ w \notin moved
      BY <2>1 DEF RestInv, StaleAreSent, KeptInPass, AtStep
    <3> QED BY <2>1, <2>3, <3>1, <3>2, ParkingAssumption DEF RestInv, FramesAreTaken, AtStep
  <2> QED BY <2>2, <2>3
<1> QED BY <1>1, RestInvAlways, PTL
=============================================================================
