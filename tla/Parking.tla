------------------------------- MODULE Parking -------------------------------
(***************************************************************************)
(* How the macOS backend keeps windows out of sight without losing them    *)
(* (internal/macos).  macOS cannot hide one window of an app, so a window  *)
(* of a view that is not shown is parked in a corner of the screen; where  *)
(* it was is kept in memory and in a file, the store, so that a wimy that  *)
(* dies can put it back when it is started again.                          *)
(*                                                                         *)
(* Everything runs on the main thread, one handler at a time, but the      *)
(* windows belong to other processes and the store to the disk: what a     *)
(* handler does to either is a step of its own, and wimy may crash between *)
(* any two.  pc says where the handler under way is, cur which window it   *)
(* is at and todo which it has still to come to.  An app may refuse what   *)
(* it is asked to do with its window.                                      *)
(*                                                                         *)
(* The model of the windows (Wm) and its layout are one function here,     *)
(* where the layout wants each window; tab groups, focus and decorations   *)
(* are left out.  A frame is one of a small set of places.                 *)
(***************************************************************************)
EXTENDS Naturals

CONSTANTS
  WindowID,    \* the windows
  Frame,       \* frames on screen that windows have and the layout gives
  Centre,      \* the frame on screen that centeredIn gives
  Corner,      \* any place that inHideCorner accepts
  None,        \* no entry in a map, no handoff, or no window on the system
  Hidden,      \* the layout hides the window, or leaves it a strip
  Out,         \* the window is not in the model
  MaxRetries,  \* maxFrameRetries
  Refusals     \* what apps may refuse: to be shown, parked, put back

ASSUME ParkingAssumption ==
  /\ Corner \notin Frame \cup {Centre}
  /\ None \notin Frame \cup {Centre, Corner}
  /\ Hidden \notin Frame /\ Out \notin Frame /\ Hidden # Out
  /\ MaxRetries \in Nat
  /\ Refusals \subseteq {"show", "park", "putback"}

VARIABLES
  os,         \* what macOS knows of each window
  at,         \* where it is
  store,      \* hidden.json
  handoff,    \* handoff.json
  phase,      \* of the wimy process
  pc, cur, todo,  \* the handler under way
  moved,      \* the windows apply has sent frames to in this pass
  restarted,  \* a handoff was taken over
  want,       \* State.Layout: where the layout wants each window
  known,      \* windows reported by macOS and not gone since
  hidden,     \* where each parked window was
  parked,     \* windows that need no parking
  restore,    \* the entries of the store that start() found
  lastShown,  \* where the layout showed each window last
  applied, stale, retries,  \* frames
  scheduled,  \* a pass is scheduled
  timer,      \* a pass is scheduled for later
  shifted     \* the screens have changed and wimy has not been told

system == <<os, at>>
disk == <<store, handoff>>
control == <<phase, pc, cur, todo, moved, restarted>>
frames == <<applied, stale, retries>>
marks == <<hidden, parked, restore, lastShown>>
wakeups == <<scheduled, timer, shifted>>
vars == <<system, disk, control, want, known, marks, frames, wakeups>>

OnScreen == Frame \cup {Centre}

NoFrames == [w \in WindowID |-> None]

Exists(w) == os[w] \in {"open", "minimized"}

InModel == {w \in WindowID : want[w] # Out}

\* The outcomes of an AX call that may be refused.
Taken(what) == IF what \in Refusals THEN BOOLEAN ELSE {TRUE}

\* Where window w is after it was asked to go to f.
Placed(w, f, taken) == IF taken /\ Exists(w) THEN [at EXCEPT ![w] = f] ELSE at

\* Mutant of saved: the entries not looked at yet are left out.
savedHidden(h, r) == h

\* saveHidden: what it writes to the store for these maps.
saved(h, r) == [w \in WindowID |-> IF h[w] # None THEN h[w] ELSE r[w]]

Init ==
  /\ os = [w \in WindowID |-> "new"]
  /\ at = NoFrames
  /\ store = NoFrames /\ handoff = None
  /\ phase = "down" /\ pc = "idle" /\ cur = None /\ todo = {} /\ moved = {}
  /\ restarted = FALSE
  /\ want = [w \in WindowID |-> Out] /\ known = {}
  /\ hidden = NoFrames /\ parked = {} /\ restore = NoFrames /\ lastShown = NoFrames
  /\ applied = NoFrames /\ stale = {} /\ retries = [w \in WindowID |-> 0]
  /\ scheduled = FALSE /\ timer = FALSE /\ shifted = FALSE

-----------------------------------------------------------------------------
(* The windows and the screens.                                            *)

WindowOpens ==
  \E w \in WindowID, f \in Frame :
    /\ os[w] = "new"
    /\ os' = [os EXCEPT ![w] = "open"]
    /\ at' = [at EXCEPT ![w] = f]
    /\ UNCHANGED <<disk, control, want, known, marks, frames, wakeups>>

WindowMinimizes ==
  \E w \in WindowID :
    /\ os[w] = "open"
    /\ os' = [os EXCEPT ![w] = "minimized"]
    /\ UNCHANGED <<at, disk, control, want, known, marks, frames, wakeups>>

WindowReturns ==
  \E w \in WindowID :
    /\ os[w] = "minimized"
    /\ os' = [os EXCEPT ![w] = "open"]
    /\ UNCHANGED <<at, disk, control, want, known, marks, frames, wakeups>>

WindowCloses ==
  \E w \in WindowID :
    /\ Exists(w)
    /\ os' = [os EXCEPT ![w] = "closed"]
    /\ at' = [at EXCEPT ![w] = None]
    /\ UNCHANGED <<disk, control, want, known, marks, frames, wakeups>>

\* "A changed arrangement can put a parked window on screen."
ScreensChange ==
  \E w \in WindowID, f \in Frame :
    /\ phase = "up"
    /\ pc # "exec"  \* bound: not during a restart, which would not notice
    /\ at[w] = Corner
    /\ at' = [at EXCEPT ![w] = f]
    /\ shifted' = TRUE
    /\ UNCHANGED <<os, disk, control, want, known, marks, frames, scheduled, timer>>

-----------------------------------------------------------------------------
(* The process.                                                            *)

\* What a process keeps in memory is gone.
Ends ==
  /\ phase' = "down" /\ pc' = "idle" /\ cur' = None /\ todo' = {} /\ moved' = {}
  /\ restarted' = FALSE
  /\ want' = [w \in WindowID |-> Out] /\ known' = {}
  /\ hidden' = NoFrames /\ parked' = {} /\ restore' = NoFrames /\ lastShown' = NoFrames
  /\ applied' = NoFrames /\ stale' = {} /\ retries' = [w \in WindowID |-> 0]
  /\ scheduled' = FALSE /\ timer' = FALSE /\ shifted' = FALSE

\* Run: the handoff is read, and removed, at once; one that is too old is not
\* taken over.  Then wimy waits for the Accessibility permission.
Launch ==
  /\ phase = "down"
  /\ phase' = "waiting"
  /\ handoff' = None
  /\ \E fresh \in IF handoff = None THEN {FALSE} ELSE BOOLEAN :
       IF fresh
       THEN /\ restarted' = TRUE
            /\ want' = handoff.want /\ hidden' = handoff.hidden
            /\ parked' = handoff.parked /\ lastShown' = handoff.lastShown
       ELSE UNCHANGED <<restarted, want, hidden, parked, lastShown>>
  /\ UNCHANGED <<system, store, pc, cur, todo, moved, known, restore, frames, wakeups>>

\* start, up to wimy_start_tracking, which reports every window it finds.
Start ==
  /\ phase = "waiting" /\ pc = "idle"
  /\ phase' = "starting" /\ pc' = "tracking"
  /\ todo' = {w \in WindowID : os[w] = "open"}
  /\ restore' = store
  /\ UNCHANGED <<system, disk, cur, moved, restarted, want, known, hidden, parked, lastShown,
                 frames, wakeups>>

\* The layout's idea of a window that AddWindow has just put into the model.
AddWindow(w) == \E place \in Frame \cup {Hidden} : want' = [want EXCEPT ![w] = place]

\* windowAdded, up to its last AX call or to the first when a save follows.
windowAdded(w) ==
  /\ known' = known \cup {w}
  /\ scheduled' = TRUE
  /\ IF w \in InModel  \* taken over, and left parked if it was
     THEN UNCHANGED <<at, want, pc, cur>>
     ELSE IF restore[w] # None
     THEN /\ \E taken \in Taken("putback") : at' = Placed(w, restore[w], taken)
          /\ pc' = "putback" /\ cur' = w
          /\ UNCHANGED want
     ELSE /\ IF at[w] = Corner  \* inHideCorner
             THEN \E taken \in Taken("putback") : at' = Placed(w, Centre, taken)
             ELSE UNCHANGED at
          /\ AddWindow(w)
          /\ UNCHANGED <<pc, cur>>

\* wimy_start_tracking reports a window.
WindowFound ==
  \E w \in todo :
    /\ pc = "tracking"
    /\ todo' = todo \ {w}
    /\ IF os[w] = "open" THEN windowAdded(w)
       ELSE UNCHANGED <<at, pc, cur, want, known, scheduled>>
    /\ UNCHANGED <<os, disk, phase, moved, restarted, marks, frames, timer, shifted>>

\* windowAdded after the window was put back.
PutBackForgets ==
  /\ pc = "putback"
  /\ restore' = [restore EXCEPT ![cur] = None]
  /\ store' = saved(hidden, restore')
  /\ AddWindow(cur)
  /\ pc' = "tracking" /\ cur' = None
  /\ UNCHANGED <<system, handoff, phase, todo, moved, restarted, known, hidden, parked,
                 lastShown, frames, wakeups>>

\* The rest of start: windows that are not there any more are pruned, and what
\* is left of the store is forgotten.
StartEnds ==
  LET gone == IF restarted THEN InModel \ known ELSE {}
      without(f) == [w \in WindowID |-> IF w \in gone THEN None ELSE f[w]]
  IN /\ pc = "tracking" /\ todo = {}
     /\ phase' = "up" /\ pc' = "idle"
     /\ want' = [w \in WindowID |-> IF w \in gone THEN Out ELSE want[w]]
     /\ hidden' = without(hidden) /\ lastShown' = without(lastShown)
     /\ parked' = parked \ gone
     /\ restore' = NoFrames
     /\ store' = IF restore # NoFrames THEN saved(hidden', restore') ELSE store
     /\ scheduled' = TRUE
     /\ restarted' = FALSE  \* not read again
     /\ UNCHANGED <<system, handoff, cur, todo, moved, known, frames, timer, shifted>>

\* SIGKILL, or a crash outside Go.
Crash == phase # "down" /\ Ends /\ UNCHANGED <<system, disk>>

-----------------------------------------------------------------------------
(* Handlers of events.                                                     *)

Idle == phase = "up" /\ pc = "idle"

\* A command or a focus change: the layout wants a window somewhere else.
ModelChanges ==
  \E w \in InModel, place \in Frame \cup {Hidden} :
    /\ Idle
    /\ want[w] # place
    /\ want' = [want EXCEPT ![w] = place]
    /\ scheduled' = TRUE
    /\ UNCHANGED <<system, disk, control, known, marks, frames, timer, shifted>>

\* goWindowAdded: a window has opened or is back from being minimised.
ReportsAdded ==
  \E w \in WindowID \ known :
    /\ Idle
    /\ os[w] = "open"
    /\ windowAdded(w)
    /\ UNCHANGED <<os, disk, phase, todo, moved, restarted, marks, frames, timer, shifted>>

\* dropWindow after its AX call.
forgetWindow(w) ==
  /\ known' = known \ {w}
  /\ want' = [want EXCEPT ![w] = Out]
  /\ hidden' = [hidden EXCEPT ![w] = None]
  /\ store' = IF hidden[w] # None THEN saved(hidden', restore) ELSE store
  /\ parked' = parked \ {w}
  /\ lastShown' = [lastShown EXCEPT ![w] = None]
  /\ applied' = [applied EXCEPT ![w] = None]
  /\ stale' = stale \ {w}
  /\ retries' = [retries EXCEPT ![w] = 0]
  /\ scheduled' = TRUE
  /\ UNCHANGED <<restore, timer, shifted>>

\* goWindowRemoved, or goWindowGone of a window that is not hidden.
ReportsGone ==
  \E w \in known :
    /\ Idle
    /\ os[w] = "closed" \/ (os[w] = "minimized" /\ hidden[w] = None)
    /\ forgetWindow(w)
    /\ UNCHANGED <<system, handoff, control>>

\* goWindowGone of a hidden window: it is put back first, "so it isn't stranded
\* in the corner".
ReportsHiddenGone ==
  \E w \in known :
    /\ Idle
    /\ os[w] = "minimized" /\ hidden[w] # None
    /\ \E taken \in Taken("putback") : at' = Placed(w, hidden[w], taken)
    /\ pc' = "drop" /\ cur' = w
    /\ UNCHANGED <<os, disk, phase, todo, moved, restarted, want, known, marks, frames, wakeups>>

DropForgets ==
  /\ pc = "drop"
  /\ forgetWindow(cur)
  /\ pc' = "idle" /\ cur' = None
  /\ UNCHANGED <<system, handoff, phase, todo, moved, restarted>>

\* The windows goScreensChanged parks again.
reparks == {w \in parked : Exists(w)}

\* goScreensChanged.
ReportsScreens ==
  /\ Idle
  /\ shifted
  /\ \E refused \in SUBSET {w \in reparks : FALSE \in Taken("park")} :
       at' = [w \in WindowID |-> IF w \in reparks \ refused THEN Corner ELSE at[w]]
  /\ shifted' = FALSE
  /\ scheduled' = TRUE
  /\ UNCHANGED <<os, disk, control, want, known, marks, frames, timer>>

-----------------------------------------------------------------------------
(* apply, the manage pass.                                                 *)

PassBegins ==
  /\ Idle
  /\ \/ scheduled /\ UNCHANGED timer
     \/ timer /\ timer' = FALSE
  /\ scheduled' = FALSE
  /\ pc' = "pass" /\ todo' = InModel /\ moved' = {}
  /\ UNCHANGED <<system, disk, phase, cur, restarted, want, known, marks, frames, shifted>>

\* hide of a window that is parked, or that cannot be read and has no frame yet.
PassSkips ==
  \E w \in todo :
    /\ pc = "pass" /\ want[w] = Hidden
    /\ w \in parked \/ (~Exists(w) /\ lastShown[w] = None)
    /\ todo' = todo \ {w}
    /\ UNCHANGED <<system, disk, phase, pc, cur, moved, restarted, want, known, marks, frames,
                   wakeups>>

\* Mutant of hideSaves: the frame is written with the next save.
hideSavesLater(h) == store

\* The store hide leaves behind before the window moves.
hideSaves(h) == saved(h, restore)

\* hide: "its last on-screen frame is recorded and saved before it moves".
PassHides ==
  \E w \in todo :
    /\ pc = "pass" /\ want[w] = Hidden
    /\ w \notin parked /\ (Exists(w) \/ lastShown[w] # None)
    /\ hidden' = [hidden EXCEPT ![w] = IF lastShown[w] # None THEN lastShown[w] ELSE at[w]]
    /\ parked' = parked \cup {w}
    /\ store' = hideSaves(hidden')
    /\ pc' = "park" /\ cur' = w /\ todo' = todo \ {w}
    /\ UNCHANGED <<system, handoff, phase, moved, restarted, want, known, restore, lastShown,
                   frames, wakeups>>

\* frames.forget
forget(w) ==
  /\ applied' = [applied EXCEPT ![w] = None]
  /\ stale' = stale \ {w}
  /\ retries' = [retries EXCEPT ![w] = 0]

\* hide after the save: park.
HideParks ==
  /\ pc = "park"
  /\ \E taken \in Taken("park") : at' = Placed(cur, Corner, taken)
  /\ forget(cur)
  /\ pc' = "pass" /\ cur' = None
  /\ UNCHANGED <<os, disk, phase, todo, moved, restarted, want, known, marks, wakeups>>

changed(w) == applied[w] # want[w] \/ w \in stale

\* Mutant of budgetAfter: a frame that is sent again has its budget back.
budgetRenewed(w) == 0

\* "A different placement resets the retry budget."
budgetAfter(w) == IF applied[w] # want[w] THEN 0 ELSE retries[w]

\* Mutant of unparked: a window that is shown stays marked as parked.
unparkedNever(w) == parked

\* A window that is shown has to be parked to be hidden again.
unparked(w) == parked \ {w}

\* apply shows a window: its frame is sent if it has changed or did not take.
PassShows ==
  \E w \in todo :
    /\ pc = "pass" /\ want[w] \in Frame
    /\ todo' = todo \ {w}
    /\ parked' = unparked(w)
    /\ lastShown' = [lastShown EXCEPT ![w] = want[w]]
    /\ IF changed(w)
       THEN /\ applied' = [applied EXCEPT ![w] = want[w]]
            /\ stale' = stale \ {w}
            /\ retries' = [retries EXCEPT ![w] = budgetAfter(w)]
            /\ moved' = moved \cup {w}
            /\ \E taken \in Taken("show") : at' = Placed(w, want[w], taken)
       ELSE UNCHANGED <<frames, moved, at>>
    /\ UNCHANGED <<os, disk, phase, pc, cur, restarted, want, known, hidden, restore, wakeups>>

\* Mutant of backOnScreen: a frame that was sent is taken for granted.
backOnScreenSurely(w) == TRUE

\* The window really left its corner: "only then may its saved frame be
\* forgotten".
backOnScreen(w) == Exists(w) /\ at[w] # Corner

\* checkFrames, which reads back the windows just moved, and the end of apply.
CheckFrames ==
  LET confirmed == {w \in moved : hidden[w] # None /\ w \notin parked /\ backOnScreen(w)}
      matched   == {w \in moved : Exists(w) /\ at[w] = want[w]}
      again     == {w \in moved \ matched : retries[w] < MaxRetries}
  IN /\ pc = "pass" /\ todo = {}
     /\ hidden' = [w \in WindowID |-> IF w \in confirmed THEN None ELSE hidden[w]]
     /\ store' = IF confirmed # {} THEN saved(hidden', restore) ELSE store
     /\ stale' = stale \cup again
     /\ retries' = [w \in WindowID |-> IF w \in matched THEN 0
                                       ELSE IF w \in again THEN retries[w] + 1
                                       ELSE retries[w]]
     /\ timer' = (timer \/ again # {})
     /\ pc' = "idle" /\ moved' = {}
     /\ UNCHANGED <<system, handoff, phase, cur, todo, restarted, want, known, parked, restore,
                    lastShown, applied, scheduled, shifted>>

-----------------------------------------------------------------------------
(* Quitting and restarting.                                                *)

\* Quit, Shutdown: unhideAll follows; before start() it does nothing.
Quit ==
  \/ /\ Idle
     /\ pc' = "unhide" /\ todo' = {w \in WindowID : hidden[w] # None}
     /\ UNCHANGED <<system, disk, phase, cur, moved, restarted, want, known, marks, frames, wakeups>>
  \/ phase = "waiting" /\ pc = "idle" /\ Ends /\ UNCHANGED <<system, disk>>

\* guard: a panic in a handler, wherever it is, puts the windows back too.
Panic ==
  /\ phase \in {"starting", "up"} /\ pc \notin {"idle", "unhide", "exec"}
  /\ pc' = "unhide" /\ todo' = {w \in WindowID : hidden[w] # None}
  /\ UNCHANGED <<system, disk, phase, cur, moved, restarted, want, known, marks, frames, wakeups>>

UnhidesOne ==
  \E w \in todo :
    /\ pc = "unhide"
    /\ todo' = todo \ {w}
    /\ \E taken \in Taken("putback") : at' = Placed(w, hidden[w], taken)
    /\ UNCHANGED <<os, disk, phase, pc, cur, moved, restarted, want, known, marks, frames, wakeups>>

UnhideEnds ==
  /\ pc = "unhide" /\ todo = {}
  /\ store' = saved(NoFrames, restore)
  /\ Ends
  /\ UNCHANGED <<system, handoff>>

\* Mutant of handedOver: the successor has to find out what is parked.
handedOverUnparked == [want |-> want, hidden |-> hidden, parked |-> {}, lastShown |-> lastShown]

handedOver == [want |-> want, hidden |-> hidden, parked |-> parked, lastShown |-> lastShown]

\* restart, up to the exec: windows stay parked.  Before start() the store is
\* not written.
Restart ==
  /\ phase \in {"waiting", "up"} /\ pc = "idle"
  /\ ~shifted  \* bound: see ScreensChange
  /\ handoff' = handedOver
  /\ store' = IF phase = "up" THEN saved(hidden, restore) ELSE store
  /\ pc' = "exec"
  /\ UNCHANGED <<system, phase, cur, todo, moved, restarted, want, known, marks, frames, wakeups>>

ExecSucceeds == pc = "exec" /\ Ends /\ UNCHANGED <<system, disk>>

ExecFails ==
  /\ pc = "exec"
  /\ handoff' = None
  /\ pc' = "idle"
  /\ UNCHANGED <<system, store, phase, cur, todo, moved, restarted, want, known, marks, frames,
                 wakeups>>

-----------------------------------------------------------------------------

\* What windows, users and the kernel do.
Environment ==
  \/ WindowOpens
  \/ WindowMinimizes
  \/ WindowReturns
  \/ WindowCloses
  \/ ScreensChange
  \/ Launch
  \/ Start
  \/ ModelChanges
  \/ Quit
  \/ Panic
  \/ Crash
  \/ Restart

\* What the main thread does next of its own accord.
MainThread ==
  \/ WindowFound
  \/ PutBackForgets
  \/ StartEnds
  \/ ReportsAdded
  \/ ReportsGone
  \/ ReportsHiddenGone
  \/ DropForgets
  \/ ReportsScreens
  \/ PassBegins
  \/ PassSkips
  \/ PassHides
  \/ HideParks
  \/ PassShows
  \/ CheckFrames
  \/ UnhidesOne
  \/ UnhideEnds
  \/ ExecSucceeds
  \/ ExecFails

Next == Environment \/ MainThread

Spec == Init /\ [][Next]_vars /\ WF_vars(MainThread)

-----------------------------------------------------------------------------
(* Properties.                                                             *)

MapOfFrames == [WindowID -> OnScreen \cup {None}]

\* Every variable has its type; in particular no map of frames, in memory or on
\* disk, ever records the corner as the place a window is to go back to, also
\* when it is hidden again before it has left the corner.
TypeOK ==
  /\ os \in [WindowID -> {"new", "open", "minimized", "closed"}]
  /\ at \in [WindowID -> OnScreen \cup {Corner, None}]
  /\ store \in MapOfFrames
  /\ handoff \in {None} \cup [want : [WindowID -> Frame \cup {Hidden, Out}], hidden : MapOfFrames,
                              parked : SUBSET WindowID, lastShown : MapOfFrames]
  /\ phase \in {"down", "waiting", "starting", "up"}
  /\ pc \in {"idle", "tracking", "putback", "drop", "pass", "park", "unhide", "exec"}
  /\ cur \in WindowID \cup {None}
  /\ todo \in SUBSET WindowID /\ moved \in SUBSET WindowID
  /\ restarted \in BOOLEAN
  /\ want \in [WindowID -> Frame \cup {Hidden, Out}]
  /\ known \in SUBSET WindowID
  /\ hidden \in MapOfFrames /\ restore \in MapOfFrames /\ lastShown \in MapOfFrames
  /\ parked \in SUBSET WindowID
  /\ applied \in MapOfFrames /\ stale \in SUBSET WindowID
  /\ retries \in [WindowID -> 0..MaxRetries]
  /\ scheduled \in BOOLEAN /\ timer \in BOOLEAN /\ shifted \in BOOLEAN

\* No window is moved into the corner before the store says where it was, so
\* that a crash at any moment can be made good.
SavedBeforeMoved ==
  [][\A w \in WindowID : at[w] # Corner /\ at'[w] = Corner => store[w] # None]_vars

\* A window of wimy's that is in the corner is in the store, whatever handler is
\* under way, after any number of crashes, restarts, refused frames and saves
\* on behalf of other windows: "a show that fails must not drop it from the
\* store while it still sits in the corner".
CornerIsStored ==
  \A w \in known : Exists(w) /\ at[w] = Corner => store[w] \in OnScreen

\* A wimy that starts without a handoff leaves no window in the corner it was
\* left in, and takes it back to where the store had it.
StartPutsBack ==
  [][/\ phase = "starting" /\ phase' = "up" /\ ~restarted
        => \A w \in known : os[w] = "open" => at[w] # Corner
     /\ phase = "starting" /\ pc = "tracking"
        => \A w \in WindowID : at[w] = Corner /\ at'[w] \in OnScreen
             => at'[w] = IF store[w] \in OnScreen THEN store[w] ELSE Centre]_vars

\* Nothing is left to do: every window that came or went has been reported, and
\* no pass is due.
Quiet ==
  /\ Idle
  /\ ~scheduled /\ ~timer /\ ~shifted
  /\ \A w \in WindowID : w \in known <=> os[w] = "open"

\* Once wimy has come to rest, a window of a view that is not shown is in the
\* corner, across changing screens and restarts that hand the marks over, and
\* one that is shown is not, unless its app has refused its frame as often as
\* it is sent.
AtRestInPlace ==
  Quiet => \A w \in known :
             /\ want[w] = Hidden => at[w] = Corner
             /\ want[w] \in Frame /\ at[w] # want[w] => retries[w] = MaxRetries

\* An app that never takes its frame does not keep wimy busy: if windows and
\* users leave it alone, the passes come to an end.
PassesSettle ==
  \/ []<><<Environment>>_vars
  \/ <>[](Quiet \/ phase \in {"down", "waiting"})
=============================================================================
