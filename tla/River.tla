-------------------------------- MODULE River --------------------------------
(***************************************************************************)
(* wimy as river's window manager (internal/river, backend/pointer.go).    *)
(* river tells it what happens in events, and then starts a manage         *)
(* sequence, in which wimy takes the events over into its model, runs the  *)
(* queued commands and says which windows get what; a render sequence      *)
(* follows, in which wimy says how they are shown.  Both are one handler   *)
(* each, and so is every event.                                            *)
(*                                                                         *)
(* wimy remembers what it has told river of a window and only says what    *)
(* changes.  screen is what river makes of it, as its protocol says        *)
(* (protocol/river-window-management-v1.xml), win what wimy believes.      *)
(*                                                                         *)
(* The model of the windows and its layout (Wm, WmLayout) are abstracted   *)
(* to what this code reads of them: state; whether a window floats and     *)
(* which columns there are is left open.  There is one seat, and it stays; *)
(* outputs are left out.                                                   *)
(***************************************************************************)
EXTENDS Naturals, FiniteSets

CONSTANTS
  WindowID,   \* bound: the windows that ever appear
  None,       \* no window
  MaxEvents,  \* bound: the events between two manage sequences
  MaxMotion   \* bound: how far the pointer gets in an operation

ASSUME RiverAssumption ==
  /\ IsFiniteSet(WindowID)
  /\ None \notin WindowID
  /\ MaxEvents \in Nat /\ MaxMotion \in Nat

VARIABLES
  running,  \* wimy has not panicked
  turn,     \* "events": a manage sequence is due; "render": a render sequence is; or "rest"
  batch,    \* how many events came since the last manage sequence
  state,    \* the model of the windows
  bars,     \* the config has titlebars
  queued,   \* commands are queued
  born,     \* the windows that have appeared
  win,      \* b.windows
  screen,   \* what river has of each window
  seat,     \* the Seat
  motion,   \* river: the pointer's motion since the operation started
  travelled,  \* the pointer has moved since the last manage sequence
  layer     \* a layer shell surface has the keyboard: layerFocus

vars == <<running, turn, batch, state, bars, queued, born, win, screen, seat, motion,
          travelled, layer>>

-----------------------------------------------------------------------------
(* The model, as far as it is read here.                                   *)

\* How the layout places a window: not at all, for it is none; out of sight; as a
\* strip of a stack; whole; or whole and alone, the model's own fullscreen, which
\* has no titlebar.
Place == {"out", "hidden", "strip", "full", "alone"}

\* The models with these windows: where the layout has each window, and the focus,
\* which is on a window one can see, or on an output without one.
Models == [windows \in SUBSET WindowID |->
  {m \in [place : [WindowID -> Place], focused : WindowID \cup {None}] :
     LET full == {w \in windows : m.place[w] \in {"full", "alone"}}
     IN /\ \A w \in WindowID : m.place[w] = "out" <=> w \notin windows
        /\ m.focused \in full \cup {None}}]

Windows(m) == {w \in WindowID : m.place[w] # "out"}

\* What FocusWindow may make of model m.
FocusWindow(m, w) ==
  IF w \in Windows(m)
  THEN {n \in Models[Windows(m)] : n.focused = w}
  ELSE {m}

Hoverable(m, w) == m.place[w] \in {"full", "alone"}

-----------------------------------------------------------------------------
(* Objects.                                                                *)

NoOp == [kind |-> "none", at |-> 0]

NewWindow ==
  [object |-> TRUE, New |-> TRUE, Closed |-> FALSE,
   Shown |-> FALSE, Clipped |-> FALSE, ContentClipped |-> FALSE,
   FocusSent |-> FALSE, BarSent |-> FALSE, BorderSet |-> FALSE,
   Deco |-> FALSE, DecoDrawn |-> FALSE, DecoFocused |-> FALSE,
   Fullscreen |-> FALSE, FullscreenReq |-> FALSE, UnfullscreenReq |-> FALSE]

NoObject == [NewWindow EXCEPT !.object = FALSE, !.New = FALSE]

\* river, of a new window: "considered shown unless explicitly hidden", but not
\* displayed before it was given dimensions, proposed ones or those of an output
\* it is made fullscreen on (fullscreened).  placed: wimy has shown it.
Fresh == [displayed |-> FALSE, fullscreened |-> FALSE, hidden |-> FALSE, placed |-> FALSE,
          clip |-> FALSE, contentClip |-> FALSE,
          border |-> "none", focused |-> FALSE, top |-> FALSE, bar |-> "none"]

Init ==
  /\ running = TRUE /\ turn = "rest" /\ batch = 0
  /\ state \in Models[{}]
  /\ bars = TRUE /\ queued = FALSE
  /\ born = {} /\ win = [w \in WindowID |-> NoObject]
  /\ screen = [w \in WindowID |-> Fresh]
  /\ seat = [X |-> 0, LastX |-> 0, FocusHovered |-> None, Interacted |-> None,
             Op |-> NoOp, OpDx |-> 0, OpReleased |-> FALSE]
  /\ motion = 0 /\ travelled = FALSE /\ layer = FALSE

-----------------------------------------------------------------------------
(* Events: river sends what has changed, then manage_start.                *)

Event ==
  /\ running
  /\ turn \in {"rest", "events"} /\ batch < MaxEvents
  /\ turn' = "events" /\ batch' = batch + 1
  /\ UNCHANGED <<running, bars>>

\* The windows river may send an event for.
Live == {w \in WindowID : win[w].object /\ ~win[w].Closed}

\* HandleRiverWindowManagerV1Window
WindowAppears ==
  \E w \in WindowID \ born :
    /\ Event
    /\ born' = born \cup {w}
    /\ win' = [win EXCEPT ![w] = NewWindow]
    /\ UNCHANGED <<state, queued, screen, seat, motion, travelled, layer>>

\* HandleRiverWindowV1Closed
WindowClosed ==
  \E w \in Live :
    /\ Event
    /\ win' = [win EXCEPT ![w].Closed = TRUE]
    /\ UNCHANGED <<state, queued, born, screen, seat, motion, travelled, layer>>

\* HandleRiverWindowV1FullscreenRequested, ...ExitFullscreenRequested
FullscreenRequested ==
  \E w \in Live :
    /\ Event
    /\ \/ win' = [win EXCEPT ![w].FullscreenReq = TRUE]
       \/ win' = [win EXCEPT ![w].UnfullscreenReq = TRUE]
    /\ UNCHANGED <<state, queued, born, screen, seat, motion, travelled, layer>>

\* HandleRiverSeatV1PointerPosition
PointerMoves ==
  /\ Event
  /\ seat' = [seat EXCEPT !.X = 1 - seat.X]
  /\ travelled' = TRUE
  /\ UNCHANGED <<state, queued, born, win, screen, motion, layer>>

\* HandleRiverSeatV1PointerEnter, ...WindowInteraction
PointerEnters ==
  \E w \in Live :
    /\ Event
    /\ seat' = [seat EXCEPT !.FocusHovered = w]
    /\ UNCHANGED <<state, queued, born, win, screen, motion, travelled, layer>>

WindowInteraction ==
  \E w \in Live :
    /\ Event
    /\ seat' = [seat EXCEPT !.Interacted = w]
    /\ UNCHANGED <<state, queued, born, win, screen, motion, travelled, layer>>

\* HandleRiverLayerShellSeatV1FocusExclusive, ...NonExclusive, ...None
LayerFocusChanges ==
  /\ Event
  /\ layer' = ~layer
  /\ UNCHANGED <<state, queued, born, win, screen, seat, motion, travelled>>

\* A key binding, or Enqueue and Wake: commands wait for the manage sequence.
CommandQueued ==
  /\ Event
  /\ ~queued /\ queued' = TRUE
  /\ UNCHANGED <<state, born, win, screen, seat, motion, travelled, layer>>

\* The operations: a MoveOp or ResizeOp of a float, or a drag of a
\* column boundary.
MoveOp == {[NoOp EXCEPT !.kind = "float"]}

ResizeOp == MoveOp \cup {[NoOp EXCEPT !.kind = "column"]}

Visible(m) == {w \in WindowID : m.place[w] \notin {"out", "hidden"}}

\* s.Op = op, and op_start_pointer: river counts the motion from here.
started(op) == seat' = [seat EXCEPT !.Op = op] /\ motion' = 0

\* pointerPress over the hovered window.
pointerPress ==
  \E op \in ResizeOp :
    /\ Event
    /\ Visible(state) # {}
    /\ seat.Op = NoOp
    /\ started(op)
    /\ UNCHANGED <<state, queued, born, win, screen, travelled, layer>>

\* clientMoveRequest: only a float moves, and is focused.
clientMoveRequest ==
  \E w \in Live \cap Visible(state), op \in MoveOp :
    /\ Event
    /\ seat.Op = NoOp
    /\ state' \in FocusWindow(state, w)
    /\ started(op)
    /\ UNCHANGED <<queued, born, win, screen, travelled, layer>>

\* clientResizeRequest: the window is focused whether a resize starts or not.
clientResizeRequest ==
  \E w \in Live \cap Windows(state) :
    /\ Event
    /\ seat.Op = NoOp
    /\ state' \in FocusWindow(state, w)
    /\ \/ \E op \in ResizeOp : started(op)
       \/ UNCHANGED <<seat, motion>>
    /\ UNCHANGED <<queued, born, win, screen, travelled, layer>>

\* HandleRiverSeatV1OpDelta: "total cumulative motion since op start".
OpDelta ==
  \E d \in 0..MaxMotion :
    /\ Event
    /\ seat.Op # NoOp
    /\ motion' = d
    /\ seat' = [seat EXCEPT !.OpDx = d]
    /\ UNCHANGED <<state, queued, born, win, screen, travelled, layer>>

\* HandleRiverSeatV1OpRelease
OpRelease ==
  /\ Event
  /\ seat.Op # NoOp /\ ~seat.OpReleased
  /\ seat' = [seat EXCEPT !.OpReleased = TRUE]
  /\ UNCHANGED <<state, queued, born, win, screen, motion, travelled, layer>>

-----------------------------------------------------------------------------
(* The manage sequence.                                                    *)

\* The models syncModel may make of the windows that came and went: both move
\* the focus.
windowsSynced ==
  IF \E w \in WindowID : win[w].New \/ win[w].Closed THEN Models[Live] ELSE {state}

\* Sloppy focus: "only when the pointer actually moved".
followsPointer(m) ==
  /\ seat.FocusHovered # None
  /\ seat.X # seat.LastX
  /\ seat.Op = NoOp
  /\ seat.FocusHovered # m.focused
  /\ Hoverable(m, seat.FocusHovered)

\* The seat's part of syncModel.
focusSynced(m) ==
  UNION {FocusWindow(n, seat.Interacted) :
           n \in IF followsPointer(m) THEN FocusWindow(m, seat.FocusHovered) ELSE {m}}

\* DrainQueue: the commands may do anything to the model, but for its windows.
drained(m) == IF queued THEN Models[Windows(m)] ELSE {m}

\* Mutant of lastSynced: the position is remembered with the enter it was read for.
lastSyncedEntered == IF seat.FocusHovered # None THEN seat.X ELSE seat.LastX

\* The position the next manage sequence takes for the previous one's.
lastSynced == seat.X

\* Mutant of endOp: the release is left for the next operation.
endOpUnreleased == [seat EXCEPT !.Op = NoOp]

\* endOp and op_end.
endOp == [seat EXCEPT !.Op = NoOp, !.OpReleased = FALSE]

\* The operation of applyManage.
appliedOp ==
  IF seat.Op = NoOp THEN seat
  ELSE IF seat.OpReleased THEN endOp
  ELSE [seat EXCEPT !.Op.at = seat.OpDx]

\* ColumnResizeOp.Apply indexes out of range when the view has fewer columns than
\* at its start: a window has left or a command has run since.
MayPanic == seat.Op.kind = "column" /\ ~seat.OpReleased

\* ApplyConfigChange: what a reload among the commands makes of the windows.
BorderChange(objects) == [w \in WindowID |-> [objects[w] EXCEPT !.BorderSet = FALSE]]

TitlebarChange(objects, on) ==
  [w \in WindowID |->
     IF on THEN [objects[w] EXCEPT !.DecoDrawn = FALSE]
     ELSE [objects[w] EXCEPT !.Deco = FALSE, !.DecoDrawn = FALSE, !.DecoFocused = FALSE]]

\* What river shows of a titlebar whose decoration is destroyed, or that is of
\* an older config.
Outdated(shown, on) ==
  [w \in WindowID |->
     [shown[w] EXCEPT !.bar = IF on /\ shown[w].bar # "none" THEN "old" ELSE "none"]]

\* The borders are of an older config.  (So is the top border in the picture of a
\* titlebar, which is not drawn again; RenderedAsPlaced does not look at it.)
Borderless(shown) ==
  [w \in WindowID |->
     [shown[w] EXCEPT !.border = IF shown[w].border = "none" THEN "none" ELSE "old"]]

\* The windows syncModel keeps.
kept == [w \in WindowID |->
           IF win[w].Closed THEN NoObject ELSE [win[w] EXCEPT !.New = FALSE]]

\* The fullscreen requests of applyManage: to enter first, then to leave.
fullscreenApplied(o) ==
  [o EXCEPT !.Fullscreen = (o.Fullscreen \/ o.FullscreenReq) /\ ~o.UnfullscreenReq,
            !.FullscreenReq = FALSE, !.UnfullscreenReq = FALSE]

\* HandleRiverWindowManagerV1ManageStart
ManageStart ==
  /\ running /\ turn = "events"
  /\ \E m \in windowsSynced : \E n \in focusSynced(m) : state' \in drained(n)
  /\ \E change \in IF queued THEN {"none", "border", "titlebar"} ELSE {"none"} :
       \E on \in IF change = "titlebar" THEN BOOLEAN ELSE {bars} :
         LET objects == CASE change = "border" -> BorderChange(kept)
                          [] change = "titlebar" -> TitlebarChange(kept, on)
                          [] OTHER -> kept
             shown == CASE change = "border" -> Borderless(screen)
                        [] change = "titlebar" -> Outdated(screen, on)
                        [] OTHER -> screen
         IN /\ bars' = on
            /\ win' = [w \in WindowID |-> fullscreenApplied(objects[w])]
            /\ screen' = [w \in WindowID |->
                 IF ~objects[w].object THEN Fresh
                 ELSE [shown[w] EXCEPT
                         !.displayed = shown[w].displayed \/ w \in Visible(state')
                                       \/ objects[w].FullscreenReq,
                         !.fullscreened = shown[w].fullscreened \/ objects[w].FullscreenReq]]
  /\ seat' = [appliedOp EXCEPT !.LastX = lastSynced, !.FocusHovered = None, !.Interacted = None]
  /\ queued' = FALSE /\ travelled' = FALSE
  /\ turn' = "render" /\ batch' = 0
  /\ UNCHANGED <<running, born, motion, layer>>

\* The same, when a column has vanished during its drag.
ManagePanics ==
  /\ running /\ turn = "events"
  /\ MayPanic
  /\ queued \/ \E w \in WindowID : win[w].Closed
  /\ running' = FALSE
  /\ UNCHANGED <<turn, batch, state, bars, queued, born, win, screen, seat, motion, travelled,
                 layer>>

-----------------------------------------------------------------------------
(* The render sequence.                                                    *)

\* Placement.Bar
hasBar(w) == bars /\ state.place[w] # "alone"

\* The border of a window: under a titlebar it has no top edge.
bordered(w) == [focused |-> state.focused = w /\ ~layer, top |-> ~hasBar(w)]

\* Mutant of borderSent: the edges are not looked at.
borderSentColour(o, b) == o.BorderSet /\ o.FocusSent = b.focused

\* setBorder skips a window whose border is as it was sent last.
borderSent(o, b) == o.BorderSet /\ o.FocusSent = b.focused /\ o.BarSent # b.top

\* renderTitlebar skips a titlebar that shows what it was drawn with last.
barDrawn(o, w) == o.DecoDrawn /\ o.DecoFocused = (state.focused = w)

\* What wimy remembers of a window it shows.
shownWindow(w) ==
  LET o == win[w]
      b == bordered(w)
      strip == state.place[w] = "strip"
  IN [o EXCEPT !.Shown = TRUE,
        !.ContentClipped = IF strip THEN o.ContentClipped \/ bars ELSE FALSE,
        !.Clipped = IF strip THEN o.Clipped \/ ~bars ELSE FALSE,
        !.BorderSet = TRUE, !.FocusSent = b.focused, !.BarSent = ~b.top,
        !.Deco = o.Deco \/ hasBar(w),
        !.DecoDrawn = o.DecoDrawn \/ hasBar(w),
        !.DecoFocused = IF hasBar(w) THEN state.focused = w ELSE o.DecoFocused]

\* What river makes of the requests: only what has changed is requested.
shownScreen(w) ==
  LET o == win[w]
      b == bordered(w)
      strip == state.place[w] = "strip"
      lifted == ~strip /\ o.Clipped
      contentLifted == ~strip /\ o.ContentClipped
      r == screen[w]
      drawn == IF state.focused = w THEN "focused" ELSE "normal"
  IN [r EXCEPT !.hidden = r.hidden /\ o.Shown, !.placed = TRUE,
        !.contentClip = IF strip /\ bars THEN TRUE ELSE r.contentClip /\ ~contentLifted,
        !.clip = IF strip /\ ~bars THEN TRUE ELSE r.clip /\ ~lifted,
        !.border = IF borderSent(o, b) THEN r.border ELSE "set",
        !.focused = IF borderSent(o, b) THEN r.focused ELSE b.focused,
        !.top = IF borderSent(o, b) THEN r.top ELSE b.top,
        !.bar = IF hasBar(w) /\ ~barDrawn(o, w) THEN drawn ELSE r.bar]

\* applyRender, for one window.
renderedWindow(w) ==
  CASE state.place[w] = "out" -> win[w]
    [] state.place[w] = "hidden" -> [win[w] EXCEPT !.Shown = FALSE]
    [] w \in Visible(state) /\ win[w].Fullscreen -> [win[w] EXCEPT !.Shown = TRUE]
    [] OTHER -> shownWindow(w)

renderedScreen(w) ==
  CASE state.place[w] = "out" -> screen[w]
    [] state.place[w] = "hidden" -> [screen[w] EXCEPT !.hidden = @ \/ win[w].Shown]
    [] w \in Visible(state) /\ win[w].Fullscreen ->
         [screen[w] EXCEPT !.hidden = @ /\ win[w].Shown, !.placed = TRUE]
    [] OTHER -> shownScreen(w)

\* HandleRiverWindowManagerV1RenderStart, after a manage sequence or of its own
\* when a window has changed its dimensions.
RenderStart ==
  /\ running
  /\ turn \in {"render", "rest"}
  /\ win' = [w \in WindowID |-> renderedWindow(w)]
  /\ screen' = [w \in WindowID |-> renderedScreen(w)]
  /\ turn' = "rest"
  /\ UNCHANGED <<running, batch, state, bars, queued, born, seat, motion, travelled, layer>>

-----------------------------------------------------------------------------

Next ==
  \/ WindowAppears
  \/ WindowClosed
  \/ FullscreenRequested
  \/ PointerMoves
  \/ PointerEnters
  \/ WindowInteraction
  \/ LayerFocusChanges
  \/ CommandQueued
  \/ pointerPress
  \/ clientMoveRequest
  \/ clientResizeRequest
  \/ OpDelta
  \/ OpRelease
  \/ ManageStart
  \/ ManagePanics
  \/ RenderStart

Spec == Init /\ [][Next]_vars

-----------------------------------------------------------------------------
(* Properties.                                                             *)

\* Every variable has its type; in particular an operation is only marked as
\* released while it is under way.
TypeOK ==
  /\ running \in BOOLEAN
  /\ turn \in {"rest", "events", "render"}
  /\ batch \in 0..MaxEvents
  /\ state \in Models[Windows(state)]
  /\ bars \in BOOLEAN /\ queued \in BOOLEAN /\ travelled \in BOOLEAN /\ layer \in BOOLEAN
  /\ born \subseteq WindowID
  /\ \A w \in WindowID :
       /\ DOMAIN win[w] = DOMAIN NewWindow
       /\ \A f \in DOMAIN NewWindow : win[w][f] \in BOOLEAN
       /\ win[w].object => w \in born
       /\ w \in Windows(state) => win[w].object
       /\ DOMAIN screen[w] = DOMAIN Fresh
       /\ screen[w].border \in {"none", "set", "old"}
       /\ screen[w].bar \in {"none", "focused", "normal", "old"}
  /\ seat.FocusHovered \in WindowID \cup {None} /\ seat.Interacted \in WindowID \cup {None}
  /\ seat.OpDx \in 0..MaxMotion /\ motion \in 0..MaxMotion
  /\ seat.OpReleased => seat.Op # NoOp

\* A client made the window fullscreen, and so displayed, before wimy has ever
\* shown it: wimy takes it for hidden (Shown is FALSE of a new window), and does
\* not hide it.
DisplayedUnshown(r) == r.fullscreened /\ ~r.placed

\* After a render sequence river shows the windows the layout shows, with the
\* border and the titlebar of their focus and of the config, and displays no
\* other window but those of DisplayedUnshown, although only changes are sent:
\* whatever was hidden, clipped, fullscreen or reloaded in between.
RenderedAsPlaced ==
  turn = "rest" => \A w \in Windows(state) :
    LET r == screen[w]
        p == state.place[w]
    IN /\ p = "hidden" /\ r.displayed => r.hidden \/ DisplayedUnshown(r)
       /\ p # "hidden" => r.displayed /\ ~r.hidden
       /\ p # "hidden" /\ ~win[w].Fullscreen =>
            /\ p # "strip" => ~r.clip /\ ~r.contentClip
            /\ p = "strip" => IF bars THEN r.contentClip ELSE r.clip
            /\ r.border = "set"
            /\ r.focused = (state.focused = w /\ ~layer)
            /\ r.top = ~hasBar(w)
            /\ ~bars => r.bar = "none"
            /\ hasBar(w) =>
                 r.bar = IF state.focused = w THEN "focused" ELSE "normal"

\* "Those must not steal focus": when no window came or went, no command ran and
\* nothing was clicked, a manage sequence moves the focus only if the pointer has
\* moved since the one before, and not during a drag.
RestingPointerKeepsFocus ==
  [][turn = "events" /\ turn' = "render"
     /\ ~queued /\ seat.Interacted = None
     /\ (\A w \in WindowID : ~win[w].New /\ ~win[w].Closed)
     /\ (~travelled \/ seat.Op # NoOp)
     => state'.focused = state.focused]_vars

-----------------------------------------------------------------------------
(* What a comment says and the code does not do.                           *)

\* "Apply receives the pointer delta accumulated since the op started": a window
\* or a column boundary that is dragged is as far from where it was as the
\* pointer is.
DragFollowsPointer ==
  turn # "events" /\ seat.Op # NoOp => seat.Op.at = motion
=============================================================================
