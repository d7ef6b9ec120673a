# A verification project for wimy

wimy is a tiling window manager in the manner of wmii: windows carry tags, a tag
that some window carries or some output shows has a view, a view has columns and a
floating layer, and every output shows one view.  One model of windows drives two
backends, river (a Wayland compositor) and macOS, and a JSON-RPC socket lets other
programs give commands and follow the state.

This directory holds TLA+ modules for the parts of wimy that are hard to test, the
TLC configurations that check them on small instances, and proofs TLAPS checks for
every instance.  Everything is written from the Go source; `PROJECT.json` maps each
definition to the lines it stands for.

## 1. The system

### Components

| Component | Source | State it keeps | Operations | What makes it correct |
| --- | --- | --- | --- | --- |
| Window-management model | `internal/wm/types.go`, `wm.go` | outputs, views (columns, floats, focus markers), windows and tags, the focused window | output and window events, some thirty commands | every window is where its tags say, once; outputs show distinct views; the cached focus is the one the markers give; every window can be reached |
| Layout solver | `internal/wm/layout.go` | none | `Layout`, `Hoverable` | tiles cover the output, do not overlap, strips have their height |
| Command registry | `internal/command` | none | parse and run one command | a bad argument changes nothing |
| Command queue | `internal/backend/core.go` | the queue | `Enqueue`, `QueueCommand`, `DrainQueue`, `DrainQueueIf` | commands run once, in order, and always some time |
| Control socket | `internal/rpc` | subscribers, a channel per client, the change token | accept, read, write, broadcast, drop | no change is kept from a subscriber, no client holds up another |
| Autostart | `internal/backend/autostart.go`, `config/diff.go` | tracked processes | start, reap, terminate, reconcile, hand over | the processes are those of the list; nothing runs untracked |
| Reload and handoff | `internal/backend/reload.go`, `handoff.go` | the configuration; a file | reload, write and read the handoff, prune | a restarted wimy goes on where the old one stopped |
| Pointer operations | `internal/backend/pointer.go`, `river/pointer.go` | the operation of a seat | press, delta, release | a drag ends where the pointer is |
| River backend | `internal/river` | proxies of outputs, windows, seats | manage and render sequences | model and proxies agree after each sequence |
| macOS backend | `internal/macos` | parked and hidden windows, the store, tabs, frames, focus echoes | Accessibility events, passes, restart | "no window is ever lost" |
| Titlebars | `internal/river/deco.go`, `internal/titlebar` | what was drawn last | draw, destroy | a titlebar shows the focus and the configuration there is |
| Configuration, `wimyctl`, packaging | the rest | | | not modelled |

### How they interact

One thread, the dispatch thread, owns the model: river's Wayland event loop or
AppKit's main queue.  Events (windows, outputs, pointer, titles) come to it as
callbacks and edit the model directly.  Commands are put in a queue under a mutex,
by key bindings on the dispatch thread, by the goroutine of a menu program, or by
the reader goroutine of a socket client, and run in the next *pass*: river's manage
sequence or macOS's `apply`.  `Wake` asks for a pass.  At the end of a pass the
backend calls `Notify`, which puts a token into a channel of capacity one; the
broadcasting goroutine takes it, asks the dispatch thread for a snapshot, and offers
it to the send channel of each subscriber (capacity 32, full means the frame is
dropped), from which a writer goroutine feeds the peer.

Beside them, autostart processes have one goroutine each to reap them and, when they
are being terminated, one to wait out the grace period.  On macOS a restart replaces
the process by `exec`; a handoff file carries the model and the pids over.

### What is hard

* Positions kept across edits: selections, the focused column and the focused float
  are indices, and every removal must adjust all of them.
* State kept twice: tags and views, markers and the cached focus, the shown view of
  an output and the existence of the view.
* Map iteration: Go visits maps in any order, and both which view comes into being
  first and which output a click activates depend on it.
* Threads: wake-ups, change tokens and snapshots cross between goroutines.
* Processes that die, fork, ignore signals or outlive a restart in place.
* Lost windows: a crash between parking a window and saving that it is parked, an app
  that does not take its frame, a restart that hands marks over.
* Records of what river was told: only what differs from the record is sent again.
* Events that come in one batch: an enter and a motion, a delta and a release.

`PROJECT.json` lists these one by one under `hazards`, each at its line.

## 2. Modules

| Module | What it is |
| --- | --- |
| `WmView` | columns, views and the edits of one view (`types.go`) |
| `WmState` | the `State` and every operation on it as an operator from state to state (`wm.go`) |
| `Wm` | the state machine: one action per event and command; its properties |
| `WmTags` | the abstract specification: tags, shown views, active output, focus |
| `WmRefinement` | the refinement mapping from `Wm` to `WmTags` |
| `WmLayout` | the layout solver: from a `State` and a geometry to placements (`layout.go`) |
| `WmPlacement` | the layouts of the states of `Wm` on a set of screens; their properties |
| `Parking` | the macOS backend's parked windows, their store, frames, crashes and restarts |
| `River` | river's events, manage and render sequences, pointer operations, reloads |
| `Control` | queue, passes, socket, subscribers |
| `Autostart` | the supervised processes, reloads and restarts |
| `Selection` | the loop that takes some elements of a slice and keeps the rest, as `DrainQueueIf` and the reaping of processes write it |
| `MCWm` | symmetry and screens for TLC |
| `MCParking`, `MCControl`, `MCAutostart` | the modules TLC runs of the others |
| `WmLemmas` | what each edit of a view and each operation on the state returns (well-typed views, clean states), and what the edits do to the windows of a view, to its markers and to the focus |
| `WmProofs` | the theorems about `Wm`: types, shown views, windows, markers, focus, and what steps leave as it was |
| `WmTheorems` | that `Wm` implements `WmTags`, what the layout of its states shows, and that cycling comes by every view |
| `ParkingProofs`, `ControlProofs`, `AutostartProofs`, `RiverProofs` | the theorems about these modules |
| `SelectionLemmas` | what `Selected` returns, for sequences of every length |

### The window-management model

`wm` is the `State` as one record: `Outputs` (a sequence of names and shown views),
`FocusOutput`, `Views` (a function of all names; a name without a view is mapped to
an untouched one), `viewIndex` (the place of each view in the slice, 0 for none),
`Tags` of the windows (`{}` for one that is not open) and `Focused`.
A column has its windows, its mode, selection; a view its columns, floats, the layer that has
the focus, the markers, and the fullscreen window.  Indices count from one here and from
zero in Go.

* Operations are operators, so that an action is one application of one of them and a
  lemma can speak of it: `wm' = MoveDir(wm, d)`.  Trailing `gcViews` and `refocus`
  calls are part of the operator.
* Where Go iterates over a map, the operator takes the order, or the choice, as a
  parameter and the action quantifies over it (`CreationOrders`, `ShownTags`,
  `ReadingOrders`).
* Tags are positive numbers (`1..N` in the runs), as `freeViewName` names views.  Where the
  code sorts names as strings, up to nine tags sort as numbers do; above that,
  `"10"` comes before `"2"`, and nothing checked depends on which comes first.
* Rectangles, titles, app ids, width factors are left out of the state: no operation
  modelled reads them to decide anything.  `WmLayout` takes them as a parameter.
* An output that appears with no view name left is not in the model (names are
  bounded), and neither is a window that would need one.

`WmTags` is what a user is promised: a window is in the views of its tags, each
output shows a tag of its own, selecting a view swaps and never takes, only the
focused window is retagged, and the focus is on the active output's view.  It knows
nothing of columns, layers and markers.

### The layout solver

`WmLayout` translates `Layout` as functions, from a state of `WmState` and a *screen*
(the tiling area of each output by its name, the width factors of columns, a floating
rectangle, the heights of titlebar and strip) to the placements, in order.  `WmPlacement` states what
holds of the layout of every state of `Wm` on any screen of a set `Screens`; the screens are
no part of the state, so the geometry may be any whenever `Layout` runs.  The
runs `wm_outputs` and `wm_columns` take screens whose sides divide by nothing, with and without
titlebars, with equal and with different widths, a column that gets no width at all, and outputs
without an area.  Width factors are integers; a factor of zero, which the code turns into
one, does not occur, and neither do the roundings of a `float64`.  An output without an area lays
out nothing.

`TilesFillTheArea` supposes that an output is high enough for a titlebar and a row of pixels of each
window of a column and that the screen has a factor for each of its columns, which carry their width themselves in the code
(`HasRoom`); below that height `insetBar` and `stripHeight` give every window a pixel that is not
there.  It supposes that the output renders the selection of each of its columns, too.  A window on two outputs' views is rendered by the first only, and a column in
max mode that selects it shows nothing on the second: so the code goes.

### Parking on macOS

macOS cannot hide one window, so wimy *parks* it in a corner of the screen.
`Parking` has the windows (`os`, `at`), the disk (`store`, `handoff`), and the main
thread, which runs one handler at a time.  A handler that talks to an app or to
the disk more than once is cut at each such place into steps; `pc`, `cur` and `todo`
say where it is, and `Crash` may come between any two.  So hiding a window is `PassHides`
(the frame is recorded and saved) and `HideParks` (it is moved); showing is
`PassShows` and, when the frames are read back, `CheckFrames`.

* A frame is one of a few places; `Corner` is any place `inHideCorner` accepts.
* What the layout wants is one function, `want`, which `ModelChanges` may change as
  commands, clicks and screens do.
* Apps refuse what `Refusals` lists, whenever they like.
* A handoff may be too old when it is read; the boot check is left out (windows do not
  survive a reboot either).
* Left out: tab groups, focus, decorations, frames that cannot be read, and apps that
  move parked windows themselves.  A crash during one write of the file is the crash before or
  after it: the file is written beside and renamed.

### River's sequences

`River` has events, each of which is a handler and puts a flag or a position into a
proxy; `ManageStart`, which takes all of them over, drains the commands and reloads;
and `RenderStart`.  `win` and `seat` are wimy's record, `screen` is what river makes of the
requests, after the text of its protocol.  The windows' model is two functions: how the layout
places each window, and the focus; a command may change both in any way.

`RenderedAsPlaced` says of the moment after a render sequence: a window the layout shows is on the
screen as it is placed, and a window the layout hides is hidden if river displays it at all.  It has one
exception, `DisplayedUnshown`: a window that a client makes fullscreen before wimy has ever shown it.
River displays it from then on, and wimy, whose record of a new window says that it is
not shown (`Shown`), never hides it (section 5).  The exception ends when wimy shows the window.

* There is one seat and it stays; outputs, positions, stacking and dimensions
  are left out, titles and widths too, so a titlebar is drawn again only for the
  focus and for a reload.
* An operation is its kind and the distance it has been dragged (`at`).  River's own
  motion since the operation started is `motion`.
* A column drag whose columns have vanished indexes out of range: `ManagePanics`.

### The control plane

`Control` has the dispatch thread (`MarkDirty`, `Apply`, `RunCommand`, `EndPass`,
`Event`, `KeyPressed`), the menu goroutines (`MenuCloses`, `MenuWakes`), the
broadcaster (`TakeChange`, `ReadChange`, `Broadcast`), and the reader, writer and
peer of each client.  A pass is several steps, so commands are queued while it runs.
Everything under one lock, or on the dispatch thread between two passes, is a step.
The backends differ in `Wake`: macOS queues a job and goes on, river waits for its
turn on the dispatch thread; `platform` is chosen in `Init` and both are checked.

* The model of the windows is a version number; a command or an event may raise it.
* A quit or restart command (`Early`) is one that fails or has not taken effect yet:
  the end of the process is not in this module.
* Send channels are counted, not stored: what each frame says is recorded when it is
  put in, for channels keep the order.  `SendCap` is 32 in the code.
* An event raises the version at once, as on macOS; on river it waits for
  the next manage sequence, which is the same run with the event just before its pass.

### Autostart

`Autostart` tracks pids per command line.  The list in the configuration is a
multiset, as `DiffExecs` treats it.  A process is the leader of a group and may fork
one member.  `Sync` is one step: the dispatch thread runs it, and a process that
exits while it runs exits before or after it.  The restarts of macOS replace `procs` by what the handoff says of
them, and forget every goroutine.  A pid is never reused: the kernel keeps one
until its parent has waited for it, and wimy stays the parent through `exec`.

## 3. Runs

| Run | Bounds | Checks |
| --- | --- | --- |
| `wm_outputs` | 2 windows, 2 tags, 2 outputs, 7 screens | `TypeOK`, `WindowsMatchTags`, `OutputsShowDistinctViews`, `FocusFollowsMarkers`, `EachWindowPlacedOnce`, `FocusIsSeen`, `ViewsKeepTheirFocus`, `ImplementsTags` |
| `wm_columns` | 4 windows, 1 tag, 1 output, up to 4 columns, 5 screens | `PlacedOnce`, `MarkersInRange`, `EveryWindowCanBeFocused`, `FocusIsSeen`, `ColumnsShowTheirSelection`, `TilesFillTheArea`, `ClosingKeepsSelections`, `MovingGoesOneStep` |
| `wm_tags` | 1 window, 3 tags, 2 outputs | `CyclingReachesEveryView`, `LeftEmptyViewsDestroyed` |
| `wm_closing` | 3 windows, 1 tag | finds `ClosingKeepsFocus` violated |
| `parking_store` | 2 windows, 1 frame, 1 retry, apps that refuse to be shown | `TypeOK`, `CornerIsStored`, `AtRestInPlace`, `SavedBeforeMoved`, `StartPutsBack`, `PassesSettle` |
| `river_sequences` | 1 window, 3 events in a batch | `TypeOK`, `RenderedAsPlaced`, `RestingPointerKeepsFocus` |
| `river_drag` | 1 window, 2 events in a batch, 1 step of motion | finds `DragFollowsPointer` violated |
| `control_live` | 1 client, 2 commands, 2 versions, channels of 2 | `TypeOK`, `CommandsRunInOrder`, `NothingForgotten`, `EveryCommandRuns`, `SubscribersCatchUp`, `RequestsAreAnswered` |
| `control_subscribe` | 1 client, 1 command, 2 versions, channels of 3 | finds `SubscribersAreCurrent` violated |
| `autostart_reload` | 2 command lines, up to 2 each, 3 processes, 1 restart, failing starts | `TypeOK`, `TrackedWithinConfig`, `NoStrayProcess`, `ExitsAreNoticed`, `OnlyDroppedAreTerminated`, `ReloadBringsAllUp`, `TerminatedProcessesEnd` |
| `autostart_waiting` | 1 command line, 1 restart | finds `TrackedMatchesConfig` violated |
| `autostart_group` | 1 command line, 2 processes | finds `TerminatedGroupsEnd` violated |

Every state of these instances is visited; the bounds are on the constants, not on
the depth.

**Why the bounds are enough.**  Two outputs are what a swap, an unplugging and a
window on two views need; a third tag lets a view be empty, hidden and between two
others in the slice.  Four windows fill two columns of two, so that a removal happens before,
at and after each marker.  Two commands, one of which is early, are the fewest for which a kept
command and a later one can be swapped; two versions, that of the subscription and
that of a change, are what a subscriber can miss; channels of one and two are full at once.
Two parked windows let a save on behalf of one endanger the other; one frame on screen
and the centre are what going back to the right or the wrong place differ by; one retry
is the difference between some and none.  What `River` keeps of a window depends on
this window only, and on whether it has the focus, which it also loses to no window at all, so
one window is enough; three events put a motion, an enter and a third into one batch,
and batches follow each other without bound.  Three processes
for two command lines let one die, one be dropped and one be new in a reload.
Two cases the bounds do not reach: with one frame a shown window is never placed elsewhere,
so `PassesSettle` says nothing of a budget of retries renewed by that; and with one client no
slow client delays another.

**Symmetry** is used where the properties permit: windows, output names, pids and
command lines are interchangeable.  Tags are not (they are ordered), and runs with
liveness use none.

**Deadlock** is checked for the model of the windows.  It is for
`Parking`, which never ends.  It is not for `Control` and
`Autostart`, where numbering commands and using up pids ends the model; their liveness
properties say that nothing gets stuck; nor for `River`, which stops at a panic.

**Fairness.**  The model of the windows has no liveness property and no fairness.
`Control` assumes that the dispatch thread, the broadcaster, readers that have a
request in hand and menu goroutines that have queued an answer go on: threads are
scheduled, and jobs for the dispatch thread are taken first come, first served.  It
assumes nothing of users, menus, peers and their writers.  With finitely many
commands passes end, so weak fairness is enough.  `Autostart` assumes that
goroutines run and the grace period passes; it does not assume that a process exits.
`Parking` assumes that the main thread goes on with its handler, with the reports that wait for it
and with the passes that are due (`WF_vars(MainThread)`): AppKit's main queue serves what is
in it, and every handler is finite.  It assumes nothing of users, apps, crashes and launches.
`River` has no liveness property: the sequences are river's to start.

### What the violations show

* `ClosingKeepsFocus`: when a window closes, `removeFromView` keeps the selection of
  a column on its window, but not the focused column or float: the focus of the
  view moves when something left of it, or before it, goes.
* `DragFollowsPointer`: after a drag that moved, a press of Mod and button that starts
  another applies the old distance at once, because the delta of a seat is not
  reset: the window jumps, and stays there if the button is released without a motion.
* `SubscribersAreCurrent`: `subscribe` registers the client, then reads the state,
  then sends it; a change broadcast in between arrives first, and the last thing
  the subscriber hears is the older state, until something else changes.
* `TrackedMatchesConfig`: restarted before its permission was granted, wimy never
  starts its autostart list.
* `TerminatedGroupsEnd`: SIGKILL follows SIGTERM only while the leader of the group
  lives; a forked command that ignores SIGTERM stays.

### Mutants

Beside a definition stands, for each property of a passing run, a mutated form of it
that a slip in the code would give (a lost guard, a reset too many, a wrong bound, a
blocking send).  `PROJECT.json` names the pairs; with the mutant in its place TLC
finds the property violated.

## 4. Proofs

Proved with TLAPS, for any values of the constants that satisfy the assumptions:

| Theorem | Statement | Says |
| --- | --- | --- |
| `TypeCorrect` (`WmProofs`) | `Spec => []TypeOK` | every operation leaves a well-typed state; a name without a view keeps nothing of one |
| `OutputsAlwaysShowDistinctViews` (`WmProofs`) | `Spec => []OutputsShowDistinctViews` | every output shows a view that exists, no two show the same |
| `WindowsAlwaysMatchTags` (`WmProofs`) | `Spec => []WindowsMatchTags` | a view holds exactly the windows that carry its tag |
| `WindowsAlwaysPlacedOnce` (`WmProofs`) | `Spec => []PlacedOnce` | no window is twice on a view |
| `MarkersAlwaysInRange` (`WmProofs`) | `Spec => []MarkersInRange` | focused columns and floats and selections point at something |
| `FocusAlwaysFollowsMarkers` (`WmProofs`) | `Spec => []FocusFollowsMarkers` | the cached focus is what the active view's markers point at |
| `EveryWindowCanAlwaysBeFocused` (`WmProofs`) | `Spec => []EveryWindowCanBeFocused` | in every state `FocusWindow` would reach any window |
| `ViewsAlwaysKeepTheirFocus` (`WmProofs`) | `Spec => ViewsKeepTheirFocus` | no step changes the focus of a view that is not active and keeps its windows |
| `LeftEmptyViewsAlwaysDestroyed` (`WmProofs`) | `Spec => LeftEmptyViewsDestroyed` | an empty view does not outlive the step that leaves it |
| `ClosingAlwaysKeepsSelections` (`WmProofs`) | `Spec => ClosingKeepsSelections` | a window that closes leaves the selection of every column on the window it was on |
| `MovesAlwaysGoOneStep` (`WmProofs`) | `Spec => MovingGoesOneStep` | a move goes one step, and the other windows stay in order |
| `WmImplementsTags` (`WmTheorems`) | `Spec => ImplementsTags` | every event and command is a step of `WmTags`, or changes nothing of it |
| `CyclingAlwaysReachesEveryView` (`WmTheorems`) | `Spec => []CyclingReachesEveryView` | view-next and view-prev come by every view that has windows and is on no other output |
| `WindowsArePlacedOnce` (`WmTheorems`) | `Spec => []EachWindowPlacedOnce` | the layout places every managed window once, also one that is on the views of several outputs or of none |
| `FocusIsOnScreen` (`WmTheorems`) | `Spec => []FocusIsSeen` | the focused window is rendered, can be seen, and nothing else is drawn as focused |
| `SelectionsAreShown` (`WmTheorems`) | `Spec => []ColumnsShowTheirSelection` | a stacked or max column expands what it selects |
| `TilesAlwaysFillTheArea` (`WmTheorems`) | `Spec => []TilesFillTheArea` | the tiles of an output cover each pixel of its area once and none outside |
| `NoWindowIsLost` (`ParkingProofs`) | `Spec => SavedBeforeMoved` | no step moves a window into the corner unless the store has its frame |
| `ParkingTypes`, `CornerIsAlwaysStored`, `StartsPutBack` (`ParkingProofs`) | `"putback" \notin Refusals` gives `Spec => []TypeOK`, `[]CornerIsStored`, `StartPutsBack` | what is in the corner is in the store, and a start puts it back |
| `RestsInPlace` (`ParkingProofs`) | `Refusals \subseteq {"show"}` gives `Spec => []AtRestInPlace` | when nothing is under way every window is where the layout wants it |
| `ControlTypes`, `CommandsAlwaysRunInOrder`, `NothingIsForgotten` (`ControlProofs`) | `Spec => []TypeOK`, `[]CommandsRunInOrder`, `[]NothingForgotten` | commands run once and in order; no wake-up and no change token is lost |
| `AutostartTypes`, `AlwaysTrackedWithinConfig`, `NoProcessStrays`, `EveryExitIsNoticed` (`AutostartProofs`) | `Spec => []TypeOK`, `[]TrackedWithinConfig`, `[]NoStrayProcess`, `[]ExitsAreNoticed` | what runs is tracked, within the list, and what dies is noticed |
| `NoMoreAreTerminated`, `ReloadsBringAllUp` (`AutostartProofs`) | `Spec => OnlyDroppedAreTerminated`, `Spec => ReloadBringsAllUp` | what a reload stops and starts |
| `RiverTypes`, `AlwaysRenderedAsPlaced` (`RiverProofs`) | `Spec => []TypeOK`, `[]RenderedAsPlaced` | after a render sequence river shows what the layout shows as it places it, and hides what else it displays, except `DisplayedUnshown`; though only changes are sent |
| `RestingPointerAlwaysKeepsFocus` (`RiverProofs`) | `Spec => RestingPointerKeepsFocus` | a pointer that rests or drags does not move the focus |

**Assumptions.**  `ViewAssumption`, `StateAssumption` and `WmAssumption`: no window is
`NoWindow`, the tags are finitely many positive numbers, the bounds are natural numbers.
`ParkingAssumption`: the corner is no frame, and `None`, `Hidden` and `Out` are none either.
`ModesAssumption`, `ScreensAssumption` and `WindowsAssumption`, which the layout needs: a column
is in default, stack or max mode; a screen has a box for each output, positive width factors and no
negative heights; the ids of windows are finitely many, as numbers of 64 bits are.
Of `Control` and `Autostart`: the bounds are natural numbers, `SendCap` and `MaxVersion` not 0,
and the pids are finitely many, as they are for a kernel.  TLC evaluates all of them in the runs.
Two theorems of `Parking` have a hypothesis on `Refusals`, the requests apps may refuse.
It is not for the prover's sake: an app that lets its window be parked and does not let it be
put back makes the store forget a window that is in the corner, and one that does not let it be
parked leaves it on the screen (see "What the modelling showed besides").  Apps
that refuse either are rare; `NoWindowIsLost` has no such hypothesis.

**The argument for types (`Wm`).**  `TypeOK` is inductive as it is, because it says more than
that `wm` is in `State`: it also says that a name without a view keeps
nothing of one (`Clean`).  Without that, a view created again would come with old
columns.  `WmLemmas` shows that every edit of a view returns a view, and
every operation on a clean state a clean state; `WmProofs` has one step per action.

**The argument for outputs.**  An invariant of the shown views alone is not inductive
without the types; with them it is.  Most operations do not
change what outputs show: a lemma each says that they *keep* it (`...Keeps`: same outputs, same
shown views, and no shown view vanishes, for `gcViews` spares a view that is shown).
Four really change it: adding, removing and renaming an output, and selecting
a view, where the swap is argued output by output.

**The argument for windows, markers and focus.**  None of these four properties is inductive
alone: an operation finds the window it moves by the markers, so a marker out of range would
lose a window; a window placed twice would stay behind when it is removed; and a focus that
is not on the active view would be retagged there.  `WmInv` is all of them together with the shown views:
`Settled` says that the state is clean; that every view is `Sound` (each window placed
once, all markers in range) and holds exactly the windows that carry its tag
(`Arranged`); and that the active output and the focus are what `activeOutput` and the markers
give.  `WmLemmas` proves of each edit of one view what it does to the set of windows,
to soundness and to the focused window; swaps, splits, merges of columns and
`SpreadColumns`' division into stretches are each a lemma.  In `WmProofs` an operation
is put together of these: after its edits a state is `Tidy` (settled but for the
cached fields), and `refocus` settles it.  Where Go visits a map in any order, the lemma is for every order.

**The argument for the action properties of `Wm`.**  All four take `WmInv` in the old and in
the new state.  *Focus of other views:* the lemma about each operation also says which views it
may disturb: none (`Undisturbed`), or the active one only.  A view that comes or goes is
covered by its being empty.  *Empty views:* every operation that can leave a view ends in
`gcViews`, after which no view is both empty and hidden (`Swept`); the others leave no view.
*Selections:* only `RemoveWindow` takes exactly one window out of the model (`OnlyClosingCloses`),
and what `removeFromView` does to a column is followed through the clamping of markers after it
(`Withdrawn`, `SelectionsKept`).  *Moves:* removing a window from a sequence and swapping it with a
neighbour keep the order of the rest (`OrderWithout`, `KeepsOrder`); that no window is
twice on a view makes "the column of a window" a function; and a column that is left empty
shifts the ones after it by one, which the proof follows to both sides (`ColumnsLeft`).

**The argument for the refinement.**  The mapping reads the state of `WmTags` off the state of `Wm`: an output
is known by its name, a view by the windows in its columns and floats.  So no two outputs may
have one name (`Named`), which is inductive by itself; with `WmInv` it is `RefInv`.
What every step of `WmTags` must do, that views hold what carries their tag and that the focus
is on the active view, follows from `WmInv` in the new state alone
(`SettledConsistent`).  What is left is what the step does to tags, shown views and active
output.  The lemmas of `WmProofs` say of every operation which sequence of outputs, tags,
`FocusOutput` and, where `WmTags` speaks of it, focus it ends with; `AppendedShows`, `RemovedShows`,
`RenamedShows` and `SwappedShows` turn changes of that sequence into changes of what
named outputs show, and `...IsPromised` says which step of `WmTags` that is.  Many commands map
to a step of `WmTags` only in some states: focusing a window changes the active output, swaps views, or
moves the focus only.

**The argument for cycling.**  The property follows a chain of states, for view-next destroys
the empty view it leaves and the slice closes up.  The places of the views in the slice must be
`1..n` for that, each taken once; so `WmInv` has `Ranked` as well.  A step goes to the view at the next place
that is not on another output, and takes no view with windows and no view on another
output away.  The set of views between the current one and the one that is sought therefore gets
smaller with each step, in either direction, which bounds the number of steps by the number of
views.

**The argument for the layout.**  `shownUpTo` adds the outputs one by one and skips what earlier outputs
have placed.  Of one output it is shown that its placements have distinct ids, which are
those of its view that are not placed yet (columns filtered by `Selected`, floats without the
focused one and that on top, or the fullscreen window alone); that a function on
`0..n` which adds such pieces has every id once follows for all `n`.  *Focus:* the
focused window is what the markers of the active view give (`WmInv`), so it is the selection of
the focused column, the float on top or the fullscreen window, which are the placements that are
neither hidden nor strips.  *Selections:* a column that renders its selection expands it; its other
windows are strips or hidden.

**The argument for tiles.**  A length is cut at *edges*, which never go back; a point of the
length is then between two successive edges and no others (`OneBetween`).  Along
the width the edges are the sums of the shares: rounding down keeps the sum of the first
`n - 1` within the width, so the last column gets what is left, which may be nothing.
Along the height of a column they are those of equal parts, or of strips and one expanded window; `HasRoom`
is what leaves each part a row under its titlebar, without which the box would stick out.  A tile's `Extent`
is the box between its edges, since `insetBar` and the titlebar cancel out.  The two cuts
together give each pixel one tile.

**The argument for parked windows.**  Two actions put a window into the corner:
`HideParks`, after a save, and `ReportsScreens`, which parks again what is marked as
parked.  For both it must be known that the store still has the frame, although crashes,
restarts, failed restarts and saves for other windows came in between.  `StoreInv` says so
along a chain: a window that is marked, or about to be moved, has a frame in memory
(`MovedAreHidden`); every frame in memory, and every one that start() has read and not used yet,
is in the store (`HiddenAreStored`), and the same holds of the maps in a handoff, which
survive the process, while no process that could write the store has forgotten them.  The
remaining conjuncts are what the steps need: types, that a handler is at a window,
and that a window which exists is somewhere, so that there is a frame to record.

`PlacesInv` adds the other direction: a window in the corner has a frame in memory, or in
the handoff that a successor will read (`CornerHasFrame`), so no save drops it, and a start that
is under way goes by the store it found and has nothing left in the corner that no handoff says is
parked (`StartingPutsBack`).  `RestInv` adds what a pass does.  A window marked as parked is in the
corner unless the handler is just at it (`ParkedInCorner`); what is to be hidden is parked and what is
to be shown has been sent its frame, or a pass comes to it (`HiddenAreParked`,
`ShownAreSent`); a frame that was sent has taken, or was sent as often as it ever is, or is
noted to be sent again (`FramesAreTaken`), and then a pass is due (`StaleAreSent`).  With no
handler, pass or report left, these say that every window is in place.

**The argument for the control plane.**  `QueueInv` says that what has run, what the pass has taken
and what is queued, one after the other, keep the order commands were given in, less those taken
early, which `Selected` picks from any place: what it returns is a lemma of `SelectionLemmas`
about sequences of every length.  `NothingForgotten` is about wake-ups.  `PendingInv` says that while
wimy is up a queued command has a pass scheduled or somebody about to wake one, and
that a subscriber that lacks the newest state has the change token, a snapshot or a frame of its own
coming.  That takes `SocketInv` (no thread has seen a state newer than there is, and
no client got one) and `WakeInv`: every wake under way, by a menu, a job or a client, comes of a
command that was queued, so there are at most as many.

**The argument for processes.**  `AutostartInv` is the three invariants and the types together with
`PidsInv`: a pid never given to a process is nowhere, one known to be dead has exited, and nothing
has been started before wimy first comes up.  A reload pairs tracked processes with list entries;
how many it keeps, terminates and starts of one command line is counted with
cardinalities, which is what the finiteness of pids is for.

**The argument for river.**  `RenderedAsPlaced` speaks of the moment after a render sequence, which
sends only what wimy believes river does not have yet, so it rests on the beliefs: `Recorded` relates
wimy's record of a window to what river has of it, field by field.  A clip that river has is on record, a
border on record as sent is the one river shows, a titlebar on record as drawn shows
what was drawn, and a window once placed is hidden exactly when the record says so.  It holds after
every event and sequence, also when a reload among the commands makes borders and pictures
stale.  Of the clips it states the direction that is needed: a clip on record that
river does not have would cost a request and show nothing wrong.  `ObjectsAreBorn` adds that
nothing is recorded of a window without an object, since river starts over with a new one, and
`ShownAreDisplayed` that the manage sequence has given dimensions to all the layout shows.
`DisplayedAreShown` is the converse, for windows to hide: what river displays wimy has
shown, or a client has made fullscreen, or the manage sequence has just given it dimensions to be shown
with, which the render sequence that follows does.  So a displayed window the layout hides
either has been shown, and then its record says truly whether river has hidden it, or is one of
`DisplayedUnshown`.  Without that exception the statement is false, of the model as of the code.

**What is only model-checked.**  Liveness, since it needs fairness and `ENABLED`:
`EveryCommandRuns`, `SubscribersCatchUp`, `RequestsAreAnswered`, `PassesSettle`,
`TerminatedProcessesEnd`.  Every safety property a passing run checks is a theorem.  The functions
the layout and cycling recurse by (`shownUpTo`, `sums`, the chain of states) are functions on
numbers.  The provers cannot use the library's induction theorems, which take an operator; instead
a lemma about sets takes their place: a set of numbers with 0 in it, and with `m + 1` whenever `m` is in it, has all up to
its bound (`InductionUpTo`).  That these functions exist as they are defined is itself shown with it, from the
functions that are defined up to `m`.

## 5. Not modelled, and why

* macOS tab groups, focus echoes, screen names and decorations: tabs pair windows by their
  place in an app's list, echoes depend on half a second; both would be modules of
  their own, beside `Parking`.
* River's outputs, further seats and the objects of key bindings: protocol objects made
  and destroyed one for one.  The rectangles pointer operations compute.
* `SetAppID`, `SetTitle`, `Grow`, `ResizeColumnBoundary`, `SetFloatRect`,
  `SetOutputGeometry`: names nothing decides by, and arithmetic on numbers the properties take as
  given.
* Failures of the store on macOS.  A read or write of the file that fails is logged and wimy goes on
  (`saveHidden`, `macos/backend_darwin.go:835`): `hide` then parks the window all the same.  In
  `Parking` every save succeeds, so `SavedBeforeMoved` and `CornerIsStored` hold as long as the disk does.
* `onScreen` (`hide.go:82-98`): a stored frame whose screen is gone is centred on the primary
  one.  Frames in `Parking` are on a screen, and are given back as they are.
* Windows the user drags.  `goWindowMoved` for a window that is shown is not among the events of
  `Parking`: `AtRestInPlace` speaks of what wimy and the apps did.
* A titlebar whose buffer cannot be made: `renderTitlebar` records what it draws before
  (`river/deco.go:77-83`), so it would not try again.  In `River` drawing succeeds.
* A handoff that `ReadHandoff` rejects.  wimy starts afresh (`restart_darwin.go:73-76`) and
  starts the list beside the children of the process it replaced, which nobody tracks then.
  `Autostart` always adopts; only `Parking` has a handoff that has become too old.
* Parsing the configuration, key tables, gesture thresholds, the menu's wording,
  drawing titlebars and packaging: sequential code with unit tests, or I/O.
* The bridge to AppKit and the Wayland bindings are external: what they may do is
  what the actions of the environment do.  The bindings are generated, and are more
  than half of the repository's lines.

### What the modelling showed besides

These are losses or slips the models show or leave out on purpose; no comment
promises otherwise, so no run checks them.

* A column drag during which a column of the view vanishes makes
  `ColumnResizeOp.Apply` index out of range (`ManagePanics`; `pointer.go:104`).
* When an app does not take the frame a parked window is put back to, the store forgets the
  window all the same (`windowAdded`, `dropWindow`, `unhideAll`); the next
  start finds it by `inHideCorner`.  An app that does not let its window be parked is not
  asked again.  `parking_store` therefore lets apps refuse only to be shown.
* A change of screens while wimy restarts is noticed by nobody: the successor
  believes that parked windows are in the corner (the bounds in `ScreensChange` and
  `Restart`).
* A reload that changes only borders leaves the pictures of titlebars, which contain
  the top border, as they were (`river/reload.go:38-46`).
* A strip keeps the content clip it had under a titlebar when titlebars are turned off; both
  clips are lifted when it is expanded.
* A column drag that a client asks for informs it that a resize starts, and nothing
  that it ends (`river/pointer.go:99`).
* A last delta that comes with the release of a drag is not applied, and the order of
  a request to enter and one to leave fullscreen in one batch is lost.
* A window a client makes fullscreen before wimy has ever shown it stays on the screen although the
  layout hides it.  A request to enter fullscreen is granted to any window (`river.go:501-507`; without
  an output of its own it gets the first, `646-648`), river displays it, and `applyRender` sends
  `Hide` only if `w.Shown` (`river.go:566-570`), which is false of a new window.  `Layout` lists hidden
  windows "so the backend can hide them" (`layout.go:25-27`).  `RenderedAsPlaced` excepts
  exactly this window (`DisplayedUnshown`).
* With three outputs, unplugging one before the active one makes the next one active:
  `RemoveOutput` only clamps `FocusOutput`.  `WmTags` leaves open which output becomes active.
* `Seat.MaybeDestroy` destroys the key bindings of every seat (`objects.go:248`).
* Frames for a client that does not read are dropped, and the writer goroutine
  outlives its client.

## 6. Plan

1. `Tabs`: macOS tab groups and the marks they take over (`backend_darwin.go:1106-1175`).
2. `Focus`: requests and echoes on macOS, with their window of time as an action.
3. `River` with outputs: names, geometry and the two lists that `outputForWindow` relates.
