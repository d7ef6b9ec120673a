------------------------------- MODULE Control -------------------------------
(***************************************************************************)
(* How commands reach wimy's dispatch thread and how changes reach the     *)
(* subscribers: the command queue (internal/backend/core.go), the passes   *)
(* the backends drain it in (river/river.go, macos/backend_darwin.go) and  *)
(* the control socket (internal/rpc/rpc.go).                               *)
(*                                                                         *)
(* The actors are the dispatch thread; one goroutine per menu program that *)
(* is open; the broadcasting goroutine; and per client of the socket its   *)
(* reader, its writer and the peer, which reads when it likes.             *)
(*                                                                         *)
(* Commands are numbered in the order they are queued.  The model of the   *)
(* windows is its version, the number of changes it has seen.  The channel *)
(* to a writer is the number of frames in it, for what it carries is       *)
(* recorded when it is put there.                                          *)
(***************************************************************************)
EXTENDS Integers, Sequences, FiniteSets, SequencesExt, Selection

CONSTANTS
  Client,       \* the peers connected to the socket
  SendCap,      \* the capacity of a client's send channel (32 in the code)
  Early,        \* the commands, by number, that are quit or restart
  MaxCommands,  \* bound: commands ever queued
  MaxVersion    \* bound: the newest version of the model

ASSUME ControlAssumption ==
  /\ SendCap \in Nat \ {0}
  /\ MaxCommands \in Nat
  /\ MaxVersion \in Nat \ {0}
  /\ Early \subseteq 1..MaxCommands

VARIABLES
  platform,     \* the backend, "river" or "macos": it never changes
  up,           \* river's globals are there; macOS has granted the permission
  running,      \* the dispatch thread is in a pass
  scheduled,    \* a pass will come (macOS: b.scheduled; river: manage_dirty)
  jobs,         \* macOS: how many markDirty wait in the main queue
  queue,        \* c.queue
  taken,        \* DrainQueue's copy of the queue, what is left of it
  done,         \* the commands run, in that order
  version,      \* the version of the model
  menus,        \* how many menu programs are open
  wakers,       \* how many of their goroutines are about to call Wake
  changed,      \* whether s.changed holds a token
  broadcaster,  \* broadcastLoop: where it is, and the version it has read
  reader,       \* per client: readLoop, likewise
  subs,         \* s.subs
  open,         \* the clients whose peer has not hung up
  pending,      \* per client: how many frames c.send holds
  last,         \* per client: the version of the state put in c.send last
  best,         \* per client: the newest one put in c.send
  lost          \* the clients for which a frame was dropped

dispatchVars == <<up, running, taken, done, version, menus>>
queueVars == <<queue, scheduled, jobs>>
frameVars == <<pending, last, best, lost>>
socketVars == <<broadcaster, reader, subs, open, frameVars>>
vars == <<platform, dispatchVars, queueVars, wakers, changed, socketVars>>

Queued == Len(queue) + Len(taken) + Len(done)

\* The frame of a response, which carries no version.
Response == 0

Newest(a, b) == IF a > b THEN a ELSE b

-----------------------------------------------------------------------------
(* The pieces of the code that several steps share.                        *)

\* Enqueue of the next command.
Enqueue ==
  /\ Queued < MaxCommands
  /\ queue' = Append(queue, Queued + 1)

\* Wake: macOS queues markDirty and goes on; river waits its turn with the
\* dispatch thread, and has nothing to ask for before the globals are there.
Wake ==
  IF platform = "macos" THEN jobs' = jobs + 1 /\ UNCHANGED scheduled
  ELSE /\ UNCHANGED jobs
       /\ IF up THEN ~running /\ scheduled' = TRUE ELSE UNCHANGED scheduled

\* Mutant of Notify: it waits for room in the channel.
NotifyBlocking == ~changed /\ changed' = TRUE

Notify == changed' = TRUE

\* Mutant of trySend: it waits for room in the channels.
trySendBlocking(clients, frame) ==
  /\ \A c \in clients : pending[c] < SendCap
  /\ pending' = [c \in Client |-> pending[c] + IF c \in clients THEN 1 ELSE 0]
  /\ last' = [c \in Client |->
                IF c \in clients /\ frame # Response THEN frame ELSE last[c]]
  /\ best' = [c \in Client |-> IF c \in clients THEN Newest(best[c], frame) ELSE best[c]]
  /\ UNCHANGED lost

\* Mutant of trySend: one frame more than the channel has room for.
trySendOneMore(clients, frame) ==
  LET sent == {c \in clients : pending[c] <= SendCap}
  IN /\ pending' = [c \in Client |-> pending[c] + IF c \in sent THEN 1 ELSE 0]
     /\ last' = [c \in Client |->
                   IF c \in sent /\ frame # Response THEN frame ELSE last[c]]
     /\ best' = [c \in Client |-> IF c \in sent THEN Newest(best[c], frame) ELSE best[c]]
     /\ lost' = lost \cup (clients \ sent)

\* trySend of a frame to each of the clients: a full channel loses it.
trySend(clients, frame) ==
  LET sent == {c \in clients : pending[c] < SendCap}
  IN /\ pending' = [c \in Client |-> pending[c] + IF c \in sent THEN 1 ELSE 0]
     /\ last' = [c \in Client |->
                   IF c \in sent /\ frame # Response THEN frame ELSE last[c]]
     /\ best' = [c \in Client |-> IF c \in sent THEN Newest(best[c], frame) ELSE best[c]]
     /\ lost' = lost \cup (clients \ sent)

\* Snapshot: the dispatch thread is between two passes and events.
Snapshot == ~running

-----------------------------------------------------------------------------
(* The dispatch thread.                                                    *)

Init ==
  /\ platform \in {"river", "macos"}
  /\ up = FALSE /\ running = FALSE /\ scheduled = FALSE /\ jobs = 0
  /\ queue = <<>> /\ taken = <<>> /\ done = <<>>
  /\ version = 1 /\ menus = 0 /\ wakers = 0
  /\ changed = FALSE
  /\ broadcaster = [at |-> "waiting", saw |-> 0]
  /\ reader = [c \in Client |-> [at |-> "reading", saw |-> 0]]
  /\ subs = {}
  /\ open = Client
  /\ pending = [c \in Client |-> 0]
  /\ last = [c \in Client |-> 0]
  /\ best = [c \in Client |-> 0]
  /\ lost = {}

\* wimy comes up, and a first pass comes of it.
Start ==
  /\ ~up /\ ~running
  /\ up' = TRUE
  /\ scheduled' = TRUE
  /\ UNCHANGED <<platform, running, taken, done, version, menus, queue, jobs, wakers, changed, socketVars>>

\* A window, screen, title or focus event.
Event ==
  /\ up /\ ~running
  /\ version < MaxVersion
  /\ version' = version + 1
  /\ scheduled' = TRUE
  /\ UNCHANGED <<platform, up, running, taken, done, menus, queue, jobs, wakers, changed, socketVars>>

\* A key binding, a swipe or, before macOS's wimy is up too, a menu item.
KeyPressed ==
  /\ ~running
  /\ up \/ platform = "macos"
  /\ Enqueue
  /\ scheduled' = TRUE
  /\ UNCHANGED <<platform, dispatchVars, jobs, wakers, changed, socketVars>>

\* The main queue gets to a markDirty.
MarkDirty ==
  /\ jobs > 0 /\ ~running
  /\ jobs' = jobs - 1
  /\ scheduled' = TRUE
  /\ UNCHANGED <<platform, dispatchVars, queue, wakers, changed, socketVars>>

\* Mutant of DrainQueue: the queue is cleared when its commands have run.
DrainQueueLate == taken' = queue /\ UNCHANGED queue

\* The locked part of DrainQueue.
DrainQueue == taken' = queue /\ queue' = <<>>

\* The locked part of DrainQueueIf(runsBeforeStart).
DrainQueueIf ==
  /\ taken' = Selected(queue, Early)
  /\ queue' = Selected(queue, 1..MaxCommands \ Early)

\* A pass begins and takes the queue; a river that is not up has none.
Apply ==
  /\ scheduled /\ ~running
  /\ scheduled' = FALSE
  /\ running' = TRUE
  /\ IF up THEN DrainQueue ELSE DrainQueueIf
  /\ UNCHANGED <<platform, up, done, version, menus, jobs, wakers, changed, socketVars>>

\* The pass runs the next command; it changes the model, opens a menu program,
\* or does neither.
RunCommand ==
  /\ running /\ taken # <<>>
  /\ done' = Append(done, Head(taken))
  /\ taken' = Tail(taken)
  /\ \/ UNCHANGED <<version, menus>>
     \/ /\ Head(taken) \notin Early /\ version < MaxVersion
        /\ version' = version + 1
        /\ UNCHANGED menus
     \/ /\ Head(taken) \notin Early
        /\ menus' = menus + 1
        /\ UNCHANGED version
  /\ UNCHANGED <<platform, up, running, queueVars, wakers, changed, socketVars>>

\* The pass ends.
EndPass ==
  /\ running /\ taken = <<>>
  /\ running' = FALSE
  /\ IF up THEN Notify ELSE UNCHANGED changed
  /\ UNCHANGED <<platform, up, taken, done, version, menus, queueVars, wakers, socketVars>>

-----------------------------------------------------------------------------
(* The goroutine of a menu program.                                        *)

\* It is closed with an answer, which is queued, or with none.
MenuCloses ==
  /\ menus > 0
  /\ menus' = menus - 1
  /\ \/ Enqueue /\ wakers' = wakers + 1
     \/ UNCHANGED <<queue, wakers>>
  /\ UNCHANGED <<platform, up, running, taken, done, version, scheduled, jobs, changed, socketVars>>

MenuWakes ==
  /\ wakers > 0
  /\ wakers' = wakers - 1
  /\ Wake
  /\ UNCHANGED <<platform, dispatchVars, queue, changed, socketVars>>

-----------------------------------------------------------------------------
(* broadcastLoop.                                                          *)

TakeChange ==
  /\ broadcaster.at = "waiting" /\ changed
  /\ changed' = FALSE
  /\ broadcaster' = [at |-> "snapshot", saw |-> 0]
  /\ UNCHANGED <<platform, dispatchVars, queueVars, wakers, reader, subs, open, frameVars>>

ReadChange ==
  /\ broadcaster.at = "snapshot" /\ Snapshot
  /\ broadcaster' = [at |-> "sending", saw |-> version]
  /\ UNCHANGED <<platform, dispatchVars, queueVars, wakers, changed, reader, subs, open, frameVars>>

\* Mutant of Broadcast: the changes that came in meanwhile are taken for sent.
BroadcastClearing ==
  /\ broadcaster.at = "sending"
  /\ broadcaster' = [at |-> "waiting", saw |-> 0]
  /\ changed' = FALSE
  /\ trySend(subs, broadcaster.saw)
  /\ UNCHANGED <<platform, dispatchVars, queueVars, wakers, reader, subs, open>>

Broadcast ==
  /\ broadcaster.at = "sending"
  /\ broadcaster' = [at |-> "waiting", saw |-> 0]
  /\ trySend(subs, broadcaster.saw)
  /\ UNCHANGED <<platform, dispatchVars, queueVars, wakers, changed, reader, subs, open>>

-----------------------------------------------------------------------------
(* The goroutines of client c, and its peer.                               *)

Moves(c, at, saw) == reader' = [reader EXCEPT ![c] = [at |-> at, saw |-> saw]]

\* A run or quit request is queued.
RequestRun(c) ==
  /\ reader[c].at = "reading"
  /\ Enqueue
  /\ Moves(c, "waking", 0)
  /\ UNCHANGED <<platform, dispatchVars, scheduled, jobs, wakers, changed, broadcaster, subs, open, frameVars>>

ReaderWakes(c) ==
  /\ reader[c].at = "waking"
  /\ Wake
  /\ Moves(c, "answering", 0)
  /\ UNCHANGED <<platform, dispatchVars, queue, wakers, changed, broadcaster, subs, open, frameVars>>

\* A state request, answered with a snapshot.
RequestState(c) ==
  /\ reader[c].at = "reading" /\ Snapshot
  /\ Moves(c, "answering", 0)
  /\ UNCHANGED <<platform, dispatchVars, queueVars, wakers, changed, broadcaster, subs, open, frameVars>>

\* A subscribe request first adds the client to the subscribers ...
RequestSubscribe(c) ==
  /\ reader[c].at = "reading"
  /\ subs' = subs \cup {c}
  /\ Moves(c, "subscribed", 0)
  /\ UNCHANGED <<platform, dispatchVars, queueVars, wakers, changed, broadcaster, open, frameVars>>

\* ... then takes a snapshot ...
ReadState(c) ==
  /\ reader[c].at = "subscribed" /\ Snapshot
  /\ Moves(c, "state", version)
  /\ UNCHANGED <<platform, dispatchVars, queueVars, wakers, changed, broadcaster, subs, open, frameVars>>

\* ... and sends it, before the response.
SendState(c) ==
  /\ reader[c].at = "state"
  /\ Moves(c, "answering", 0)
  /\ trySend({c}, reader[c].saw)
  /\ UNCHANGED <<platform, dispatchVars, queueVars, wakers, changed, broadcaster, subs, open>>

Answer(c) ==
  /\ reader[c].at = "answering"
  /\ Moves(c, "reading", 0)
  /\ trySend({c}, Response)
  /\ UNCHANGED <<platform, dispatchVars, queueVars, wakers, changed, broadcaster, subs, open>>

\* The reader finds the connection closed.
drop(c) ==
  /\ reader[c].at = "reading" /\ c \notin open
  /\ Moves(c, "gone", 0)
  /\ subs' = subs \ {c}
  /\ UNCHANGED <<platform, dispatchVars, queueVars, wakers, changed, broadcaster, open, frameVars>>

\* The writer writes a frame and the peer takes it.
writeLoop(c) ==
  /\ pending[c] > 0 /\ c \in open
  /\ pending' = [pending EXCEPT ![c] = @ - 1]
  /\ UNCHANGED <<platform, dispatchVars, queueVars, wakers, changed, broadcaster, reader, subs, open, last, best, lost>>

PeerHangsUp(c) ==
  /\ c \in open
  /\ open' = open \ {c}
  /\ UNCHANGED <<platform, dispatchVars, queueVars, wakers, changed, broadcaster, reader, subs, frameVars>>

-----------------------------------------------------------------------------

DispatchThread == MarkDirty \/ Apply \/ RunCommand \/ EndPass

Broadcaster == TakeChange \/ ReadChange \/ Broadcast

\* A reader that has a request to finish.
Reader(c) == ReaderWakes(c) \/ ReadState(c) \/ SendState(c) \/ Answer(c)

Next ==
  \/ Start \/ Event \/ KeyPressed
  \/ DispatchThread
  \/ MenuCloses \/ MenuWakes
  \/ Broadcaster
  \/ \E c \in Client :
       \/ RequestRun(c) \/ RequestState(c) \/ RequestSubscribe(c)
       \/ Reader(c)
       \/ drop(c) \/ writeLoop(c) \/ PeerHangsUp(c)

\* Threads and goroutines run and get their turn with the dispatch thread.
\* Nothing must happen, no menu need ever close and no peer need read.
Fairness ==
  /\ WF_vars(DispatchThread)
  /\ WF_vars(MenuWakes)
  /\ WF_vars(Broadcaster)
  /\ \A c \in Client : WF_vars(Reader(c))

Spec == Init /\ [][Next]_vars /\ Fairness

-----------------------------------------------------------------------------
(* Properties.                                                             *)

Where == {"waiting", "snapshot", "sending", "reading", "waking", "answering",
          "subscribed", "state", "gone"}

\* No channel holds more than it has room for.
TypeOK ==
  /\ platform \in {"river", "macos"}
  /\ up \in BOOLEAN /\ running \in BOOLEAN /\ scheduled \in BOOLEAN /\ changed \in BOOLEAN
  /\ \A q \in {queue, taken, done} : q \in Seq(1..MaxCommands)
  /\ version \in 1..MaxVersion
  /\ {jobs, menus, wakers} \subseteq 0..MaxCommands
  /\ \A t \in {broadcaster} \cup {reader[c] : c \in Client} :
       t.at \in Where /\ t.saw \in 0..version
  /\ subs \subseteq Client /\ open \subseteq Client /\ lost \subseteq Client
  /\ pending \in [Client -> 0..SendCap]
  /\ \A c \in Client : 0 <= last[c] /\ last[c] <= best[c] /\ best[c] <= version

\* "DrainQueue executes pending commands (key bindings, RPC, prompts) in the
\* order they were queued": whoever queues a command, and whenever a pass takes
\* the queue, none is lost, none runs twice, and only quit and restart ever
\* overtake one.
CommandsRunInOrder ==
  LET all == done \o taken \o queue
  IN /\ IsInjective(all)
     /\ ToSet(all) = 1..Len(all)
     /\ \A i, j \in DOMAIN all : i < j /\ all[i] > all[j] => all[i] \in Early

\* Neither the dispatch thread nor a goroutine, the writers aside, has anything
\* to do.
Quiet ==
  /\ ~running /\ ~scheduled /\ jobs = 0 /\ wakers = 0 /\ ~changed
  /\ broadcaster.at = "waiting"
  /\ \A c \in Client : reader[c].at \in {"reading", "gone"}

\* When everything has come to rest nothing has been forgotten: no command waits
\* in the queue of a wimy that is up, and every subscriber was sent the newest
\* state, unless a frame was dropped because it does not read.
NothingForgotten ==
  Quiet => /\ up => queue = <<>>
           /\ \A c \in subs \ lost : best[c] = version

\* Every command queued runs once wimy is up, those included that were queued
\* before and kept: no wake-up is lost.
EveryCommandRuns ==
  \A n \in 1..MaxCommands : up /\ n <= Queued ~> n \in ToSet(done)

\* What has changed since a client subscribed reaches it, unless a frame was
\* dropped because it does not read: no change falls between the state it is
\* sent first and the notifications, and a slow client delays no other.
SubscribersCatchUp ==
  \A c \in Client : \A v \in 1..MaxVersion :
    c \in subs /\ version >= v ~> best[c] >= v \/ c \in lost \/ c \notin subs

\* Every request is dealt with: its reader comes back to read the next one.
RequestsAreAnswered ==
  \A c \in Client : reader[c].at \notin {"reading", "gone"} ~> reader[c].at = "reading"

-----------------------------------------------------------------------------
(* What the documentation says and the code does not do.                   *)

\* "subscribe sends an immediate state notification and a new one on every
\* change": when nothing is under way, the last state that a subscriber was
\* sent, and of whose frames none was dropped, is the current one.
SubscribersAreCurrent ==
  Quiet => \A c \in subs \ lost : last[c] = version
=============================================================================
