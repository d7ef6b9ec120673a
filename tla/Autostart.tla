------------------------------ MODULE Autostart ------------------------------
(***************************************************************************)
(* The supervision of the processes of the config's autostart list         *)
(* (internal/backend/autostart.go, config/diff.go), across reloads of the  *)
(* config and restarts of wimy in place (the autostart part of             *)
(* backend/handoff.go and macos/restart_darwin.go).                        *)
(*                                                                         *)
(* wimy's dispatch thread runs start, reload and restart, each in one      *)
(* step.  Beside it run one reaping goroutine per process and one          *)
(* goroutine per process being terminated, and the processes themselves:   *)
(* each is the leader of a group of its own and may fork one member into   *)
(* it (a shell that forks its command instead of replacing itself).        *)
(*                                                                         *)
(* The autostart list is the number of times each command line is in it:   *)
(* its order only decides the order of starting.  A pid names one process  *)
(* for good: the kernel does not reuse it while wimy remembers it.         *)
(***************************************************************************)
EXTENDS Integers, Sequences, FiniteSets, SequencesExt, Selection

CONSTANTS
  Cmdline,       \* the command lines
  Pid,           \* the pids processes may get; bound: this many are ever started
  NoPid,         \* pid 0: an adopted entry whose process had exited
  MaxEntries,    \* bound: how often a config lists one command line
  MaxRestarts,   \* bound: restarts in place (river has none)
  StartsMayFail  \* whether cmd.Start may fail

ASSUME AutostartAssumption ==
  /\ IsFiniteSet(Pid) /\ NoPid \notin Pid
  /\ MaxEntries \in Nat
  /\ MaxRestarts \in Nat
  /\ StartsMayFail \in BOOLEAN

VARIABLES
  phase,     \* "waiting" for the permission to run, or "up"
  restarts,  \* how many restarts made this process: it took over a handoff if any
  cfg,       \* c.Cfg.Autostart
  procs,     \* a.procs
  leader,    \* per pid: "unused", "running", "exited"
  member,    \* the pids whose group holds a running process beside the leader
  asked,     \* the pids whose group was sent SIGTERM
  dead,      \* the pids whose p.dead is set
  reapers,   \* the pids a goroutine waits for
  killers    \* the pids whose grace period a goroutine waits out

vars == <<phase, restarts, cfg, procs, leader, member, asked, dead, reapers, killers>>

Config == [Cmdline -> 0..MaxEntries]

Least(a, b) == IF a < b THEN a ELSE b

Minus(a, b) == IF a > b THEN a - b ELSE 0

\* Mutant of isDead: an adopted entry with pid 0 passes for a live process.
isDeadFlag(e) == e \in dead

isDead(e) == e = NoPid \/ e \in dead

Live(q) == Selected(q, {e \in ToSet(q) : ~isDead(e)})

Pids(q) == ToSet(q) \ {NoPid}

Tracked == UNION {Pids(procs[c]) : c \in Cmdline}

-----------------------------------------------------------------------------
(* Starting and reconciling.                                               *)

\* How starting n[c] processes of every c may come out: the pids each c gets.
Started(n) ==
  {got \in [Cmdline -> SUBSET {p \in Pid : leader[p] = "unused"}] :
     /\ \A c, d \in Cmdline : c # d => got[c] \cap got[d] = {}
     /\ \A c \in Cmdline : \/ Cardinality(got[c]) = n[c]
                           \/ StartsMayFail /\ Cardinality(got[c]) < n[c]}

\* Mutant of Run: nobody reaps what is started.
RunUnreaped(got, waited) ==
  LET new == UNION {got[c] : c \in Cmdline}
  IN /\ leader' = [p \in Pid |-> IF p \in new THEN "running" ELSE leader[p]]
     /\ reapers' = waited

\* The processes of got run, each with a goroutine that reaps it, as those of
\* the pids waited have.
Run(got, waited) ==
  LET new == UNION {got[c] : c \in Cmdline}
  IN /\ leader' = [p \in Pid |-> IF p \in new THEN "running" ELSE leader[p]]
     /\ reapers' = waited \cup new

\* Mutant of terminate: the signal is sent and nobody waits for what comes of it.
terminateOnly(doomed, waiting) ==
  /\ asked' = asked \cup doomed
  /\ killers' = waiting

\* terminate of the processes doomed, none of them dead; the grace periods of
\* the pids waiting run on.
terminate(doomed, waiting) ==
  /\ asked' = asked \cup doomed
  /\ killers' = waiting \cup doomed

\* Mutant of DiffExecs: every entry of a command line that has gained some is
\* taken for new.
DiffExecsTwice(old, new) ==
  [kill  |-> [c \in Cmdline |-> Minus(old[c], new[c])],
   spawn |-> [c \in Cmdline |-> IF new[c] > old[c] THEN new[c] ELSE 0]]

\* Mutant of DiffExecs: a command line that occurs another number of times is
\* taken for changed, with all its instances.
DiffExecsChanged(old, new) ==
  [kill  |-> [c \in Cmdline |-> IF old[c] # new[c] THEN old[c] ELSE 0],
   spawn |-> [c \in Cmdline |-> IF old[c] # new[c] THEN new[c] ELSE 0]]

\* The instances each command line has lost, and those it has gained.
DiffExecs(old, new) ==
  [kill  |-> [c \in Cmdline |-> Minus(old[c], new[c])],
   spawn |-> [c \in Cmdline |-> Minus(new[c], old[c])]]

\* The processes that k calls of take get to terminate, the live ones first.
takenLive(q, k) ==
  LET live == Live(q)
  IN {live[i] : i \in 1..Least(k, Len(live))}

\* Mutant of keptLive: one too many is forgotten.
keptLiveButOne(q, k) == SubSeq(Live(q), IF k = 0 THEN 1 ELSE k + 2, Len(Live(q)))

\* The live processes that k calls of take leave.
keptLive(q, k) == SubSeq(Live(q), k + 1, Len(Live(q)))

\* Mutant of keptDead: dead processes are left alone.
keptDeadAlone(q, k) == 0

\* How many dead ones they leave: Sync starts as many again.
keptDead(q, k) == Minus(Len(q), k) - Len(keptLive(q, k))

\* Sync(old, new) when entries are tracked.
Sync(entries, old, new, waited, waiting) ==
  LET diff == DiffExecs(old, new)
      kept == [c \in Cmdline |-> keptLive(entries[c], diff.kill[c])]
      tries == [c \in Cmdline |-> diff.spawn[c] + keptDead(entries[c], diff.kill[c])]
  IN /\ terminate(UNION {takenLive(entries[c], diff.kill[c]) : c \in Cmdline}, waiting)
     /\ \E got \in Started(tries) :
          /\ procs' = [c \in Cmdline |-> kept[c] \o SetToSeq(got[c])]
          /\ Run(got, waited)

-----------------------------------------------------------------------------
(* wimy.                                                                   *)

Init ==
  /\ phase = "waiting"
  /\ restarts = 0
  /\ cfg \in Config
  /\ procs = [c \in Cmdline |-> <<>>]
  /\ leader = [p \in Pid |-> "unused"]
  /\ member = {}
  /\ asked = {}
  /\ dead = {}
  /\ reapers = {}
  /\ killers = {}

\* macOS grants the permission, or river's globals are there: wimy starts the
\* list, unless it has taken over a handoff.
Start ==
  /\ phase = "waiting"
  /\ phase' = "up"
  /\ IF restarts = 0
     THEN \E got \in Started(cfg) :
            /\ procs' = [c \in Cmdline |-> SetToSeq(got[c])]
            /\ Run(got, {})
     ELSE UNCHANGED <<procs, leader, reapers>>
  /\ UNCHANGED <<restarts, cfg, member, asked, dead, killers>>

\* The reload command; only a wimy that is up runs it.
Reload ==
  /\ phase = "up"
  /\ \E new \in Config :
       /\ cfg' = new
       /\ Sync(procs, cfg, new, reapers, killers)
  /\ UNCHANGED <<phase, restarts, member, dead>>

\* What the handoff says of the tracked processes: an exited one has pid 0.
Entries == [c \in Cmdline |->
              [i \in DOMAIN procs[c] |-> IF isDead(procs[c][i]) THEN NoPid ELSE procs[c][i]]]

\* The restart command, up or waiting: the successor, with no goroutine of its
\* predecessor, adopts what is in the handoff, with the config now on disk.
Restart ==
  /\ restarts < MaxRestarts
  /\ restarts' = restarts + 1
  /\ phase' = "waiting"
  /\ \E new \in Config :
       /\ cfg' = new
       /\ Sync(Entries, cfg, new, UNION {Pids(Entries[c]) : c \in Cmdline}, {})
  /\ UNCHANGED <<member, dead>>

\* A reaping goroutine's Wait returns.
Reap(p) ==
  /\ p \in reapers
  /\ leader[p] = "exited"
  /\ dead' = dead \cup {p}
  /\ reapers' = reapers \ {p}
  /\ UNCHANGED <<phase, restarts, cfg, procs, leader, member, asked, killers>>

\* terminate's goroutine sees p.done, or kills the group after the grace period.
GraceEnds(p) ==
  /\ p \in killers
  /\ killers' = killers \ {p}
  /\ IF p \in dead THEN UNCHANGED <<leader, member>>
     ELSE /\ leader' = [leader EXCEPT ![p] = "exited"]
          /\ member' = member \ {p}
  /\ UNCHANGED <<phase, restarts, cfg, procs, asked, dead, reapers>>

-----------------------------------------------------------------------------
(* The processes: they exit when they like, at SIGTERM or not, and fork.   *)

LeaderExits(p) ==
  /\ leader[p] = "running"
  /\ leader' = [leader EXCEPT ![p] = "exited"]
  /\ UNCHANGED <<phase, restarts, cfg, procs, member, asked, dead, reapers, killers>>

LeaderForks(p) ==
  /\ leader[p] = "running" /\ p \notin member
  /\ member' = member \cup {p}
  /\ UNCHANGED <<phase, restarts, cfg, procs, leader, asked, dead, reapers, killers>>

MemberExits(p) ==
  /\ p \in member
  /\ member' = member \ {p}
  /\ UNCHANGED <<phase, restarts, cfg, procs, leader, asked, dead, reapers, killers>>

Next ==
  \/ Start
  \/ Reload
  \/ Restart
  \/ \E p \in Pid :
       \/ Reap(p)
       \/ GraceEnds(p)
       \/ LeaderExits(p)
       \/ LeaderForks(p)
       \/ MemberExits(p)

\* The goroutines run and time passes; neither the user nor a process must act.
Fairness == \A p \in Pid : WF_vars(Reap(p)) /\ WF_vars(GraceEnds(p))

Spec == Init /\ [][Next]_vars /\ Fairness

-----------------------------------------------------------------------------
(* Properties.                                                             *)

TypeOK ==
  /\ phase \in {"waiting", "up"}
  /\ restarts \in 0..MaxRestarts
  /\ cfg \in Config
  /\ procs \in [Cmdline -> Seq(Pid \cup {NoPid})]
  /\ leader \in [Pid -> {"unused", "running", "exited"}]
  /\ member \subseteq Pid
  /\ asked \subseteq Pid
  /\ dead \subseteq Pid
  /\ reapers \subseteq Pid
  /\ killers \subseteq Pid

\* However often the list is reloaded and whatever dies or fails to start in
\* between, wimy never tracks more processes of a command line than the list
\* has, and no process twice: no bar is started a second time.
TrackedWithinConfig ==
  \A c \in Cmdline :
    /\ Len(procs[c]) <= cfg[c]
    /\ \A i, j \in DOMAIN procs[c] :
         i # j => procs[c][i] # procs[c][j] \/ procs[c][i] = NoPid
    /\ \A d \in Cmdline \ {c} : Pids(procs[c]) \cap Pids(procs[d]) = {}

\* A process wimy has started and that still runs is either tracked or has been
\* told to end; a restart in place does not lose sight of one.
NoStrayProcess ==
  \A p \in Pid : leader[p] = "running" => p \in Tracked \cup asked

\* A tracked process that has exited is noticed, or a goroutine is there to
\* notice it: a later reload brings it back.
ExitsAreNoticed ==
  \A p \in Tracked : p \in dead <=> p \notin reapers

\* "removed entries are terminated, added entries spawned, changed entries
\* terminated and re-executed, and unchanged entries keep running": a reload
\* terminates no more processes of a command line than it has lost entries, and
\* none of one that still has as many.
OnlyDroppedAreTerminated ==
  [][\A c \in Cmdline :
       Cardinality(Pids(procs[c]) \cap (asked' \ asked)) <= Minus(cfg[c], cfg'[c])]_vars

\* How many processes of command line c a reload to the list new tries to start.
Tries(c, new) ==
  LET diff == DiffExecs(cfg, new)
  IN diff.spawn[c] + keptDead(procs[c], diff.kill[c])

\* Where starting does not fail, now or before, every reload leaves as many live
\* processes of each command line as the new list has entries: what died is
\* started again.
ReloadBringsAllUp ==
  [][/\ phase = "up" /\ phase' = "up"
     /\ <<cfg, procs>>' # <<cfg, procs>>
     /\ \A c \in Cmdline :
          /\ Len(procs[c]) = cfg[c]
          /\ Cardinality({p \in Pids(procs[c])' : leader[p] = "unused"}) = Tries(c, cfg')
     => \A c \in Cmdline : Len(Live(procs[c])') = cfg'[c]]_vars

\* A process that was told to end does end, SIGKILL following where it ignores
\* SIGTERM, as long as the wimy that told it lives: here the one that is not
\* restarted any more.
TerminatedProcessesEnd ==
  \A p \in Pid :
    [](restarts = MaxRestarts /\ p \notin asked
         => [](p \in asked => <>(leader[p] = "exited")))

-----------------------------------------------------------------------------
(* What comments say and the code does not do.                             *)

\* "After the kill/spawn passes the tracked set matches newList exactly": a
\* wimy that is up tracks as many processes as its list has.
TrackedMatchesConfig ==
  phase = "up" => \A c \in Cmdline : Len(procs[c]) = cfg[c]

\* "The process runs in its own process group so that shell wrappers which fork
\* (instead of exec) don't leak children when wimy kills the group": when a
\* process has been told to end, nothing of its group runs for ever.
TerminatedGroupsEnd ==
  \A p \in Pid : p \in asked ~> leader[p] = "exited" /\ p \notin member
=============================================================================
