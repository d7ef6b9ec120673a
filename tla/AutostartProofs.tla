---------------------------- MODULE AutostartProofs ----------------------------
(***************************************************************************)
(* For any command lines, lists and pids: what wimy tracks stays within    *)
(* its list, nothing it has started gets out of sight, no exit is missed,  *)
(* and a reload ends no more than it must.                                 *)
(***************************************************************************)
EXTENDS Autostart, SelectionLemmas, FiniteSetTheorems

Entry == Pid \cup {NoPid}

\* No pid is in q twice.
NoneTwice(q) == \A i, j \in DOMAIN q : i # j => q[i] # q[j] \/ q[i] = NoPid

-----------------------------------------------------------------------------
(* What Sync makes of the entries of one command line.                     *)

LEMMA LiveSelects ==
  ASSUME NEW q \in Seq(Entry)
  PROVE  /\ Live(q) \in Seq(Entry) /\ Len(Live(q)) \in Nat
         /\ Len(Live(q)) <= Len(q)
         /\ \A k \in 1..Len(Live(q)) :
              Live(q)[k] \in Pid \ dead /\ \E i \in 1..Len(q) : Live(q)[k] = q[i]
         /\ \A k, l \in 1..Len(Live(q)) :
              k < l => \E i, j \in 1..Len(q) : i < j /\ Live(q)[k] = q[i] /\ Live(q)[l] = q[j]
         /\ \A i \in 1..Len(q) :
              ~isDead(q[i]) => \E k \in 1..Len(Live(q)) : Live(q)[k] = q[i]
<1> DEFINE S == {e \in ToSet(q) : ~isDead(e)}
           s == Selected(q, S)
<1>1. s \in Seq(Entry) /\ SelectsFrom(s, q, S, Len(q))
  BY SelectedSelects
<1>2. Live(q) = s
  BY DEF Live
<1>3. \A i \in 1..Len(q) : q[i] \in Entry /\ (q[i] \in S <=> ~isDead(q[i]))
  BY ElementOfSeq DEF ToSet
<1>4. Len(s) \in Nat
  BY <1>1
<1> HIDE DEF s, S
<1>5. ASSUME NEW k \in 1..Len(s)
      PROVE  s[k] \in Pid \ dead /\ \E i \in 1..Len(q) : s[k] = q[i]
  <2>1. PICK i \in 1..Len(q) : s[k] = q[i]
    BY <1>1 DEF SelectsFrom
  <2>2. s[k] \in S
    BY <1>1 DEF SelectsFrom
  <2> QED BY <1>3, <2>1, <2>2 DEF isDead, Entry
<1> QED BY <1>1, <1>2, <1>3, <1>4, <1>5 DEF SelectsFrom

LEMMA KeptLiveIs ==
  ASSUME NEW q \in Seq(Entry), NEW k \in Nat
  PROVE  /\ keptLive(q, k) \in Seq(Pid)
         /\ Len(keptLive(q, k)) = Minus(Len(Live(q)), k)
         /\ \A i \in 1..Len(keptLive(q, k)) :
              k + i \in 1..Len(Live(q)) /\ keptLive(q, k)[i] = Live(q)[k + i]
<1> DEFINE v == Live(q)
           n == Len(v)
<1>1. v \in Seq(Entry) /\ n \in Nat /\ \A i \in 1..n : v[i] \in Pid
  BY LiveSelects
<1>2. keptLive(q, k) = SubSeq(v, k + 1, n)
  BY DEF keptLive
<1> HIDE DEF v
<1>3. CASE k >= n
  <2>1. SubSeq(v, k + 1, n) = <<>>
    BY <1>1, <1>3
  <2>2. Minus(n, k) = 0
    BY <1>1, <1>3 DEF Minus
  <2>3. Len(keptLive(q, k)) = 0 /\ keptLive(q, k) \in Seq(Pid)
    <3>1. keptLive(q, k) = <<>>
      BY <1>2, <2>1, Zenon
    <3>2. Len(<<>>) = 0 /\ <<>> \in Seq(Pid)
      OBVIOUS
    <3> QED BY <3>1, <3>2, Zenon
  <2>4. Minus(Len(Live(q)), k) = 0
    BY <2>2 DEF v
  <2> QED BY <2>3, <2>4
<1>4. CASE k < n
  <2>1. /\ Len(SubSeq(v, k + 1, n)) = n - k
        /\ \A i \in 1..n - k : k + i \in 1..n /\ SubSeq(v, k + 1, n)[i] = v[k + i]
    BY <1>1, <1>4
  <2>2. SubSeq(v, k + 1, n) \in Seq(Pid)
    BY <1>1, <1>4, <2>1
  <2>3. Minus(n, k) = n - k
    BY <1>1, <1>4 DEF Minus
  <2> QED BY <1>2, <2>1, <2>2, <2>3 DEF v
<1>5. k >= n \/ k < n
  BY <1>1
<1> QED BY <1>3, <1>4, <1>5, Zenon

\* The live entries that are taken and those that are kept are all there are, and
\* no more are taken than Sync asks for.
LEMMA TakenOrKept ==
  ASSUME NEW q \in Seq(Entry), NEW k \in Nat
  PROVE  /\ takenLive(q, k) \subseteq Pid \ dead
         /\ \A p \in takenLive(q, k) : \E i \in 1..Len(q) : p = q[i]
         /\ IsFiniteSet(takenLive(q, k)) /\ Cardinality(takenLive(q, k)) <= k
         /\ \A j \in 1..Len(keptLive(q, k)) :
              /\ keptLive(q, k)[j] \in Pid \ dead
              /\ \E i \in 1..Len(q) : keptLive(q, k)[j] = q[i]
         /\ \A i \in 1..Len(q) :
              ~isDead(q[i]) =>
                q[i] \in takenLive(q, k) \/ \E j \in 1..Len(keptLive(q, k)) : keptLive(q, k)[j] = q[i]
<1> DEFINE v == Live(q)
           n == Len(v)
           m == Least(k, n)
           r == keptLive(q, k)
           t == takenLive(q, k)
<1>1. /\ n \in Nat
      /\ \A j \in 1..n : v[j] \in Pid \ dead /\ \E i \in 1..Len(q) : v[j] = q[i]
      /\ \A i \in 1..Len(q) : ~isDead(q[i]) => \E j \in 1..n : v[j] = q[i]
  BY LiveSelects
<1>2. /\ Len(r) = Minus(n, k) /\ Len(r) \in Nat
      /\ \A i \in 1..Len(r) : k + i \in 1..n /\ r[i] = v[k + i]
  BY KeptLiveIs
<1>3. m \in Nat /\ m <= k /\ m <= n
  <2> HIDE DEF v
  <2> QED BY <1>1 DEF Least
<1>4. t = {v[i] : i \in 1..m}
  BY DEF takenLive
<1> HIDE DEF v, r, t
<1>5. IsFiniteSet(t) /\ Cardinality(t) <= k
  <2> DEFINE f == [i \in 1..m |-> v[i]]
  <2> HIDE DEF m
  <2>1. f \in Surjection(1..m, t)
    BY <1>4 DEF Surjection
  <2>2. IsFiniteSet(1..m) /\ Cardinality(1..m) = m
    BY <1>3, FS_Interval
  <2>3. IsFiniteSet(t) /\ Cardinality(t) <= Cardinality(1..m)
    BY <2>1, <2>2, FS_Surjection
  <2> QED BY <1>3, <2>2, <2>3, FS_CardinalityType
<1>6. ASSUME NEW j \in 1..n PROVE v[j] \in t \/ \E i \in 1..Len(r) : r[i] = v[j]
  <2>1. CASE j <= m
    BY <1>1, <1>3, <1>4, <2>1
  <2>2. CASE j > m
    <3>1. j > k /\ n > k
      BY <1>1, <2>2 DEF Least
    <3>2. Len(r) = n - k
      BY <1>1, <1>2, <3>1 DEF Minus
    <3>3. j - k \in 1..Len(r) /\ k + (j - k) = j
      BY <1>1, <3>1, <3>2
    <3> QED BY <1>2, <3>3
  <2> QED BY <1>1, <1>3, <2>1, <2>2
<1>7. \A p \in t : \E j \in 1..n : p = v[j]
  BY <1>1, <1>3, <1>4
<1>8. ASSUME NEW p \in t PROVE p \in Pid \ dead /\ \E i \in 1..Len(q) : p = q[i]
  <2>1. PICK j \in 1..n : p = v[j]
    BY <1>7
  <2> QED BY <1>1, <2>1
<1>9. ASSUME NEW j \in 1..Len(r)
      PROVE  r[j] \in Pid \ dead /\ \E i \in 1..Len(q) : r[j] = q[i]
  <2>1. k + j \in 1..n /\ r[j] = v[k + j]
    BY <1>2
  <2> QED BY <1>1, <2>1
<1>10. \A i \in 1..Len(q) : ~isDead(q[i]) => q[i] \in t \/ \E j \in 1..Len(r) : r[j] = q[i]
  BY <1>1, <1>6
<1> QED BY <1>5, <1>8, <1>9, <1>10 DEF r, t

\* None of the kept is in the list twice.
LEMMA KeptOnce ==
  ASSUME NEW q \in Seq(Entry), NEW k \in Nat, NoneTwice(q)
  PROVE  IsInjective(keptLive(q, k))
<1> DEFINE v == Live(q)
           r == keptLive(q, k)
<1>1. /\ Len(v) \in Nat
      /\ \A j \in 1..Len(v) : v[j] \in Pid
      /\ \A i, j \in 1..Len(v) : i < j => \E a, b \in 1..Len(q) : a < b /\ v[i] = q[a] /\ v[j] = q[b]
  BY LiveSelects
<1>2. /\ DOMAIN r = 1..Len(r) /\ Len(r) \in Nat
      /\ \A i \in 1..Len(r) : k + i \in 1..Len(v) /\ r[i] = v[k + i]
  BY KeptLiveIs
<1> HIDE DEF v, r
<1>3. ASSUME NEW i \in 1..Len(v), NEW j \in 1..Len(v), i < j PROVE v[i] # v[j]
  <2>1. PICK a \in 1..Len(q), b \in 1..Len(q) : a < b /\ v[i] = q[a] /\ v[j] = q[b]
    BY <1>1, <1>3
  <2>2. a # b /\ a \in DOMAIN q /\ b \in DOMAIN q
    BY <2>1
  <2>3. v[i] # NoPid
    BY <1>1, AutostartAssumption
  <2> QED BY <2>1, <2>2, <2>3 DEF NoneTwice
<1>4. ASSUME NEW i \in 1..Len(r), NEW j \in 1..Len(r), i < j PROVE r[i] # r[j]
  <2>1. k + i < k + j
    BY <1>2, <1>4
  <2> QED BY <1>2, <1>3, <2>1
<1>5. \A i, j \in 1..Len(r) : i < j \/ i = j \/ j < i
  BY <1>2
<1>6. IsInjective(r)
  BY <1>2, <1>4, <1>5 DEF IsInjective
<1> QED BY <1>6 DEF r

\* The tracked processes and those that are tried to start are as many as the
\* list has left of the tracked.
LEMMA KeptAndTried ==
  ASSUME NEW q \in Seq(Entry), NEW old \in Nat, NEW new \in Nat, Len(q) <= old
  PROVE  LET k == Minus(old, new)
         IN /\ k \in Nat /\ Minus(new, old) \in Nat
            /\ keptDead(q, k) \in Nat
            /\ Len(keptLive(q, k)) + (Minus(new, old) + keptDead(q, k)) <= new
<1> DEFINE k == Minus(old, new)
           n == Len(Live(q))
           r == Len(keptLive(q, k))
           N == Len(q)
<1>1. k \in Nat /\ Minus(new, old) \in Nat /\ N \in Nat
  BY DEF Minus
<1>2. n \in Nat /\ n <= N
  BY LiveSelects
<1> HIDE DEF n, k
<1>3. r = Minus(n, k)
  BY <1>1, KeptLiveIs DEF n
<1> HIDE DEF r
<1>4. keptDead(q, k) = Minus(N, k) - r
  BY DEF keptDead, r
<1> HIDE DEF N
<1>5. keptDead(q, k) \in Nat /\ r + keptDead(q, k) = Minus(N, k)
  BY <1>1, <1>2, <1>3, <1>4 DEF Minus
<1>6. N <= old
  BY DEF N
<1>7. Minus(N, k) + Minus(new, old) <= new
  BY <1>1, <1>6 DEF Minus, k
<1>8. r + (Minus(new, old) + keptDead(q, k)) <= new
  <2>1. r \in Nat
    BY <1>1, <1>2, <1>3 DEF Minus
  <2> QED BY <1>1, <1>5, <1>7, <2>1
<1> QED BY <1>1, <1>5, <1>8 DEF k, r

\* SetToSeq lists every element of a finite set once.
LEMMA SetToSeqLists ==
  ASSUME NEW S, IsFiniteSet(S)
  PROVE  /\ SetToSeq(S) \in Seq(S)
         /\ Len(SetToSeq(S)) = Cardinality(S)
         /\ IsInjective(SetToSeq(S)) /\ ToSet(SetToSeq(S)) = S
<1> DEFINE N == Cardinality(S)
           s == SetToSeq(S)
<1>1. N \in Nat /\ ExistsBijection(1..N, S)
  BY FS_CardinalityType
<1>2. \E f \in [1..N -> S] : IsInjective(f)
  BY <1>1 DEF ExistsBijection, Bijection, Injection
<1>3. s \in [1..N -> S] /\ IsInjective(s)
  BY <1>2 DEF SetToSeq
<1> HIDE DEF s
<1>4. s \in Seq(S) /\ Len(s) = N /\ DOMAIN s = 1..N
  BY <1>1, <1>3
<1>5. s \in Surjection(1..N, S)
  <2>1. s \in Injection(1..N, S)
    BY <1>3 DEF Injection
  <2>2. Cardinality(1..N) = N
    BY <1>1, FS_Interval
  <2> QED BY <2>1, <2>2, FS_Injection
<1>6. ToSet(s) = S
  BY <1>3, <1>4, <1>5 DEF ToSet, Surjection
<1> QED BY <1>3, <1>4, <1>6 DEF s

-----------------------------------------------------------------------------
(* The invariant.                                                          *)

\* The parts of the invariant that no property states: a pid that was never given
\* to a process is nowhere, one whose process is known to be dead has exited, and
\* nothing has been started before wimy first comes up.
PidsInv ==
  /\ \A p \in Pid : leader[p] = "unused" => p \notin Tracked \cup dead \cup reapers \cup killers
  /\ \A p \in dead : leader[p] = "exited"
  /\ phase = "waiting" /\ restarts = 0 => \A p \in Pid : leader[p] = "unused"

AutostartInv == TypeOK /\ TrackedWithinConfig /\ NoStrayProcess /\ ExitsAreNoticed /\ PidsInv

LEMMA TrackedIs ==
  ASSUME TypeOK
  PROVE  /\ \A c \in Cmdline : /\ procs[c] \in Seq(Entry)
                               /\ \A i \in 1..Len(procs[c]) : procs[c][i] \in Entry
         /\ \A p : p \in Tracked <=>
              p # NoPid /\ \E c \in Cmdline : \E i \in 1..Len(procs[c]) : p = procs[c][i]
         /\ Tracked \subseteq Pid
<1>1. ASSUME NEW c \in Cmdline
      PROVE  procs[c] \in Seq(Entry) /\ \A i \in 1..Len(procs[c]) : procs[c][i] \in Entry
  <2>1. procs[c] \in Seq(Entry)
    BY DEF TypeOK, Entry
  <2> QED BY <2>1, ElementOfSeq
<1>2. \A p : p \in Tracked <=>
        p # NoPid /\ \E c \in Cmdline : \E i \in 1..Len(procs[c]) : p = procs[c][i]
  <2>1. \A c \in Cmdline : DOMAIN procs[c] = 1..Len(procs[c])
    BY <1>1
  <2> QED BY <2>1 DEF Tracked, Pids, ToSet
<1> QED BY <1>1, <1>2 DEF Entry

\* The entries Sync works on: those tracked, some dead ones as no process.
Mirrors(entries) ==
  \A c \in Cmdline :
    /\ entries[c] \in Seq(Entry) /\ Len(entries[c]) = Len(procs[c])
    /\ \A i \in 1..Len(procs[c]) :
         entries[c][i] = procs[c][i] \/ (entries[c][i] = NoPid /\ isDead(procs[c][i]))

LEMMA TheyMirror == TypeOK => Mirrors(procs) /\ Mirrors(Entries)
<1> SUFFICES ASSUME TypeOK PROVE Mirrors(procs) /\ Mirrors(Entries)
  OBVIOUS
<1>1. Mirrors(procs)
  BY TrackedIs DEF Mirrors
<1>2. ASSUME NEW c \in Cmdline
      PROVE  /\ Entries[c] \in Seq(Entry) /\ Len(Entries[c]) = Len(procs[c])
             /\ \A i \in 1..Len(procs[c]) :
                  Entries[c][i] = procs[c][i] \/ (Entries[c][i] = NoPid /\ isDead(procs[c][i]))
  <2> DEFINE q == procs[c]
  <2>1. q \in Seq(Entry) /\ DOMAIN q = 1..Len(q) /\ Len(q) \in Nat /\ \A i \in 1..Len(q) : q[i] \in Entry
    BY TrackedIs
  <2>2. Entries[c] = [i \in DOMAIN q |-> IF isDead(q[i]) THEN NoPid ELSE q[i]]
    BY DEF Entries
  <2> HIDE DEF q
  <2>3. Entries[c] \in Seq(Entry) /\ Len(Entries[c]) = Len(q)
    BY <2>1, <2>2 DEF Entry
  <2>4. \A i \in 1..Len(q) : Entries[c][i] = IF isDead(q[i]) THEN NoPid ELSE q[i]
    BY <2>1, <2>2
  <2> QED BY <2>3, <2>4 DEF q
<1> QED BY <1>1, <1>2 DEF Mirrors

\* What starting may come to: sets of pids that none has had, none of them too big.
LEMMA StartedIs ==
  ASSUME NEW n, \A c \in Cmdline : n[c] \in Nat, NEW got \in Started(n)
  PROVE  /\ \A c \in Cmdline :
              /\ got[c] \subseteq Pid /\ \A p \in got[c] : leader[p] = "unused"
              /\ IsFiniteSet(got[c]) /\ Cardinality(got[c]) \in Nat /\ Cardinality(got[c]) <= n[c]
         /\ \A c, d \in Cmdline : c # d => got[c] \cap got[d] = {}
<1>1. /\ got \in [Cmdline -> SUBSET {p \in Pid : leader[p] = "unused"}]
      /\ \A c, d \in Cmdline : c # d => got[c] \cap got[d] = {}
      /\ \A c \in Cmdline : Cardinality(got[c]) = n[c] \/ Cardinality(got[c]) < n[c]
  BY DEF Started
<1>2. ASSUME NEW c \in Cmdline
      PROVE  /\ got[c] \subseteq Pid /\ \A p \in got[c] : leader[p] = "unused"
             /\ IsFiniteSet(got[c]) /\ Cardinality(got[c]) \in Nat /\ Cardinality(got[c]) <= n[c]
  <2>1. got[c] \subseteq Pid /\ \A p \in got[c] : leader[p] = "unused"
    BY <1>1
  <2>2. IsFiniteSet(got[c])
    BY <2>1, AutostartAssumption, FS_Subset
  <2>3. Cardinality(got[c]) \in Nat
    BY <2>2, FS_CardinalityType
  <2> QED BY <1>1, <2>1, <2>2, <2>3
<1> QED BY <1>1, <1>2

\* What a command line has when some of its live entries are kept and the pids of
\* got are added.
Mixed(c, kept, got) ==
  /\ procs'[c] \in Seq(Entry)
  /\ Len(procs'[c]) = Len(kept) + Cardinality(got)
  /\ NoneTwice(procs'[c])
  /\ Pids(procs'[c]) = ToSet(kept) \cup got

LEMMA KeptAndGot ==
  ASSUME NEW c \in Cmdline, NEW kept \in Seq(Pid), IsInjective(kept),
         NEW got \in SUBSET Pid, IsFiniteSet(got), ToSet(kept) \cap got = {},
         procs'[c] = kept \o SetToSeq(got)
  PROVE  Mixed(c, kept, got)
<1> DEFINE s == SetToSeq(got)
           q == kept \o s
<1>1. s \in Seq(got) /\ Len(s) = Cardinality(got) /\ IsInjective(s) /\ ToSet(s) = got
  BY SetToSeqLists
<1> HIDE DEF s
<1>2. s \in Seq(Pid)
  BY <1>1, SeqMonotonic
<1>3. /\ Len(kept) \in Nat /\ Len(s) \in Nat
      /\ DOMAIN kept = 1..Len(kept) /\ DOMAIN s = 1..Len(s)
  BY <1>2
<1>4. /\ q \in Seq(Pid) /\ Len(q) = Len(kept) + Len(s) /\ DOMAIN q = 1..Len(q)
      /\ \A i \in 1..Len(kept) : q[i] = kept[i]
      /\ \A i \in 1..Len(s) : q[Len(kept) + i] = s[i]
  BY <1>2, <1>3, ConcatProperties
<1> HIDE DEF q
<1>5. ASSUME NEW i \in 1..Len(q)
      PROVE  i \in 1..Len(kept) \/ \E k \in 1..Len(s) : i = Len(kept) + k
  <2>1. CASE i > Len(kept)
    <3>1. i - Len(kept) \in 1..Len(s) /\ i = Len(kept) + (i - Len(kept))
      BY <1>3, <1>4, <2>1
    <3> QED BY <3>1
  <2> QED BY <1>3, <2>1
<1>6. ToSet(q) = ToSet(kept) \cup got
  <2>1. ASSUME NEW i \in 1..Len(q) PROVE q[i] \in ToSet(kept) \cup got
    <3>1. CASE i \in 1..Len(kept)
      BY <1>3, <1>4, <3>1 DEF ToSet
    <3>2. CASE \E k \in 1..Len(s) : i = Len(kept) + k
      BY <1>1, <1>3, <1>4, <3>2 DEF ToSet
    <3> QED BY <1>5, <3>1, <3>2
  <2>2. ASSUME NEW p \in ToSet(kept) PROVE p \in ToSet(q)
    <3>1. PICK i \in 1..Len(kept) : p = kept[i]
      BY <1>3 DEF ToSet
    <3>2. i \in 1..Len(q) /\ q[i] = p
      BY <1>3, <1>4, <3>1
    <3> QED BY <1>4, <3>2 DEF ToSet
  <2>3. ASSUME NEW p \in got PROVE p \in ToSet(q)
    <3>1. PICK i \in 1..Len(s) : p = s[i]
      BY <1>1, <1>3 DEF ToSet
    <3>2. Len(kept) + i \in 1..Len(q) /\ q[Len(kept) + i] = p
      BY <1>3, <1>4, <3>1
    <3> QED BY <1>4, <3>2 DEF ToSet
  <2>4. ToSet(q) = {q[i] : i \in 1..Len(q)}
    BY <1>4 DEF ToSet
  <2> QED BY <2>1, <2>2, <2>3, <2>4
<1>7. ASSUME NEW i \in 1..Len(q), NEW j \in 1..Len(q), i # j PROVE q[i] # q[j]
  <2>1. \A k, l \in 1..Len(kept) : kept[k] = kept[l] => k = l
    BY <1>3 DEF IsInjective
  <2>2. \A k, l \in 1..Len(s) : s[k] = s[l] => k = l
    BY <1>1, <1>3 DEF IsInjective
  <2>3. \A k \in 1..Len(kept) : kept[k] \in ToSet(kept)
    BY <1>3 DEF ToSet
  <2>4. \A k \in 1..Len(s) : s[k] \in got
    BY <1>1, <1>3 DEF ToSet
  <2>5. CASE i \in 1..Len(kept) /\ j \in 1..Len(kept)
    BY <1>4, <1>7, <2>1, <2>5
  <2>6. CASE i \in 1..Len(kept) /\ \E k \in 1..Len(s) : j = Len(kept) + k
    BY <1>4, <2>3, <2>4, <2>6
  <2>7. CASE j \in 1..Len(kept) /\ \E k \in 1..Len(s) : i = Len(kept) + k
    BY <1>4, <2>3, <2>4, <2>7
  <2>8. CASE (\E k \in 1..Len(s) : i = Len(kept) + k) /\ \E k \in 1..Len(s) : j = Len(kept) + k
    <3>1. PICK k \in 1..Len(s), l \in 1..Len(s) : i = Len(kept) + k /\ j = Len(kept) + l
      BY <2>8
    <3>2. k # l /\ q[i] = s[k] /\ q[j] = s[l]
      BY <1>3, <1>4, <1>7, <3>1
    <3> QED BY <2>2, <3>2
  <2> QED BY <1>5, <2>5, <2>6, <2>7, <2>8
<1>8. q \in Seq(Entry)
  <2>1. Pid \subseteq Entry
    BY DEF Entry
  <2> QED BY <1>4, <2>1, SeqMonotonic
<1>9. NoPid \notin ToSet(q)
  BY <1>4, AutostartAssumption, ElementOfSeq DEF ToSet
<1>10. procs'[c] = q
  BY DEF q, s
<1>11. NoneTwice(q)
  BY <1>4, <1>7 DEF NoneTwice
<1> QED BY <1>1, <1>4, <1>6, <1>8, <1>9, <1>10, <1>11 DEF Mixed, Pids

-----------------------------------------------------------------------------
(* The steps.                                                              *)

\* What is kept of the entries of the command lines, and what was started for
\* them, fits the list and is waited for.
Fits(kept, got, waited) ==
  /\ \A c \in Cmdline :
       /\ kept[c] \in Seq(Pid) /\ IsInjective(kept[c])
       /\ ToSet(kept[c]) \subseteq (Pids(procs[c]) \ dead) \cap waited
       /\ got[c] \subseteq Pid /\ \A p \in got[c] : leader[p] = "unused"
       /\ IsFiniteSet(got[c]) /\ Len(kept[c]) + Cardinality(got[c]) <= cfg'[c]
  /\ \A c, d \in Cmdline : c # d => got[c] \cap got[d] = {}
  /\ waited \subseteq Pid /\ \A p \in waited : leader[p] # "unused"

LEMMA Tracking ==
  ASSUME AutostartInv, dead' = dead, NEW kept, NEW got, NEW waited, Fits(kept, got, waited),
         procs' = [c \in Cmdline |-> kept[c] \o SetToSeq(got[c])], Run(got, waited)
  PROVE  /\ procs' \in [Cmdline -> Seq(Pid \cup {NoPid})]
         /\ leader' \in [Pid -> {"unused", "running", "exited"}] /\ reapers' \subseteq Pid
         /\ TrackedWithinConfig' /\ ExitsAreNoticed'
         /\ \A c \in Cmdline : ToSet(kept[c]) \subseteq Tracked'
         /\ \A p \in Pid : leader[p] # "unused" => leader'[p] = leader[p]
         /\ \A p \in Pid : leader'[p] = "unused" => leader[p] = "unused" /\ p \notin Tracked' \cup reapers'
         /\ \A p \in Pid : leader'[p] = "running" => leader[p] = "running" \/ p \in Tracked'
<1> DEFINE new == UNION {got[c] : c \in Cmdline}
<1>0. TypeOK /\ TrackedWithinConfig /\ ExitsAreNoticed /\ PidsInv
  BY DEF AutostartInv
<1>1. ASSUME NEW c \in Cmdline PROVE Mixed(c, kept[c], got[c])
  <2>1. kept[c] \in Seq(Pid) /\ IsInjective(kept[c]) /\ got[c] \in SUBSET Pid /\ IsFiniteSet(got[c])
    BY DEF Fits
  <2>2. ToSet(kept[c]) \cap got[c] = {}
    BY DEF Fits
  <2>3. procs'[c] = kept[c] \o SetToSeq(got[c])
    OBVIOUS
  <2> QED BY <2>1, <2>2, <2>3, KeptAndGot
<1>2. /\ new \subseteq Pid /\ \A p \in new : leader[p] = "unused"
      /\ \A c \in Cmdline : \A p \in got[c] : p \in new
      /\ \A p \in new : \E c \in Cmdline : p \in got[c]
  BY DEF Fits
<1>3. /\ leader' = [p \in Pid |-> IF p \in new THEN "running" ELSE leader[p]]
      /\ reapers' = waited \cup new
  BY DEF Run
<1> HIDE DEF new
<1>4. procs' \in [Cmdline -> Seq(Entry)]
  BY <1>1 DEF Mixed
<1>5. leader' \in [Pid -> {"unused", "running", "exited"}] /\ reapers' \subseteq Pid
  BY <1>0, <1>2, <1>3 DEF TypeOK, Fits
<1>6. Tracked' = UNION {ToSet(kept[c]) \cup got[c] : c \in Cmdline}
  <2>1. \A c \in Cmdline : Pids(procs'[c]) = ToSet(kept[c]) \cup got[c]
    BY <1>1 DEF Mixed
  <2>2. Tracked' = UNION {Pids(procs'[c]) : c \in Cmdline}
    BY DEF Tracked, Pids
  <2> QED BY <2>1, <2>2
<1>7. /\ \A c \in Cmdline : ToSet(kept[c]) \subseteq Tracked'
      /\ new \subseteq Tracked'
      /\ \A p \in Tracked' : p \in new \/ (p \in Tracked /\ p \notin dead /\ p \in waited)
  <2>1. \A c \in Cmdline : ToSet(kept[c]) \subseteq (Tracked \ dead) \cap waited
    BY DEF Fits, Tracked
  <2> QED BY <1>2, <1>6, <2>1
<1>8. TrackedWithinConfig'
  <2>1. ASSUME NEW c \in Cmdline PROVE Len(procs'[c]) <= cfg'[c] /\ NoneTwice(procs'[c])
    <3>1. Len(procs'[c]) = Len(kept[c]) + Cardinality(got[c]) /\ NoneTwice(procs'[c])
      BY <1>1, Zenon DEF Mixed
    <3>2. Len(kept[c]) + Cardinality(got[c]) <= cfg'[c]
      BY DEF Fits
    <3> QED BY <3>1, <3>2
  <2>2. ASSUME NEW c \in Cmdline, NEW d \in Cmdline \ {c} PROVE Pids(procs'[c]) \cap Pids(procs'[d]) = {}
    <3>1. Pids(procs[c]) \cap Pids(procs[d]) = {}
      BY <1>0 DEF TrackedWithinConfig
    <3>2. \A p \in Pids(procs[c]) \cup Pids(procs[d]) : leader[p] # "unused"
      <4>1. \A p \in Pids(procs[c]) \cup Pids(procs[d]) : p \in Tracked
        BY DEF Tracked
      <4>2. Tracked \subseteq Pid
        BY <1>0, TrackedIs
      <4> QED BY <1>0, <4>1, <4>2 DEF PidsInv
    <3>3. /\ Pids(procs'[c]) = ToSet(kept[c]) \cup got[c] /\ ToSet(kept[c]) \subseteq Pids(procs[c])
          /\ Pids(procs'[d]) = ToSet(kept[d]) \cup got[d] /\ ToSet(kept[d]) \subseteq Pids(procs[d])
      BY <1>1 DEF Mixed, Fits
    <3>4. /\ \A p \in got[c] \cup got[d] : leader[p] = "unused"
          /\ got[c] \cap got[d] = {}
      BY DEF Fits
    <3> QED BY <3>1, <3>2, <3>3, <3>4
  <2>3. \A c \in Cmdline : /\ Len(procs'[c]) <= cfg'[c]
                           /\ NoneTwice(procs'[c])
                           /\ \A d \in Cmdline \ {c} : Pids(procs'[c]) \cap Pids(procs'[d]) = {}
    BY <2>1, <2>2
  <2> QED BY <2>3 DEF TrackedWithinConfig, NoneTwice, Pids
<1>9. ExitsAreNoticed'
  <2>1. ASSUME NEW p \in Tracked' PROVE p \notin dead /\ p \in reapers'
    <3>1. p \in new => p \notin dead
      BY <1>0, <1>2 DEF PidsInv
    <3> QED BY <1>3, <1>7, <3>1
  <2> QED BY <2>1 DEF ExitsAreNoticed
<1>10. ASSUME NEW p \in Pid
       PROVE  /\ leader[p] # "unused" => leader'[p] = leader[p]
              /\ leader'[p] = "unused" => leader[p] = "unused" /\ p \notin Tracked' \cup reapers'
              /\ leader'[p] = "running" => leader[p] = "running" \/ p \in Tracked'
  <2>1. leader'[p] = IF p \in new THEN "running" ELSE leader[p]
    BY <1>3
  <2>2. p \in waited => leader[p] # "unused"
    BY DEF Fits
  <2> QED BY <1>2, <1>3, <1>7, <2>1, <2>2
<1> QED BY <1>4, <1>5, <1>7, <1>8, <1>9, <1>10 DEF Entry

\* Reconciling with the list new, from the entries tracked or from a handoff.
LEMMA SyncKeeps ==
  ASSUME AutostartInv, dead' = dead, NEW new \in Config, cfg' = new,
         NEW entries, Mirrors(entries), NEW waited, NEW waiting,
         waited \subseteq Pid, \A p \in waited : leader[p] # "unused",
         \A p \in Tracked : p \in dead \/ p \in waited,
         waiting \subseteq killers,
         Sync(entries, cfg, new, waited, waiting),
         phase' \in {"waiting", "up"}, restarts' \in 0..MaxRestarts, member' = member,
         ~(phase' = "waiting" /\ restarts' = 0)
  PROVE  AutostartInv'
<1> DEFINE k == [c \in Cmdline |-> Minus(cfg[c], new[c])]
           kept == [c \in Cmdline |-> keptLive(entries[c], k[c])]
           tries == [c \in Cmdline |-> Minus(new[c], cfg[c]) + keptDead(entries[c], k[c])]
           doomed == UNION {takenLive(entries[c], k[c]) : c \in Cmdline}
<1>0. TypeOK /\ TrackedWithinConfig /\ NoStrayProcess /\ PidsInv
  BY DEF AutostartInv
<1>1. PICK got \in Started(tries) :
        /\ asked' = asked \cup doomed /\ killers' = waiting \cup doomed
        /\ procs' = [c \in Cmdline |-> kept[c] \o SetToSeq(got[c])]
        /\ Run(got, waited)
  <2>1. \A c \in Cmdline : /\ DiffExecs(cfg, new).kill[c] = k[c]
                           /\ DiffExecs(cfg, new).spawn[c] = Minus(new[c], cfg[c])
    BY DEF DiffExecs
  <2>2. kept = [c \in Cmdline |-> keptLive(entries[c], DiffExecs(cfg, new).kill[c])]
    BY <2>1
  <2>3. tries = [c \in Cmdline |-> DiffExecs(cfg, new).spawn[c]
                                   + keptDead(entries[c], DiffExecs(cfg, new).kill[c])]
    BY <2>1
  <2>4. doomed = UNION {takenLive(entries[c], DiffExecs(cfg, new).kill[c]) : c \in Cmdline}
    BY <2>1
  <2> HIDE DEF k, kept, tries, doomed
  <2> QED BY <2>2, <2>3, <2>4, Zenon DEF Sync, terminate
<1>2. ASSUME NEW c \in Cmdline
      PROVE  /\ entries[c] \in Seq(Entry) /\ k[c] \in Nat /\ tries[c] \in Nat
             /\ Len(kept[c]) + tries[c] <= new[c] /\ new[c] \in Nat /\ Len(kept[c]) \in Nat
  <2>1. cfg[c] \in Nat /\ new[c] \in Nat
    BY <1>0, AutostartAssumption DEF TypeOK, Config
  <2>2. entries[c] \in Seq(Entry) /\ Len(entries[c]) <= cfg[c]
    BY <1>0 DEF Mirrors, TrackedWithinConfig
  <2>3. /\ k[c] = Minus(cfg[c], new[c]) /\ kept[c] = keptLive(entries[c], k[c])
        /\ tries[c] = Minus(new[c], cfg[c]) + keptDead(entries[c], k[c])
    OBVIOUS
  <2> HIDE DEF k, kept, tries
  <2>4. /\ k[c] \in Nat /\ Minus(new[c], cfg[c]) \in Nat /\ keptDead(entries[c], k[c]) \in Nat
        /\ Len(kept[c]) + (Minus(new[c], cfg[c]) + keptDead(entries[c], k[c])) <= new[c]
    BY <2>1, <2>2, <2>3, KeptAndTried
  <2>5. kept[c] \in Seq(Pid)
    BY <2>2, <2>3, <2>4, KeptLiveIs
  <2> QED BY <2>1, <2>2, <2>3, <2>4, <2>5
<1>3. ASSUME NEW c \in Cmdline
      PROVE  /\ takenLive(entries[c], k[c]) \subseteq Pids(procs[c]) \ dead
             /\ ToSet(kept[c]) \subseteq Pids(procs[c]) \ dead
             /\ kept[c] \in Seq(Pid) /\ IsInjective(kept[c])
             /\ \A p \in Pids(procs[c]) \ dead : p \in takenLive(entries[c], k[c]) \cup ToSet(kept[c])
  <2> DEFINE q == entries[c]
             s == procs[c]
             t == takenLive(q, k[c])
             r == keptLive(q, k[c])
  <2>1. /\ q \in Seq(Entry) /\ k[c] \in Nat /\ kept[c] = r
    BY <1>2
  <2>2. /\ Len(q) = Len(s) /\ s \in Seq(Entry)
        /\ \A i \in 1..Len(s) : q[i] = s[i] \/ (q[i] = NoPid /\ isDead(s[i]))
    BY <1>0, TrackedIs DEF Mirrors
  <2>3. DOMAIN q = 1..Len(q) /\ DOMAIN s = 1..Len(q)
    BY <2>1, <2>2
  <2>4. NoneTwice(q)
    <3>1. \A i, j \in 1..Len(q) : i # j => s[i] # s[j] \/ s[i] = NoPid
      BY <1>0, <2>3 DEF TrackedWithinConfig
    <3> HIDE DEF q, s
    <3>2. \A i, j \in 1..Len(q) : i # j => q[i] # q[j] \/ q[i] = NoPid
      BY <2>2, <3>1
    <3> QED BY <2>3, <3>2 DEF NoneTwice
  <2>5. r \in Seq(Pid) /\ IsInjective(r)
    BY <2>1, <2>4, KeptLiveIs, KeptOnce
  <2>6. /\ \A p \in t : p \in Pid \ dead /\ \E i \in 1..Len(q) : p = q[i]
        /\ \A j \in 1..Len(r) : r[j] \in Pid \ dead /\ \E i \in 1..Len(q) : r[j] = q[i]
        /\ \A i \in 1..Len(q) : ~isDead(q[i]) => q[i] \in t \/ \E j \in 1..Len(r) : r[j] = q[i]
    BY <2>1, TakenOrKept
  <2>7. ToSet(r) = {r[j] : j \in 1..Len(r)}
    BY <2>5 DEF ToSet
  <2>8. \A p : p \in Pids(s) <=> p # NoPid /\ \E i \in 1..Len(s) : p = s[i]
    BY <2>2, <2>3 DEF Pids, ToSet
  <2> HIDE DEF q, s, t, r
  <2>9. \A p \in Pid \ dead : (\E i \in 1..Len(q) : p = q[i]) => p \in Pids(s) \ dead
    BY <2>2, <2>8, AutostartAssumption
  <2>10. t \subseteq Pids(s) \ dead /\ ToSet(r) \subseteq Pids(s) \ dead
    BY <2>6, <2>7, <2>9
  <2>11. ASSUME NEW p \in Pids(s) \ dead PROVE p \in t \cup ToSet(r)
    <3>1. PICK i \in 1..Len(s) : p = s[i] /\ p # NoPid
      BY <2>8
    <3>2. q[i] = p /\ ~isDead(q[i])
      BY <2>2, <3>1 DEF isDead
    <3>3. i \in 1..Len(q)
      BY <2>2, <3>1
    <3>4. p \in t \/ \E j \in 1..Len(r) : r[j] = p
      BY <2>6, <3>2, <3>3
    <3> QED BY <2>7, <3>4
  <2> QED BY <2>1, <2>5, <2>10, <2>11 DEF q, s, t, r
<1>4. /\ doomed \subseteq Tracked \ dead
      /\ \A p \in Tracked \ dead : p \in doomed \/ \E c \in Cmdline : p \in ToSet(kept[c])
  BY <1>3 DEF Tracked
<1>5. /\ \A c \in Cmdline :
           /\ got[c] \subseteq Pid /\ \A p \in got[c] : leader[p] = "unused"
           /\ IsFiniteSet(got[c]) /\ Cardinality(got[c]) \in Nat /\ Cardinality(got[c]) <= tries[c]
      /\ \A c, d \in Cmdline : c # d => got[c] \cap got[d] = {}
  <2>1. \A c \in Cmdline : tries[c] \in Nat
    BY <1>2
  <2> HIDE DEF tries
  <2> QED BY <2>1, StartedIs
<1> HIDE DEF kept, tries, doomed, k
<1>6. Fits(kept, got, waited)
  <2>1. ASSUME NEW c \in Cmdline PROVE Len(kept[c]) + Cardinality(got[c]) <= cfg'[c]
    BY <1>2, <1>5
  <2>2. ASSUME NEW c \in Cmdline PROVE ToSet(kept[c]) \subseteq (Pids(procs[c]) \ dead) \cap waited
    <3>1. Pids(procs[c]) \subseteq Tracked
      BY DEF Tracked
    <3> QED BY <1>3, <3>1
  <2> QED BY <1>3, <1>5, <2>1, <2>2 DEF Fits
<1>7. /\ procs' \in [Cmdline -> Seq(Pid \cup {NoPid})]
      /\ leader' \in [Pid -> {"unused", "running", "exited"}] /\ reapers' \subseteq Pid
      /\ TrackedWithinConfig' /\ ExitsAreNoticed'
      /\ \A c \in Cmdline : ToSet(kept[c]) \subseteq Tracked'
      /\ \A p \in Pid : leader[p] # "unused" => leader'[p] = leader[p]
      /\ \A p \in Pid : leader'[p] = "unused" => leader[p] = "unused" /\ p \notin Tracked' \cup reapers'
      /\ \A p \in Pid : leader'[p] = "running" => leader[p] = "running" \/ p \in Tracked'
  BY <1>1, <1>6, Tracking
<1>8. Tracked \subseteq Pid
  BY <1>0, TrackedIs
<1>9. TypeOK'
  BY <1>0, <1>1, <1>4, <1>7, <1>8 DEF TypeOK
<1>10. NoStrayProcess'
  <2>1. ASSUME NEW p \in Pid, leader'[p] = "running", p \notin Tracked' PROVE p \in asked'
    <3>1. leader[p] = "running"
      BY <1>7, <2>1
    <3>2. p \in Tracked \/ p \in asked
      BY <1>0, <3>1 DEF NoStrayProcess
    <3>3. p \notin dead
      BY <1>0, <3>1 DEF PidsInv
    <3> QED BY <1>1, <1>4, <1>7, <2>1, <3>2, <3>3
  <2> QED BY <2>1 DEF NoStrayProcess
<1>11. PidsInv'
  <2>1. ASSUME NEW p \in Pid, leader'[p] = "unused" PROVE p \notin Tracked' \cup dead' \cup reapers' \cup killers'
    <3>1. leader[p] = "unused" /\ p \notin Tracked' \cup reapers'
      BY <1>7, <2>1
    <3>2. p \notin Tracked /\ p \notin dead /\ p \notin killers
      BY <1>0, <3>1 DEF PidsInv
    <3> QED BY <1>1, <1>4, <3>1, <3>2
  <2>2. \A p \in dead' : leader'[p] = "exited"
    BY <1>0, <1>7 DEF PidsInv, TypeOK
  <2> QED BY <2>1, <2>2 DEF PidsInv
<1> QED BY <1>7, <1>9, <1>10, <1>11 DEF AutostartInv

LEMMA StartKeeps == ASSUME AutostartInv, Start PROVE AutostartInv'
<1>0. TypeOK /\ TrackedWithinConfig /\ NoStrayProcess /\ PidsInv
  BY DEF AutostartInv
<1>1. CASE restarts = 0
  <2> DEFINE kept == [c \in Cmdline |-> <<>>]
  <2>1. PICK got \in Started(cfg) :
          procs' = [c \in Cmdline |-> SetToSeq(got[c])] /\ Run(got, {})
    BY <1>1 DEF Start
  <2>2. /\ phase = "waiting" /\ phase' = "up"
        /\ UNCHANGED <<restarts, cfg, member, asked, dead, killers>>
    BY DEF Start
  <2>3. \A p \in Pid : leader[p] = "unused"
    BY <1>0, <1>1, <2>2 DEF PidsInv
  <2>4. \A c \in Cmdline : cfg[c] \in Nat
    BY <1>0, AutostartAssumption DEF TypeOK, Config
  <2>5. /\ \A c \in Cmdline :
             /\ got[c] \subseteq Pid /\ \A p \in got[c] : leader[p] = "unused"
             /\ IsFiniteSet(got[c]) /\ Cardinality(got[c]) \in Nat /\ Cardinality(got[c]) <= cfg[c]
        /\ \A c, d \in Cmdline : c # d => got[c] \cap got[d] = {}
    BY <2>4, StartedIs
  <2>6. \A c \in Cmdline : kept[c] = <<>>
    OBVIOUS
  <2> HIDE DEF kept
  <2>7. \A c \in Cmdline : kept[c] \o SetToSeq(got[c]) = SetToSeq(got[c])
    BY <2>5, <2>6, SetToSeqLists, ConcatEmptySeq
  <2>8. procs' = [c \in Cmdline |-> kept[c] \o SetToSeq(got[c])]
    BY <2>1, <2>7
  <2>9. Len(<<>>) = 0 /\ <<>> \in Seq(Pid) /\ IsInjective(<<>>) /\ ToSet(<<>>) = {}
    BY DEF IsInjective, ToSet
  <2>10. ASSUME NEW c \in Cmdline
         PROVE  /\ Len(kept[c]) + Cardinality(got[c]) <= cfg'[c]
                /\ kept[c] \in Seq(Pid) /\ IsInjective(kept[c]) /\ ToSet(kept[c]) = {}
    <3>1. Len(kept[c]) = 0 /\ kept[c] \in Seq(Pid) /\ IsInjective(kept[c]) /\ ToSet(kept[c]) = {}
      BY <2>6, <2>9, Zenon
    <3>2. cfg'[c] = cfg[c]
      BY <2>2
    <3> QED BY <2>5, <3>1, <3>2
  <2>11. Fits(kept, got, {})
    BY <2>5, <2>10 DEF Fits
  <2>12. /\ procs' \in [Cmdline -> Seq(Pid \cup {NoPid})]
         /\ leader' \in [Pid -> {"unused", "running", "exited"}] /\ reapers' \subseteq Pid
         /\ TrackedWithinConfig' /\ ExitsAreNoticed'
         /\ \A p \in Pid : leader'[p] = "unused" => leader[p] = "unused" /\ p \notin Tracked' \cup reapers'
         /\ \A p \in Pid : leader'[p] = "running" => leader[p] = "running" \/ p \in Tracked'
    BY <2>1, <2>2, <2>8, <2>11, Tracking
  <2>13. TypeOK'
    BY <1>0, <2>2, <2>12 DEF TypeOK
  <2>14. NoStrayProcess'
    BY <2>3, <2>12 DEF NoStrayProcess
  <2>15. PidsInv'
    BY <1>0, <2>2, <2>3, <2>12 DEF PidsInv, TypeOK
  <2> QED BY <2>12, <2>13, <2>14, <2>15 DEF AutostartInv
<1>2. CASE restarts # 0
  <2>1. /\ phase' = "up"
        /\ UNCHANGED <<restarts, cfg, procs, leader, member, asked, dead, reapers, killers>>
    BY <1>2 DEF Start
  <2> QED BY <2>1 DEF AutostartInv, TypeOK, TrackedWithinConfig, NoStrayProcess, ExitsAreNoticed, PidsInv,
                      Tracked, Pids, Config
<1> QED BY <1>1, <1>2

LEMMA ReloadKeeps == ASSUME AutostartInv, Reload PROVE AutostartInv'
<1>1. TypeOK /\ PidsInv /\ ExitsAreNoticed
  BY DEF AutostartInv
<1>2. Mirrors(procs) /\ Tracked \subseteq Pid
  BY <1>1, TheyMirror, TrackedIs
<1>3. PICK new \in Config : cfg' = new /\ Sync(procs, cfg, new, reapers, killers)
  BY DEF Reload
<1>4. phase' = "up" /\ UNCHANGED <<restarts, member, dead>>
  BY DEF Reload
<1>5. reapers \subseteq Pid /\ \A p \in reapers : leader[p] # "unused"
  BY <1>1 DEF TypeOK, PidsInv
<1>6. \A p \in Tracked : p \in dead \/ p \in reapers
  BY <1>1 DEF ExitsAreNoticed
<1> QED BY <1>1, <1>2, <1>3, <1>4, <1>5, <1>6, SyncKeeps DEF TypeOK

LEMMA RestartKeeps == ASSUME AutostartInv, Restart PROVE AutostartInv'
<1> DEFINE adopted == UNION {Pids(Entries[c]) : c \in Cmdline}
<1>1. TypeOK /\ PidsInv
  BY DEF AutostartInv
<1>2. Mirrors(Entries) /\ Tracked \subseteq Pid
  BY <1>1, TheyMirror, TrackedIs
<1>3. PICK new \in Config : cfg' = new /\ Sync(Entries, cfg, new, adopted, {})
  BY DEF Restart
<1>4. /\ restarts < MaxRestarts /\ restarts' = restarts + 1 /\ phase' = "waiting"
      /\ UNCHANGED <<member, dead>>
  BY DEF Restart
<1>5. restarts' \in 0..MaxRestarts /\ restarts' # 0
  BY <1>1, <1>4, AutostartAssumption DEF TypeOK
<1>6. ASSUME NEW c \in Cmdline PROVE Pids(Entries[c]) = Pids(procs[c]) \ dead
  <2> DEFINE q == procs[c]
             e == Entries[c]
  <2>1. q \in Seq(Entry) /\ e \in Seq(Entry) /\ Len(e) = Len(q)
    BY <1>1, <1>2, TrackedIs DEF Mirrors
  <2>2. DOMAIN q = 1..Len(q) /\ DOMAIN e = 1..Len(q)
    BY <2>1
  <2>3. \A i \in 1..Len(q) : e[i] = IF isDead(q[i]) THEN NoPid ELSE q[i]
    BY <2>2 DEF Entries
  <2> HIDE DEF q, e
  <2>4. Pids(e) = Pids(q) \ dead
    BY <2>2, <2>3 DEF Pids, ToSet, isDead
  <2> QED BY <2>4 DEF q, e
<1>7. adopted = Tracked \ dead
  BY <1>6 DEF Tracked
<1> HIDE DEF adopted
<1>8. adopted \subseteq Pid /\ \A p \in adopted : leader[p] # "unused"
  BY <1>1, <1>2, <1>7 DEF PidsInv
<1> QED BY <1>2, <1>3, <1>4, <1>5, <1>7, <1>8, SyncKeeps

LEMMA AutostartInvKept == AutostartInv /\ [Next]_vars => AutostartInv'
<1> SUFFICES ASSUME AutostartInv, [Next]_vars PROVE AutostartInv'
  OBVIOUS
<1>0. TypeOK /\ TrackedWithinConfig /\ NoStrayProcess /\ ExitsAreNoticed /\ PidsInv
  BY DEF AutostartInv
\* The steps of the goroutines and the processes leave the list alone.
<1>1. ASSUME UNCHANGED <<phase, restarts, cfg, procs>>
      PROVE  Tracked' = Tracked /\ TrackedWithinConfig' = TrackedWithinConfig
  BY <1>1 DEF Tracked, Pids, TrackedWithinConfig
<1>2. CASE UNCHANGED vars
  BY <1>0, <1>1, <1>2 DEF vars, AutostartInv, TypeOK, Config, NoStrayProcess, ExitsAreNoticed, PidsInv
<1>3. ASSUME NEW p \in Pid, Reap(p) PROVE AutostartInv'
  <2>1. /\ p \in reapers /\ leader[p] = "exited" /\ dead' = dead \cup {p} /\ reapers' = reapers \ {p}
        /\ UNCHANGED <<phase, restarts, cfg, procs, leader, member, asked, killers>>
    BY <1>3 DEF Reap
  <2>2. TypeOK' /\ NoStrayProcess'
    BY <1>0, <1>1, <2>1 DEF TypeOK, Config, NoStrayProcess
  <2>3. ExitsAreNoticed' /\ PidsInv'
    BY <1>0, <1>1, <2>1 DEF ExitsAreNoticed, PidsInv
  <2> QED BY <1>0, <1>1, <2>1, <2>2, <2>3 DEF AutostartInv
<1>4. ASSUME NEW p \in Pid, GraceEnds(p) \/ LeaderExits(p) \/ LeaderForks(p) \/ MemberExits(p)
      PROVE  AutostartInv'
  <2>1. /\ UNCHANGED <<phase, restarts, cfg, procs, asked, dead, reapers>>
        /\ killers' \subseteq killers /\ member' \subseteq member \cup {p}
        /\ leader' = leader \/ (leader' = [leader EXCEPT ![p] = "exited"] /\ leader[p] # "unused")
    BY <1>0, <1>4 DEF GraceEnds, LeaderExits, LeaderForks, MemberExits, PidsInv
  <2>2. /\ leader' \in [Pid -> {"unused", "running", "exited"}]
        /\ \A r \in Pid : leader'[r] = "unused" <=> leader[r] = "unused"
        /\ \A r \in Pid : leader'[r] = "running" => leader[r] = "running"
        /\ \A r \in Pid : leader[r] = "exited" => leader'[r] = "exited"
    BY <1>0, <2>1 DEF TypeOK
  <2>3. TypeOK' /\ NoStrayProcess'
    BY <1>0, <1>1, <2>1, <2>2 DEF TypeOK, Config, NoStrayProcess
  <2>4. ExitsAreNoticed' /\ PidsInv'
    BY <1>0, <1>1, <2>1, <2>2 DEF ExitsAreNoticed, PidsInv, TypeOK
  <2> QED BY <1>0, <1>1, <2>1, <2>3, <2>4 DEF AutostartInv
<1> QED BY <1>2, <1>3, <1>4, StartKeeps, ReloadKeeps, RestartKeeps DEF Next

LEMMA AutostartInvStart == Init => AutostartInv
<1> SUFFICES ASSUME Init PROVE AutostartInv
  OBVIOUS
<1>1. /\ procs = [c \in Cmdline |-> <<>>] /\ leader = [p \in Pid |-> "unused"]
      /\ phase = "waiting" /\ restarts = 0 /\ cfg \in Config
      /\ member = {} /\ asked = {} /\ dead = {} /\ reapers = {} /\ killers = {}
  BY DEF Init
<1>2. Len(<<>>) = 0 /\ <<>> \in Seq(Pid \cup {NoPid}) /\ DOMAIN <<>> = {} /\ Pids(<<>>) = {}
  BY DEF Pids, ToSet
<1>3. \A c \in Cmdline : procs[c] = <<>>
  BY <1>1
<1>4. procs \in [Cmdline -> Seq(Pid \cup {NoPid})]
  BY <1>1, <1>2
<1>5. TypeOK
  BY <1>1, <1>4, AutostartAssumption DEF TypeOK
<1>6. TrackedWithinConfig
  <2>1. \A c \in Cmdline : Len(procs[c]) = 0 /\ DOMAIN procs[c] = {} /\ Pids(procs[c]) = {}
    BY <1>2, <1>3, Zenon
  <2>2. \A c \in Cmdline : cfg[c] \in Nat
    BY <1>1, AutostartAssumption DEF Config
  <2>3. ASSUME NEW c \in Cmdline PROVE Len(procs[c]) <= cfg[c]
    BY <2>1, <2>2
  <2>4. ASSUME NEW c \in Cmdline, NEW i \in DOMAIN procs[c] PROVE FALSE
    BY <2>1
  <2>5. ASSUME NEW c \in Cmdline, NEW d \in Cmdline PROVE Pids(procs[c]) \cap Pids(procs[d]) = {}
    BY <2>1
  <2> QED BY <2>3, <2>4, <2>5, Zenon DEF TrackedWithinConfig
<1>7. Tracked = {}
  <2>1. \A c \in Cmdline : Pids(procs[c]) = {}
    BY <1>2, <1>3, Zenon
  <2> QED BY <2>1 DEF Tracked
<1> QED BY <1>1, <1>5, <1>6, <1>7 DEF AutostartInv, NoStrayProcess, ExitsAreNoticed, PidsInv

-----------------------------------------------------------------------------

\* However often the list is reloaded and wimy restarted, every variable keeps its
\* type: the entries are pids, and no restart is counted that the code has not.
THEOREM AutostartTypes == Spec => []TypeOK
<1>1. AutostartInv => TypeOK
  BY DEF AutostartInv
<1> QED BY <1>1, AutostartInvStart, AutostartInvKept, PTL DEF Spec

\* However often the list is reloaded, whatever dies or fails to start, and over
\* every restart in place: wimy tracks no more processes of a command line than
\* its list has, and none twice.
THEOREM AlwaysTrackedWithinConfig == Spec => []TrackedWithinConfig
<1>1. AutostartInv => TrackedWithinConfig
  BY DEF AutostartInv
<1> QED BY <1>1, AutostartInvStart, AutostartInvKept, PTL DEF Spec

\* What wimy has started and still runs is tracked or was told to end.
THEOREM NoProcessStrays == Spec => []NoStrayProcess
<1>1. AutostartInv => NoStrayProcess
  BY DEF AutostartInv
<1> QED BY <1>1, AutostartInvStart, AutostartInvKept, PTL DEF Spec

\* A tracked process that has exited is known to be dead or waited for.
THEOREM EveryExitIsNoticed == Spec => []ExitsAreNoticed
<1>1. AutostartInv => ExitsAreNoticed
  BY DEF AutostartInv
<1> QED BY <1>1, AutostartInvStart, AutostartInvKept, PTL DEF Spec

-----------------------------------------------------------------------------
(* What a step ends.                                                       *)

LEMMA TakenAreTracked ==
  ASSUME TypeOK, NEW c \in Cmdline, NEW entries, Mirrors(entries), NEW k \in Nat
  PROVE  /\ takenLive(entries[c], k) \subseteq Pids(procs[c])
         /\ IsFiniteSet(takenLive(entries[c], k)) /\ Cardinality(takenLive(entries[c], k)) <= k
<1> DEFINE q == entries[c]
           s == procs[c]
           t == takenLive(q, k)
<1>1. /\ q \in Seq(Entry) /\ s \in Seq(Entry) /\ Len(q) = Len(s)
      /\ \A i \in 1..Len(s) : q[i] = s[i] \/ (q[i] = NoPid /\ isDead(s[i]))
  BY TrackedIs DEF Mirrors
<1>2. /\ t \subseteq Pid \ dead /\ \A p \in t : \E i \in 1..Len(q) : p = q[i]
      /\ IsFiniteSet(t) /\ Cardinality(t) <= k
  BY <1>1, TakenOrKept
<1>3. \A p : p \in Pids(s) <=> p # NoPid /\ \E i \in 1..Len(s) : p = s[i]
  <2>1. DOMAIN s = 1..Len(s)
    BY <1>1
  <2> HIDE DEF s
  <2> QED BY <2>1 DEF Pids, ToSet
<1> HIDE DEF q, s, t
<1>4. t \subseteq Pids(s)
  BY <1>1, <1>2, <1>3, AutostartAssumption
<1> QED BY <1>2, <1>4 DEF q, s, t

LEMMA SyncDrops ==
  ASSUME AutostartInv, NEW new \in Config, cfg' = new, NEW entries, Mirrors(entries),
         NEW waited, NEW waiting, Sync(entries, cfg, new, waited, waiting), NEW c \in Cmdline
  PROVE  Cardinality(Pids(procs[c]) \cap (asked' \ asked)) <= Minus(cfg[c], cfg'[c])
<1> DEFINE k == [d \in Cmdline |-> Minus(cfg[d], new[d])]
           t == [d \in Cmdline |-> takenLive(entries[d], k[d])]
<1>1. asked' = asked \cup UNION {t[d] : d \in Cmdline}
  <2>1. \A d \in Cmdline : DiffExecs(cfg, new).kill[d] = k[d]
    BY DEF DiffExecs
  <2>2. UNION {takenLive(entries[d], DiffExecs(cfg, new).kill[d]) : d \in Cmdline}
          = UNION {t[d] : d \in Cmdline}
    BY <2>1
  <2> HIDE DEF k, t
  <2> QED BY <2>2, Zenon DEF Sync, terminate
<1>2. ASSUME NEW d \in Cmdline
      PROVE  /\ k[d] \in Nat /\ k[d] = Minus(cfg[d], cfg'[d])
             /\ t[d] \subseteq Pids(procs[d]) /\ IsFiniteSet(t[d]) /\ Cardinality(t[d]) <= k[d]
  <2>1. cfg[d] \in Nat /\ new[d] \in Nat
    BY AutostartAssumption DEF AutostartInv, TypeOK, Config
  <2>2. k[d] = Minus(cfg[d], new[d]) /\ k[d] \in Nat /\ t[d] = takenLive(entries[d], k[d])
    BY <2>1 DEF Minus
  <2> HIDE DEF k, t
  <2>3. /\ takenLive(entries[d], k[d]) \subseteq Pids(procs[d])
        /\ IsFiniteSet(takenLive(entries[d], k[d])) /\ Cardinality(takenLive(entries[d], k[d])) <= k[d]
    BY <2>2, TakenAreTracked DEF AutostartInv
  <2> QED BY <2>2, <2>3
<1> HIDE DEF k, t
<1>3. Pids(procs[c]) \cap (asked' \ asked) \subseteq t[c]
  <2>1. \A d \in Cmdline : d # c => Pids(procs[c]) \cap Pids(procs[d]) = {}
    BY DEF AutostartInv, TrackedWithinConfig
  <2> QED BY <1>1, <1>2, <2>1
<1> DEFINE x == Pids(procs[c]) \cap (asked' \ asked)
<1> HIDE DEF x
<1>4. IsFiniteSet(x) /\ Cardinality(x) <= Cardinality(t[c])
  <2>1. x \in SUBSET t[c]
    BY <1>3 DEF x
  <2> QED BY <1>2, <2>1, FS_Subset
<1>5. Cardinality(x) \in Nat /\ Cardinality(t[c]) \in Nat
  BY <1>2, <1>4, FS_CardinalityType
<1>6. Cardinality(x) <= Minus(cfg[c], cfg'[c])
  BY <1>2, <1>4, <1>5
<1> QED BY <1>6 DEF x

LEMMA StepDrops ==
  ASSUME AutostartInv, Next, NEW c \in Cmdline
  PROVE  Cardinality(Pids(procs[c]) \cap (asked' \ asked)) <= Minus(cfg[c], cfg'[c])
<1>1. CASE Reload \/ Restart
  <2>1. Mirrors(procs) /\ Mirrors(Entries)
    BY TheyMirror DEF AutostartInv
  <2> QED BY <1>1, <2>1, SyncDrops DEF Reload, Restart
<1>2. CASE asked' = asked /\ cfg' = cfg
  <2>1. Pids(procs[c]) \cap (asked' \ asked) = {}
    BY <1>2
  <2>2. Minus(cfg[c], cfg'[c]) = 0
    BY <1>2, AutostartAssumption DEF AutostartInv, TypeOK, Config, Minus
  <2> QED BY <2>1, <2>2, FS_EmptySet
<1>3. Reload \/ Restart \/ (asked' = asked /\ cfg' = cfg)
  BY DEF Next, Start, Reap, GraceEnds, LeaderExits, LeaderForks, MemberExits
<1> QED BY <1>1, <1>2, <1>3

\* No step ends more processes of a command line than its list has lost.
THEOREM NoMoreAreTerminated == Spec => OnlyDroppedAreTerminated
<1> DEFINE Drops == \A c \in Cmdline :
                      Cardinality(Pids(procs[c]) \cap (asked' \ asked)) <= Minus(cfg[c], cfg'[c])
<1>1. AutostartInv /\ [Next]_vars => [Drops]_vars
  BY StepDrops
<1> HIDE DEF Drops
<1>2. Spec => [][Drops]_vars
  BY <1>1, AutostartInvStart, AutostartInvKept, PTL DEF Spec
<1> QED BY <1>2 DEF OnlyDroppedAreTerminated, Drops

-----------------------------------------------------------------------------
(* What a reload brings up.                                                *)

\* None is left out where none is dead.
LEMMA AllLive ==
  ASSUME NEW q \in Seq(Pid), \A i \in 1..Len(q) : q[i] \notin dead
  PROVE  Len(Live(q)) = Len(q)
<1> DEFINE S == {e \in ToSet(q) : ~isDead(e)}
<1>1. \A i \in 1..Len(q) : q[i] \in S <=> q[i] \notin {}
  BY AutostartAssumption, ElementOfSeq DEF isDead, ToSet
<1> HIDE DEF S
<1>2. Len(Selected(q, S)) + Len(Selected(q, {})) = Len(q)
  BY <1>1, SelectedSharesLength
<1>3. Len(Selected(q, {})) = 0
  <2> DEFINE s == Selected(q, {})
  <2>1. s \in Seq(Pid) /\ SelectsFrom(s, q, {}, Len(q))
    BY SelectedSelects
  <2> HIDE DEF s
  <2>2. Len(s) \in Nat /\ \A k \in 1..Len(s) : FALSE
    BY <2>1 DEF SelectsFrom
  <2>3. Len(s) = 0
    BY <2>2
  <2> QED BY <2>3 DEF s
<1>4. Selected(q, S) \in Seq(Pid)
  BY SelectedSelects
<1>5. Len(Selected(q, S)) = Len(q)
  BY <1>2, <1>3, <1>4
<1> QED BY <1>5 DEF Live, S

\* What a command line has kept and what was tried for it fill its new list.
LEMMA KeptAndTriedFill ==
  ASSUME NEW q \in Seq(Entry), NEW old \in Nat, NEW new \in Nat, Len(q) = old
  PROVE  Len(keptLive(q, Minus(old, new))) + (Minus(new, old) + keptDead(q, Minus(old, new))) = new
<1> DEFINE k == Minus(old, new)
           r == Len(keptLive(q, k))
<1>0. Len(q) <= old
  OBVIOUS
<1>1. k \in Nat /\ Minus(new, old) \in Nat /\ keptDead(q, k) \in Nat
  BY <1>0, KeptAndTried
<1>2. r \in Nat
  BY <1>1, KeptLiveIs
<1> HIDE DEF k, r
<1>3. keptDead(q, k) = Minus(old, k) - r
  BY DEF keptDead, r
<1>4. Minus(old, k) \in Nat /\ Minus(old, k) + Minus(new, old) = new
  BY DEF Minus, k
<1>5. r + (Minus(new, old) + keptDead(q, k)) = new
  BY <1>1, <1>2, <1>3, <1>4
<1> QED BY <1>5 DEF k, r

LEMMA ReloadFills ==
  ASSUME AutostartInv, Reload, NEW c \in Cmdline, Len(procs[c]) = cfg[c],
         Cardinality({p \in Pids(procs'[c]) : leader[p] = "unused"}) = Tries(c, cfg')
  PROVE  Len(Live(procs[c])') = cfg'[c]
<1>1. PICK new \in Config : cfg' = new /\ Sync(procs, cfg, new, reapers, killers)
  BY DEF Reload
<1> DEFINE q == procs[c]
           k == Minus(cfg[c], new[c])
           kept == keptLive(q, k)
           n == [d \in Cmdline |-> Minus(new[d], cfg[d]) + keptDead(procs[d], Minus(cfg[d], new[d]))]
<1>2. PICK got \in Started(n) : procs'[c] = kept \o SetToSeq(got[c])
  <2>1. \A d \in Cmdline : /\ DiffExecs(cfg, new).kill[d] = Minus(cfg[d], new[d])
                           /\ DiffExecs(cfg, new).spawn[d] = Minus(new[d], cfg[d])
    BY DEF DiffExecs
  <2>2. n = [d \in Cmdline |-> DiffExecs(cfg, new).spawn[d]
                               + keptDead(procs[d], DiffExecs(cfg, new).kill[d])]
    BY <2>1
  <2> HIDE DEF n
  <2>3. \E got \in Started(n) :
          procs' = [d \in Cmdline |-> keptLive(procs[d], DiffExecs(cfg, new).kill[d]) \o SetToSeq(got[d])]
    BY <1>1, <2>2, Zenon DEF Sync
  <2> QED BY <2>1, <2>3
<1>3. \A d \in Cmdline : cfg[d] \in Nat /\ new[d] \in Nat /\ procs[d] \in Seq(Entry) /\ Len(procs[d]) <= cfg[d]
  BY TrackedIs, AutostartAssumption DEF AutostartInv, TypeOK, Config, TrackedWithinConfig
<1>4. \A d \in Cmdline : n[d] \in Nat
  BY <1>3, KeptAndTried
<1>5. /\ got[c] \subseteq Pid /\ \A p \in got[c] : leader[p] = "unused"
      /\ IsFiniteSet(got[c])
  <2> HIDE DEF n
  <2> QED BY <1>4, StartedIs
<1>6. k \in Nat /\ kept \in Seq(Pid) /\ IsInjective(kept)
  <2>1. k \in Nat
    BY <1>3 DEF Minus
  <2>2. NoneTwice(q)
    BY DEF AutostartInv, TrackedWithinConfig, NoneTwice
  <2> HIDE DEF k, q
  <2>3. q \in Seq(Entry)
    BY <1>3 DEF q
  <2> QED BY <2>1, <2>2, <2>3, KeptLiveIs, KeptOnce
<1>7. \A p \in ToSet(kept) : p \in Pid \ dead /\ leader[p] # "unused"
  <2>1. \A j \in 1..Len(kept) : kept[j] \in Pid \ dead /\ \E i \in 1..Len(q) : kept[j] = q[i]
    <3> HIDE DEF k, q
    <3>1. q \in Seq(Entry)
      BY <1>3 DEF q
    <3> QED BY <1>6, <3>1, TakenOrKept
  <2>2. DOMAIN kept = 1..Len(kept)
    BY <1>6
  <2>3. \A i \in 1..Len(q) : q[i] # NoPid => q[i] \in Tracked /\ q[i] \in Pid
    BY TrackedIs DEF AutostartInv
  <2> HIDE DEF k, q, kept
  <2>4. ASSUME NEW j \in 1..Len(kept) PROVE kept[j] \in Pid \ dead /\ leader[kept[j]] # "unused"
    <3>1. PICK i \in 1..Len(q) : kept[j] = q[i] /\ q[i] \in Pid \ dead
      BY <2>1
    <3>2. q[i] \in Tracked
      BY <2>3, <3>1, AutostartAssumption
    <3>3. leader[q[i]] # "unused"
      BY <3>1, <3>2 DEF AutostartInv, PidsInv
    <3> QED BY <3>1, <3>3
  <2> QED BY <2>2, <2>4 DEF ToSet
<1>8. Mixed(c, kept, got[c])
  <2>1. ToSet(kept) \cap got[c] = {}
    BY <1>5, <1>7
  <2> HIDE DEF kept, k, q
  <2> QED BY <1>2, <1>5, <1>6, <2>1, KeptAndGot
<1>9. {p \in Pids(procs'[c]) : leader[p] = "unused"} = got[c]
  BY <1>5, <1>7, <1>8 DEF Mixed
<1>10. Cardinality(got[c]) = Minus(new[c], cfg[c]) + keptDead(q, k)
  BY <1>1, <1>9 DEF Tries, DiffExecs
<1>11. Len(procs'[c]) = new[c]
  <2>1. Len(procs'[c]) = Len(kept) + Cardinality(got[c])
    BY <1>8 DEF Mixed
  <2>2. Len(kept) + (Minus(new[c], cfg[c]) + keptDead(q, k)) = new[c]
    BY <1>3, KeptAndTriedFill
  <2> QED BY <1>10, <2>1, <2>2
<1>12. /\ procs'[c] \in Seq(Pid)
       /\ \A i \in 1..Len(procs'[c]) : procs'[c][i] \notin dead
  <2> DEFINE r == procs'[c]
  <2>1. r \in Seq(Entry) /\ Pids(r) = ToSet(kept) \cup got[c]
    BY <1>8 DEF Mixed
  <2>2. r = kept \o SetToSeq(got[c])
    BY <1>2
  <2>3. SetToSeq(got[c]) \in Seq(Pid)
    BY <1>5, SetToSeqLists, SeqMonotonic
  <2>4. r \in Seq(Pid)
    BY <1>6, <2>2, <2>3, ConcatProperties
  <2> HIDE DEF r, kept
  <2>5. \A p \in ToSet(kept) \cup got[c] : p \notin dead
    BY <1>5, <1>7 DEF AutostartInv, PidsInv
  <2>6. ASSUME NEW i \in 1..Len(r) PROVE r[i] \notin dead
    <3>1. r[i] \in Pids(r)
      BY <2>4, AutostartAssumption, ElementOfSeq DEF Pids, ToSet
    <3> QED BY <2>1, <2>5, <3>1
  <2> QED BY <2>4, <2>6 DEF r
<1>13. Live(procs[c])' = Live(procs'[c])
  <2>1. dead' = dead
    BY DEF Reload
  <2> QED BY <2>1 DEF Live, isDead
<1> QED BY <1>1, <1>11, <1>12, <1>13, AllLive

LEMMA StepFills ==
  ASSUME AutostartInv, Next, phase = "up", phase' = "up", <<cfg, procs>>' # <<cfg, procs>>
  PROVE  Reload
BY DEF Next, Start, Restart, Reap, GraceEnds, LeaderExits, LeaderForks, MemberExits

\* Where every process that a reload tries to start does start, each command line
\* has as many live ones as the list has entries.
THEOREM ReloadsBringAllUp == Spec => ReloadBringsAllUp
<1> DEFINE Before == \A c \in Cmdline :
                       /\ Len(procs[c]) = cfg[c]
                       /\ Cardinality({p \in Pids(procs[c])' : leader[p] = "unused"}) = Tries(c, cfg')
           After == \A c \in Cmdline : Len(Live(procs[c])') = cfg'[c]
           Fills == /\ phase = "up" /\ phase' = "up"
                    /\ <<cfg, procs>>' # <<cfg, procs>>
                    /\ Before
                    => After
<1>1. AutostartInv /\ [Next]_vars => [Fills]_vars
  <2>1. ASSUME AutostartInv, Reload, Before PROVE After
    <3>1. \A c \in Cmdline : Pids(procs[c])' = Pids(procs'[c])
      BY DEF Pids
    <3> QED BY <2>1, <3>1, ReloadFills
  <2> QED BY <2>1, StepFills
<1> HIDE DEF Fills
<1>2. Spec => [][Fills]_vars
  BY <1>1, AutostartInvStart, AutostartInvKept, PTL DEF Spec
<1> QED BY <1>2 DEF ReloadBringsAllUp, Fills
=============================================================================
