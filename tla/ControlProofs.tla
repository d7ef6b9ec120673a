---------------------------- MODULE ControlProofs ----------------------------
(***************************************************************************)
(* For any clients, commands and capacity of the channels: the types, that *)
(* commands run once and in order, and that nothing is forgotten.          *)
(***************************************************************************)
EXTENDS Control, SelectionLemmas, FiniteSetTheorems

-----------------------------------------------------------------------------
(* Commands in the order they were and will be run.                        *)

Arranged(all) ==
  /\ IsInjective(all)
  /\ ToSet(all) = 1..Len(all)
  /\ \A i, j \in DOMAIN all : i < j /\ all[i] > all[j] => all[i] \in Early

\* The next number is queued last.
LEMMA ArrangedAppend ==
  ASSUME NEW s \in Seq(Nat), Arranged(s)
  PROVE  Arranged(Append(s, Len(s) + 1))
<1> DEFINE N == Len(s) + 1
           t == Append(s, N)
<1>1. Len(s) \in Nat /\ DOMAIN s = 1..Len(s)
  OBVIOUS
<1>2. /\ Len(t) = N /\ DOMAIN t = 1..N
      /\ \A i \in 1..Len(s) : t[i] = s[i]
      /\ t[N] = N
  OBVIOUS
<1>3. \A i \in 1..Len(s) : s[i] \in 1..Len(s)
  BY <1>1 DEF Arranged, ToSet
<1>4. \A n \in 1..Len(s) : \E i \in 1..Len(s) : s[i] = n
  BY <1>1 DEF Arranged, ToSet
<1>5. \A i \in 1..N : i \in 1..Len(s) \/ i = N
  BY <1>1
<1> HIDE DEF t, N
<1>6. IsInjective(t)
  BY <1>1, <1>2, <1>3, <1>5 DEF Arranged, IsInjective, N
<1>7. ToSet(t) = 1..Len(t)
  <2>1. \A i \in 1..N : t[i] \in 1..N
    BY <1>1, <1>2, <1>3, <1>5 DEF N
  <2>2. ASSUME NEW n \in 1..N PROVE \E i \in 1..N : t[i] = n
    <3>1. CASE n = N
      BY <1>1, <1>2, <3>1 DEF N
    <3>2. CASE n \in 1..Len(s)
      <4>1. PICK i \in 1..Len(s) : s[i] = n
        BY <1>4, <3>2
      <4> QED BY <1>1, <1>2, <4>1 DEF N
    <3> QED BY <1>5, <3>1, <3>2
  <2> QED BY <1>2, <2>1, <2>2 DEF ToSet
<1>8. ASSUME NEW i \in 1..N, NEW j \in 1..N, i < j, t[i] > t[j] PROVE t[i] \in Early
  <2>1. i \in 1..Len(s)
    BY <1>1, <1>8 DEF N
  <2>2. t[i] = s[i] /\ s[i] \in 1..Len(s)
    BY <1>2, <1>3, <2>1
  <2>3. j # N
    BY <1>1, <1>2, <1>8, <2>2 DEF N
  <2>4. j \in 1..Len(s) /\ t[j] = s[j]
    BY <1>2, <1>5, <2>3
  <2> QED BY <1>1, <1>8, <2>1, <2>2, <2>4 DEF Arranged
<1> QED BY <1>2, <1>6, <1>7, <1>8 DEF Arranged, t, N

\* Whatever the queue holds, its early commands may go first.
LEMMA ArrangedEarlyFirst ==
  ASSUME NEW d \in Seq(1..MaxCommands), NEW q \in Seq(1..MaxCommands), Arranged(d \o q)
  PROVE  Arranged(d \o (Selected(q, Early) \o Selected(q, 1..MaxCommands \ Early)))
<1> DEFINE L == 1..MaxCommands \ Early
           e == Selected(q, Early)
           r == Selected(q, L)
           old == d \o q
           new == d \o (e \o r)
<1>1. /\ e \in Seq(1..MaxCommands) /\ SelectsFrom(e, q, Early, Len(q))
      /\ r \in Seq(1..MaxCommands) /\ SelectsFrom(r, q, L, Len(q))
  BY SelectedSelects
<1>2. Len(e) + Len(r) = Len(q)
  <2>1. \A i \in 1..Len(q) : q[i] \in Early <=> q[i] \notin L
    BY ElementOfSeq
  <2> QED BY <2>1, SelectedSharesLength
<1>3. Len(d) \in Nat /\ Len(q) \in Nat /\ Len(e) \in Nat /\ Len(r) \in Nat
  BY <1>1
<1> HIDE DEF e, r
<1>4. /\ Len(old) = Len(d) + Len(q) /\ DOMAIN old = 1..Len(old)
      /\ \A i \in 1..Len(d) : old[i] = d[i]
      /\ \A i \in 1..Len(q) : Len(d) + i \in 1..Len(old) /\ old[Len(d) + i] = q[i]
  BY <1>3, ConcatProperties
<1>5. /\ new \in Seq(1..MaxCommands)
      /\ Len(new) = Len(old) /\ DOMAIN new = 1..Len(old)
      /\ \A i \in 1..Len(d) : new[i] = d[i]
      /\ \A i \in 1..Len(e) : Len(d) + i \in 1..Len(new) /\ new[Len(d) + i] = e[i]
      /\ \A i \in 1..Len(r) : /\ Len(d) + Len(e) + i \in 1..Len(new)
                              /\ new[Len(d) + Len(e) + i] = r[i]
  <2> DEFINE er == e \o r
  <2>1. /\ er \in Seq(1..MaxCommands) /\ Len(er) = Len(q)
        /\ \A i \in 1..Len(e) : i \in 1..Len(er) /\ er[i] = e[i]
        /\ \A i \in 1..Len(r) : Len(e) + i \in 1..Len(er) /\ er[Len(e) + i] = r[i]
    BY <1>1, <1>2, <1>3, ConcatProperties
  <2> HIDE DEF er
  <2>2. /\ d \o er \in Seq(1..MaxCommands)
        /\ Len(d \o er) = Len(d) + Len(q)
        /\ \A i \in 1..Len(d) : (d \o er)[i] = d[i]
        /\ \A i \in 1..Len(q) : (d \o er)[Len(d) + i] = er[i]
    BY <1>3, <2>1, ConcatProperties
  <2>3. new = d \o er
    BY DEF er
  <2> HIDE DEF new, old
  <2>4. new \in Seq(1..MaxCommands) /\ Len(new) = Len(old) /\ DOMAIN new = 1..Len(old)
    BY <1>4, <2>2, <2>3
  <2>5. \A i \in 1..Len(e) : Len(d) + i \in 1..Len(new) /\ new[Len(d) + i] = e[i]
    BY <1>2, <1>3, <1>4, <2>1, <2>2, <2>3, <2>4
  <2>6. ASSUME NEW i \in 1..Len(r)
        PROVE  Len(d) + Len(e) + i \in 1..Len(new) /\ new[Len(d) + Len(e) + i] = r[i]
    <3>1. Len(e) + i \in 1..Len(q) /\ er[Len(e) + i] = r[i]
      BY <2>1
    <3>2. Len(d) + (Len(e) + i) = Len(d) + Len(e) + i
      BY <1>3
    <3> QED BY <1>3, <1>4, <2>2, <2>3, <2>4, <3>1, <3>2
  <2> QED BY <2>2, <2>3, <2>4, <2>5, <2>6
<1> HIDE DEF old, new
<1>6. ASSUME NEW i \in 1..Len(old)
      PROVE  \/ i \in 1..Len(d)
             \/ \E k \in 1..Len(e) : i = Len(d) + k
             \/ \E k \in 1..Len(r) : i = Len(d) + Len(e) + k
  <2>1. CASE i > Len(d) /\ i <= Len(d) + Len(e)
    <3>1. i - Len(d) \in 1..Len(e) /\ i = Len(d) + (i - Len(d))
      BY <1>3, <2>1
    <3> QED BY <3>1
  <2>2. CASE i > Len(d) + Len(e)
    <3> DEFINE k == i - (Len(d) + Len(e))
    <3>1. k \in 1..Len(r) /\ i = Len(d) + Len(e) + k
      BY <1>2, <1>3, <1>4, <2>2
    <3> QED BY <3>1
  <2> QED BY <1>3, <2>1, <2>2
<1>6a. ASSUME NEW i \in 1..Len(old), i \notin 1..Len(d)
       PROVE  \E p \in 1..Len(q) : new[i] = q[p]
  <2>1. ASSUME NEW k \in 1..Len(e), i = Len(d) + k PROVE \E p \in 1..Len(q) : new[i] = q[p]
    <3>1. new[i] = e[k]
      BY <1>5, <2>1
    <3> QED BY <1>1, <3>1 DEF SelectsFrom
  <2>2. ASSUME NEW k \in 1..Len(r), i = Len(d) + Len(e) + k
        PROVE  \E p \in 1..Len(q) : new[i] = q[p]
    <3>1. new[i] = r[k]
      BY <1>5, <2>2
    <3> QED BY <1>1, <3>1 DEF SelectsFrom
  <2> QED BY <1>6, <1>6a, <2>1, <2>2
\* Of two entries the one that is first now was first before, or overtook.
<1>7. ASSUME NEW i \in 1..Len(old), NEW j \in 1..Len(old), i < j
      PROVE  \/ new[i] \in Early /\ new[j] \notin Early
             \/ \E p, o \in 1..Len(old) : p < o /\ new[i] = old[p] /\ new[j] = old[o]
  <2>1. 1..Len(d) \subseteq 1..Len(old)
    BY <1>3, <1>4
  <2>2. ASSUME NEW k \in 1..Len(q) PROVE Len(d) + k \in 1..Len(old) /\ old[Len(d) + k] = q[k]
    BY <1>4
  <2>5. CASE i \in 1..Len(d)
    <3>1. CASE j \in 1..Len(d)
      BY <1>4, <1>5, <1>7, <2>1, <2>5, <3>1
    <3>2. CASE j \notin 1..Len(d)
      <4>1. PICK p \in 1..Len(q) : new[j] = q[p]
        BY <1>6a, <3>2
      <4>2. i < Len(d) + p
        BY <1>3, <2>5
      <4> QED BY <1>4, <1>5, <2>1, <2>2, <2>5, <4>1, <4>2
    <3> QED BY <3>1, <3>2
  <2>6. CASE \E k \in 1..Len(e) : i = Len(d) + k
    <3>1. PICK k \in 1..Len(e) : i = Len(d) + k
      BY <2>6
    <3>2. new[i] = e[k]
      BY <1>5, <3>1
    <3>3. CASE \E l \in 1..Len(e) : j = Len(d) + l
      <4>1. PICK l \in 1..Len(e) : j = Len(d) + l
        BY <3>3
      <4>2. k < l /\ new[j] = e[l]
        BY <1>3, <1>5, <1>7, <3>1, <4>1
      <4>3. PICK p \in 1..Len(q), o \in 1..Len(q) : p < o /\ e[k] = q[p] /\ e[l] = q[o]
        BY <1>1, <4>2 DEF SelectsFrom
      <4>4. Len(d) + p < Len(d) + o
        BY <1>3, <4>3
      <4> QED BY <2>2, <3>2, <4>2, <4>3, <4>4
    <3>4. CASE \E l \in 1..Len(r) : j = Len(d) + Len(e) + l
      <4>1. new[i] \in Early
        BY <1>1, <3>2 DEF SelectsFrom
      <4>2. new[j] \in L
        <5>1. PICK l \in 1..Len(r) : j = Len(d) + Len(e) + l
          BY <3>4
        <5>2. new[j] = r[l]
          BY <1>5, <5>1
        <5> QED BY <1>1, <5>2 DEF SelectsFrom
      <4> QED BY <4>1, <4>2
    <3>5. j \notin 1..Len(d)
      BY <1>3, <1>7, <3>1
    <3> QED BY <1>6, <3>3, <3>4, <3>5
  <2>7. CASE \E k \in 1..Len(r) : i = Len(d) + Len(e) + k
    <3>1. PICK k \in 1..Len(r) : i = Len(d) + Len(e) + k
      BY <2>7
    <3>2. j \notin 1..Len(d) /\ \A l \in 1..Len(e) : j # Len(d) + l
      BY <1>3, <1>7, <3>1
    <3>3. PICK l \in 1..Len(r) : j = Len(d) + Len(e) + l
      BY <1>6, <3>2
    <3>4. k < l /\ new[i] = r[k] /\ new[j] = r[l]
      BY <1>3, <1>5, <1>7, <3>1, <3>3
    <3>5. PICK p \in 1..Len(q), o \in 1..Len(q) : p < o /\ r[k] = q[p] /\ r[l] = q[o]
      BY <1>1, <3>4 DEF SelectsFrom
    <3>6. Len(d) + p < Len(d) + o
      BY <1>3, <3>5
    <3> QED BY <2>2, <3>4, <3>5, <3>6
  <2> QED BY <1>6, <2>5, <2>6, <2>7
<1>8. /\ \A i, o \in 1..Len(old) : old[i] = old[o] => i = o
      /\ \A i \in 1..Len(old) : old[i] \in 1..Len(old)
      /\ \A n \in 1..Len(old) : \E i \in 1..Len(old) : old[i] = n
      /\ \A i, j \in 1..Len(old) : i < j /\ old[i] > old[j] => old[i] \in Early
  <2>1. Arranged(old)
    BY DEF old
  <2> QED BY <1>4, <2>1 DEF Arranged, IsInjective, ToSet
<1>9. IsInjective(new)
  <2>1. ASSUME NEW i \in 1..Len(old), NEW j \in 1..Len(old), i < j PROVE new[i] # new[j]
    <3>1. CASE new[i] \in Early /\ new[j] \notin Early
      BY <3>1
    <3>2. ASSUME NEW p \in 1..Len(old), NEW o \in 1..Len(old), p < o, new[i] = old[p], new[j] = old[o]
          PROVE  new[i] # new[j]
      BY <1>8, <3>2
    <3> QED BY <1>7, <2>1, <3>1, <3>2
  <2>2. \A i, j \in 1..Len(old) : i < j \/ i = j \/ j < i
    BY <1>3, <1>4
  <2> QED BY <1>5, <2>1, <2>2 DEF IsInjective
<1>10. ToSet(new) = 1..Len(new)
  <2>1. ASSUME NEW i \in 1..Len(old) PROVE \E p \in 1..Len(old) : new[i] = old[p]
    <3>1. CASE i \in 1..Len(d)
      BY <1>4, <1>5, <3>1
    <3>2. CASE i \notin 1..Len(d)
      <4>1. \E p \in 1..Len(q) : new[i] = q[p]
        BY <1>6a, <3>2
      <4> QED BY <1>4, <4>1
    <3> QED BY <3>1, <3>2
  <2>2. ASSUME NEW p \in 1..Len(old) PROVE \E i \in 1..Len(old) : new[i] = old[p]
    <3>1. CASE p \in 1..Len(d)
      BY <1>4, <1>5, <3>1
    <3>2. CASE p \notin 1..Len(d)
      <4>1. p - Len(d) \in 1..Len(q) /\ p = Len(d) + (p - Len(d))
        BY <1>3, <1>4, <3>2
      <4>2. PICK k \in 1..Len(q) : p = Len(d) + k
        BY <4>1
      <4>3. old[p] = q[k] /\ q[k] \in 1..MaxCommands
        BY <1>4, <4>2, ElementOfSeq
      <4>4. CASE q[k] \in Early
        <5>1. PICK l \in 1..Len(e) : e[l] = q[k]
          BY <1>1, <4>4 DEF SelectsFrom
        <5> QED BY <1>5, <4>3, <5>1
      <4>5. CASE q[k] \in L
        <5>1. PICK l \in 1..Len(r) : r[l] = q[k]
          BY <1>1, <4>5 DEF SelectsFrom
        <5> QED BY <1>5, <4>3, <5>1
      <4> QED BY <4>3, <4>4, <4>5
    <3> QED BY <3>1, <3>2
  <2>3. \A i \in 1..Len(old) : new[i] \in 1..Len(old)
    BY <1>8, <2>1
  <2>4. \A n \in 1..Len(old) : \E i \in 1..Len(old) : new[i] = n
    BY <1>8, <2>2
  <2> QED BY <1>5, <2>3, <2>4 DEF ToSet
<1>11. \A i, j \in DOMAIN new : i < j /\ new[i] > new[j] => new[i] \in Early
  <2>1. ASSUME NEW i \in 1..Len(old), NEW j \in 1..Len(old), i < j, new[i] > new[j]
        PROVE  new[i] \in Early
    <3>1. ASSUME NEW p \in 1..Len(old), NEW o \in 1..Len(old), p < o, new[i] = old[p], new[j] = old[o]
          PROVE  new[i] \in Early
      BY <1>8, <2>1, <3>1
    <3> QED BY <1>7, <2>1, <3>1
  <2> QED BY <1>5, <2>1
<1>12. Arranged(new)
  BY <1>9, <1>10, <1>11 DEF Arranged
<1> QED BY <1>12 DEF new, e, r

Numbers == 1..MaxCommands

all == done \o taken \o queue

\* Between two passes none has commands left to run, and before wimy is up only
\* early ones are taken.
QueueInv ==
  /\ queue \in Seq(Numbers) /\ taken \in Seq(Numbers) /\ done \in Seq(Numbers)
  /\ ~running => taken = <<>>
  /\ ~up => \A i \in 1..Len(taken) : taken[i] \in Early
  /\ Arranged(all)

LEMMA QueuedType ==
  ASSUME queue \in Seq(Numbers), taken \in Seq(Numbers), done \in Seq(Numbers)
  PROVE  /\ Queued \in Nat /\ Len(all) = Queued
         /\ all \in Seq(Numbers) /\ all \in Seq(Nat)
<1>1. done \o taken \in Seq(Numbers) /\ Len(done \o taken) = Len(done) + Len(taken)
  BY ConcatProperties
<1>2. all \in Seq(Numbers) /\ Len(all) = Len(done) + Len(taken) + Len(queue)
  BY <1>1, ConcatProperties DEF all
<1>3. Len(queue) \in Nat /\ Len(taken) \in Nat /\ Len(done) \in Nat
  OBVIOUS
<1>4. Numbers \subseteq Nat
  BY ControlAssumption DEF Numbers
<1>5. all \in Seq(Nat)
  BY <1>2, <1>4, SeqMonotonic
<1> QED BY <1>2, <1>3, <1>5 DEF Queued

\* Moving the boundary between what has run and what has still to run.
LEMMA MoveHead ==
  ASSUME NEW S, NEW d \in Seq(S), NEW t \in Seq(S), t # <<>>
  PROVE  /\ Head(t) \in S /\ Tail(t) \in Seq(S) /\ Append(d, Head(t)) \in Seq(S)
         /\ Append(d, Head(t)) \o Tail(t) = d \o t
<1>1. /\ Head(t) \in S /\ Tail(t) \in Seq(S) /\ Append(d, Head(t)) \in Seq(S)
      /\ Len(Tail(t)) = Len(t) - 1 /\ Len(Append(d, Head(t))) = Len(d) + 1
  BY HeadTailProperties, AppendProperties
<1>2. Len(d) \in Nat /\ Len(t) \in Nat /\ Len(t) > 0
  OBVIOUS
<1> DEFINE a == Append(d, Head(t)) \o Tail(t)
           b == d \o t
<1>3. /\ a \in Seq(S) /\ Len(a) = Len(d) + Len(t)
      /\ b \in Seq(S) /\ Len(b) = Len(d) + Len(t)
  BY <1>1, <1>2, ConcatProperties
<1>4. ASSUME NEW i \in 1..Len(d) + Len(t) PROVE a[i] = b[i]
  BY <1>1, <1>2, ConcatProperties
<1>5. a = b
  <2> HIDE DEF a, b
  <2> QED BY <1>3, <1>4, SeqEqual
<1> QED BY <1>1, <1>5

LEMMA QueueInvEnqueue ==
  ASSUME QueueInv, Enqueue, UNCHANGED <<taken, done, running, up>>
  PROVE  QueueInv'
<1>1. Queued \in Nat /\ Len(all) = Queued /\ all \in Seq(Nat)
  BY QueuedType DEF QueueInv
<1>2. Queued + 1 \in Numbers
  BY <1>1, ControlAssumption DEF Enqueue, Numbers
<1>3. queue' \in Seq(Numbers)
  BY <1>2, AppendProperties DEF QueueInv, Enqueue
<1>4. all' = Append(all, Queued + 1)
  <2> DEFINE dt == done \o taken
  <2>1. dt \in Seq(Numbers)
    BY ConcatProperties DEF QueueInv
  <2>2. all = dt \o queue /\ all' = dt \o Append(queue, Queued + 1)
    BY DEF all, Enqueue
  <2> HIDE DEF dt
  <2>3. Append(queue, Queued + 1) = queue \o <<Queued + 1>>
    BY <1>2, AppendIsConcat DEF QueueInv
  <2>4. <<Queued + 1>> \in Seq(Numbers)
    BY <1>2
  <2>5. dt \o (queue \o <<Queued + 1>>) = (dt \o queue) \o <<Queued + 1>>
    BY <2>1, <2>4, ConcatAssociative DEF QueueInv
  <2>6. all \in Seq(Numbers)
    BY QueuedType DEF QueueInv
  <2>7. Append(all, Queued + 1) = all \o <<Queued + 1>>
    BY <1>2, <2>6, AppendIsConcat
  <2> QED BY <2>2, <2>3, <2>5, <2>7
<1>5. Arranged(all')
  BY <1>1, <1>4, ArrangedAppend DEF QueueInv
<1>6. Arranged(all)'
  BY <1>5 DEF Arranged
<1> QED BY <1>3, <1>6 DEF QueueInv

LEMMA QueueInvApply ==
  ASSUME QueueInv, Apply
  PROVE  QueueInv'
<1>1. /\ taken = <<>> /\ done \o taken = done /\ all = done \o queue
      /\ done' = done /\ up' = up /\ running'
  BY ConcatEmptySeq DEF QueueInv, Apply, all
<1>2. CASE up
  <2>1. taken' = queue /\ queue' = <<>>
    BY <1>2 DEF Apply, DrainQueue
  <2>2. taken' \in Seq(Numbers) /\ queue' \in Seq(Numbers) /\ done' \in Seq(Numbers)
    BY <1>1, <2>1 DEF QueueInv
  <2>3. all' = all
    <3>1. done \o queue \in Seq(Numbers)
      BY ConcatProperties DEF QueueInv
    <3> QED BY <1>1, <2>1, <3>1, ConcatEmptySeq DEF all
  <2>4. Arranged(all)'
    BY <2>3 DEF QueueInv, Arranged
  <2> QED BY <1>1, <1>2, <2>2, <2>4 DEF QueueInv
<1>3. CASE ~up
  <2>1. taken' = Selected(queue, Early) /\ queue' = Selected(queue, 1..MaxCommands \ Early)
    BY <1>3 DEF Apply, DrainQueueIf
  <2>2. /\ taken' \in Seq(Numbers) /\ queue' \in Seq(Numbers) /\ done' \in Seq(Numbers)
        /\ \A i \in 1..Len(taken') : taken'[i] \in Early
    BY <1>1, <2>1, SelectedSelects DEF QueueInv, SelectsFrom
  <2>3. all' = done \o (taken' \o queue')
    BY <1>1, <2>2, ConcatAssociative DEF all
  <2>4. Arranged(all')
    BY <1>1, <2>1, <2>3, ArrangedEarlyFirst DEF QueueInv, Numbers
  <2>5. Arranged(all)'
    BY <2>4 DEF Arranged
  <2> QED BY <1>1, <2>2, <2>5 DEF QueueInv
<1> QED BY <1>2, <1>3

LEMMA QueueInvRunCommand ==
  ASSUME QueueInv, RunCommand
  PROVE  QueueInv'
<1>1. /\ done' = Append(done, Head(taken)) /\ taken' = Tail(taken) /\ queue' = queue
      /\ running /\ running' = running /\ up' = up /\ taken # <<>>
  BY DEF RunCommand, queueVars
<1>2. /\ done' \in Seq(Numbers) /\ taken' \in Seq(Numbers)
      /\ done' \o taken' = done \o taken
  BY <1>1, MoveHead DEF QueueInv
<1>3. ~up => \A i \in 1..Len(taken') : taken'[i] \in Early
  BY <1>1, HeadTailProperties DEF QueueInv
<1>4. Arranged(all)'
  <2>1. all' = all
    BY <1>1, <1>2 DEF all
  <2> QED BY <2>1 DEF QueueInv, Arranged
<1> QED BY <1>1, <1>2, <1>3, <1>4 DEF QueueInv

LEMMA QueueInvKept == QueueInv /\ [Next]_vars => QueueInv'
<1> SUFFICES ASSUME QueueInv, [Next]_vars PROVE QueueInv'
  OBVIOUS
<1>1. CASE UNCHANGED <<queue, taken, done, running, up>>
  BY <1>1 DEF QueueInv, all, Arranged
<1>2. CASE Start
  BY <1>2 DEF Start, QueueInv, all, Arranged
<1>3. CASE KeyPressed
  BY <1>3, QueueInvEnqueue DEF KeyPressed, dispatchVars
<1>4. CASE Apply
  BY <1>4, QueueInvApply
<1>5. CASE RunCommand
  BY <1>5, QueueInvRunCommand
<1>6. CASE EndPass
  BY <1>6 DEF EndPass, queueVars, QueueInv, all, Arranged
<1>7. CASE MenuCloses
  BY <1>1, <1>7, QueueInvEnqueue DEF MenuCloses
<1>8. ASSUME NEW c \in Client, RequestRun(c) PROVE QueueInv'
  BY <1>8, QueueInvEnqueue DEF RequestRun, dispatchVars
<1>9. \/ UNCHANGED <<queue, taken, done, running, up>>
      \/ Start \/ KeyPressed \/ Apply \/ RunCommand \/ EndPass \/ MenuCloses
      \/ \E c \in Client : RequestRun(c)
  BY DEF Next, DispatchThread, Broadcaster, Reader, vars, dispatchVars, queueVars, Event, MarkDirty,
         MenuWakes, Wake, TakeChange, ReadChange, Broadcast, ReaderWakes, RequestState,
         RequestSubscribe, ReadState, SendState, Answer, drop, writeLoop, PeerHangsUp
<1> QED BY <1>1, <1>2, <1>3, <1>4, <1>5, <1>6, <1>7, <1>8, <1>9

LEMMA QueueInvStart == Init => QueueInv
<1> SUFFICES ASSUME Init PROVE QueueInv
  OBVIOUS
<1>1. queue = <<>> /\ taken = <<>> /\ done = <<>>
  BY DEF Init
<1>2. all = <<>>
  BY <1>1 DEF all
<1>3. Arranged(<<>>)
  BY DEF Arranged, IsInjective, ToSet
<1> QED BY <1>1, <1>2, <1>3 DEF QueueInv

\* Whoever queues commands, and however the passes take them: none is lost, none
\* runs twice, and only quit and restart ever overtake one.
THEOREM CommandsAlwaysRunInOrder == Spec => []CommandsRunInOrder
<1>1. QueueInv => CommandsRunInOrder
  BY DEF QueueInv, Arranged, all, CommandsRunInOrder
<1> QED BY <1>1, QueueInvStart, QueueInvKept, PTL DEF Spec

-----------------------------------------------------------------------------
(* What the threads and goroutines hold.                                   *)

Position == [at : Where, saw : Nat]

SocketInv ==
  /\ platform \in {"river", "macos"}
  /\ up \in BOOLEAN /\ running \in BOOLEAN /\ scheduled \in BOOLEAN /\ changed \in BOOLEAN
  /\ version \in 1..MaxVersion
  /\ broadcaster \in Position /\ broadcaster.saw <= version
  /\ reader \in [Client -> Position] /\ \A c \in Client : reader[c].saw <= version
  /\ subs \subseteq Client /\ open \subseteq Client /\ lost \subseteq Client
  /\ pending \in [Client -> 0..SendCap]
  /\ last \in [Client -> Nat] /\ best \in [Client -> Nat]
  /\ \A c \in Client : last[c] <= best[c] /\ best[c] <= version

LEMMA TrySendType ==
  ASSUME SocketInv, NEW clients \in SUBSET Client, NEW frame \in 0..version,
         trySend(clients, frame)
  PROVE  /\ pending' \in [Client -> 0..SendCap]
         /\ last' \in [Client -> Nat] /\ best' \in [Client -> Nat]
         /\ \A c \in Client : last'[c] <= best'[c] /\ best'[c] <= version /\ best[c] <= best'[c]
         /\ lost' \subseteq Client /\ lost \subseteq lost'
         /\ \A c \in clients \ lost' : frame <= best'[c]
<1> DEFINE sent == {c \in clients : pending[c] < SendCap}
<1>1. /\ pending' = [c \in Client |-> pending[c] + IF c \in sent THEN 1 ELSE 0]
      /\ last' = [c \in Client |-> IF c \in sent /\ frame # Response THEN frame ELSE last[c]]
      /\ best' = [c \in Client |-> IF c \in sent THEN Newest(best[c], frame) ELSE best[c]]
      /\ lost' = lost \cup (clients \ sent)
  BY DEF trySend
<1>2. frame \in Nat /\ frame <= version /\ version \in Nat
  BY DEF SocketInv
<1>3. pending' \in [Client -> 0..SendCap]
  BY <1>1, ControlAssumption DEF SocketInv
<1>4. \A c \in Client : Newest(best[c], frame) \in Nat
  BY <1>2 DEF SocketInv, Newest
<1>5. last' \in [Client -> Nat] /\ best' \in [Client -> Nat]
  BY <1>1, <1>2, <1>4 DEF SocketInv
<1>6. ASSUME NEW c \in Client
      PROVE  last'[c] <= best'[c] /\ best'[c] <= version /\ best[c] <= best'[c]
  <2>1. /\ last'[c] = IF c \in sent /\ frame # Response THEN frame ELSE last[c]
        /\ best'[c] = IF c \in sent THEN Newest(best[c], frame) ELSE best[c]
    BY <1>1
  <2>2. /\ last[c] \in Nat /\ best[c] \in Nat
        /\ last[c] <= best[c] /\ best[c] <= version
    BY DEF SocketInv
  <2> HIDE DEF sent
  <2> QED BY <1>2, <2>1, <2>2 DEF Newest
<1>7. ASSUME NEW c \in clients \ lost' PROVE frame <= best'[c]
  <2>1. c \in sent /\ c \in Client
    BY <1>1
  <2>2. best'[c] = Newest(best[c], frame) /\ best[c] \in Nat
    BY <1>1, <2>1 DEF SocketInv
  <2> QED BY <1>2, <2>2 DEF Newest
<1> QED BY <1>1, <1>3, <1>5, <1>6, <1>7 DEF SocketInv

LEMMA MovesType ==
  ASSUME SocketInv, NEW c \in Client, NEW at \in Where, NEW saw \in 0..version, Moves(c, at, saw)
  PROVE  /\ reader' \in [Client -> Position]
         /\ \A d \in Client : reader'[d].saw <= version
         /\ reader'[c] = [at |-> at, saw |-> saw]
         /\ \A d \in Client \ {c} : reader'[d] = reader[d]
BY DEF SocketInv, Moves, Position

LEMMA MovesOnly ==
  ASSUME SocketInv, NEW c \in Client, NEW at, NEW saw, Moves(c, at, saw)
  PROVE  /\ reader'[c] = [at |-> at, saw |-> saw]
         /\ \A d \in Client \ {c} : reader'[d] = reader[d]
BY DEF SocketInv, Moves, Position

LEMMA SocketInvKept == SocketInv /\ [Next]_vars => SocketInv'
<1> SUFFICES ASSUME SocketInv, [Next]_vars PROVE SocketInv'
  OBVIOUS
<1> USE DEF dispatchVars, queueVars, frameVars, socketVars
<1>0. 0 \in 0..version /\ version \in 0..version /\ version \in Nat
  BY DEF SocketInv
<1>1. CASE UNCHANGED vars
  BY <1>1 DEF vars, SocketInv
<1>2. CASE Start
  BY <1>2 DEF Start, SocketInv
<1>3. CASE Event
  <2>1. version' \in 1..MaxVersion /\ version <= version'
    BY <1>3, ControlAssumption DEF Event, SocketInv
  <2>2. \A n \in Nat : n <= version => n <= version'
    BY <1>0, <2>1
  <2> QED BY <1>3, <2>1, <2>2 DEF Event, SocketInv, Position
<1>4. CASE KeyPressed
  BY <1>4 DEF KeyPressed, SocketInv
<1>5. CASE DispatchThread
  <2>1. CASE MarkDirty
    BY <2>1 DEF MarkDirty, SocketInv
  <2>2. CASE Apply
    BY <2>2 DEF Apply, SocketInv
  <2>3. CASE RunCommand
    <3>1. version' \in 1..MaxVersion /\ version <= version'
      BY <2>3, ControlAssumption DEF RunCommand, SocketInv
    <3>2. \A n \in Nat : n <= version => n <= version'
      BY <1>0, <3>1
    <3> QED BY <2>3, <3>1, <3>2 DEF RunCommand, SocketInv, Position
  <2>4. CASE EndPass
    BY <2>4 DEF EndPass, Notify, SocketInv
  <2> QED BY <1>5, <2>1, <2>2, <2>3, <2>4 DEF DispatchThread
<1>6. CASE MenuCloses
  BY <1>6 DEF MenuCloses, SocketInv
<1>7. CASE MenuWakes
  BY <1>7 DEF MenuWakes, Wake, SocketInv
<1>8. CASE Broadcaster
  <2>1. CASE TakeChange
    <3>1. broadcaster' \in Position /\ broadcaster'.saw = 0 /\ changed' \in BOOLEAN
      BY <2>1 DEF TakeChange, Position, Where
    <3>2. UNCHANGED <<platform, up, running, scheduled, version, reader, subs, open, frameVars>>
      BY <2>1 DEF TakeChange
    <3> QED BY <1>0, <3>1, <3>2 DEF SocketInv
  <2>2. CASE ReadChange
    <3>1. broadcaster' \in Position /\ broadcaster'.saw = version
      BY <1>0, <2>2 DEF ReadChange, Position, Where
    <3>2. UNCHANGED <<platform, up, running, scheduled, changed, version, reader, subs, open, frameVars>>
      BY <2>2 DEF ReadChange
    <3> QED BY <1>0, <3>1, <3>2 DEF SocketInv
  <2>3. CASE Broadcast
    <3>1. subs \in SUBSET Client /\ broadcaster.saw \in 0..version
      BY DEF SocketInv, Position
    <3>2. trySend(subs, broadcaster.saw)
      BY <2>3 DEF Broadcast
    <3>3. broadcaster' \in Position /\ broadcaster'.saw = 0
      BY <2>3 DEF Broadcast, Position, Where
    <3>4. UNCHANGED <<platform, up, running, scheduled, changed, version, reader, subs, open>>
      BY <2>3 DEF Broadcast
    <3>5. /\ pending' \in [Client -> 0..SendCap]
          /\ last' \in [Client -> Nat] /\ best' \in [Client -> Nat]
          /\ \A d \in Client : last'[d] <= best'[d] /\ best'[d] <= version
          /\ lost' \subseteq Client
      BY <3>1, <3>2, TrySendType
    <3> QED BY <1>0, <3>3, <3>4, <3>5 DEF SocketInv
  <2> QED BY <1>8, <2>1, <2>2, <2>3 DEF Broadcaster
<1>9. ASSUME NEW c \in Client,
             \/ RequestRun(c) \/ RequestState(c) \/ RequestSubscribe(c) \/ Reader(c)
             \/ drop(c) \/ writeLoop(c) \/ PeerHangsUp(c)
      PROVE  SocketInv'
  <2>1. CASE RequestRun(c)
    BY <1>0, <2>1, MovesType DEF RequestRun, SocketInv, Where
  <2>2. CASE RequestState(c)
    BY <1>0, <2>2, MovesType DEF RequestState, SocketInv, Where
  <2>3. CASE RequestSubscribe(c)
    <3>1. reader' \in [Client -> Position] /\ \A d \in Client : reader'[d].saw <= version
      BY <1>0, <2>3, MovesType DEF RequestSubscribe, Where
    <3>2. subs' \subseteq Client
      BY <2>3 DEF RequestSubscribe, SocketInv
    <3> QED BY <2>3, <3>1, <3>2 DEF RequestSubscribe, SocketInv
  <2>4. CASE ReaderWakes(c)
    BY <1>0, <2>4, MovesType DEF ReaderWakes, Wake, SocketInv, Where
  <2>5. CASE ReadState(c)
    BY <1>0, <2>5, MovesType DEF ReadState, SocketInv, Where
  <2>6. CASE SendState(c)
    <3>1. reader[c].saw \in 0..version /\ {c} \in SUBSET Client
      BY DEF SocketInv, Position
    <3>2. trySend({c}, reader[c].saw) /\ Moves(c, "answering", 0)
      BY <2>6 DEF SendState
    <3>3. reader' \in [Client -> Position] /\ \A d \in Client : reader'[d].saw <= version
      BY <1>0, <3>2, MovesType DEF Where
    <3>4. /\ pending' \in [Client -> 0..SendCap]
          /\ last' \in [Client -> Nat] /\ best' \in [Client -> Nat]
          /\ \A d \in Client : last'[d] <= best'[d] /\ best'[d] <= version
          /\ lost' \subseteq Client
      BY <3>1, <3>2, TrySendType
    <3> QED BY <2>6, <3>3, <3>4 DEF SendState, SocketInv
  <2>7. CASE Answer(c)
    <3>1. Response \in 0..version /\ {c} \in SUBSET Client
      BY <1>0 DEF Response
    <3>2. trySend({c}, Response) /\ Moves(c, "reading", 0)
      BY <2>7 DEF Answer
    <3>3. reader' \in [Client -> Position] /\ \A d \in Client : reader'[d].saw <= version
      BY <1>0, <3>2, MovesType DEF Where
    <3>4. /\ pending' \in [Client -> 0..SendCap]
          /\ last' \in [Client -> Nat] /\ best' \in [Client -> Nat]
          /\ \A d \in Client : last'[d] <= best'[d] /\ best'[d] <= version
          /\ lost' \subseteq Client
      BY <3>1, <3>2, TrySendType
    <3> QED BY <2>7, <3>3, <3>4 DEF Answer, SocketInv
  <2>8. CASE drop(c)
    BY <1>0, <2>8, MovesType DEF drop, SocketInv, Where
  <2>9. CASE writeLoop(c)
    <3>1. pending' \in [Client -> 0..SendCap]
      BY <2>9, ControlAssumption DEF writeLoop, SocketInv
    <3> QED BY <2>9, <3>1 DEF writeLoop, SocketInv
  <2>10. CASE PeerHangsUp(c)
    BY <2>10 DEF PeerHangsUp, SocketInv
  <2> QED BY <1>9, <2>1, <2>2, <2>3, <2>4, <2>5, <2>6, <2>7, <2>8, <2>9, <2>10 DEF Reader
<1> QED BY <1>1, <1>2, <1>3, <1>4, <1>5, <1>6, <1>7, <1>8, <1>9 DEF Next

LEMMA SocketInvStart == Init => SocketInv
<1> SUFFICES ASSUME Init PROVE SocketInv
  OBVIOUS
<1>1. /\ broadcaster = [at |-> "waiting", saw |-> 0]
      /\ reader = [c \in Client |-> [at |-> "reading", saw |-> 0]]
      /\ pending = [c \in Client |-> 0]
      /\ last = [c \in Client |-> 0] /\ best = [c \in Client |-> 0]
      /\ version = 1
  BY DEF Init
<1>2. broadcaster \in Position /\ broadcaster.saw = 0
  BY <1>1 DEF Position, Where
<1>3. reader \in [Client -> Position] /\ \A c \in Client : reader[c].saw = 0
  BY <1>1 DEF Position, Where
<1>4. /\ pending \in [Client -> 0..SendCap]
      /\ last \in [Client -> Nat] /\ best \in [Client -> Nat]
      /\ \A c \in Client : last[c] = 0 /\ best[c] = 0
  BY <1>1, ControlAssumption
<1>5. /\ platform \in {"river", "macos"}
      /\ up \in BOOLEAN /\ running \in BOOLEAN /\ scheduled \in BOOLEAN /\ changed \in BOOLEAN
      /\ subs \subseteq Client /\ open \subseteq Client /\ lost \subseteq Client
  BY DEF Init
<1>6. version \in 1..MaxVersion /\ 0 <= version
  BY <1>1, ControlAssumption
<1>7. /\ \A c \in Client : reader[c].saw <= version
      /\ \A c \in Client : last[c] <= best[c] /\ best[c] <= version
  BY <1>3, <1>4, <1>6
<1> QED BY <1>2, <1>3, <1>4, <1>5, <1>6, <1>7 DEF SocketInv

-----------------------------------------------------------------------------
(* The wakes under way.                                                    *)

Waking == {c \in Client : reader[c].at = "waking"}

Wakes == wakers + jobs + Cardinality(Waking)

\* Every wake under way, and every open menu program, comes of a command.
WakeInv ==
  /\ wakers \in Nat /\ jobs \in Nat /\ menus \in Nat
  /\ IsFiniteSet(Waking)
  /\ Wakes <= Queued
  /\ menus <= Len(done)

LEMMA QueuedEnqueue ==
  ASSUME QueueInv, Enqueue, UNCHANGED <<taken, done>>
  PROVE  Queued \in Nat /\ Queued' = Queued + 1
<1>1. Queued \in Nat
  BY QueuedType DEF QueueInv
<1>2. Len(queue') = Len(queue) + 1
  BY <1>1, AppendProperties DEF QueueInv, Enqueue
<1>3. Len(queue) \in Nat /\ Len(taken) \in Nat /\ Len(done) \in Nat
  BY DEF QueueInv
<1> QED BY <1>1, <1>2, <1>3 DEF Queued

LEMMA QueuedKept ==
  ASSUME QueueInv, Apply \/ RunCommand \/ UNCHANGED <<queue, taken, done>>
  PROVE  /\ Queued \in Nat /\ Queued' = Queued
         /\ Len(done) \in Nat /\ Len(done') \in Nat /\ Len(done) <= Len(done')
         /\ RunCommand => Len(done') = Len(done) + 1
<1>1. Queued \in Nat /\ Len(queue) \in Nat /\ Len(taken) \in Nat /\ Len(done) \in Nat
  BY QueuedType DEF QueueInv
<1>2. CASE Apply
  <2>1. taken = <<>> /\ done' = done
    BY <1>2 DEF QueueInv, Apply
  <2>2. Len(taken') + Len(queue') = Len(queue)
    <3>1. CASE up
      BY <1>1, <1>2, <3>1 DEF Apply, DrainQueue
    <3>2. CASE ~up
      <4>1. \A i \in 1..Len(queue) : queue[i] \in Early <=> queue[i] \notin 1..MaxCommands \ Early
        BY ElementOfSeq DEF QueueInv, Numbers
      <4>2. taken' = Selected(queue, Early) /\ queue' = Selected(queue, 1..MaxCommands \ Early)
        BY <1>2, <3>2 DEF Apply, DrainQueueIf
      <4> QED BY <4>1, <4>2, SelectedSharesLength DEF QueueInv
    <3> QED BY <3>1, <3>2
  <2>3. Len(taken) = 0 /\ ~RunCommand
    BY <1>2, <2>1 DEF Apply, RunCommand
  <2>4. Len(taken') \in Nat /\ Len(queue') \in Nat
    BY <1>2, QueueInvApply DEF QueueInv
  <2> QED BY <1>1, <2>1, <2>2, <2>3, <2>4 DEF Queued
<1>3. CASE RunCommand
  <2>1. queue' = queue /\ Len(taken') = Len(taken) - 1 /\ Len(done') = Len(done) + 1
    BY <1>3, HeadTailProperties, AppendProperties DEF RunCommand, queueVars, QueueInv
  <2> QED BY <1>1, <2>1 DEF Queued
<1>4. CASE UNCHANGED <<queue, taken, done>>
  <2>1. ~RunCommand
    BY <1>4, HeadTailProperties DEF RunCommand, QueueInv
  <2> QED BY <1>1, <1>4, <2>1 DEF Queued
<1> QED BY <1>2, <1>3, <1>4

LEMMA WakingMoves ==
  ASSUME SocketInv, NEW c \in Client, NEW at \in Where, NEW saw \in 0..version, Moves(c, at, saw)
  PROVE  Waking' = IF at = "waking" THEN Waking \cup {c} ELSE Waking \ {c}
<1>1. /\ reader'[c].at = at
      /\ \A d \in Client \ {c} : reader'[d] = reader[d]
  BY DEF SocketInv, Moves, Position
<1> QED BY <1>1 DEF Waking

\* A wake adds at most one markDirty.
LEMMA WakeType ==
  ASSUME SocketInv, jobs \in Nat, Wake
  PROVE  jobs' \in Nat /\ jobs' <= jobs + 1
BY DEF Wake

\* A wake the menu's closing adds comes with the command it queued.
LEMMA WakesWithCommand ==
  ASSUME NEW w \in Nat, NEW j \in Nat, NEW n \in Nat, NEW q \in Nat, w + j + n <= q,
         NEW w2 \in Nat, NEW q2 \in Nat, q2 + w = q + w2
  PROVE  w2 + j + n <= q2
OBVIOUS

\* A job a wake adds takes the place of the waker.
LEMMA JobForWaker ==
  ASSUME NEW w \in Nat, NEW j \in Nat, NEW n \in Nat, NEW q \in Nat, w + j + n <= q,
         NEW j2 \in Nat, j2 <= j + 1, NEW n2 \in Nat, n2 = n - 1
  PROVE  w + j2 + n2 <= q
OBVIOUS

LEMMA WakeInvKept == QueueInv /\ SocketInv /\ WakeInv /\ [Next]_vars => WakeInv'
<1> SUFFICES ASSUME QueueInv, SocketInv, WakeInv, [Next]_vars PROVE WakeInv'
  OBVIOUS
<1> DEFINE W == Cardinality(Waking)
           Quietly == UNCHANGED <<wakers, jobs, menus, Waking>>
<1>0. /\ W \in Nat /\ 0 \in 0..version /\ version \in 0..version
      /\ Queued \in Nat /\ Len(done) \in Nat /\ wakers \in Nat /\ jobs \in Nat /\ menus \in Nat
      /\ wakers + jobs + W <= Queued /\ menus <= Len(done)
  BY FS_CardinalityType, QueuedType DEF QueueInv, SocketInv, WakeInv, Wakes
<1>1. CASE UNCHANGED <<wakers, jobs, menus, Waking>> /\ (Apply \/ UNCHANGED <<queue, taken, done>>)
  <2>1. Queued' = Queued /\ Len(done') \in Nat /\ Len(done) <= Len(done')
    BY <1>1, QueuedKept
  <2> QED BY <1>0, <1>1, <2>1 DEF WakeInv, Wakes
<1>2. CASE KeyPressed
  <2>1. Enqueue /\ UNCHANGED <<taken, done, wakers, jobs, menus, reader>>
    BY <1>2 DEF KeyPressed, dispatchVars, socketVars
  <2>2. Queued' = Queued + 1 /\ Waking' = Waking
    BY <2>1, QueuedEnqueue DEF Waking
  <2> QED BY <1>0, <2>1, <2>2 DEF WakeInv, Wakes
<1>3. CASE MarkDirty
  <2>1. UNCHANGED <<queue, taken, done, wakers, menus, reader>> /\ jobs > 0 /\ jobs' = jobs - 1
    BY <1>3 DEF MarkDirty, dispatchVars, socketVars
  <2>2. Queued' = Queued /\ Waking' = Waking
    BY <2>1, QueuedKept DEF Waking
  <2> QED BY <1>0, <2>1, <2>2 DEF WakeInv, Wakes
<1>4. CASE RunCommand
  <2>1. UNCHANGED <<wakers, jobs, reader>> /\ (menus' = menus \/ menus' = menus + 1)
    BY <1>4 DEF RunCommand, queueVars, socketVars
  <2>2. Queued' = Queued /\ Waking' = Waking /\ Len(done') = Len(done) + 1
    BY <1>4, <2>1, QueuedKept DEF Waking
  <2> QED BY <1>0, <2>1, <2>2 DEF WakeInv, Wakes
<1>5. CASE MenuCloses
  <2>1. /\ UNCHANGED <<taken, done, jobs, reader>> /\ menus' = menus - 1 /\ menus > 0
        /\ (Enqueue /\ wakers' = wakers + 1) \/ UNCHANGED <<queue, wakers>>
    BY <1>5 DEF MenuCloses, socketVars
  <2>2. Waking' = Waking
    BY <2>1 DEF Waking
  <2>3. \/ Queued' = Queued + 1 /\ wakers' = wakers + 1
        \/ Queued' = Queued /\ wakers' = wakers
    <3>1. CASE Enqueue /\ wakers' = wakers + 1
      BY <2>1, <3>1, QueuedEnqueue
    <3>2. CASE UNCHANGED <<queue, wakers>>
      BY <2>1, <3>2, QueuedKept
    <3> QED BY <2>1, <3>1, <3>2
  <2>4. Queued' \in Nat /\ wakers' \in Nat /\ Queued' + wakers = Queued + wakers'
    <3> HIDE DEF W
    <3> QED BY <1>0, <2>3
  <2>5. Wakes' <= Queued'
    <3>1. Wakes' = wakers' + jobs + W
      BY <2>1, <2>2 DEF Wakes
    <3> HIDE DEF W
    <3>2. wakers' + jobs + W <= Queued'
      BY <1>0, <2>4, WakesWithCommand
    <3> QED BY <3>1, <3>2
  <2>6. menus' \in Nat /\ menus' <= Len(done')
    BY <1>0, <2>1 DEF WakeInv
  <2> QED BY <1>0, <2>1, <2>2, <2>4, <2>5, <2>6 DEF WakeInv
<1>6. CASE MenuWakes
  <2>1. UNCHANGED <<queue, taken, done, menus, reader>> /\ wakers > 0 /\ wakers' = wakers - 1 /\ Wake
    BY <1>6 DEF MenuWakes, dispatchVars, socketVars
  <2>2. Queued' = Queued /\ Waking' = Waking
    BY <2>1, QueuedKept DEF Waking
  <2>3. jobs' \in Nat /\ jobs' <= jobs + 1
    BY <1>0, <2>1, WakeType
  <2> QED BY <1>0, <2>1, <2>2, <2>3 DEF WakeInv, Wakes
<1>7. ASSUME NEW c \in Client, RequestRun(c) PROVE WakeInv'
  <2>1. Enqueue /\ UNCHANGED <<taken, done, menus, wakers, jobs>> /\ Moves(c, "waking", 0)
    BY <1>7 DEF RequestRun, dispatchVars
  <2>2. Waking' = Waking \cup {c}
    BY <1>0, <2>1, WakingMoves DEF Where
  <2>3. IsFiniteSet(Waking') /\ Cardinality(Waking') \in Nat /\ Cardinality(Waking') <= W + 1
    <3>1. IsFiniteSet(Waking)
      BY DEF WakeInv
    <3>2. /\ IsFiniteSet(Waking \cup {c})
          /\ Cardinality(Waking \cup {c}) = IF c \in Waking THEN W ELSE W + 1
      BY <3>1, FS_AddElement
    <3> HIDE DEF W, Waking
    <3> QED BY <1>0, <2>2, <3>2
  <2>4. Queued' = Queued + 1
    BY <2>1, QueuedEnqueue
  <2> QED BY <1>0, <2>1, <2>3, <2>4 DEF WakeInv, Wakes
<1>8. ASSUME NEW c \in Client, ReaderWakes(c) PROVE WakeInv'
  <2>1. /\ UNCHANGED <<queue, taken, done, menus, wakers>> /\ Moves(c, "answering", 0) /\ Wake
        /\ c \in Waking
    BY <1>8 DEF ReaderWakes, dispatchVars, Waking
  <2>2. Waking' = Waking \ {c}
    BY <1>0, <2>1, WakingMoves DEF Where
  <2>3. IsFiniteSet(Waking') /\ Cardinality(Waking') = W - 1 /\ Cardinality(Waking') \in Nat
    BY <1>0, <2>1, <2>2, FS_RemoveElement, FS_CardinalityType DEF WakeInv
  <2>4. Queued' = Queued
    BY <2>1, QueuedKept
  <2>5. jobs' \in Nat /\ jobs' <= jobs + 1
    BY <1>0, <2>1, WakeType
  <2>6. Wakes' <= Queued'
    <3> DEFINE N == Cardinality(Waking')
    <3>1. Wakes' = wakers + jobs' + N
      BY <2>1 DEF Wakes
    <3>2. N = W - 1 /\ N \in Nat
      BY <2>3
    <3> HIDE DEF W, N
    <3>3. wakers + jobs' + N <= Queued
      BY <1>0, <2>5, <3>2, JobForWaker
    <3> QED BY <2>4, <3>1, <3>3
  <2> QED BY <1>0, <2>1, <2>3, <2>5, <2>6 DEF WakeInv
<1>9. ASSUME NEW c \in Client,
             \/ RequestState(c) \/ RequestSubscribe(c) \/ ReadState(c) \/ SendState(c)
             \/ Answer(c) \/ drop(c)
      PROVE  WakeInv'
  <2>1. /\ UNCHANGED <<queue, taken, done, menus, wakers, jobs>> /\ c \notin Waking
        /\ \/ Moves(c, "answering", 0) \/ Moves(c, "subscribed", 0) \/ Moves(c, "state", version)
           \/ Moves(c, "reading", 0) \/ Moves(c, "gone", 0)
    BY <1>9 DEF RequestState, RequestSubscribe, ReadState, SendState, Answer, drop, dispatchVars,
                queueVars, Waking
  <2>2. Waking' = Waking
    BY <1>0, <2>1, WakingMoves DEF Where
  <2> QED BY <1>1, <2>1, <2>2
<1>10. \/ UNCHANGED <<wakers, jobs, menus, reader>> /\ (Apply \/ UNCHANGED <<queue, taken, done>>)
       \/ KeyPressed \/ MarkDirty \/ RunCommand \/ MenuCloses \/ MenuWakes
       \/ \E c \in Client :
            \/ RequestRun(c) \/ ReaderWakes(c)
            \/ RequestState(c) \/ RequestSubscribe(c) \/ ReadState(c) \/ SendState(c)
            \/ Answer(c) \/ drop(c)
  BY DEF Next, DispatchThread, Broadcaster, Reader, vars, dispatchVars, queueVars, socketVars, Start,
         Event, Apply, EndPass, TakeChange, ReadChange, Broadcast, writeLoop, PeerHangsUp
<1>11. UNCHANGED reader => UNCHANGED Waking
  BY DEF Waking
<1> HIDE DEF Waking
<1> QED BY <1>1, <1>2, <1>3, <1>4, <1>5, <1>6, <1>7, <1>8, <1>9, <1>10, <1>11

LEMMA WakeInvStart == Init => WakeInv
<1> SUFFICES ASSUME Init PROVE WakeInv
  OBVIOUS
<1>1. Waking = {}
  BY DEF Init, Waking
<1>2. IsFiniteSet(Waking) /\ Cardinality(Waking) = 0
  BY <1>1, FS_EmptySet
<1>3. Queued = 0 /\ Len(done) = 0 /\ wakers = 0 /\ jobs = 0 /\ menus = 0
  BY DEF Init, Queued
<1> QED BY <1>2, <1>3 DEF WakeInv, Wakes

\* No more commands are queued than there are numbers for.
LEMMA QueuedBounded == QueueInv => Queued <= MaxCommands
<1> SUFFICES ASSUME QueueInv PROVE Queued <= MaxCommands
  OBVIOUS
<1>1. Queued \in Nat /\ Len(all) = Queued /\ all \in Seq(Numbers)
  BY QueuedType DEF QueueInv
<1>2. ASSUME Queued > 0 PROVE Queued \in Numbers
  <2>1. Queued \in ToSet(all)
    BY <1>1, <1>2 DEF QueueInv, Arranged
  <2>2. PICK i \in DOMAIN all : Queued = all[i]
    BY <2>1 DEF ToSet
  <2>3. all[i] \in Numbers
    BY <1>1, <2>2, ElementOfSeq
  <2> QED BY <2>2, <2>3
<1> QED BY <1>1, <1>2, ControlAssumption DEF Numbers

\* However many clients and commands: every variable keeps its type, and no
\* counter and no channel passes its bound.
THEOREM ControlTypes == Spec => []TypeOK
<1>1. ASSUME QueueInv, SocketInv, WakeInv PROVE TypeOK
  <2>1. {jobs, menus, wakers} \subseteq 0..MaxCommands
    <3>1. Queued \in Nat /\ Queued <= MaxCommands /\ Len(done) <= Queued
      <4>1. Len(queue) \in Nat /\ Len(taken) \in Nat /\ Len(done) \in Nat
        BY <1>1 DEF QueueInv
      <4> QED BY <1>1, <4>1, QueuedBounded DEF Queued
    <3>2. Cardinality(Waking) \in Nat
      BY <1>1, FS_CardinalityType DEF WakeInv
    <3>3. wakers + jobs + Cardinality(Waking) <= Queued /\ menus <= Len(done)
      BY <1>1 DEF WakeInv, Wakes
    <3>4. wakers \in Nat /\ jobs \in Nat /\ menus \in Nat /\ MaxCommands \in Nat
      BY <1>1, ControlAssumption DEF WakeInv
    <3>5. Len(done) \in Nat
      BY <1>1 DEF QueueInv
    <3> QED BY <3>1, <3>2, <3>3, <3>4, <3>5
  <2>2. \A t \in {broadcaster} \cup {reader[c] : c \in Client} : t.at \in Where /\ t.saw \in 0..version
    BY <1>1 DEF SocketInv, Position
  <2>3. \A c \in Client : 0 <= last[c] /\ last[c] <= best[c] /\ best[c] <= version
    BY <1>1 DEF SocketInv
  <2> QED BY <1>1, <2>1, <2>2, <2>3 DEF QueueInv, SocketInv, TypeOK, Numbers
<1> QED BY <1>1, QueueInvStart, QueueInvKept, SocketInvStart, SocketInvKept, WakeInvStart, WakeInvKept,
           PTL DEF Spec

-----------------------------------------------------------------------------
(* What has still to be done, and by whom.                                 *)

SomeoneWakes == jobs > 0 \/ wakers > 0 \/ Waking # {}

\* The newest version is on its way to subscriber c.
OnItsWay(c) ==
  \/ up /\ (scheduled \/ running)
  \/ changed
  \/ broadcaster.at = "snapshot"
  \/ broadcaster.at = "sending" /\ broadcaster.saw = version
  \/ reader[c].at = "subscribed"
  \/ reader[c].at = "state" /\ reader[c].saw = version

PendingInv ==
  /\ up /\ queue # <<>> => scheduled \/ SomeoneWakes
  /\ ~up => version = 1
  /\ \A c \in subs \ lost : best[c] < version => OnItsWay(c)

\* A wake that leaves no trace is one before river is up.
LEMMA WakeIsHeard ==
  ASSUME SocketInv, jobs \in Nat, Wake
  PROVE  /\ up => scheduled' \/ jobs' > 0
         /\ scheduled => scheduled'
         /\ jobs > 0 => jobs' > 0
BY DEF Wake, SocketInv

LEMMA NoneIsForgotten == SocketInv /\ WakeInv /\ PendingInv => NothingForgotten
<1> SUFFICES ASSUME SocketInv, WakeInv, PendingInv, Quiet
             PROVE  /\ up => queue = <<>>
                    /\ \A c \in subs \ lost : best[c] = version
  BY DEF NothingForgotten
<1>1. Waking = {}
  BY DEF Waking, Quiet
<1>2. ~SomeoneWakes
  BY <1>1 DEF SomeoneWakes, Quiet
<1>3. ASSUME NEW c \in subs \ lost PROVE best[c] = version
  <2>1. c \in Client /\ best[c] \in Nat /\ version \in Nat /\ best[c] <= version
    BY DEF SocketInv
  <2>2. ~OnItsWay(c)
    BY <2>1 DEF OnItsWay, Quiet
  <2>3. ~(best[c] < version)
    BY <2>2 DEF PendingInv
  <2> QED BY <2>1, <2>3
<1> QED BY <1>2, <1>3 DEF PendingInv, Quiet

\* Who queues a command sees to it that a pass comes.
LEMMA QueueIsNoticed ==
  ASSUME QueueInv, SocketInv, WakeInv, PendingInv, [Next]_vars, up', queue' # <<>>
  PROVE  scheduled' \/ SomeoneWakes'
<1>0. jobs \in Nat /\ wakers \in Nat /\ 0 \in 0..version /\ version \in 0..version
  BY DEF WakeInv, SocketInv
<1>1. CASE UNCHANGED <<up, queue, scheduled, jobs, wakers, Waking>>
  BY <1>1 DEF PendingInv, SomeoneWakes
<1>2. CASE Start \/ Event \/ KeyPressed \/ MarkDirty
  BY <1>2 DEF Start, Event, KeyPressed, MarkDirty
<1>3. CASE Apply
  BY <1>3 DEF Apply, DrainQueue
<1>4. CASE MenuCloses
  <2>1. CASE wakers' = wakers + 1
    BY <1>0, <2>1 DEF SomeoneWakes
  <2>2. CASE UNCHANGED <<queue, wakers>>
    <3>1. UNCHANGED Waking
      BY <1>4 DEF MenuCloses, socketVars, Waking
    <3> QED BY <1>1, <1>4, <2>2, <3>1 DEF MenuCloses
  <2> QED BY <1>4, <2>1, <2>2 DEF MenuCloses
<1>5. CASE MenuWakes
  <2>1. Wake /\ up' = up
    BY <1>5 DEF MenuWakes, dispatchVars
  <2> QED BY <1>0, <2>1, WakeIsHeard DEF SomeoneWakes
<1>6. ASSUME NEW c \in Client, RequestRun(c) PROVE SomeoneWakes'
  <2>1. Moves(c, "waking", 0)
    BY <1>6 DEF RequestRun
  <2>2. c \in Waking'
    BY <1>0, <2>1, WakingMoves DEF Where
  <2> QED BY <2>2 DEF SomeoneWakes
<1>7. ASSUME NEW c \in Client, ReaderWakes(c) PROVE scheduled' \/ SomeoneWakes'
  <2>1. Wake /\ up' = up
    BY <1>7 DEF ReaderWakes, dispatchVars
  <2> QED BY <1>0, <2>1, WakeIsHeard DEF SomeoneWakes
<1>8. ASSUME NEW c \in Client,
             \/ RequestState(c) \/ RequestSubscribe(c) \/ ReadState(c) \/ SendState(c)
             \/ Answer(c) \/ drop(c)
      PROVE  scheduled' \/ SomeoneWakes'
  <2>1. /\ UNCHANGED <<up, queue, scheduled, jobs, wakers>> /\ c \notin Waking
        /\ \/ Moves(c, "answering", 0) \/ Moves(c, "subscribed", 0) \/ Moves(c, "state", version)
           \/ Moves(c, "reading", 0) \/ Moves(c, "gone", 0)
    BY <1>8 DEF RequestState, RequestSubscribe, ReadState, SendState, Answer, drop, dispatchVars,
                queueVars, Waking
  <2>2. Waking' = Waking
    BY <1>0, <2>1, WakingMoves DEF Where
  <2> QED BY <1>1, <2>1, <2>2
<1>9. \/ UNCHANGED <<up, queue, scheduled, jobs, wakers, reader>>
      \/ Start \/ Event \/ KeyPressed \/ MarkDirty \/ Apply \/ MenuCloses \/ MenuWakes
      \/ \E c \in Client :
           \/ RequestRun(c) \/ ReaderWakes(c)
           \/ RequestState(c) \/ RequestSubscribe(c) \/ ReadState(c) \/ SendState(c)
           \/ Answer(c) \/ drop(c)
  BY DEF Next, DispatchThread, Broadcaster, Reader, vars, dispatchVars, queueVars, socketVars,
         RunCommand, EndPass, TakeChange, ReadChange, Broadcast, writeLoop, PeerHangsUp
<1>10. UNCHANGED reader => UNCHANGED Waking
  BY DEF Waking
<1> HIDE DEF Waking
<1> QED BY <1>1, <1>2, <1>3, <1>4, <1>5, <1>6, <1>7, <1>8, <1>9, <1>10

\* Before wimy is up nothing changes the model.
LEMMA UnchangedUntilUp ==
  ASSUME QueueInv, PendingInv, [Next]_vars
  PROVE  /\ ~up' => version' = 1
         /\ UNCHANGED version \/ Event \/ (RunCommand /\ up)
<1>1. CASE RunCommand
  <2>1. taken \in Seq(Numbers) /\ taken # <<>>
    BY <1>1 DEF QueueInv, RunCommand
  <2>2. 1 \in 1..Len(taken) /\ Head(taken) = taken[1]
    BY <2>1
  <2>3. ~up => Head(taken) \in Early
    BY <2>2 DEF QueueInv
  <2>4. ~up => version' = version
    BY <1>1, <2>3 DEF RunCommand
  <2>5. up' = up
    BY <1>1 DEF RunCommand
  <2> QED BY <1>1, <2>4, <2>5 DEF PendingInv
<1>2. CASE Event
  BY <1>2 DEF Event
<1>3. \/ RunCommand \/ Event
      \/ version' = version /\ (up => up')
  BY DEF Next, DispatchThread, Broadcaster, Reader, vars, dispatchVars, Start, KeyPressed, MarkDirty,
         Apply, EndPass, MenuCloses, MenuWakes, TakeChange, ReadChange, Broadcast, RequestRun,
         RequestState, RequestSubscribe, ReaderWakes, ReadState, SendState, Answer, drop, writeLoop,
         PeerHangsUp
<1> QED BY <1>1, <1>2, <1>3 DEF PendingInv

\* The part of the state that says where the newest version is.
wayVars == <<up, running, changed, broadcaster, version>>

\* A step of another part of the system leaves the news on its way.
LEMMA StaysOnItsWay ==
  ASSUME SocketInv, PendingInv, NEW c \in subs \ lost, best[c] < version,
         UNCHANGED wayVars, scheduled => scheduled',
         \/ reader'[c] = reader[c]
         \/ reader[c].at \notin {"subscribed", "state"}
         \/ reader[c].at = "state" /\ reader[c].saw # version
  PROVE  OnItsWay(c)'
BY DEF PendingInv, OnItsWay, wayVars

LEMMA NewsOnItsWay ==
  ASSUME QueueInv, SocketInv, WakeInv, PendingInv, [Next]_vars,
         NEW c \in subs' \ lost', best'[c] < version'
  PROVE  OnItsWay(c)'
<1>0. /\ jobs \in Nat /\ wakers \in Nat /\ 0 \in 0..version /\ version \in 0..version /\ version \in Nat
      /\ \A d \in Client : best[d] \in Nat
      /\ subs \subseteq Client
  BY DEF WakeInv, SocketInv
<1> DEFINE Same == UNCHANGED <<version, subs, lost, best>>
           Was == c \in subs \ lost /\ best[c] < version
<1>1. Same => Was
  OBVIOUS
<1>2. CASE Start \/ Event
  BY <1>2 DEF Start, Event, OnItsWay
<1>3. CASE KeyPressed \/ MarkDirty
  <2>1. scheduled' /\ UNCHANGED <<wayVars, reader>> /\ Same
    BY <1>3 DEF KeyPressed, MarkDirty, dispatchVars, socketVars, frameVars, wayVars
  <2> QED BY <1>1, <2>1, StaysOnItsWay
<1>4. CASE Apply
  <2>1. Was /\ running' /\ UNCHANGED <<up, changed, broadcaster, reader, version>>
    BY <1>1, <1>4 DEF Apply, socketVars, frameVars
  <2> QED BY <2>1 DEF PendingInv, OnItsWay
<1>5. CASE RunCommand
  <2>1. running' /\ UNCHANGED <<wakers, changed, subs, lost, best, broadcaster, reader, scheduled, running, up>>
    BY <1>5 DEF RunCommand, socketVars, frameVars, queueVars
  <2>2. CASE UNCHANGED version
    BY <1>1, <2>1, <2>2, StaysOnItsWay DEF wayVars
  <2>3. CASE up
    BY <2>1, <2>3 DEF OnItsWay
  <2>4. ~Event \/ up
    BY DEF Event
  <2> QED BY <2>2, <2>3, <2>4, UnchangedUntilUp
<1>6. CASE EndPass
  <2>1. Was /\ UNCHANGED <<up, broadcaster, reader, version>>
    BY <1>1, <1>6 DEF EndPass, socketVars, frameVars
  <2>2. CASE up
    BY <1>6, <2>2 DEF EndPass, Notify, OnItsWay
  <2>3. CASE ~up
    BY <1>6, <2>1, <2>3 DEF EndPass, PendingInv, OnItsWay
  <2> QED BY <2>2, <2>3
<1>7. CASE MenuWakes
  <2>1. Wake /\ UNCHANGED <<wayVars, reader>> /\ Same
    BY <1>7 DEF MenuWakes, dispatchVars, socketVars, frameVars, wayVars
  <2> QED BY <1>0, <1>1, <2>1, WakeIsHeard, StaysOnItsWay
<1>8. CASE TakeChange \/ ReadChange
  BY <1>8 DEF TakeChange, ReadChange, OnItsWay, dispatchVars
<1>9. CASE Broadcast
  <2>1. broadcaster.saw \in 0..version /\ subs \in SUBSET Client
    BY DEF SocketInv, Position
  <2>2. /\ trySend(subs, broadcaster.saw)
        /\ UNCHANGED <<up, running, scheduled, changed, reader, version, subs>>
    BY <1>9 DEF Broadcast, dispatchVars, queueVars
  <2>3. c \in subs \ lost' /\ c \in Client /\ broadcaster.saw <= best'[c] /\ best[c] <= best'[c]
        /\ lost \subseteq lost' /\ best'[c] \in Nat
    BY <1>0, <2>1, <2>2, TrySendType
  <2>4. broadcaster.saw # version /\ Was
    BY <1>0, <2>1, <2>2, <2>3
  <2> QED BY <1>9, <2>2, <2>4 DEF Broadcast, PendingInv, OnItsWay
<1>10. ASSUME NEW d \in Client,
              \/ RequestRun(d) \/ ReaderWakes(d) \/ RequestState(d)
       PROVE  OnItsWay(c)'
  <2>1. /\ UNCHANGED wayVars /\ Same
        /\ \/ UNCHANGED scheduled
           \/ Wake
        /\ reader[d].at \in {"reading", "waking"}
        /\ Moves(d, "waking", 0) \/ Moves(d, "answering", 0)
    BY <1>10 DEF RequestRun, ReaderWakes, RequestState, dispatchVars, queueVars, frameVars, wayVars
  <2>2. scheduled => scheduled'
    BY <1>0, <2>1, WakeIsHeard
  <2>3. c # d => reader'[c] = reader[c]
    BY <1>0, <1>1, <2>1, MovesOnly
  <2> QED BY <1>1, <2>1, <2>2, <2>3, StaysOnItsWay
<1>11. ASSUME NEW d \in Client, RequestSubscribe(d) PROVE OnItsWay(c)'
  <2>1. /\ UNCHANGED <<wayVars, scheduled, lost, best>> /\ subs' = subs \cup {d}
        /\ Moves(d, "subscribed", 0)
    BY <1>11 DEF RequestSubscribe, dispatchVars, queueVars, frameVars, wayVars
  <2>1a. Moves(d, "subscribed", 0)
    BY <2>1
  <2>2. /\ reader'[d] = [at |-> "subscribed", saw |-> 0]
        /\ \A e \in Client \ {d} : reader'[e] = reader[e]
    BY <2>1a, MovesOnly
  <2>3. CASE c = d
    BY <2>2, <2>3 DEF OnItsWay
  <2>4. CASE c # d
    <3>1. Was /\ reader'[c] = reader[c]
      BY <1>0, <2>1, <2>2, <2>4 DEF wayVars
    <3> QED BY <2>1, <3>1, StaysOnItsWay
  <2> QED BY <2>3, <2>4
<1>12. ASSUME NEW d \in Client, ReadState(d) PROVE OnItsWay(c)'
  <2>1. UNCHANGED <<wayVars, scheduled>> /\ Same /\ Moves(d, "state", version)
    BY <1>12 DEF ReadState, dispatchVars, queueVars, frameVars, wayVars
  <2>2. /\ reader'[d] = [at |-> "state", saw |-> version]
        /\ \A e \in Client \ {d} : reader'[e] = reader[e]
    BY <1>0, <2>1, MovesOnly
  <2>3. CASE c = d
    BY <2>1, <2>2, <2>3 DEF OnItsWay
  <2>4. CASE c # d
    BY <1>0, <1>1, <2>1, <2>2, <2>4, StaysOnItsWay
  <2> QED BY <2>3, <2>4
<1>13. ASSUME NEW d \in Client, SendState(d) \/ Answer(d) PROVE OnItsWay(c)'
  <2> DEFINE frame == IF SendState(d) THEN reader[d].saw ELSE Response
  <2>1. frame \in 0..version /\ {d} \in SUBSET Client
    BY <1>0 DEF SocketInv, Position, Response
  <2>2. /\ trySend({d}, frame) /\ UNCHANGED <<wayVars, scheduled, subs>>
        /\ Moves(d, "answering", 0) \/ Moves(d, "reading", 0)
    BY <1>13 DEF SendState, Answer, dispatchVars, queueVars, wayVars
  <2>3. /\ lost \subseteq lost' /\ (c = d => frame <= best'[c]) /\ best[c] <= best'[c]
        /\ c \in Client /\ best'[c] \in Nat
    <3> HIDE DEF frame
    <3>1. c \in Client
      BY <1>0, <2>2
    <3> QED BY <2>1, <2>2, <3>1, TrySendType
  <2>4. Was /\ version' = version
    BY <1>0, <2>2, <2>3 DEF wayVars
  <2>5. c # d => reader'[c] = reader[c]
    BY <1>0, <2>2, <2>3, MovesOnly
  <2>6. c = d => frame # version
    <3> HIDE DEF frame
    <3> QED BY <1>0, <2>1, <2>3, <2>4
  <2>7. CASE SendState(d)
    <3>1. reader[d].at = "state"
      BY <2>7 DEF SendState
    <3> QED BY <2>2, <2>4, <2>5, <2>6, <2>7, <3>1, StaysOnItsWay
  <2>8. CASE Answer(d)
    <3>1. reader[d].at = "answering"
      BY <2>8 DEF Answer
    <3> QED BY <2>2, <2>4, <2>5, <3>1, StaysOnItsWay
  <2> QED BY <1>13, <2>7, <2>8
<1>14. ASSUME NEW d \in Client, drop(d) PROVE OnItsWay(c)'
  <2>1. /\ UNCHANGED <<wayVars, scheduled, lost, best>> /\ subs' = subs \ {d}
        /\ Moves(d, "gone", 0)
    BY <1>14 DEF drop, dispatchVars, queueVars, frameVars, wayVars
  <2>2. c # d /\ Was /\ reader'[c] = reader[c]
    BY <1>0, <2>1, MovesOnly DEF wayVars
  <2> QED BY <2>1, <2>2, StaysOnItsWay
<1>15. CASE UNCHANGED <<wayVars, scheduled, reader>> /\ Same
  BY <1>1, <1>15, StaysOnItsWay
<1>16. \/ UNCHANGED <<wayVars, scheduled, reader>> /\ Same
       \/ Start \/ Event \/ KeyPressed \/ MarkDirty \/ Apply \/ RunCommand \/ EndPass \/ MenuWakes
       \/ TakeChange \/ ReadChange \/ Broadcast
       \/ \E d \in Client :
            \/ RequestRun(d) \/ ReaderWakes(d) \/ RequestState(d) \/ RequestSubscribe(d)
            \/ ReadState(d) \/ SendState(d) \/ Answer(d) \/ drop(d)
  BY DEF Next, DispatchThread, Broadcaster, Reader, vars, dispatchVars, queueVars, socketVars, frameVars,
         wayVars, MenuCloses, writeLoop, PeerHangsUp
<1> QED BY <1>2, <1>3, <1>4, <1>5, <1>6, <1>7, <1>8, <1>9, <1>10, <1>11, <1>12, <1>13, <1>14, <1>15, <1>16

LEMMA PendingInvKept == QueueInv /\ SocketInv /\ WakeInv /\ PendingInv /\ [Next]_vars => PendingInv'
<1> SUFFICES ASSUME QueueInv, SocketInv, WakeInv, PendingInv, [Next]_vars PROVE PendingInv'
  OBVIOUS
<1>1. up' /\ queue' # <<>> => scheduled' \/ SomeoneWakes'
  BY QueueIsNoticed
<1>2. ~up' => version' = 1
  BY UnchangedUntilUp
<1>3. \A c \in subs' \ lost' : best'[c] < version' => OnItsWay(c)'
  BY NewsOnItsWay
<1> QED BY <1>1, <1>2, <1>3 DEF PendingInv

LEMMA PendingInvStart == Init => PendingInv
BY DEF Init, PendingInv

\* However commands, changes and requests interleave with the wakes, the passes
\* and the broadcasts: when the threads have come to rest no command waits in the
\* queue of a wimy that is up, and no subscriber that reads lacks the last change.
THEOREM NothingIsForgotten == Spec => []NothingForgotten
<1> QED BY QueueInvStart, QueueInvKept, SocketInvStart, SocketInvKept, WakeInvStart, WakeInvKept,
           PendingInvStart, PendingInvKept, NoneIsForgotten, PTL DEF Spec
=============================================================================
