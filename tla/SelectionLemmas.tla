--------------------------- MODULE SelectionLemmas ---------------------------
(***************************************************************************)
(* What a loop that selects entries returns.  Neither of the provers does  *)
(* induction; here it is a fact about sets of numbers, which follows from  *)
(* the least element that a set of numbers has.                            *)
(***************************************************************************)
EXTENDS Selection, Integers, Sequences, TLAPS, NaturalsInduction, WellFoundedInduction,
        SequenceTheorems

LessOnNat == {p \in Nat \X Nat : p[1] < p[2]}

LEMMA LessOnNatWellFounded == IsWellFoundedOn(LessOnNat, Nat)
BY NatLessThanWellFounded DEF OpToRel, LessOnNat

\* A set of numbers that has 0 and the successor of each of its members below N
\* has all numbers up to N.
LEMMA InductionUpTo ==
  ASSUME NEW N \in Nat, NEW T, 0 \in T, \A n \in 0..N - 1 : n \in T => n + 1 \in T
  PROVE  0..N \subseteq T
<1> DEFINE missing == (0..N) \ T
<1>1. SUFFICES ASSUME missing # {} PROVE FALSE
  OBVIOUS
<1>2. missing \subseteq Nat
  OBVIOUS
<1>3. PICK x \in missing : \A y \in missing : <<y, x>> \notin LessOnNat
  <2> HIDE DEF missing
  <2> QED BY <1>1, <1>2, LessOnNatWellFounded, WFMin
<1>4. x - 1 \in 0..N - 1
  OBVIOUS
<1>5. <<x - 1, x>> \in LessOnNat
  BY <1>4 DEF LessOnNat
<1>6. x - 1 \in T
  BY <1>3, <1>4, <1>5
<1> QED BY <1>4, <1>6

\* One round of the loop.
next(q, S, sel, n) == IF n = 0 THEN <<>>
                      ELSE IF q[n] \in S THEN Append(sel[n - 1], q[n])
                      ELSE sel[n - 1]

LEMMA SelectionsDefined ==
  ASSUME NEW T, NEW q \in Seq(T), NEW S
  PROVE  selections(q, S) = [n \in 0..Len(q) |-> next(q, S, selections(q, S), n)]
<1> DEFINE upTo(m, sel) == sel = [n \in 0..m |-> next(q, S, sel, n)]
           OK == {m \in 0..Len(q) : \E sel : upTo(m, sel)}
<1>1. Len(q) \in Nat
  OBVIOUS
<1>2. 0 \in OK
  <2>1. upTo(0, [n \in 0..0 |-> <<>>])
    BY DEF next
  <2> QED BY <1>1, <2>1
<1>3. ASSUME NEW m \in 0..Len(q) - 1, m \in OK PROVE m + 1 \in OK
  <2>1. PICK sel : upTo(m, sel)
    BY <1>3
  <2> DEFINE longer == [n \in 0..m + 1 |-> IF n \in 0..m THEN sel[n] ELSE next(q, S, sel, n)]
  <2>2. ASSUME NEW n \in 0..m + 1 PROVE longer[n] = next(q, S, longer, n)
    <3>1. \A k \in 0..m : longer[k] = sel[k]
      BY <1>1
    <3>2. n # 0 => n - 1 \in 0..m
      BY <1>1
    <3>3. next(q, S, longer, n) = next(q, S, sel, n)
      BY <3>1, <3>2 DEF next
    <3>4. n \in 0..m => sel[n] = next(q, S, sel, n)
      BY <2>1
    <3> QED BY <3>3, <3>4
  <2>3. upTo(m + 1, longer)
    BY <2>2
  <2>4. m + 1 \in 0..Len(q) /\ \E f : upTo(m + 1, f)
    <3> HIDE DEF longer
    <3> QED BY <1>1, <2>3
  <2> QED BY <2>4
<1>4. Len(q) \in OK
  BY <1>1, <1>2, <1>3, InductionUpTo
<1>5. selections(q, S) = CHOOSE sel : upTo(Len(q), sel)
  BY DEF selections, next
<1> QED BY <1>4, <1>5

LEMMA SelectionsStep ==
  ASSUME NEW T, NEW q \in Seq(T), NEW S
  PROVE  /\ selections(q, S)[0] = <<>>
         /\ \A n \in 0..Len(q) - 1 :
              selections(q, S)[n + 1] = IF q[n + 1] \in S THEN Append(selections(q, S)[n], q[n + 1])
                                        ELSE selections(q, S)[n]
<1> DEFINE sel == selections(q, S)
<1>1. Len(q) \in Nat
  OBVIOUS
<1>0. sel = [n \in 0..Len(q) |-> next(q, S, sel, n)]
  BY SelectionsDefined
<1> HIDE DEF sel
<1>2. \A n \in 0..Len(q) : sel[n] = next(q, S, sel, n)
  BY <1>0, Zenon
<1>3. sel[0] = <<>>
  BY <1>1, <1>2 DEF next
<1>4. ASSUME NEW n \in 0..Len(q) - 1
      PROVE  sel[n + 1] = IF q[n + 1] \in S THEN Append(sel[n], q[n + 1]) ELSE sel[n]
  <2>1. n + 1 \in 0..Len(q) /\ n + 1 # 0 /\ (n + 1) - 1 = n
    BY <1>1
  <2> QED BY <1>2, <2>1 DEF next
<1> QED BY <1>3, <1>4 DEF sel

\* What s has of the first n entries of q is what is in S, in its order.
SelectsFrom(s, q, S, n) ==
  /\ Len(s) <= n
  /\ \A k \in 1..Len(s) : s[k] \in S /\ \E i \in 1..n : s[k] = q[i]
  /\ \A k, l \in 1..Len(s) : k < l => \E i, j \in 1..n : i < j /\ s[k] = q[i] /\ s[l] = q[j]
  /\ \A i \in 1..n : q[i] \in S => \E k \in 1..Len(s) : s[k] = q[i]

LEMMA SelectsOneMore ==
  ASSUME NEW T, NEW q \in Seq(T), NEW S, NEW n \in Nat, n + 1 <= Len(q),
         NEW s \in Seq(T), SelectsFrom(s, q, S, n)
  PROVE  LET t == IF q[n + 1] \in S THEN Append(s, q[n + 1]) ELSE s
         IN t \in Seq(T) /\ SelectsFrom(t, q, S, n + 1)
<1>1. q[n + 1] \in T /\ Len(s) \in Nat
  OBVIOUS
<1>2. CASE q[n + 1] \notin S
  <2>1. 1..n \subseteq 1..n + 1 /\ \A i \in 1..n + 1 : q[i] \in S => i \in 1..n
    BY <1>2
  <2>2. Len(s) <= n + 1
    BY <1>1 DEF SelectsFrom
  <2>3. \A k \in 1..Len(s) : s[k] \in S /\ \E i \in 1..n + 1 : s[k] = q[i]
    BY <2>1 DEF SelectsFrom
  <2>4. ASSUME NEW k \in 1..Len(s), NEW l \in 1..Len(s), k < l
        PROVE  \E i, j \in 1..n + 1 : i < j /\ s[k] = q[i] /\ s[l] = q[j]
    <3>1. PICK i \in 1..n, j \in 1..n : i < j /\ s[k] = q[i] /\ s[l] = q[j]
      BY <2>4 DEF SelectsFrom
    <3> QED BY <2>1, <3>1
  <2>5. \A i \in 1..n + 1 : q[i] \in S => \E k \in 1..Len(s) : s[k] = q[i]
    BY <2>1 DEF SelectsFrom
  <2>6. SelectsFrom(s, q, S, n + 1)
    BY <2>2, <2>3, <2>4, <2>5 DEF SelectsFrom
  <2> QED BY <1>2, <2>6
<1>3. CASE q[n + 1] \in S
  <2> DEFINE t == Append(s, q[n + 1])
  <2>1. /\ t \in Seq(T) /\ Len(t) = Len(s) + 1
        /\ \A k \in 1..Len(s) : t[k] = s[k]
        /\ t[Len(s) + 1] = q[n + 1]
    BY <1>1
  <2> HIDE DEF t
  <2>2. Len(t) <= n + 1
    BY <1>1, <2>1 DEF SelectsFrom
  <2>3. ASSUME NEW k \in 1..Len(t)
        PROVE  t[k] \in S /\ \E i \in 1..n + 1 : t[k] = q[i]
    <3>1. CASE k = Len(s) + 1
      BY <1>3, <2>1, <3>1
    <3>2. CASE k # Len(s) + 1
      <4>1. k \in 1..Len(s)
        BY <1>1, <2>1, <3>2
      <4>2. s[k] \in S /\ \E i \in 1..n : s[k] = q[i]
        BY <4>1 DEF SelectsFrom
      <4>3. 1..n \subseteq 1..n + 1
        OBVIOUS
      <4> QED BY <2>1, <4>1, <4>2, <4>3
    <3> QED BY <3>1, <3>2
  <2>4. ASSUME NEW k \in 1..Len(t), NEW l \in 1..Len(t), k < l
        PROVE  \E i, j \in 1..n + 1 : i < j /\ t[k] = q[i] /\ t[l] = q[j]
    <3>1. k \in 1..Len(s)
      BY <1>1, <2>1, <2>4
    <3>2. CASE l = Len(s) + 1
      <4>1. PICK i \in 1..n : s[k] = q[i]
        BY <3>1 DEF SelectsFrom
      <4>2. i \in 1..n + 1 /\ n + 1 \in 1..n + 1 /\ i < n + 1
        OBVIOUS
      <4> QED BY <2>1, <3>1, <3>2, <4>1, <4>2
    <3>3. CASE l # Len(s) + 1
      <4>1. l \in 1..Len(s)
        BY <1>1, <2>1, <3>3
      <4>2. PICK i \in 1..n, j \in 1..n : i < j /\ s[k] = q[i] /\ s[l] = q[j]
        BY <2>4, <3>1, <4>1 DEF SelectsFrom
      <4>3. i \in 1..n + 1 /\ j \in 1..n + 1
        OBVIOUS
      <4> QED BY <2>1, <3>1, <4>1, <4>2, <4>3
    <3> QED BY <3>2, <3>3
  <2>5. ASSUME NEW i \in 1..n + 1, q[i] \in S
        PROVE  \E k \in 1..Len(t) : t[k] = q[i]
    <3>1. CASE i = n + 1
      BY <1>1, <2>1, <3>1
    <3>2. CASE i # n + 1
      <4>1. PICK k \in 1..Len(s) : s[k] = q[i]
        BY <2>5, <3>2 DEF SelectsFrom
      <4> QED BY <1>1, <2>1, <4>1
    <3> QED BY <3>1, <3>2
  <2>6. SelectsFrom(t, q, S, n + 1)
    BY <2>2, <2>3, <2>4, <2>5 DEF SelectsFrom
  <2> QED BY <1>3, <2>1, <2>6 DEF t
<1> QED BY <1>2, <1>3

\* Selected returns the entries of q that are in S, each once and in their order.
LEMMA SelectedSelects ==
  ASSUME NEW T, NEW q \in Seq(T), NEW S
  PROVE  /\ Selected(q, S) \in Seq(T)
         /\ SelectsFrom(Selected(q, S), q, S, Len(q))
<1> DEFINE sel == selections(q, S)
           OK(n) == sel[n] \in Seq(T) /\ SelectsFrom(sel[n], q, S, n)
<1>1. Len(q) \in Nat
  OBVIOUS
<1>2. sel[0] = <<>> /\ \A n \in 0..Len(q) - 1 :
        sel[n + 1] = IF q[n + 1] \in S THEN Append(sel[n], q[n + 1]) ELSE sel[n]
  BY SelectionsStep
<1> HIDE DEF sel
<1>3. OK(0)
  <2>1. <<>> \in Seq(T) /\ SelectsFrom(<<>>, q, S, 0)
    BY DEF SelectsFrom
  <2> QED BY <1>2, <2>1, Zenon
<1>4. ASSUME NEW n \in 0..Len(q) - 1, OK(n) PROVE OK(n + 1)
  <2>1. n \in Nat /\ n + 1 <= Len(q)
    BY <1>1
  <2> DEFINE t == IF q[n + 1] \in S THEN Append(sel[n], q[n + 1]) ELSE sel[n]
  <2>2. t \in Seq(T) /\ SelectsFrom(t, q, S, n + 1)
    BY <1>4, <2>1, SelectsOneMore, Zenon
  <2>3. sel[n + 1] = t
    BY <1>2, Zenon
  <2> QED BY <2>2, <2>3, Zenon
<1>5. OK(Len(q))
  <2> HIDE DEF OK
  <2>1. 0 \in {n \in Nat : OK(n)}
    BY <1>3
  <2>2. \A n \in 0..Len(q) - 1 : n \in {m \in Nat : OK(m)} => n + 1 \in {m \in Nat : OK(m)}
    BY <1>1, <1>4
  <2>3. 0..Len(q) \subseteq {m \in Nat : OK(m)}
    BY <1>1, <2>1, <2>2, InductionUpTo, Zenon
  <2> QED BY <1>1, <2>3
<1> QED BY <1>5 DEF sel, Selected

\* Two sets that share out the entries of q share out its length.
LEMMA SelectedSharesLength ==
  ASSUME NEW T, NEW q \in Seq(T), NEW S, NEW R,
         \A i \in 1..Len(q) : q[i] \in S <=> q[i] \notin R
  PROVE  Len(Selected(q, S)) + Len(Selected(q, R)) = Len(q)
<1> DEFINE sel == selections(q, S)
           rest == selections(q, R)
           OK(n) == /\ sel[n] \in Seq(T) /\ rest[n] \in Seq(T)
                    /\ Len(sel[n]) + Len(rest[n]) = n
<1>1. Len(q) \in Nat
  OBVIOUS
<1>2. sel[0] = <<>> /\ \A n \in 0..Len(q) - 1 :
        sel[n + 1] = IF q[n + 1] \in S THEN Append(sel[n], q[n + 1]) ELSE sel[n]
  BY SelectionsStep
<1>3. rest[0] = <<>> /\ \A n \in 0..Len(q) - 1 :
        rest[n + 1] = IF q[n + 1] \in R THEN Append(rest[n], q[n + 1]) ELSE rest[n]
  BY SelectionsStep
<1> HIDE DEF sel, rest
<1>4. OK(0)
  <2>1. <<>> \in Seq(T) /\ Len(<<>>) = 0
    OBVIOUS
  <2>2. Len(sel[0]) = 0 /\ Len(rest[0]) = 0
    BY <1>2, <1>3, <2>1, Zenon
  <2>3. sel[0] \in Seq(T) /\ rest[0] \in Seq(T)
    BY <1>2, <1>3, <2>1, Zenon
  <2> QED BY <2>2, <2>3
<1>5. ASSUME NEW n \in 0..Len(q) - 1, OK(n) PROVE OK(n + 1)
  <2>1. n \in Nat /\ n + 1 \in 1..Len(q) /\ q[n + 1] \in T
    BY <1>1
  <2>2. CASE q[n + 1] \in S
    <3>1. sel[n + 1] = Append(sel[n], q[n + 1]) /\ rest[n + 1] = rest[n]
      BY <1>2, <1>3, <2>1, <2>2
    <3>2. /\ Append(sel[n], q[n + 1]) \in Seq(T)
          /\ Len(Append(sel[n], q[n + 1])) = Len(sel[n]) + 1
      BY <1>5, <2>1, AppendProperties
    <3>3. sel[n + 1] \in Seq(T) /\ rest[n + 1] \in Seq(T)
      BY <1>5, <3>1, <3>2, Zenon
    <3>4. Len(sel[n + 1]) = Len(sel[n]) + 1 /\ Len(rest[n + 1]) = Len(rest[n])
      BY <3>1, <3>2, Zenon
    <3>5. Len(sel[n]) \in Nat /\ Len(rest[n]) \in Nat
      BY <1>5, LenProperties
    <3>6. Len(sel[n + 1]) + Len(rest[n + 1]) = n + 1
      <4> DEFINE before == Len(sel[n])
                 others == Len(rest[n])
      <4>1. before + others = n /\ before \in Nat /\ others \in Nat
        BY <1>5, <3>5, Zenon
      <4> HIDE DEF before, others
      <4>2. (before + 1) + others = n + 1 /\ before + (others + 1) = n + 1
        BY <2>1, <4>1
      <4> QED BY <3>4, <4>2, Zenon DEF before, others
    <3> QED BY <3>3, <3>6, Zenon
  <2>3. CASE q[n + 1] \notin S
    <3>1. sel[n + 1] = sel[n] /\ rest[n + 1] = Append(rest[n], q[n + 1])
      BY <1>2, <1>3, <2>1, <2>3
    <3>2. /\ Append(rest[n], q[n + 1]) \in Seq(T)
          /\ Len(Append(rest[n], q[n + 1])) = Len(rest[n]) + 1
      BY <1>5, <2>1, AppendProperties
    <3>3. rest[n + 1] \in Seq(T) /\ sel[n + 1] \in Seq(T)
      BY <1>5, <3>1, <3>2, Zenon
    <3>4. Len(rest[n + 1]) = Len(rest[n]) + 1 /\ Len(sel[n + 1]) = Len(sel[n])
      BY <3>1, <3>2, Zenon
    <3>5. Len(rest[n]) \in Nat /\ Len(sel[n]) \in Nat
      BY <1>5, LenProperties
    <3>6. Len(sel[n + 1]) + Len(rest[n + 1]) = n + 1
      <4> DEFINE before == Len(sel[n])
                 others == Len(rest[n])
      <4>1. before + others = n /\ before \in Nat /\ others \in Nat
        BY <1>5, <3>5, Zenon
      <4> HIDE DEF before, others
      <4>2. (before + 1) + others = n + 1 /\ before + (others + 1) = n + 1
        BY <2>1, <4>1
      <4> QED BY <3>4, <4>2, Zenon DEF before, others
    <3> QED BY <3>3, <3>6, Zenon
  <2> QED BY <2>2, <2>3
<1>6. OK(Len(q))
  <2> HIDE DEF OK
  <2>1. 0 \in {n \in Nat : OK(n)}
    BY <1>4
  <2>2. \A n \in 0..Len(q) - 1 : n \in {m \in Nat : OK(m)} => n + 1 \in {m \in Nat : OK(m)}
    BY <1>1, <1>5
  <2>3. 0..Len(q) \subseteq {m \in Nat : OK(m)}
    BY <1>1, <2>1, <2>2, InductionUpTo, Zenon
  <2> QED BY <1>1, <2>3
<1> QED BY <1>6 DEF sel, rest, Selected
=============================================================================
