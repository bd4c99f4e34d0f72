---------------------------- MODULE AsyncioProof ----------------------------
(***************************************************************************)
(* What the runs check of the lock, the condition, the semaphore, the      *)
(* queue and the barrier of asyncio, for any tasks and parameters, however *)
(* the loop schedules the tasks and whoever cancels them when.             *)
(*                                                                         *)
(* In this order: sequences and what Among takes from them; the schedule   *)
(* of the loop, which every step of every primitive goes through (Runs,    *)
(* CancelTask); who is woken; then one invariant for each primitive.       *)
(***************************************************************************)
EXTENDS AsyncLocks, AsyncSemaphore, AsyncQueue, AsyncBarrier,
        FiniteSetTheorems, SequenceTheorems, WellFoundedInduction, TLAPS

(* Every set of numbers has a least element. *)
LEMMA LeastNat ==
  ASSUME NEW T, T \subseteq Nat, T # {}
  PROVE  \E x \in T : \A y \in T : x <= y
<1>1. PICK R : /\ R = OpToRel(<, Nat)
               /\ IsWellFoundedOn(R, Nat)
               /\ \A x, y \in Nat : <<y, x>> \in R <=> y < x
  <2> DEFINE R == OpToRel(<, Nat)
  <2>1. IsWellFoundedOn(R, Nat)
    BY NatLessThanWellFounded, Zenon
  <2>2. \A x, y \in Nat : <<y, x>> \in R <=> y < x
    BY DEF OpToRel
  <2>3. R = OpToRel(<, Nat)
    BY Zenon
  <2> HIDE DEF R
  <2> QED BY <2>1, <2>2, <2>3, Zenon
<1>2. \E x \in T : \A y \in T : ~(<<y, x>> \in R)
  BY <1>1, WFMin, Zenon
<1>3. \A x, y \in Nat : <<y, x>> \in R <=> y < x
  BY <1>1, Zenon
<1>4. \A x, y \in T : ~(y < x) => x <= y
  OBVIOUS
<1> QED
  BY <1>2, <1>3, <1>4, Zenon

(* Induction, of a set instead of a predicate. *)
LEMMA NatInductionOf ==
  ASSUME NEW T, 0 \in T, \A n \in Nat : n \in T => n + 1 \in T
  PROVE  Nat \subseteq T
<1> SUFFICES ASSUME Nat \ T # {}
             PROVE  FALSE
  OBVIOUS
<1>1. PICK x \in Nat \ T : \A y \in Nat \ T : x <= y
  <2> Nat \ T \subseteq Nat
    OBVIOUS
  <2> QED BY LeastNat
<1>2. x # 0 /\ x - 1 \in Nat /\ x - 1 < x /\ (x - 1) + 1 = x
  BY <1>1
<1>3. x - 1 \in T
  BY <1>1, <1>2
<1> QED
  BY <1>1, <1>2, <1>3

LEMMA AmongExists ==
  ASSUME NEW ws, NEW S, Len(ws) \in Nat
  PROVE  \E p : p = [i \in 0 .. Len(ws) |->
           IF i = 0 THEN <<>> ELSE IF ws[i] \in S THEN Append(p[i - 1], ws[i]) ELSE p[i - 1]]
<1> DEFINE Is(p, n) ==
      p = [i \in 0 .. n |->
            IF i = 0 THEN <<>> ELSE IF ws[i] \in S THEN Append(p[i - 1], ws[i]) ELSE p[i - 1]]
           T == {n \in Nat : \E p : Is(p, n)}
<1>1. 0 \in T
  <2>1. Is([i \in 0 .. 0 |-> <<>>], 0)
    OBVIOUS
  <2> QED BY <2>1
<1>2. ASSUME NEW n \in Nat, n \in T
      PROVE  n + 1 \in T
  <2>1. PICK p : Is(p, n)
    BY <1>2
  <2> DEFINE q == [i \in 0 .. n + 1 |->
                    IF i <= n THEN p[i] ELSE IF ws[i] \in S THEN Append(p[n], ws[i]) ELSE p[n]]
  <2>2. \A i \in 0 .. n : q[i] = p[i]
    OBVIOUS
  <2>3. ASSUME NEW i \in 0 .. n + 1
        PROVE  q[i] = IF i = 0 THEN <<>> ELSE IF ws[i] \in S THEN Append(q[i - 1], ws[i])
                                              ELSE q[i - 1]
    <3>1. CASE i = 0
      BY <2>1, <3>1
    <3>2. CASE i \in 1 .. n
      <4>1. i - 1 \in 0 .. n /\ i \in 0 .. n /\ i # 0
        BY <3>2
      <4>2. p[i] = IF i = 0 THEN <<>> ELSE IF ws[i] \in S THEN Append(p[i - 1], ws[i]) ELSE p[i - 1]
        BY <2>1, <4>1
      <4> QED BY <2>2, <4>1, <4>2
    <3>3. CASE i = n + 1
      <4>1. i - 1 = n /\ n \in 0 .. n /\ ~(i <= n) /\ i # 0
        BY <3>3
      <4>2. q[i] = IF ws[i] \in S THEN Append(p[n], ws[i]) ELSE p[n]
        BY <4>1
      <4> QED BY <2>2, <4>1, <4>2
    <3> QED BY <3>1, <3>2, <3>3
  <2>4. q = [i \in 0 .. n + 1 |-> q[i]]
    OBVIOUS
  <2> HIDE DEF q
  <2>5. q = [i \in 0 .. n + 1 |-> IF i = 0 THEN <<>> ELSE IF ws[i] \in S
                                    THEN Append(q[i - 1], ws[i]) ELSE q[i - 1]]
    BY <2>3, <2>4, Zenon
  <2> QED BY <2>5, SMTT(30)
<1> HIDE DEF T
<1>3. Len(ws) \in T
  BY <1>1, <1>2, NatInductionOf
<1> QED
  BY <1>3 DEF T

LEMMA AmongDef ==
  ASSUME NEW ws, NEW S, Len(ws) \in Nat
  PROVE  \E p : /\ p = [i \in 0 .. Len(ws) |->
                     IF i = 0 THEN <<>>
                     ELSE IF ws[i] \in S THEN Append(p[i - 1], ws[i]) ELSE p[i - 1]]
                /\ Among(ws, S) = p[Len(ws)]
<1> DEFINE Fun(p) == [i \in 0 .. Len(ws) |->
             IF i = 0 THEN <<>> ELSE IF ws[i] \in S THEN Append(p[i - 1], ws[i]) ELSE p[i - 1]]
           c == CHOOSE p : p = Fun(p)
<1>1. \E p : p = Fun(p)
  BY AmongExists, ZenonT(60)
<1>2. Among(ws, S) = c[Len(ws)]
  BY Zenon DEF Among
<1> HIDE DEF Fun
<1>3. c = Fun(c)
  BY <1>1, Zenon
<1> HIDE DEF c
<1>4. \E p : p = Fun(p) /\ Among(ws, S) = p[Len(ws)]
  BY <1>2, <1>3, Zenon
<1> QED
  BY <1>4, Zenon DEF Fun

On(s, x) == \E i \in 1 .. Len(s) : s[i] = x
Once(s)  == \A i, j \in 1 .. Len(s) : s[i] = s[j] => i = j

(* What a sequence keeps and gets when it is appended to. *)
LEMMA Appended ==
  ASSUME NEW U, NEW s \in Seq(U), NEW y \in U
  PROVE  /\ Append(s, y) \in Seq(U) /\ Len(Append(s, y)) = Len(s) + 1
         /\ Len(s) > 0 => Append(s, y)[1] = s[1]
         /\ Len(s) = 0 => Append(s, y)[1] = y
         /\ \A x : On(Append(s, y), x) <=> On(s, x) \/ x = y
         /\ Once(s) /\ ~On(s, y) => Once(Append(s, y))
<1>1. /\ Append(s, y) \in Seq(U) /\ Len(Append(s, y)) = Len(s) + 1
      /\ \A i \in 1 .. Len(s) : Append(s, y)[i] = s[i]
      /\ Append(s, y)[Len(s) + 1] = y
      /\ Len(s) \in Nat
  BY AppendProperties, LenProperties
<1> DEFINE a == Append(s, y)
<1> HIDE DEF a
<1>2. a \in Seq(U) /\ Len(a) = Len(s) + 1 /\ (\A i \in 1 .. Len(s) : a[i] = s[i])
      /\ a[Len(s) + 1] = y /\ Len(s) \in Nat
  BY <1>1 DEF a
<1>3. /\ Len(s) > 0 => a[1] = s[1]
      /\ Len(s) = 0 => a[1] = y
  BY <1>2
<1>4. ASSUME NEW x
      PROVE  On(a, x) <=> On(s, x) \/ x = y
  <2>1. ASSUME On(a, x) PROVE On(s, x) \/ x = y
    BY <1>2, <2>1 DEF On
  <2>2. ASSUME On(s, x) PROVE On(a, x)
    BY <1>2, <2>2 DEF On
  <2>3. On(a, y)
    <3>1. Len(s) + 1 \in 1 .. Len(a)
      BY <1>2
    <3> QED BY <1>2, <3>1 DEF On
  <2> QED BY <2>1, <2>2, <2>3
<1>5. ASSUME Once(s), ~On(s, y) PROVE Once(a)
  <2> SUFFICES ASSUME NEW i \in 1 .. Len(a), NEW j \in 1 .. Len(a), a[i] = a[j]
               PROVE  i = j
    BY DEF Once
  <2>1. CASE i = Len(s) + 1 /\ j = Len(s) + 1
    BY <2>1
  <2>2. CASE i # Len(s) + 1 /\ j # Len(s) + 1
    BY <1>2, <1>5, <2>2 DEF Once
  <2>3. CASE i # Len(s) + 1 /\ j = Len(s) + 1
    BY <1>2, <1>5, <2>3 DEF On
  <2>4. CASE i = Len(s) + 1 /\ j # Len(s) + 1
    BY <1>2, <1>5, <2>4 DEF On
  <2> QED BY <2>1, <2>2, <2>3, <2>4
<1> QED
  BY <1>2, <1>3, <1>4, <1>5 DEF a

(* What Among picks: exactly what is in S, each as often as before, and    *)
(* the first of it first.                                                  *)
LEMMA AmongProperties ==
  ASSUME NEW U, NEW ws \in Seq(U), NEW S
  PROVE  /\ Among(ws, S) \in Seq(U)
         /\ \A x : On(Among(ws, S), x) <=> x \in S /\ On(ws, x)
         /\ Once(ws) => Once(Among(ws, S))
         /\ Len(Among(ws, S)) > 0 =>
              \E i \in 1 .. Len(ws) : /\ ws[i] = Among(ws, S)[1]
                                      /\ \A j \in 1 .. i - 1 : ws[j] \notin S
<1>1. Len(ws) \in Nat /\ \A i \in 1 .. Len(ws) : ws[i] \in U
  BY LenProperties, ElementOfSeq
<1>2. PICK p : /\ p = [i \in 0 .. Len(ws) |->
                     IF i = 0 THEN <<>>
                     ELSE IF ws[i] \in S THEN Append(p[i - 1], ws[i]) ELSE p[i - 1]]
               /\ Among(ws, S) = p[Len(ws)]
  BY <1>1, AmongDef
<1>3. p[0] = <<>> /\ \A n \in Nat : n + 1 <= Len(ws) =>
        p[n + 1] = IF ws[n + 1] \in S THEN Append(p[n], ws[n + 1]) ELSE p[n]
  <2>1. 0 \in 0 .. Len(ws) /\ p[0] = <<>>
    BY <1>1, <1>2
  <2>2. ASSUME NEW n \in Nat, n + 1 <= Len(ws)
        PROVE  p[n + 1] = IF ws[n + 1] \in S THEN Append(p[n], ws[n + 1]) ELSE p[n]
    <3>1. n + 1 \in 0 .. Len(ws) /\ n + 1 # 0 /\ (n + 1) - 1 = n
      BY <1>1, <2>2
    <3> QED BY <1>2, <3>1
  <2> QED BY <2>1, <2>2
<1> DEFINE Right(q, n) ==
      /\ q \in Seq(U)
      /\ \A x : On(q, x) <=> x \in S /\ \E i \in 1 .. n : ws[i] = x
      /\ Once(ws) => Once(q)
      /\ Len(q) > 0 => \E i \in 1 .. n : ws[i] = q[1] /\ \A j \in 1 .. i - 1 : ws[j] \notin S
    T == {n \in Nat : n <= Len(ws) => Right(p[n], n)}
<1>4. 0 \in T
  <2>1. <<>> \in Seq(U) /\ Len(<<>>) = 0 /\ (\A x : ~On(<<>>, x)) /\ Once(<<>>)
    BY EmptySeq DEF On, Once
  <2>2. Right(p[0], 0)
    BY <1>3, <2>1
  <2> QED BY <2>2
<1>5. ASSUME NEW n \in Nat, n \in T PROVE n + 1 \in T
  <2> SUFFICES ASSUME n + 1 <= Len(ws) PROVE Right(p[n + 1], n + 1)
    OBVIOUS
  <2>1. Right(p[n], n) /\ n + 1 \in 1 .. Len(ws) /\ ws[n + 1] \in U
    BY <1>1, <1>5
  <2>2. \A x : (\E i \in 1 .. n + 1 : ws[i] = x) <=> (\E i \in 1 .. n : ws[i] = x) \/ x = ws[n + 1]
    <3> SUFFICES ASSUME NEW x PROVE (\E i \in 1 .. n + 1 : ws[i] = x)
                                      <=> (\E i \in 1 .. n : ws[i] = x) \/ x = ws[n + 1]
      OBVIOUS
    <3>1. \A i : i \in 1 .. n + 1 <=> i \in 1 .. n \/ i = n + 1
      OBVIOUS
    <3> QED BY <3>1
  <2>3. CASE ws[n + 1] \notin S
    <3>1. p[n + 1] = p[n]
      BY <1>3, <2>3
    <3>2. \A x : On(p[n], x) <=> x \in S /\ \E i \in 1 .. n + 1 : ws[i] = x
      BY <2>1, <2>2, <2>3
    <3>3. Len(p[n]) > 0 => \E i \in 1 .. n + 1 : ws[i] = p[n][1] /\ \A j \in 1 .. i - 1 : ws[j] \notin S
      BY <2>1
    <3> QED BY <2>1, <3>1, <3>2, <3>3
  <2>4. CASE ws[n + 1] \in S
    <3>0. PICK q, y : q = p[n] /\ y = ws[n + 1]
      OBVIOUS
    <3>1. p[n + 1] = Append(q, y) /\ Right(q, n) /\ y \in U
      BY <1>3, <2>1, <2>4, <3>0
    <3>2. /\ Append(q, y) \in Seq(U) /\ Len(Append(q, y)) = Len(q) + 1
          /\ Len(q) > 0 => Append(q, y)[1] = q[1]
          /\ Len(q) = 0 => Append(q, y)[1] = y
          /\ \A x : On(Append(q, y), x) <=> On(q, x) \/ x = y
          /\ Once(q) /\ ~On(q, y) => Once(Append(q, y))
      BY <3>1, Appended
    <3>3. \A x : On(Append(q, y), x) <=> x \in S /\ \E i \in 1 .. n + 1 : ws[i] = x
      BY <2>2, <2>4, <3>0, <3>1, <3>2
    <3>4. Once(ws) => Once(Append(q, y))
      <4>1. ASSUME Once(ws) PROVE ~On(q, y)
        <5>1. \A i \in 1 .. n : i \in 1 .. Len(ws) /\ i # n + 1
          BY <1>1, <2>1
        <5>2. \A i \in 1 .. n : ws[i] # ws[n + 1]
          BY <2>1, <4>1, <5>1 DEF Once
        <5> QED BY <3>0, <3>1, <5>2
      <4> QED BY <3>1, <3>2, <4>1
    <3>5. ASSUME Len(q) > 0
          PROVE  \E i \in 1 .. n + 1 : /\ ws[i] = Append(q, y)[1]
                                       /\ \A j \in 1 .. i - 1 : ws[j] \notin S
      BY <3>1, <3>2, <3>5
    <3>6. ASSUME ~(Len(q) > 0)
          PROVE  \E i \in 1 .. n + 1 : /\ ws[i] = Append(q, y)[1]
                                       /\ \A j \in 1 .. i - 1 : ws[j] \notin S
      <4>1. Len(q) = 0
        BY <3>1, <3>6, LenProperties
      <4>2. \A x : ~On(q, x)
        BY <4>1 DEF On
      <4>3. \A j \in 1 .. n : ws[j] \notin S
        BY <3>1, <4>2
      <4>4. (n + 1) - 1 = n /\ n + 1 \in 1 .. n + 1
        OBVIOUS
      <4> QED BY <3>0, <3>2, <4>1, <4>3, <4>4
    <3> QED BY <3>1, <3>2, <3>3, <3>4, <3>5, <3>6
  <2> QED BY <2>3, <2>4
<1> HIDE DEF T
<1>6. Len(ws) \in T
  BY <1>1, <1>4, <1>5, NatInductionOf
<1>7. Right(p[Len(ws)], Len(ws))
  BY <1>1, <1>6 DEF T
<1> QED
  BY <1>2, <1>7, ZenonT(60) DEF On
(***************************************************************************)
(* The tasks.                                                              *)
(***************************************************************************)
TaskInv == TaskTypeOK /\ ScheduledOnce

Scheduled == {"result", "cancelled"}

LEMMA OnIsToSet ==
  ASSUME NEW U, NEW s \in Seq(U)
  PROVE  /\ \A x : x \in ToSet(s) <=> On(s, x)
         /\ IsInjective(s) <=> Once(s)
         /\ DOMAIN s = 1 .. Len(s) /\ Len(s) \in Nat
         /\ \A i \in 1 .. Len(s) : s[i] \in U
<1>1. DOMAIN s = 1 .. Len(s) /\ Len(s) \in Nat
  BY LenProperties
<1>2. \A x : x \in ToSet(s) <=> On(s, x)
  BY <1>1 DEF ToSet, On
<1>3. IsInjective(s) <=> Once(s)
  BY <1>1 DEF IsInjective, Once
<1> QED BY <1>1, <1>2, <1>3, ElementOfSeq

(* The schedule, in terms of what is on it. *)
LEMMA TaskInvMeans ==
  TaskInv <=> /\ fut \in [Task -> {"none", "pending", "result", "cancelled"}]
              /\ must_cancel \subseteq Task /\ ready \in Seq(Task)
              /\ Once(ready)
              /\ \A u : On(ready, u) <=> u \in Task /\ fut[u] \in Scheduled
              /\ \A u \in must_cancel : On(ready, u)
<1>1. ASSUME ready \in Seq(Task)
      PROVE  /\ \A x : x \in ToSet(ready) <=> On(ready, x)
             /\ IsInjective(ready) <=> Once(ready)
  BY <1>1, OnIsToSet
<1>2. ASSUME ready \in Seq(Task)
      PROVE  /\ ToSet(ready) = {u \in Task : fut[u] \in {"result", "cancelled"}}
                  <=> \A u : On(ready, u) <=> u \in Task /\ fut[u] \in Scheduled
             /\ must_cancel \subseteq ToSet(ready) <=> \A u \in must_cancel : On(ready, u)
  BY <1>1, <1>2 DEF Scheduled
<1> QED
  BY <1>1, <1>2 DEF TaskInv, TaskTypeOK, ScheduledOnce

LEMMA TaskInvMeansNext ==
  (TaskInv <=> /\ fut \in [Task -> {"none", "pending", "result", "cancelled"}]
               /\ must_cancel \subseteq Task /\ ready \in Seq(Task)
               /\ Once(ready)
               /\ \A u : On(ready, u) <=> u \in Task /\ fut[u] \in Scheduled
               /\ \A u \in must_cancel : On(ready, u))'
BY TaskInvMeans, PTL

(* The tail of a sequence. *)
LEMMA TailOf ==
  ASSUME NEW U, NEW s \in Seq(U), s # <<>>
  PROVE  /\ Head(s) = s[1] /\ s[1] \in U /\ On(s, s[1])
         /\ Tail(s) \in Seq(U)
         /\ Once(s) => Once(Tail(s))
         /\ Once(s) => \A x : On(Tail(s), x) <=> On(s, x) /\ x # s[1]
<1>1. /\ Len(s) \in Nat /\ Len(s) > 0 /\ Tail(s) \in Seq(U) /\ Len(Tail(s)) = Len(s) - 1
      /\ \A i \in 1 .. Len(Tail(s)) : Tail(s)[i] = s[i + 1]
      /\ Head(s) = s[1]
  BY HeadTailProperties, LenProperties, EmptySeq
<1>2. 1 \in 1 .. Len(s) /\ s[1] \in U
  BY <1>1, ElementOfSeq
<1>3. PICK r : r = Tail(s)
  OBVIOUS
<1>4. /\ Len(r) = Len(s) - 1
      /\ \A i \in 1 .. Len(r) : r[i] = s[i + 1] /\ i + 1 \in 1 .. Len(s) /\ i + 1 # 1
  BY <1>1, <1>3
<1>5. ASSUME Once(s) PROVE Once(r)
  BY <1>4, <1>5 DEF Once
<1>6. ASSUME Once(s), NEW x
      PROVE  On(r, x) <=> On(s, x) /\ x # s[1]
  <2>1. ASSUME On(r, x) PROVE On(s, x) /\ x # s[1]
    BY <1>2, <1>4, <1>6, <2>1 DEF On, Once
  <2>2. ASSUME NEW i \in 1 .. Len(s), s[i] = x, x # s[1] PROVE On(r, x)
    <3>1. i # 1
      BY <2>2
    <3>2. i - 1 \in 1 .. Len(r) /\ (i - 1) + 1 = i
      BY <1>1, <1>4, <3>1
    <3>3. r[i - 1] = x
      BY <1>4, <2>2, <3>2
    <3> QED BY <3>2, <3>3 DEF On
  <2> QED BY <2>1, <2>2 DEF On
<1> QED
  BY <1>1, <1>2, <1>3, <1>5, <1>6 DEF On

(* Two sequences, one behind the other. *)
LEMMA Joined ==
  ASSUME NEW U, NEW s \in Seq(U), NEW r \in Seq(U)
  PROVE  /\ s \o r \in Seq(U)
         /\ \A x : On(s \o r, x) <=> On(s, x) \/ On(r, x)
         /\ Once(s) /\ Once(r) /\ (\A x : ~(On(s, x) /\ On(r, x))) => Once(s \o r)
<1>1. /\ s \o r \in Seq(U) /\ Len(s \o r) = Len(s) + Len(r)
      /\ \A i \in 1 .. Len(s) + Len(r) :
           (s \o r)[i] = IF i <= Len(s) THEN s[i] ELSE r[i - Len(s)]
      /\ Len(s) \in Nat /\ Len(r) \in Nat
  BY ConcatProperties, LenProperties
<1>2. PICK c : c = s \o r
  OBVIOUS
<1>3. /\ \A i \in 1 .. Len(s) : i \in 1 .. Len(c) /\ c[i] = s[i]
      /\ \A i \in 1 .. Len(r) : Len(s) + i \in 1 .. Len(c) /\ c[Len(s) + i] = r[i]
      /\ \A i \in 1 .. Len(c) : i \in 1 .. Len(s) \/ \E j \in 1 .. Len(r) : i = Len(s) + j
  <2>1. \A i \in 1 .. Len(s) : i \in 1 .. Len(c) /\ c[i] = s[i]
    BY <1>1, <1>2
  <2>2. ASSUME NEW i \in 1 .. Len(r)
        PROVE  Len(s) + i \in 1 .. Len(c) /\ c[Len(s) + i] = r[i]
    <3>1. Len(s) + i \in 1 .. Len(s) + Len(r) /\ ~(Len(s) + i <= Len(s)) /\ (Len(s) + i) - Len(s) = i
      BY <1>1
    <3> QED BY <1>1, <1>2, <3>1
  <2>3. ASSUME NEW i \in 1 .. Len(c), i \notin 1 .. Len(s)
        PROVE  \E j \in 1 .. Len(r) : i = Len(s) + j
    <3>1. i - Len(s) \in 1 .. Len(r) /\ i = Len(s) + (i - Len(s))
      BY <1>1, <1>2, <2>3
    <3> QED BY <3>1
  <2> QED BY <2>1, <2>2, <2>3
<1>4. ASSUME NEW x
      PROVE  On(c, x) <=> On(s, x) \/ On(r, x)
  BY <1>3, ZenonT(60) DEF On
<1>5. ASSUME Once(s), Once(r), \A x : ~(On(s, x) /\ On(r, x))
      PROVE  Once(c)
  <2> SUFFICES ASSUME NEW i \in 1 .. Len(c), NEW j \in 1 .. Len(c), c[i] = c[j]
               PROVE  i = j
    BY DEF Once
  <2>1. CASE i \in 1 .. Len(s) /\ j \in 1 .. Len(s)
    BY <1>3, <1>5, <2>1 DEF Once
  <2>2. CASE i \in 1 .. Len(s) /\ j \notin 1 .. Len(s)
    <3>1. PICK l \in 1 .. Len(r) : c[j] = r[l]
      BY <1>3, <2>2
    <3>2. On(s, c[i]) /\ On(r, c[i])
      BY <1>3, <2>2, <3>1 DEF On
    <3> QED BY <1>5, <3>2
  <2>3. CASE i \notin 1 .. Len(s) /\ j \in 1 .. Len(s)
    <3>1. PICK l \in 1 .. Len(r) : c[i] = r[l]
      BY <1>3, <2>3
    <3>2. On(s, c[j]) /\ On(r, c[j])
      BY <1>3, <2>3, <3>1 DEF On
    <3> QED BY <1>5, <3>2
  <2>4. CASE i \notin 1 .. Len(s) /\ j \notin 1 .. Len(s)
    <3>1. PICK k, l \in 1 .. Len(r) : i = Len(s) + k /\ j = Len(s) + l
      BY <1>3, <2>4
    <3>2. r[k] = r[l]
      BY <1>3, <3>1
    <3> QED BY <1>5, <3>1, <3>2 DEF Once
  <2> QED BY <2>1, <2>2, <2>3, <2>4
<1> QED
  BY <1>1, <1>2, <1>4, <1>5

(* A step of a task that is not waiting, or whose turn it is: the others   *)
(* stay as they are but for those that are woken, who slept.               *)
LEMMA RunsKeeps ==
  ASSUME TaskInv, NEW t \in Task, fut[t] = "none" \/ Resumes(t),
         NEW woken \in Seq(Task), Once(woken), \A u : On(woken, u) => fut[u] = "pending",
         NEW awaits \in BOOLEAN, Runs(t, woken, awaits)
  PROVE  /\ TaskInv'
         /\ fut' = [u \in Task |-> IF u = t THEN (IF awaits THEN "pending" ELSE "none")
                                   ELSE IF On(woken, u) THEN "result" ELSE fut[u]]
         /\ ~On(woken, t)
<1> USE DEF Scheduled
<1>1. /\ fut \in [Task -> {"none", "pending", "result", "cancelled"}]
      /\ must_cancel \subseteq Task /\ ready \in Seq(Task) /\ Once(ready)
      /\ \A u : On(ready, u) <=> u \in Task /\ fut[u] \in Scheduled
      /\ \A u \in must_cancel : On(ready, u)
  BY TaskInvMeans
<1>2. \A x : x \in ToSet(woken) <=> On(woken, x)
  BY OnIsToSet
<1>3. fut' = [u \in Task |-> IF u = t THEN (IF awaits THEN "pending" ELSE "none")
                             ELSE IF On(woken, u) THEN "result" ELSE fut[u]]
  BY <1>2 DEF Runs
<1>4. PICK r \in Seq(Task) : /\ ready' = r \o woken
                             /\ Once(r) /\ ~On(r, t)
                             /\ \A u : u # t => (On(r, u) <=> On(ready, u))
  <2>1. CASE Resumes(t)
    <3>1. ready # <<>> /\ ready[1] = t
      BY <1>1, <2>1, TailOf DEF Resumes
    <3>2. /\ Tail(ready) \in Seq(Task) /\ Once(Tail(ready))
          /\ \A u : On(Tail(ready), u) <=> On(ready, u) /\ u # t
      BY <1>1, <3>1, TailOf
    <3> QED BY <2>1, <3>2 DEF Runs
  <2>2. CASE ~Resumes(t)
    <3>1. ~On(ready, t)
      BY <1>1, <2>2
    <3> QED BY <1>1, <2>2, <3>1 DEF Runs
  <2> QED BY <2>1, <2>2
<1>5. ~On(woken, t)
  <2>1. ASSUME Resumes(t) PROVE fut[t] # "pending"
    BY <1>1, <2>1, TailOf, ZenonT(60) DEF Resumes
  <2> QED BY <2>1
<1>6. \A u : On(woken, u) => u \in Task
  BY OnIsToSet DEF On
<1>7. \A x : ~(On(r, x) /\ On(woken, x))
  BY <1>1, <1>4, <1>5
<1>8. /\ ready' \in Seq(Task) /\ Once(ready')
      /\ \A u : On(ready', u) <=> On(r, u) \/ On(woken, u)
  BY <1>4, <1>7, Joined
<1>9. \A u : On(ready', u) <=> u \in Task /\ fut'[u] \in Scheduled
  BY <1>1, <1>3, <1>4, <1>5, <1>6, <1>8
<1>10. \A u \in must_cancel' : On(ready', u)
  <2>1. \A u \in must_cancel' : u \in must_cancel /\ u # t
    BY DEF Runs
  <2> QED BY <1>1, <1>4, <1>8, <2>1
<1>11. fut' \in [Task -> {"none", "pending", "result", "cancelled"}] /\ must_cancel' \subseteq Task
  BY <1>1, <1>3 DEF Runs
<1>12. On(ready, t)' <=> On(ready', t)
  BY DEF On
<1>13. TaskInv'
  <2>1. /\ Once(ready)' <=> Once(ready')
        /\ \A u : On(ready, u)' <=> On(ready', u)
    BY DEF On, Once
  <2> QED BY <1>8, <1>9, <1>10, <1>11, <2>1, TaskInvMeansNext
<1> QED
  BY <1>3, <1>5, <1>13

(* A cancellation: of a sleeper's future, or to come. *)
LEMMA CancelKeeps ==
  ASSUME TaskInv, NEW t \in Task, CancelTask(t)
  PROVE  /\ TaskInv' /\ fut[t] # "none"
         /\ fut' = [fut EXCEPT ![t] = IF fut[t] = "pending" THEN "cancelled" ELSE fut[t]]
         /\ must_cancel \subseteq must_cancel'
<1> USE DEF Scheduled
<1>1. /\ fut \in [Task -> {"none", "pending", "result", "cancelled"}]
      /\ must_cancel \subseteq Task /\ ready \in Seq(Task) /\ Once(ready)
      /\ \A u : On(ready, u) <=> u \in Task /\ fut[u] \in Scheduled
      /\ \A u \in must_cancel : On(ready, u)
  BY TaskInvMeans
<1>2. fut[t] # "none"
  BY DEF CancelTask, Free
<1>3. fut' = [fut EXCEPT ![t] = IF fut[t] = "pending" THEN "cancelled" ELSE fut[t]]
  BY <1>1 DEF CancelTask
<1>4. fut' \in [Task -> {"none", "pending", "result", "cancelled"}]
  BY <1>1, <1>3
<1>5. /\ must_cancel \subseteq must_cancel' /\ must_cancel' \subseteq Task
  BY <1>1 DEF CancelTask
<1>6. /\ ready' \in Seq(Task) /\ Once(ready')
      /\ \A u : On(ready', u) <=> u \in Task /\ fut'[u] \in Scheduled
      /\ \A u \in must_cancel' : On(ready', u)
  <2>1. CASE fut[t] = "pending"
    <3>1. ready' = Append(ready, t) /\ must_cancel' = must_cancel /\ ~On(ready, t)
      BY <1>1, <2>1 DEF CancelTask
    <3>2. /\ Append(ready, t) \in Seq(Task) /\ Once(Append(ready, t))
          /\ \A u : On(Append(ready, t), u) <=> On(ready, u) \/ u = t
      BY <1>1, <3>1, Appended
    <3>3. fut'[t] = "cancelled" /\ \A u \in Task : u # t => fut'[u] = fut[u]
      BY <1>1, <1>3, <2>1
    <3> QED BY <1>1, <3>1, <3>2, <3>3
  <2>2. CASE fut[t] # "pending"
    <3>1. ready' = ready /\ fut' = fut /\ must_cancel' = must_cancel \cup {t}
      BY <2>2 DEF CancelTask
    <3>2. On(ready, t)
      BY <1>1, <1>2, <2>2
    <3> QED BY <1>1, <3>1, <3>2
  <2> QED BY <2>1, <2>2
<1>7. TaskInv'
  <2>1. /\ Once(ready)' <=> Once(ready')
        /\ \A u : On(ready, u)' <=> On(ready', u)
    BY DEF On, Once
  <2> QED BY <1>4, <1>5, <1>6, <2>1, TaskInvMeansNext
<1> QED
  BY <1>2, <1>3, <1>5, <1>7

LEMMA RunsOn ==
  ASSUME TaskInv, NEW t \in Task, fut[t] = "none" \/ Resumes(t),
         NEW woken \in Seq(Task), Once(woken), \A u : On(woken, u) => fut[u] = "pending",
         Runs(t, woken, FALSE)
  PROVE  /\ TaskInv' /\ ~On(woken, t) /\ fut'[t] = "none"
         /\ \A u \in Task : u # t => fut'[u] = IF On(woken, u) THEN "result" ELSE fut[u]
<1>1. PICK a \in BOOLEAN : a = FALSE
  OBVIOUS
<1>2. Runs(t, woken, a)
  BY <1>1
<1>3. /\ TaskInv' /\ ~On(woken, t)
      /\ fut' = [u \in Task |-> IF u = t THEN (IF a THEN "pending" ELSE "none")
                                ELSE IF On(woken, u) THEN "result" ELSE fut[u]]
  BY <1>2, RunsKeeps
<1> QED
  BY <1>1, <1>3

LEMMA RunsUntil ==
  ASSUME TaskInv, NEW t \in Task, fut[t] = "none" \/ Resumes(t),
         NEW woken \in Seq(Task), Once(woken), \A u : On(woken, u) => fut[u] = "pending",
         Runs(t, woken, TRUE)
  PROVE  /\ TaskInv' /\ ~On(woken, t) /\ fut'[t] = "pending"
         /\ \A u \in Task : u # t => fut'[u] = IF On(woken, u) THEN "result" ELSE fut[u]
<1>1. PICK a \in BOOLEAN : a = TRUE
  OBVIOUS
<1>2. Runs(t, woken, a)
  BY <1>1
<1>3. /\ TaskInv' /\ ~On(woken, t)
      /\ fut' = [u \in Task |-> IF u = t THEN (IF a THEN "pending" ELSE "none")
                                ELSE IF On(woken, u) THEN "result" ELSE fut[u]]
  BY <1>2, RunsKeeps
<1> QED
  BY <1>1, <1>3
-----------------------------------------------------------------------------
(***************************************************************************)
(* Who is woken, and who stays on a list.                                  *)
(***************************************************************************)
LEMMA PendingOf ==
  ASSUME NEW ws \in Seq(Task)
  PROVE  /\ Pending(ws) \in Seq(Task)
         /\ \A u : On(Pending(ws), u) <=> u \in Task /\ fut[u] = "pending" /\ On(ws, u)
         /\ Once(ws) => Once(Pending(ws))
         /\ Pending(ws) # <<>> =>
              \E i \in 1 .. Len(ws) : /\ ws[i] = Pending(ws)[1] /\ fut[ws[i]] = "pending"
                                      /\ \A j \in 1 .. i - 1 : fut[ws[j]] # "pending"
         /\ Pending(ws) = <<>> <=> \A u \in Task : On(ws, u) => fut[u] # "pending"
<1>1. PICK S, p : /\ S = {u \in Task : fut[u] = "pending"}
                  /\ p = Pending(ws) /\ p = Among(ws, S)
  BY DEF Pending
<1>2. /\ p \in Seq(Task)
      /\ \A u : On(p, u) <=> u \in S /\ On(ws, u)
      /\ Once(ws) => Once(p)
      /\ Len(p) > 0 => \E i \in 1 .. Len(ws) : /\ ws[i] = p[1]
                                              /\ \A j \in 1 .. i - 1 : ws[j] \notin S
  <2>1. /\ Among(ws, S) \in Seq(Task)
        /\ \A x : On(Among(ws, S), x) <=> x \in S /\ On(ws, x)
        /\ Once(ws) => Once(Among(ws, S))
        /\ Len(Among(ws, S)) > 0 =>
             \E i \in 1 .. Len(ws) : /\ ws[i] = Among(ws, S)[1]
                                     /\ \A j \in 1 .. i - 1 : ws[j] \notin S
    BY AmongProperties
  <2> QED BY <1>1, <2>1
<1>3. /\ \A i \in 1 .. Len(ws) : ws[i] \in Task
      /\ Len(ws) \in Nat /\ Len(p) \in Nat
      /\ p # <<>> => Len(p) > 0
      /\ p = <<>> => Len(p) = 0
  BY <1>2, OnIsToSet, LenProperties, EmptySeq
<1>4. ASSUME p # <<>>
      PROVE  \E i \in 1 .. Len(ws) : /\ ws[i] = p[1] /\ fut[ws[i]] = "pending"
                                     /\ \A j \in 1 .. i - 1 : fut[ws[j]] # "pending"
  <2>1. On(p, p[1])
    BY <1>3, <1>4 DEF On
  <2>2. p[1] \in S
    BY <1>1, <1>2, <2>1
  <2>3. PICK i \in 1 .. Len(ws) : ws[i] = p[1] /\ \A j \in 1 .. i - 1 : ws[j] \notin S
    BY <1>2, <1>3, <1>4
  <2>4. \A j \in 1 .. i - 1 : j \in 1 .. Len(ws)
    BY <1>3
  <2> QED BY <1>1, <1>3, <2>2, <2>3, <2>4
<1>5. p = <<>> <=> \A u \in Task : On(ws, u) => fut[u] # "pending"
  <2>1. ASSUME p = <<>> PROVE \A u : ~On(p, u)
    BY <1>3, <2>1 DEF On
  <2>2. ASSUME p # <<>> PROVE On(p, p[1])
    BY <1>3, <2>2 DEF On
  <2> QED BY <1>1, <1>2, <2>1, <2>2
<1> QED
  BY <1>1, <1>2, <1>4, <1>5

LEMMA OthersOf ==
  ASSUME NEW ws \in Seq(Task), NEW t \in Task
  PROVE  /\ Others(ws, t) \in Seq(Task)
         /\ \A u : On(Others(ws, t), u) <=> u # t /\ On(ws, u)
         /\ Once(ws) => Once(Others(ws, t))
         /\ ws # <<>> /\ ws[1] # t => Others(ws, t) # <<>> /\ Others(ws, t)[1] = ws[1]
<1>1. PICK S, p : S = Task \ {t} /\ p = Others(ws, t) /\ p = Among(ws, S)
  BY DEF Others
<1>2. /\ p \in Seq(Task)
      /\ \A u : On(p, u) <=> u \in S /\ On(ws, u)
      /\ Once(ws) => Once(p)
      /\ Len(p) > 0 => \E i \in 1 .. Len(ws) : /\ ws[i] = p[1]
                                              /\ \A j \in 1 .. i - 1 : ws[j] \notin S
  <2>1. /\ Among(ws, S) \in Seq(Task)
        /\ \A x : On(Among(ws, S), x) <=> x \in S /\ On(ws, x)
        /\ Once(ws) => Once(Among(ws, S))
        /\ Len(Among(ws, S)) > 0 =>
             \E i \in 1 .. Len(ws) : /\ ws[i] = Among(ws, S)[1]
                                     /\ \A j \in 1 .. i - 1 : ws[j] \notin S
    BY AmongProperties
  <2> QED BY <1>1, <2>1
<1>3. /\ \A i \in 1 .. Len(ws) : ws[i] \in Task
      /\ Len(ws) \in Nat /\ Len(p) \in Nat
      /\ ws # <<>> => Len(ws) > 0
      /\ p = <<>> => Len(p) = 0
  BY <1>2, OnIsToSet, LenProperties, EmptySeq
<1>4. \A u : On(ws, u) => u \in Task
  BY <1>3 DEF On
<1>5. ASSUME ws # <<>>, ws[1] # t PROVE p # <<>> /\ p[1] = ws[1]
  <2>1. 1 \in 1 .. Len(ws) /\ ws[1] \in S /\ On(ws, ws[1])
    BY <1>1, <1>3, <1>5 DEF On
  <2>2. On(p, ws[1])
    BY <1>1, <1>2, <2>1
  <2>3. Len(p) > 0
    BY <1>3, <2>2 DEF On
  <2>4. PICK i \in 1 .. Len(ws) : ws[i] = p[1] /\ \A j \in 1 .. i - 1 : ws[j] \notin S
    BY <1>2, <2>3
  <2>5. i = 1
    <3>1. i # 1 => 1 \in 1 .. i - 1
      BY <1>3
    <3> QED BY <2>1, <2>4, <3>1
  <2> QED BY <1>3, <2>3, <2>4, <2>5
<1> QED
  BY <1>1, <1>2, <1>4, <1>5

(* One task, or none. *)
LEMMA OneOf ==
  ASSUME NEW u \in Task
  PROVE  /\ <<u>> \in Seq(Task) /\ Once(<<u>>) /\ Len(<<u>>) = 1
         /\ \A x : On(<<u>>, x) <=> x = u
BY DEF On, Once

LEMMA NoneOf ==
  /\ NoWake \in Seq(Task) /\ Once(NoWake) /\ Len(NoWake) = 0
  /\ \A x : ~On(NoWake, x)
BY EmptySeq DEF NoWake, On, Once

LEMMA HeadIfPendingOf ==
  ASSUME NEW ws \in Seq(Task)
  PROVE  /\ HeadIfPending(ws) \in Seq(Task) /\ Once(HeadIfPending(ws))
         /\ \A u : On(HeadIfPending(ws), u) <=> ws # <<>> /\ u = ws[1] /\ fut[u] = "pending"
<1>1. ws # <<>> => Head(ws) = ws[1] /\ ws[1] \in Task
  BY TailOf
<1>2. CASE ws # <<>> /\ fut[ws[1]] = "pending"
  <2>1. HeadIfPending(ws) = <<ws[1]>>
    BY <1>1, <1>2 DEF HeadIfPending
  <2> QED BY <1>1, <1>2, <2>1, OneOf
<1>3. CASE ~(ws # <<>> /\ fut[ws[1]] = "pending")
  <2>1. HeadIfPending(ws) = NoWake
    BY <1>1, <1>3 DEF HeadIfPending
  <2> QED BY <1>3, <2>1, NoneOf
<1> QED
  BY <1>2, <1>3

LEMMA FirstPendingOf ==
  ASSUME NEW ws \in Seq(Task)
  PROVE  /\ FirstPending(ws) \in Seq(Task) /\ Once(FirstPending(ws))
         /\ \A u : On(FirstPending(ws), u) => On(ws, u) /\ fut[u] = "pending"
         /\ \/ /\ FirstPending(ws) = NoWake /\ Len(FirstPending(ws)) = 0
               /\ \A u \in Task : On(ws, u) => fut[u] # "pending"
            \/ \E i \in 1 .. Len(ws) :
                 /\ FirstPending(ws) = <<ws[i]>> /\ Len(FirstPending(ws)) = 1
                 /\ ws[i] \in Task /\ fut[ws[i]] = "pending"
                 /\ \A u : On(FirstPending(ws), u) <=> u = ws[i]
                 /\ \A j \in 1 .. i - 1 : fut[ws[j]] # "pending"
<1>1. CASE Pending(ws) = <<>>
  <2>1. FirstPending(ws) = NoWake
    BY <1>1 DEF FirstPending
  <2> QED BY <1>1, <2>1, NoneOf, PendingOf
<1>2. CASE Pending(ws) # <<>>
  <2>1. PICK i \in 1 .. Len(ws) : /\ ws[i] = Pending(ws)[1] /\ fut[ws[i]] = "pending"
                                  /\ \A j \in 1 .. i - 1 : fut[ws[j]] # "pending"
    BY <1>2, PendingOf
  <2>2. Head(Pending(ws)) = Pending(ws)[1]
    BY <1>2, PendingOf, TailOf
  <2>3. FirstPending(ws) = <<ws[i]>>
    BY <1>2, <2>1, <2>2 DEF FirstPending
  <2>4. ws[i] \in Task /\ On(ws, ws[i])
    BY <2>1, OnIsToSet DEF On
  <2>5. /\ <<ws[i]>> \in Seq(Task) /\ Once(<<ws[i]>>) /\ Len(<<ws[i]>>) = 1
        /\ \A x : On(<<ws[i]>>, x) <=> x = ws[i]
    BY <2>4, OneOf
  <2> QED BY <2>1, <2>3, <2>4, <2>5
<1> QED
  BY <1>1, <1>2

LEMMA ResumesMeans ==
  ASSUME TaskInv, NEW t, Resumes(t)
  PROVE  t \in Task /\ fut[t] \in Scheduled /\ (~Throws(t) => fut[t] = "result")
<1>1. On(ready, t)
  BY TaskInvMeans, TailOf DEF Resumes
<1> QED
  BY <1>1, TaskInvMeans DEF Scheduled, Throws

LEMMA TaskInitOK ==
  TaskInit => TaskInv /\ \A u \in Task : fut[u] = "none"
<1> SUFFICES ASSUME TaskInit
             PROVE  TaskInv /\ \A u \in Task : fut[u] = "none"
  OBVIOUS
<1>1. /\ fut = [u \in Task |-> "none"] /\ must_cancel = {} /\ ready = <<>>
      /\ ready \in Seq(Task) /\ Len(ready) = 0
  BY EmptySeq DEF TaskInit
<1>2. fut \in [Task -> {"none", "pending", "result", "cancelled"}]
  BY <1>1
<1>3. Once(ready) /\ \A u : ~On(ready, u)
  BY <1>1 DEF Once, On
<1> QED
  BY <1>1, <1>2, <1>3, TaskInvMeans DEF Scheduled

(* The first n of a sequence. *)
LEMMA FirstOf ==
  ASSUME NEW U, NEW s \in Seq(U), NEW n \in Nat, n <= Len(s)
  PROVE  /\ SubSeq(s, 1, n) \in Seq(U)
         /\ \A x : On(SubSeq(s, 1, n), x) => On(s, x)
         /\ Once(s) => Once(SubSeq(s, 1, n))
<1>1. /\ Len(s) \in Nat
      /\ \A i \in 1 .. n : s[i] \in U
  BY LenProperties, ElementOfSeq
<1>2. PICK p : p = SubSeq(s, 1, n)
  OBVIOUS
<1>3. p \in Seq(U) /\ Len(p) = n /\ \A i \in 1 .. n : p[i] = s[i]
  BY <1>1, <1>2, SubSeqProperties
<1>4. ASSUME NEW x, On(p, x)
      PROVE  On(s, x)
  BY <1>1, <1>3, <1>4 DEF On
<1>5. Once(s) => Once(p)
  BY <1>1, <1>3 DEF Once
<1> QED
  BY <1>2, <1>3, <1>4, <1>5

(* A set without two different elements. *)
LEMMA AtMostOne ==
  ASSUME NEW S, \A x, y \in S : x = y
  PROVE  Cardinality(S) <= 1
<1>1. CASE S = {}
  BY <1>1, FS_EmptySet
<1>2. CASE S # {}
  <2>1. PICK x \in S : TRUE
    BY <1>2
  <2>2. S = {x}
    BY <2>1
  <2> QED BY <2>2, FS_Singleton
<1> QED
  BY <1>1, <1>2

LEMMA FirstPendingIs ==
  ASSUME NEW ws \in Seq(Task)
  PROVE  \/ /\ FirstPending(ws) = NoWake /\ Len(FirstPending(ws)) = 0
            /\ \A u : ~On(FirstPending(ws), u)
            /\ \A u \in Task : On(ws, u) => fut[u] # "pending"
         \/ \E x \in Task : /\ On(ws, x) /\ fut[x] = "pending" /\ Len(FirstPending(ws)) = 1
                            /\ \A u : On(FirstPending(ws), u) <=> u = x
<1>1. CASE /\ FirstPending(ws) = NoWake /\ Len(FirstPending(ws)) = 0
           /\ \A u \in Task : On(ws, u) => fut[u] # "pending"
  BY <1>1, NoneOf
<1>2. ASSUME NEW i \in 1 .. Len(ws), FirstPending(ws) = <<ws[i]>>, Len(FirstPending(ws)) = 1,
             ws[i] \in Task, fut[ws[i]] = "pending",
             \A u : On(FirstPending(ws), u) <=> u = ws[i]
      PROVE  \E x \in Task : /\ On(ws, x) /\ fut[x] = "pending" /\ Len(FirstPending(ws)) = 1
                             /\ \A u : On(FirstPending(ws), u) <=> u = x
  <2>1. On(ws, ws[i])
    BY DEF On
  <2> QED BY <1>2, <2>1
<1>3. \/ /\ FirstPending(ws) = NoWake /\ Len(FirstPending(ws)) = 0
         /\ \A u \in Task : On(ws, u) => fut[u] # "pending"
      \/ \E i \in 1 .. Len(ws) :
           /\ FirstPending(ws) = <<ws[i]>> /\ Len(FirstPending(ws)) = 1
           /\ ws[i] \in Task /\ fut[ws[i]] = "pending"
           /\ \A u : On(FirstPending(ws), u) <=> u = ws[i]
           /\ \A j \in 1 .. i - 1 : fut[ws[j]] # "pending"
  BY FirstPendingOf
<1> QED
  BY <1>1, <1>2, <1>3

(* A set loses an element, or gets one. *)
LEMMA OneLess ==
  ASSUME NEW S, IsFiniteSet(S), NEW x
  PROVE  /\ IsFiniteSet(S \ {x}) /\ Cardinality(S) \in Nat /\ Cardinality(S \ {x}) \in Nat
         /\ Cardinality(S \ {x}) = IF x \in S THEN Cardinality(S) - 1 ELSE Cardinality(S)
BY FS_RemoveElement, FS_CardinalityType

LEMMA OneMore ==
  ASSUME NEW S, IsFiniteSet(S), NEW x
  PROVE  /\ IsFiniteSet(S \cup {x}) /\ Cardinality(S) \in Nat /\ Cardinality(S \cup {x}) \in Nat
         /\ Cardinality(S \cup {x}) = IF x \in S THEN Cardinality(S) ELSE Cardinality(S) + 1
BY FS_AddElement, FS_CardinalityType
-----------------------------------------------------------------------------
(***************************************************************************)
(* asyncio.Lock and Condition.                                             *)
(***************************************************************************)
Queued == {"acquire", "reacquire"}

(* Who is on which list, and who awaits something. *)
LockPlaces ==
  /\ lockPc \in [Task -> {"idle", "acquire", "held", "wait", "reacquire"}]
  /\ asyncLocked \in BOOLEAN
  /\ waiters \in Seq(Task) /\ Once(waiters)
  /\ \A u : On(waiters, u) <=> u \in Task /\ lockPc[u] \in Queued
  /\ condWaiters \in Seq(Task) /\ Once(condWaiters)
  /\ \A u : On(condWaiters, u) <=> u \in Task /\ lockPc[u] = "wait"
  /\ \A u \in Task : fut[u] = "none" <=> lockPc[u] \in {"idle", "held"}

LockOwned ==
  /\ \A u, v \in Task : lockPc[u] = "held" /\ lockPc[v] = "held" => u = v
  /\ asyncLocked <=> \E u \in Task : lockPc[u] = "held"

(* Only the first is woken, when the lock is free; and then it is, unless  *)
(* it was cancelled.                                                       *)
LockGranted ==
  /\ \A u \in Task : On(waiters, u) /\ fut[u] = "result" => ~asyncLocked /\ u = waiters[1]
  /\ ~asyncLocked /\ waiters # <<>> => fut[waiters[1]] # "pending"

LockIInv == TaskInv /\ LockPlaces /\ LockOwned /\ LockGranted

(* The waiters without t. *)
Rest(ws, t) ==
  /\ ws \in Seq(Task) /\ Once(ws)
  /\ \A u : On(ws, u) <=> u \in Task /\ lockPc[u] \in Queued /\ u # t
  /\ \A u \in Task : On(ws, u) /\ fut[u] = "result" => ~asyncLocked /\ u = ws[1]

LEMMA RestOfWaiters ==
  ASSUME LockIInv, NEW t \in Task
  PROVE  /\ Rest(Others(waiters, t), t)
         /\ lockPc[t] \notin Queued => Rest(waiters, t)
<1>1. LockPlaces /\ LockGranted
  BY DEF LockIInv
<1>2. PICK ws : ws = Others(waiters, t)
  OBVIOUS
<1>3. /\ ws \in Seq(Task) /\ Once(ws)
      /\ \A u : On(ws, u) <=> u # t /\ On(waiters, u)
      /\ waiters # <<>> /\ waiters[1] # t => ws # <<>> /\ ws[1] = waiters[1]
  BY <1>1, <1>2, OthersOf DEF LockPlaces
<1>4. \A u : On(waiters, u) => waiters # <<>>
  BY EmptySeq DEF On
<1>5. Rest(ws, t)
  <2>1. ASSUME NEW u \in Task, On(ws, u), fut[u] = "result"
        PROVE  ~asyncLocked /\ u = ws[1]
    <3>1. On(waiters, u) /\ u # t /\ u = waiters[1] /\ ~asyncLocked
      BY <1>1, <1>3, <2>1 DEF LockGranted
    <3> QED BY <1>3, <1>4, <3>1
  <2>2. \A u : On(ws, u) <=> u \in Task /\ lockPc[u] \in Queued /\ u # t
    BY <1>1, <1>3 DEF LockPlaces
  <2> QED BY <1>3, <2>1, <2>2 DEF Rest
<1>6. lockPc[t] \notin Queued => Rest(waiters, t)
  BY <1>1 DEF LockPlaces, LockGranted, Rest
<1> QED
  BY <1>2, <1>5, <1>6

(* acquire, from its test on. *)
LEMMA AcquireOrWaitKeeps ==
  ASSUME LockIInv, NEW t \in Task, lockPc[t] # "held", fut[t] = "none" \/ Resumes(t),
         NEW ws, Rest(ws, t),
         NEW woken, woken = IF asyncLocked THEN NoWake ELSE WakeUpFirst(ws),
         NEW label \in Queued, AcquireOrWait(t, ws, woken, label),
         condWaiters' \in Seq(Task), Once(condWaiters'),
         \A u : On(condWaiters', u) <=> u \in Task /\ lockPc[u] = "wait" /\ u # t
  PROVE  LockIInv'
<1> USE DEF Queued
<1>1. /\ TaskInv /\ LockPlaces /\ LockOwned
      /\ ws \in Seq(Task) /\ Once(ws)
      /\ \A u : On(ws, u) <=> u \in Task /\ lockPc[u] \in Queued /\ u # t
      /\ \A u \in Task : On(ws, u) /\ fut[u] = "result" => ~asyncLocked /\ u = ws[1]
  BY DEF LockIInv, Rest
<1>2. /\ woken \in Seq(Task) /\ Once(woken)
      /\ \A u : On(woken, u) <=> ~asyncLocked /\ ws # <<>> /\ u = ws[1] /\ fut[u] = "pending"
  BY <1>1, HeadIfPendingOf, NoneOf DEF WakeUpFirst
<1>2b. woken \in Seq(Task) /\ Once(woken) /\ \A u : On(woken, u) => fut[u] = "pending"
  BY <1>2
<1>3. /\ ws = <<>> => Len(ws) = 0
      /\ ws # <<>> => /\ ws[1] \in Task /\ On(ws, ws[1]) /\ Len(ws) > 0
      /\ DOMAIN ws = 1 .. Len(ws)
      /\ \A i \in DOMAIN ws : On(ws, ws[i])
  BY <1>1, TailOf, OnIsToSet, EmptySeq, LenProperties DEF On
<1>4. CASE IsFree(ws)
  <2>1. /\ asyncLocked' = TRUE /\ waiters' = ws /\ lockPc' = [lockPc EXCEPT ![t] = "held"]
        /\ Runs(t, woken, FALSE)
    BY <1>4 DEF AcquireOrWait, LockGoes
  <2>2. ~asyncLocked /\ \A u : On(ws, u) => fut[u] = "cancelled"
    BY <1>3, <1>4, SMTT(30) DEF IsFree, AllCancelled, On
  <2>3. /\ TaskInv' /\ fut'[t] = "none"
        /\ \A u \in Task : u # t => fut'[u] = IF On(woken, u) THEN "result" ELSE fut[u]
    <3>1. TaskInv
      BY <1>1
    <3>2. woken \in Seq(Task) /\ Once(woken)
      BY <1>2b
    <3>3. \A u : On(woken, u) => fut[u] = "pending"
      BY <1>2b
    <3>4. Runs(t, woken, FALSE)
      BY <2>1
    <3>5. fut[t] = "none" \/ Resumes(t)
      OBVIOUS
    <3> QED BY <3>1, <3>2, <3>3, <3>4, <3>5, RunsOn
  <2>4. \A u : ~On(woken, u)
    BY <1>2, <1>3, <2>2
  <2>6. /\ lockPc' \in [Task -> {"idle", "acquire", "held", "wait", "reacquire"}]
        /\ lockPc'[t] = "held" /\ \A u \in Task : u # t => lockPc'[u] = lockPc[u]
    BY <1>1, <2>1 DEF LockPlaces
  <2>7. fut'[t] = "none" /\ \A u \in Task : u # t => fut'[u] = fut[u]
    BY <2>3, <2>4
  <2>8. LockPlaces'
    <3>1. \A u : On(waiters', u) <=> u \in Task /\ lockPc'[u] \in Queued
      BY <1>1, <2>1, <2>6
    <3>2. \A u : On(condWaiters', u) <=> u \in Task /\ lockPc'[u] = "wait"
      BY <2>6
    <3>3. \A u \in Task : fut'[u] = "none" <=> lockPc'[u] \in {"idle", "held"}
      BY <1>1, <2>6, <2>7, SMTT(30) DEF LockPlaces
    <3> QED BY <1>1, <2>1, <2>6, <3>1, <3>2, <3>3 DEF LockPlaces
  <2>9. LockOwned'
    BY <1>1, <2>1, <2>2, <2>6 DEF LockOwned
  <2>10. LockGranted'
    <3>1. \A u : On(waiters', u) => u \in Task /\ u # t /\ fut'[u] = "cancelled"
      BY <1>1, <2>1, <2>2, <2>7
    <3> QED BY <2>1, <3>1 DEF LockGranted
  <2> QED BY <2>3, <2>8, <2>9, <2>10 DEF LockIInv
<1>5. CASE ~IsFree(ws)
  <2>1. /\ asyncLocked' = asyncLocked /\ waiters' = Append(ws, t)
        /\ lockPc' = [lockPc EXCEPT ![t] = label] /\ Runs(t, woken, TRUE)
    BY <1>5 DEF AcquireOrWait, LockGoes
  <2>2. /\ TaskInv' /\ fut'[t] = "pending"
        /\ \A u \in Task : u # t => fut'[u] = IF On(woken, u) THEN "result" ELSE fut[u]
    <3>1. TaskInv
      BY <1>1
    <3>2. woken \in Seq(Task) /\ Once(woken)
      BY <1>2b
    <3>3. \A u : On(woken, u) => fut[u] = "pending"
      BY <1>2b
    <3>4. Runs(t, woken, TRUE)
      BY <2>1
    <3>5. fut[t] = "none" \/ Resumes(t)
      OBVIOUS
    <3> QED BY <3>1, <3>2, <3>3, <3>4, <3>5, RunsUntil
  <2>3. ~On(ws, t)
    BY <1>1
  <2>4. /\ waiters' \in Seq(Task) /\ Once(waiters')
        /\ \A u : On(waiters', u) <=> On(ws, u) \/ u = t
        /\ ws # <<>> => waiters'[1] = ws[1]
        /\ ws = <<>> => waiters'[1] = t
    BY <1>1, <1>3, <2>1, <2>3, Appended
  <2>5. /\ lockPc' \in [Task -> {"idle", "acquire", "held", "wait", "reacquire"}]
        /\ lockPc'[t] = label /\ \A u \in Task : u # t => lockPc'[u] = lockPc[u]
    BY <1>1, <2>1 DEF LockPlaces
  <2>6. /\ fut'[t] = "pending"
        /\ \A u \in Task : u # t => fut'[u] = IF On(woken, u) THEN "result" ELSE fut[u]
    BY <2>2
  <2>7. LockPlaces'
    <3>1. \A u : On(waiters', u) <=> u \in Task /\ lockPc'[u] \in Queued
      BY <1>1, <2>4, <2>5
    <3>2. \A u : On(condWaiters', u) <=> u \in Task /\ lockPc'[u] = "wait"
      BY <2>5
    <3>3. \A u \in Task : fut'[u] = "none" <=> lockPc'[u] \in {"idle", "held"}
      BY <1>1, <1>2, <2>5, <2>6 DEF LockPlaces
    <3> QED BY <1>1, <2>1, <2>4, <2>5, <3>1, <3>2, <3>3 DEF LockPlaces
  <2>8. LockOwned'
    BY <1>1, <2>1, <2>5 DEF LockOwned
  <2>9. LockGranted'
    <3>1. ASSUME NEW u \in Task, On(waiters', u), fut'[u] = "result"
          PROVE  ~asyncLocked' /\ u = waiters'[1]
      <4>1. u # t /\ On(ws, u)
        BY <2>4, <2>6, <3>1
      <4>2. ~asyncLocked /\ u = ws[1]
        BY <1>1, <1>2, <2>6, <3>1, <4>1
      <4>3. ws # <<>>
        BY <1>3, <4>1 DEF On
      <4> QED BY <2>1, <2>4, <4>2, <4>3
    <3>2. ASSUME ~asyncLocked'
          PROVE  fut'[waiters'[1]] # "pending"
      <4>1. ws # <<>>
        BY <1>5, <2>1, <3>2, EmptySeq DEF IsFree, AllCancelled
      <4>2. waiters'[1] = ws[1] /\ ws[1] \in Task /\ ws[1] # t
        BY <1>3, <2>3, <2>4, <4>1
      <4> QED BY <1>2, <2>1, <2>6, <3>2, <4>1, <4>2
    <3> QED BY <3>1, <3>2 DEF LockGranted
  <2> QED BY <2>2, <2>7, <2>8, <2>9 DEF LockIInv
<1> QED
  BY <1>4, <1>5

(* A step that leaves the lock to others: the first of the rest is woken   *)
(* if the lock is free then.                                               *)
LEMMA LeavesKeeps ==
  ASSUME LockIInv, NEW t \in Task, fut[t] = "none" \/ Resumes(t),
         NEW ws, Rest(ws, t), waiters' = ws,
         asyncLocked' \in BOOLEAN,
         asyncLocked' <=> \E u \in Task : lockPc[u] = "held" /\ u # t,
         asyncLocked => asyncLocked' \/ lockPc[t] = "held",
         NEW woken, woken = IF asyncLocked' THEN NoWake ELSE WakeUpFirst(ws),
         NEW awaits \in BOOLEAN, Runs(t, woken, awaits),
         lockPc' = [lockPc EXCEPT ![t] = IF awaits THEN "wait" ELSE "idle"],
         condWaiters' \in Seq(Task), Once(condWaiters'),
         \A u : On(condWaiters', u) <=> u \in Task /\ lockPc'[u] = "wait"
  PROVE  LockIInv'
<1> USE DEF Queued
<1>1. /\ TaskInv /\ LockPlaces /\ LockOwned /\ LockGranted
      /\ ws \in Seq(Task) /\ Once(ws)
      /\ \A u : On(ws, u) <=> u \in Task /\ lockPc[u] \in Queued /\ u # t
      /\ \A u \in Task : On(ws, u) /\ fut[u] = "result" => ~asyncLocked /\ u = ws[1]
  BY DEF LockIInv, Rest
<1>2. /\ woken \in Seq(Task) /\ Once(woken)
      /\ \A u : On(woken, u) <=> ~asyncLocked' /\ ws # <<>> /\ u = ws[1] /\ fut[u] = "pending"
  BY <1>1, HeadIfPendingOf, NoneOf DEF WakeUpFirst
<1>3. ws # <<>> => ws[1] \in Task /\ On(ws, ws[1])
  BY <1>1, TailOf
<1>4. /\ TaskInv'
      /\ fut'[t] = IF awaits THEN "pending" ELSE "none"
      /\ \A u \in Task : u # t => fut'[u] = IF On(woken, u) THEN "result" ELSE fut[u]
  <2>1. TaskInv
    BY <1>1
  <2>2. \A u : On(woken, u) => fut[u] = "pending"
    BY <1>2
  <2>3. woken \in Seq(Task) /\ Once(woken)
    BY <1>2
  <2>4. /\ TaskInv'
        /\ fut' = [u \in Task |-> IF u = t THEN (IF awaits THEN "pending" ELSE "none")
                                  ELSE IF On(woken, u) THEN "result" ELSE fut[u]]
    BY <2>1, <2>2, <2>3, RunsKeeps
  <2> QED BY <2>4
<1>5. /\ lockPc' \in [Task -> {"idle", "acquire", "held", "wait", "reacquire"}]
      /\ lockPc'[t] = (IF awaits THEN "wait" ELSE "idle")
      /\ \A u \in Task : u # t => lockPc'[u] = lockPc[u]
  BY <1>1 DEF LockPlaces
<1>6. LockPlaces'
  <2>1. \A u : On(waiters', u) <=> u \in Task /\ lockPc'[u] \in Queued
    BY <1>1, <1>5
  <2>2. \A u \in Task : fut'[u] = "none" <=> lockPc'[u] \in {"idle", "held"}
    <3>1. ASSUME NEW u \in Task, u # t
          PROVE  fut'[u] = "none" <=> lockPc'[u] \in {"idle", "held"}
      <4>1. lockPc'[u] = lockPc[u] /\ (fut[u] = "none" <=> lockPc[u] \in {"idle", "held"})
        BY <1>1, <1>5, <3>1 DEF LockPlaces
      <4>2. fut'[u] = IF On(woken, u) THEN "result" ELSE fut[u]
        BY <1>4, <3>1
      <4>3. On(woken, u) => fut[u] = "pending"
        BY <1>2
      <4> QED BY <4>1, <4>2, <4>3
    <3> QED BY <1>4, <1>5, <3>1
  <2> QED BY <1>1, <1>5, <2>1, <2>2 DEF LockPlaces
<1>7. LockOwned'
  <2>1. \A u \in Task : lockPc'[u] = "held" <=> lockPc[u] = "held" /\ u # t
    BY <1>5
  <2> QED BY <1>1, <2>1 DEF LockOwned
<1>8. LockGranted'
  <2>1. ASSUME NEW u \in Task, On(ws, u), fut'[u] = "result"
        PROVE  ~asyncLocked' /\ u = ws[1]
    <3>1. u # t /\ (On(woken, u) \/ fut[u] = "result")
      BY <1>1, <1>4, <2>1
    <3>2. CASE On(woken, u)
      BY <1>2, <3>2
    <3>3. CASE fut[u] = "result"
      <4>1. ~asyncLocked /\ u = ws[1]
        BY <1>1, <2>1, <3>3
      <4>2. ~asyncLocked'
        BY <1>1, <4>1 DEF LockOwned
      <4> QED BY <4>1, <4>2
    <3> QED BY <3>1, <3>2, <3>3
  <2>2. ASSUME ~asyncLocked', ws # <<>>
        PROVE  fut'[ws[1]] # "pending"
    BY <1>1, <1>2, <1>3, <1>4, <2>2
  <2> QED BY <2>1, <2>2 DEF LockGranted
<1> QED
  BY <1>4, <1>6, <1>7, <1>8 DEF LockIInv

(* A waiter whose wake-up came takes the lock. *)
LEMMA GotKeeps ==
  ASSUME LockIInv, NEW t \in Task, lockPc[t] \in Queued, Resumes(t), ~Throws(t),
         asyncLocked' = TRUE, waiters' = Others(waiters, t), LockGoes(t, "held"),
         Runs(t, NoWake, FALSE), condWaiters' = condWaiters
  PROVE  LockIInv'
<1> USE DEF Queued
<1>1. TaskInv /\ LockPlaces /\ LockOwned /\ LockGranted
  BY DEF LockIInv
<1>2. fut[t] = "result"
  BY <1>1, ResumesMeans
<1>3. ~asyncLocked /\ t = waiters[1]
  BY <1>1, <1>2 DEF LockPlaces, LockGranted
<1>4. /\ TaskInv' /\ fut'[t] = "none"
      /\ \A u \in Task : u # t => fut'[u] = fut[u]
  BY <1>1, NoneOf, RunsOn
<1>5. /\ lockPc' \in [Task -> {"idle", "acquire", "held", "wait", "reacquire"}]
      /\ lockPc'[t] = "held" /\ \A u \in Task : u # t => lockPc'[u] = lockPc[u]
  BY <1>1 DEF LockPlaces, LockGoes
<1>6. PICK ws : /\ ws = waiters' /\ ws \in Seq(Task) /\ Once(ws)
                /\ \A u : On(ws, u) <=> u \in Task /\ lockPc[u] \in Queued /\ u # t
                /\ \A u \in Task : On(ws, u) => fut[u] # "result"
  <2>1. Rest(Others(waiters, t), t)
    BY RestOfWaiters
  <2>2. \A u \in Task : On(Others(waiters, t), u) /\ fut[u] = "result" => u = waiters[1] /\ u # t
    BY <1>1, OthersOf DEF LockPlaces, LockGranted
  <2> QED BY <1>3, <2>1, <2>2 DEF Rest
<1>7. LockPlaces'
  <2>1. \A u : On(waiters', u) <=> u \in Task /\ lockPc'[u] \in Queued
    BY <1>5, <1>6
  <2>2. \A u : On(condWaiters', u) <=> u \in Task /\ lockPc'[u] = "wait"
    BY <1>1, <1>5 DEF LockPlaces
  <2>3. \A u \in Task : fut'[u] = "none" <=> lockPc'[u] \in {"idle", "held"}
    BY <1>1, <1>4, <1>5 DEF LockPlaces
  <2> QED BY <1>1, <1>5, <1>6, <2>1, <2>2, <2>3 DEF LockPlaces
<1>8. LockOwned'
  BY <1>1, <1>3, <1>5 DEF LockOwned
<1>9. LockGranted'
  <2>1. \A u \in Task : On(waiters', u) => fut'[u] # "result"
    BY <1>4, <1>6
  <2> QED BY <2>1 DEF LockGranted
<1> QED
  BY <1>4, <1>7, <1>8, <1>9 DEF LockIInv

(* What the actions do with the list of the condition. *)
LEMMA CondStays ==
  ASSUME LockIInv, NEW t \in Task, lockPc[t] # "wait", condWaiters' = condWaiters
  PROVE  /\ condWaiters' \in Seq(Task) /\ Once(condWaiters')
         /\ \A u : On(condWaiters', u) <=> u \in Task /\ lockPc[u] = "wait" /\ u # t
         /\ \A u : On(condWaiters', u) <=> u \in Task /\ lockPc[u] = "wait"
BY DEF LockIInv, LockPlaces

LEMMA AcquireKeeps ==
  ASSUME LockIInv, NEW t \in Task, Acquire(t)
  PROVE  LockIInv'
<1>1. /\ lockPc[t] = "idle" /\ condWaiters' = condWaiters
      /\ AcquireOrWait(t, waiters, NoWake, "acquire")
  BY DEF Acquire
<1>2. fut[t] = "none" /\ Rest(waiters, t)
  BY <1>1, RestOfWaiters DEF LockIInv, LockPlaces, Queued
<1>3. NoWake = IF asyncLocked THEN NoWake ELSE WakeUpFirst(waiters)
  <2>1. ~asyncLocked /\ waiters # <<>> => fut[Head(waiters)] # "pending"
    BY TailOf DEF LockIInv, LockPlaces, LockGranted
  <2> QED BY <2>1 DEF WakeUpFirst, HeadIfPending
<1>4. /\ condWaiters' \in Seq(Task) /\ Once(condWaiters')
      /\ \A u : On(condWaiters', u) <=> u \in Task /\ lockPc[u] = "wait" /\ u # t
  BY <1>1, CondStays
<1>5. "acquire" \in Queued /\ lockPc[t] # "held"
  BY <1>1 DEF Queued
<1> QED
  BY <1>1, <1>2, <1>3, <1>4, <1>5, AcquireOrWaitKeeps

LEMMA AcquireResumesKeeps ==
  ASSUME LockIInv, NEW t \in Task, AcquireResumes(t)
  PROVE  LockIInv'
<1>1. /\ lockPc[t] = "acquire" /\ Resumes(t) /\ condWaiters' = condWaiters
      /\ waiters' = Others(waiters, t)
      /\ IF Throws(t)
         THEN /\ LockGoes(t, "idle") /\ UNCHANGED asyncLocked
              /\ Runs(t, IF asyncLocked THEN NoWake ELSE WakeUpFirst(Others(waiters, t)), FALSE)
         ELSE asyncLocked' = TRUE /\ LockGoes(t, "held") /\ Runs(t, NoWake, FALSE)
  BY DEF AcquireResumes
<1>2. CASE Throws(t)
  <2>1. PICK ws, woken : /\ ws = Others(waiters, t)
                         /\ woken = IF asyncLocked' THEN NoWake ELSE WakeUpFirst(ws)
    OBVIOUS
  <2>2. /\ asyncLocked' = asyncLocked /\ waiters' = ws /\ Rest(ws, t)
        /\ Runs(t, woken, FALSE)
    <3>1. asyncLocked' = asyncLocked /\ waiters' = ws
      BY <1>1, <1>2, <2>1
    <3>2. Rest(ws, t)
      BY <2>1, RestOfWaiters
    <3>3. woken = IF asyncLocked THEN NoWake ELSE WakeUpFirst(Others(waiters, t))
      BY <2>1, <3>1
    <3>4. Runs(t, IF asyncLocked THEN NoWake ELSE WakeUpFirst(Others(waiters, t)), FALSE)
      BY <1>1, <1>2
    <3> QED BY <3>1, <3>2, <3>3, <3>4
  <2>3. /\ asyncLocked' \in BOOLEAN
        /\ asyncLocked' <=> \E u \in Task : lockPc[u] = "held" /\ u # t
        /\ asyncLocked => asyncLocked'
    BY <1>1, <2>2 DEF LockIInv, LockPlaces, LockOwned
  <2>4. /\ lockPc' = [lockPc EXCEPT ![t] = "idle"]
        /\ lockPc \in [Task -> {"idle", "acquire", "held", "wait", "reacquire"}]
    BY <1>1, <1>2 DEF LockGoes, LockIInv, LockPlaces
  <2>5. \A u \in Task : lockPc'[u] = "wait" <=> lockPc[u] = "wait" /\ u # t
    BY <2>4
  <2>6. /\ condWaiters' \in Seq(Task) /\ Once(condWaiters')
        /\ \A u : On(condWaiters', u) <=> u \in Task /\ lockPc'[u] = "wait"
    BY <1>1, <2>5, CondStays
  <2>7. PICK awaits \in BOOLEAN : awaits = FALSE
    OBVIOUS
  <2>8. Runs(t, woken, awaits) /\ lockPc' = [lockPc EXCEPT ![t] = IF awaits THEN "wait" ELSE "idle"]
    BY <2>2, <2>4, <2>7
  <2>9. Resumes(t) /\ Rest(ws, t) /\ waiters' = ws
    BY <1>1, <2>2
  <2> QED BY <2>1, <2>3, <2>6, <2>8, <2>9, LeavesKeeps
<1>3. CASE ~Throws(t)
  BY <1>1, <1>3, GotKeeps DEF Queued
<1> QED
  BY <1>2, <1>3

LEMMA ReleaseKeeps ==
  ASSUME LockIInv, NEW t \in Task, Release(t)
  PROVE  LockIInv'
<1>1. /\ lockPc[t] = "held" /\ asyncLocked' = FALSE /\ condWaiters' = condWaiters
      /\ waiters' = waiters /\ lockPc' = [lockPc EXCEPT ![t] = "idle"]
      /\ Runs(t, WakeUpFirst(waiters), FALSE)
  BY DEF Release, LockGoes
<1>2. LockPlaces /\ LockOwned
  BY DEF LockIInv
<1>3. PICK awaits \in BOOLEAN : awaits = FALSE
  OBVIOUS
<1>4. PICK woken : woken = IF asyncLocked' THEN NoWake ELSE WakeUpFirst(waiters)
  OBVIOUS
<1>5. /\ asyncLocked' \in BOOLEAN
      /\ asyncLocked' <=> \E u \in Task : lockPc[u] = "held" /\ u # t
      /\ asyncLocked => asyncLocked' \/ lockPc[t] = "held"
  BY <1>1, <1>2 DEF LockOwned
<1>6. Runs(t, woken, awaits) /\ lockPc' = [lockPc EXCEPT ![t] = IF awaits THEN "wait" ELSE "idle"]
  BY <1>1, <1>3, <1>4
<1>7. \A u \in Task : lockPc'[u] = "wait" <=> lockPc[u] = "wait"
  BY <1>1, <1>2 DEF LockPlaces
<1>8. /\ condWaiters' \in Seq(Task) /\ Once(condWaiters')
      /\ \A u : On(condWaiters', u) <=> u \in Task /\ lockPc'[u] = "wait"
  BY <1>1, <1>7, CondStays
<1>9. fut[t] = "none" /\ Rest(waiters, t)
  BY <1>1, <1>2, RestOfWaiters DEF LockPlaces, Queued
<1> QED
  BY <1>1, <1>4, <1>5, <1>6, <1>8, <1>9, LeavesKeeps

LEMMA ConditionWaitKeeps ==
  ASSUME LockIInv, NEW t \in Task, ConditionWait(t)
  PROVE  LockIInv'
<1>1. /\ lockPc[t] = "held" /\ asyncLocked' = FALSE /\ condWaiters' = Append(condWaiters, t)
      /\ waiters' = waiters /\ lockPc' = [lockPc EXCEPT ![t] = "wait"]
      /\ Runs(t, WakeUpFirst(waiters), TRUE)
  BY DEF ConditionWait, LockGoes
<1>2. LockPlaces /\ LockOwned
  BY DEF LockIInv
<1>3. PICK awaits \in BOOLEAN : awaits = TRUE
  OBVIOUS
<1>4. PICK woken : woken = IF asyncLocked' THEN NoWake ELSE WakeUpFirst(waiters)
  OBVIOUS
<1>5. /\ asyncLocked' \in BOOLEAN
      /\ asyncLocked' <=> \E u \in Task : lockPc[u] = "held" /\ u # t
      /\ asyncLocked => asyncLocked' \/ lockPc[t] = "held"
  BY <1>1, <1>2 DEF LockOwned
<1>6. Runs(t, woken, awaits) /\ lockPc' = [lockPc EXCEPT ![t] = IF awaits THEN "wait" ELSE "idle"]
  BY <1>1, <1>3, <1>4
<1>7. \A u \in Task : lockPc'[u] = "wait" <=> lockPc[u] = "wait" \/ u = t
  BY <1>1, <1>2 DEF LockPlaces
<1>8. /\ condWaiters' \in Seq(Task) /\ Once(condWaiters')
      /\ \A u : On(condWaiters', u) <=> On(condWaiters, u) \/ u = t
  BY <1>1, <1>2, Appended DEF LockPlaces
<1>9. \A u : On(condWaiters', u) <=> u \in Task /\ lockPc'[u] = "wait"
  BY <1>2, <1>7, <1>8 DEF LockPlaces
<1>10. fut[t] = "none" /\ Rest(waiters, t)
  BY <1>1, <1>2, RestOfWaiters DEF LockPlaces, Queued
<1> QED
  BY <1>1, <1>4, <1>5, <1>6, <1>8, <1>9, <1>10, LeavesKeeps

LEMMA WaitResumesKeeps ==
  ASSUME LockIInv, NEW t \in Task, WaitResumes(t)
  PROVE  LockIInv'
<1>1. /\ lockPc[t] = "wait" /\ Resumes(t) /\ condWaiters' = Others(condWaiters, t)
      /\ AcquireOrWait(t, waiters, NoWake, "reacquire")
  BY DEF WaitResumes
<1>2. Rest(waiters, t)
  BY <1>1, RestOfWaiters DEF Queued
<1>3. NoWake = IF asyncLocked THEN NoWake ELSE WakeUpFirst(waiters)
  <2>1. ~asyncLocked /\ waiters # <<>> => fut[Head(waiters)] # "pending"
    BY TailOf DEF LockIInv, LockPlaces, LockGranted
  <2> QED BY <2>1 DEF WakeUpFirst, HeadIfPending
<1>4. /\ condWaiters' \in Seq(Task) /\ Once(condWaiters')
      /\ \A u : On(condWaiters', u) <=> u \in Task /\ lockPc[u] = "wait" /\ u # t
  BY <1>1, OthersOf DEF LockIInv, LockPlaces
<1>5. "reacquire" \in Queued /\ lockPc[t] # "held"
  BY <1>1 DEF Queued
<1> QED
  BY <1>1, <1>2, <1>3, <1>4, <1>5, AcquireOrWaitKeeps

LEMMA ReacquireResumesKeeps ==
  ASSUME LockIInv, NEW t \in Task, ReacquireResumes(t)
  PROVE  LockIInv'
<1>1. /\ lockPc[t] = "reacquire" /\ Resumes(t) /\ condWaiters' = condWaiters
      /\ IF Throws(t)
         THEN AcquireOrWait(t, Others(waiters, t),
                IF asyncLocked THEN NoWake ELSE WakeUpFirst(Others(waiters, t)), "reacquire")
         ELSE /\ asyncLocked' = TRUE /\ waiters' = Others(waiters, t)
              /\ LockGoes(t, "held") /\ Runs(t, NoWake, FALSE)
  BY DEF ReacquireResumes
<1>2. CASE Throws(t)
  <2>1. PICK ws, woken : /\ ws = Others(waiters, t)
                         /\ woken = IF asyncLocked THEN NoWake ELSE WakeUpFirst(ws)
    OBVIOUS
  <2>2. AcquireOrWait(t, ws, woken, "reacquire") /\ Rest(ws, t)
    BY <1>1, <1>2, <2>1, RestOfWaiters
  <2>3. /\ condWaiters' \in Seq(Task) /\ Once(condWaiters')
        /\ \A u : On(condWaiters', u) <=> u \in Task /\ lockPc[u] = "wait" /\ u # t
    BY <1>1, CondStays
  <2>4. "reacquire" \in Queued /\ lockPc[t] # "held" /\ Resumes(t)
    BY <1>1 DEF Queued
  <2> QED BY <2>1, <2>2, <2>3, <2>4, AcquireOrWaitKeeps
<1>3. CASE ~Throws(t)
  BY <1>1, <1>3, GotKeeps DEF Queued
<1> QED
  BY <1>2, <1>3

LEMMA ConditionNotifyKeeps ==
  ASSUME LockIInv, NEW t \in Task, NEW n \in 1 .. MaxNotify, ConditionNotify(t, n)
  PROVE  LockIInv'
<1>1. PICK live : live = Pending(condWaiters)
  OBVIOUS
<1>2. PICK woken : woken = SubSeq(live, 1, IF n < Len(live) THEN n ELSE Len(live))
  OBVIOUS
<1>3. /\ lockPc[t] = "held" /\ Runs(t, woken, FALSE)
      /\ asyncLocked' = asyncLocked /\ waiters' = waiters
      /\ condWaiters' = condWaiters /\ lockPc' = lockPc
  BY <1>1, <1>2 DEF ConditionNotify
<1>4. TaskInv /\ LockPlaces /\ LockOwned /\ LockGranted
  BY DEF LockIInv
<1>5. /\ live \in Seq(Task) /\ Once(live) /\ Len(live) \in Nat
      /\ \A u : On(live, u) <=> u \in Task /\ fut[u] = "pending" /\ On(condWaiters, u)
  <2>1. condWaiters \in Seq(Task) /\ Once(condWaiters)
    BY <1>4 DEF LockPlaces
  <2> QED BY <1>1, <2>1, PendingOf, LenProperties
<1>6. /\ woken \in Seq(Task) /\ Once(woken)
      /\ \A u : On(woken, u) => u \in Task /\ fut[u] = "pending" /\ lockPc[u] = "wait"
  <2>1. PICK k \in Nat : k = (IF n < Len(live) THEN n ELSE Len(live)) /\ k <= Len(live)
    BY <1>5, AsyncLocksAssumption
  <2>2. woken = SubSeq(live, 1, k)
    BY <1>2, <2>1
  <2>3. /\ woken \in Seq(Task) /\ Once(woken)
        /\ \A u : On(woken, u) => On(live, u)
    BY <1>5, <2>1, <2>2, FirstOf
  <2> QED BY <1>4, <1>5, <2>3 DEF LockPlaces
<1>7. /\ TaskInv' /\ fut'[t] = "none"
      /\ \A u \in Task : u # t => fut'[u] = IF On(woken, u) THEN "result" ELSE fut[u]
  <2>1. TaskInv
    BY <1>4
  <2>2. \A u : On(woken, u) => fut[u] = "pending"
    BY <1>6
  <2>3. woken \in Seq(Task) /\ Once(woken)
    BY <1>6
  <2>4. fut[t] = "none"
    BY <1>3, <1>4 DEF LockPlaces
  <2>5. Runs(t, woken, FALSE)
    BY <1>3
  <2> QED BY <2>1, <2>2, <2>3, <2>4, <2>5, RunsOn
<1>8. \A u \in Task : /\ fut'[u] = "none" <=> fut[u] = "none"
                      /\ lockPc[u] # "wait" => fut'[u] = fut[u]
  BY <1>3, <1>4, <1>6, <1>7 DEF LockPlaces
<1>9. LockPlaces'
  BY <1>3, <1>4, <1>8 DEF LockPlaces
<1>10. LockOwned'
  BY <1>3, <1>4 DEF LockOwned
<1>11. \A u \in Task : On(waiters, u) => fut'[u] = fut[u]
  BY <1>4, <1>8 DEF LockPlaces, Queued
<1>12. LockGranted'
  <2>1. waiters # <<>> => waiters[1] \in Task /\ On(waiters, waiters[1])
    BY <1>4, TailOf DEF LockPlaces
  <2> QED BY <1>3, <1>4, <1>11, <2>1 DEF LockGranted
<1> QED
  BY <1>7, <1>9, <1>10, <1>12 DEF LockIInv

LEMMA LockCancelKeeps ==
  ASSUME LockIInv, NEW t \in Task, LockCancel(t)
  PROVE  LockIInv'
<1>1. /\ CancelTask(t) /\ asyncLocked' = asyncLocked /\ waiters' = waiters
      /\ condWaiters' = condWaiters /\ lockPc' = lockPc
  BY DEF LockCancel
<1>2. TaskInv /\ LockPlaces /\ LockOwned /\ LockGranted
  BY DEF LockIInv
<1>3. /\ TaskInv' /\ fut[t] # "none"
      /\ fut' = [fut EXCEPT ![t] = IF fut[t] = "pending" THEN "cancelled" ELSE fut[t]]
      /\ fut \in [Task -> {"none", "pending", "result", "cancelled"}]
  BY <1>1, <1>2, CancelKeeps, TaskInvMeans
<1>4. \A u \in Task : /\ fut'[u] = "none" <=> fut[u] = "none"
                      /\ fut'[u] = "result" <=> fut[u] = "result"
                      /\ fut'[u] = "pending" => fut[u] = "pending"
  BY <1>3
<1>5. LockPlaces'
  BY <1>1, <1>2, <1>4 DEF LockPlaces
<1>6. LockOwned'
  BY <1>1, <1>2 DEF LockOwned
<1>7. LockGranted'
  <2>1. waiters # <<>> => waiters[1] \in Task
    BY <1>2, TailOf DEF LockPlaces
  <2> QED BY <1>1, <1>2, <1>4, <2>1 DEF LockGranted
<1> QED
  BY <1>3, <1>5, <1>6, <1>7 DEF LockIInv

LEMMA LockInitOK ==
  LockInit => LockIInv
<1> SUFFICES ASSUME LockInit
             PROVE  LockIInv
  OBVIOUS
<1>1. /\ TaskInv /\ \A u \in Task : fut[u] = "none"
      /\ asyncLocked = FALSE /\ waiters = <<>> /\ condWaiters = <<>>
      /\ lockPc = [t \in Task |-> "idle"]
  BY TaskInitOK DEF LockInit
<1>2. <<>> \in Seq(Task) /\ Once(<<>>) /\ \A u : ~On(<<>>, u)
  BY NoneOf DEF NoWake
<1>3. LockPlaces
  BY <1>1, <1>2 DEF LockPlaces, Queued
<1> QED
  BY <1>1, <1>2, <1>3 DEF LockIInv, LockOwned, LockGranted

(* Each action of the lock and of the condition keeps the invariant (the   *)
(* lemmas above, one for each action), so that every step does.            *)
LEMMA LockNextKeeps ==
  ASSUME LockIInv, LockNext
  PROVE  LockIInv'
<1>1. PICK t \in Task : \/ Acquire(t) \/ Release(t) \/ ConditionWait(t)
                        \/ LockResumes(t) \/ LockCancel(t)
                        \/ \E n \in 1 .. MaxNotify : ConditionNotify(t, n)
  BY DEF LockNext
<1>2. CASE Acquire(t)
  BY <1>2, AcquireKeeps
<1>3. CASE Release(t)
  BY <1>3, ReleaseKeeps
<1>4. CASE ConditionWait(t)
  BY <1>4, ConditionWaitKeeps
<1>5. CASE LockResumes(t)
  BY <1>5, AcquireResumesKeeps, WaitResumesKeeps, ReacquireResumesKeeps DEF LockResumes
<1>6. CASE LockCancel(t)
  BY <1>6, LockCancelKeeps
<1>7. CASE \E n \in 1 .. MaxNotify : ConditionNotify(t, n)
  BY <1>7, ConditionNotifyKeeps
<1> QED
  BY <1>1, <1>2, <1>3, <1>4, <1>5, <1>6, <1>7

LEMMA LockStutters ==
  ASSUME LockIInv, UNCHANGED lockVars
  PROVE  LockIInv'
<1>1. /\ fut' = fut /\ must_cancel' = must_cancel /\ ready' = ready
      /\ asyncLocked' = asyncLocked /\ waiters' = waiters /\ condWaiters' = condWaiters
      /\ lockPc' = lockPc
  BY DEF lockVars, taskVars
<1> QED
  BY <1>1 DEF LockIInv, TaskInv, TaskTypeOK, ScheduledOnce, LockPlaces, LockOwned, LockGranted,
     Once, On

(* The inductive invariant holds in every reachable state of the lock and  *)
(* the condition.                                                          *)
THEOREM LockInvariance ==
  LockSpec => []LockIInv
<1>1. LockInit => LockIInv
  BY LockInitOK
<1>2. LockIInv /\ [LockNext]_lockVars => LockIInv'
  BY LockNextKeeps, LockStutters
<1> QED
  BY <1>1, <1>2, PTL DEF LockSpec

(* At any time one task at most has an asyncio lock, _locked says whether  *)
(* one has, and the first that waits for a free lock was woken or          *)
(* cancelled, whatever the number of tasks and of cancellations.           *)
THEOREM LockIsRight ==
  LockSpec => []LockInv
<1>1. LockIInv => LockInv
  <2> SUFFICES ASSUME LockIInv
               PROVE  LockInv
    OBVIOUS
  <2>1. LockTypeOK
    BY DEF LockTypeOK, LockIInv, LockPlaces, TaskInv
  <2>2. LockExclusion
    <3>1. \A x, y \in Holders : x = y
      BY DEF LockIInv, LockOwned, Holders
    <3>2. Cardinality(Holders) <= 1
      BY <3>1, AtMostOne
    <3> QED BY <3>2 DEF LockIInv, LockOwned, LockExclusion, Holders
  <2>3. LockWakeUp
    <3>1. waiters # <<>> => Head(waiters) = waiters[1]
      BY TailOf DEF LockIInv, LockPlaces
    <3> QED BY <3>1 DEF LockIInv, LockGranted, LockWakeUp
  <2> QED BY <2>1, <2>2, <2>3 DEF LockInv
<1> QED
  BY <1>1, LockInvariance, PTL

(* Whoever waits before t, or if t does not wait, anywhere, is cancelled.  *)
Overtakes(t) ==
  \A i \in DOMAIN waiters :
    (\E j \in DOMAIN waiters : waiters[j] = t /\ j > i) \/ t \notin ToSet(waiters)
      => fut[waiters[i]] = "cancelled"

LEMMA WokenIsFirst ==
  ASSUME LockIInv, NEW t \in Task, lockPc[t] \in Queued, Resumes(t), ~Throws(t)
  PROVE  Overtakes(t)
<1>1. TaskInv /\ LockPlaces /\ LockGranted
  BY DEF LockIInv
<1>2. fut[t] = "result" /\ On(waiters, t)
  BY <1>1, ResumesMeans DEF LockPlaces
<1>3. t = waiters[1]
  BY <1>1, <1>2 DEF LockGranted
<1>4. /\ DOMAIN waiters = 1 .. Len(waiters) /\ Len(waiters) \in Nat
      /\ t \in ToSet(waiters) /\ Once(waiters)
  BY <1>1, <1>2, OnIsToSet DEF LockPlaces
<1>5. ASSUME NEW i \in DOMAIN waiters, NEW j \in DOMAIN waiters, waiters[j] = t, j > i
      PROVE  FALSE
  BY <1>3, <1>4, <1>5 DEF Once
<1> QED
  BY <1>4, <1>5 DEF Overtakes

LEMMA FreeIsBehindNobody ==
  ASSUME LockIInv, NEW t \in Task, NEW ws, ws = waiters \/ ws = Others(waiters, t), IsFree(ws)
  PROVE  Overtakes(t)
<1>1. waiters \in Seq(Task) /\ Once(waiters)
  BY DEF LockIInv, LockPlaces
<1>2. /\ ws \in Seq(Task)
      /\ \A u : u # t /\ On(waiters, u) => On(ws, u)
      /\ ws = waiters \/ \A u : On(ws, u) <=> On(waiters, u) /\ u # t
  BY <1>1, OthersOf
<1>3. \A u : On(ws, u) => fut[u] = "cancelled"
  <2>1. DOMAIN ws = 1 .. Len(ws)
    BY <1>2, OnIsToSet
  <2> QED BY <2>1 DEF IsFree, AllCancelled, On
<1>4. /\ DOMAIN waiters = 1 .. Len(waiters) /\ Len(waiters) \in Nat
      /\ t \in ToSet(waiters) <=> On(waiters, t)
  BY <1>1, OnIsToSet
<1>5. ASSUME NEW i \in DOMAIN waiters,
             (\E j \in DOMAIN waiters : waiters[j] = t /\ j > i) \/ t \notin ToSet(waiters)
      PROVE  fut[waiters[i]] = "cancelled"
  <2>1. On(waiters, waiters[i])
    BY <1>4 DEF On
  <2>2. waiters[i] # t
    BY <1>1, <1>4, <1>5, <2>1 DEF Once
  <2> QED BY <1>2, <1>3, <2>1, <2>2
<1> QED
  BY <1>5 DEF Overtakes

(* What acquire does to where the tasks are. *)
LEMMA AcquireOrWaitGoes ==
  ASSUME LockIInv, NEW t \in Task, NEW ws, NEW woken, NEW label,
         AcquireOrWait(t, ws, woken, label)
  PROVE  /\ \/ lockPc'[t] = "held" /\ asyncLocked' = TRUE /\ IsFree(ws)
            \/ lockPc'[t] = label
         /\ \A u \in Task : u # t => lockPc'[u] = lockPc[u]
<1>1. lockPc \in [Task -> {"idle", "acquire", "held", "wait", "reacquire"}]
  BY DEF LockIInv, LockPlaces
<1>2. \/ lockPc' = [lockPc EXCEPT ![t] = "held"] /\ asyncLocked' = TRUE /\ IsFree(ws)
      \/ lockPc' = [lockPc EXCEPT ![t] = label]
  BY DEF AcquireOrWait, LockGoes
<1> QED
  BY <1>1, <1>2

(* How every step moves the tasks. *)
LEMMA LockMoves ==
  ASSUME LockIInv, [LockNext]_lockVars, NEW v \in Task
  PROVE  /\ lockPc[v] # "held" /\ lockPc'[v] = "held" => Overtakes(v)
         /\ lockPc[v] \in {"wait", "reacquire"} =>
              lockPc'[v] \in {"wait", "reacquire"} \/ (lockPc'[v] = "held" /\ asyncLocked')
<1>1. lockPc \in [Task -> {"idle", "acquire", "held", "wait", "reacquire"}]
  BY DEF LockIInv, LockPlaces
<1>2. CASE lockPc' = lockPc
  BY <1>2
<1>3. ASSUME NEW t \in Task, Acquire(t)
      PROVE  /\ lockPc[v] # "held" /\ lockPc'[v] = "held" => Overtakes(v)
             /\ lockPc[v] \in {"wait", "reacquire"} =>
                  lockPc'[v] \in {"wait", "reacquire"} \/ (lockPc'[v] = "held" /\ asyncLocked')
  <2>1. lockPc[t] = "idle" /\ AcquireOrWait(t, waiters, NoWake, "acquire")
    BY <1>3 DEF Acquire
  <2>2. /\ \/ lockPc'[t] = "held" /\ asyncLocked' = TRUE /\ IsFree(waiters)
           \/ lockPc'[t] = "acquire"
        /\ \A u \in Task : u # t => lockPc'[u] = lockPc[u]
    BY <2>1, AcquireOrWaitGoes
  <2> QED BY <2>1, <2>2, FreeIsBehindNobody
<1>4. ASSUME NEW t \in Task, Release(t) \/ ConditionWait(t)
      PROVE  /\ lockPc[v] # "held" /\ lockPc'[v] = "held" => Overtakes(v)
             /\ lockPc[v] \in {"wait", "reacquire"} =>
                  lockPc'[v] \in {"wait", "reacquire"} \/ (lockPc'[v] = "held" /\ asyncLocked')
  <2>1. /\ lockPc[t] = "held"
        /\ lockPc' = [lockPc EXCEPT ![t] = "idle"] \/ lockPc' = [lockPc EXCEPT ![t] = "wait"]
    BY <1>4 DEF Release, ConditionWait, LockGoes
  <2>2. v # t => lockPc'[v] = lockPc[v]
    BY <1>1, <2>1
  <2>3. lockPc'[t] # "held"
    BY <1>1, <2>1
  <2> QED BY <2>1, <2>2, <2>3
<1>5. ASSUME NEW t \in Task, AcquireResumes(t)
      PROVE  /\ lockPc[v] # "held" /\ lockPc'[v] = "held" => Overtakes(v)
             /\ lockPc[v] \in {"wait", "reacquire"} =>
                  lockPc'[v] \in {"wait", "reacquire"} \/ (lockPc'[v] = "held" /\ asyncLocked')
  <2>1. /\ lockPc[t] = "acquire" /\ Resumes(t)
        /\ \/ Throws(t) /\ lockPc' = [lockPc EXCEPT ![t] = "idle"]
           \/ ~Throws(t) /\ lockPc' = [lockPc EXCEPT ![t] = "held"]
    BY <1>5 DEF AcquireResumes, LockGoes
  <2>2. v # t => lockPc'[v] = lockPc[v]
    BY <1>1, <2>1
  <2>3. lockPc'[t] = "held" => Overtakes(t)
    <3>1. lockPc'[t] = "held" => ~Throws(t)
      BY <1>1, <2>1
    <3> QED BY <2>1, <3>1, WokenIsFirst DEF Queued
  <2> QED BY <2>1, <2>2, <2>3
<1>6. ASSUME NEW t \in Task, WaitResumes(t)
      PROVE  /\ lockPc[v] # "held" /\ lockPc'[v] = "held" => Overtakes(v)
             /\ lockPc[v] \in {"wait", "reacquire"} =>
                  lockPc'[v] \in {"wait", "reacquire"} \/ (lockPc'[v] = "held" /\ asyncLocked')
  <2>1. lockPc[t] = "wait" /\ AcquireOrWait(t, waiters, NoWake, "reacquire")
    BY <1>6 DEF WaitResumes
  <2>2. /\ \/ lockPc'[t] = "held" /\ asyncLocked' = TRUE /\ IsFree(waiters)
           \/ lockPc'[t] = "reacquire"
        /\ \A u \in Task : u # t => lockPc'[u] = lockPc[u]
    BY <2>1, AcquireOrWaitGoes
  <2> QED BY <2>1, <2>2, FreeIsBehindNobody
<1>7. ASSUME NEW t \in Task, ReacquireResumes(t)
      PROVE  /\ lockPc[v] # "held" /\ lockPc'[v] = "held" => Overtakes(v)
             /\ lockPc[v] \in {"wait", "reacquire"} =>
                  lockPc'[v] \in {"wait", "reacquire"} \/ (lockPc'[v] = "held" /\ asyncLocked')
  <2>1. PICK ws, woken : /\ ws = Others(waiters, t)
                         /\ woken = IF asyncLocked THEN NoWake ELSE WakeUpFirst(ws)
    OBVIOUS
  <2>2. lockPc[t] = "reacquire" /\ Resumes(t)
    BY <1>7 DEF ReacquireResumes
  <2>3. CASE Throws(t)
    <3>1. AcquireOrWait(t, ws, woken, "reacquire")
      BY <1>7, <2>1, <2>3 DEF ReacquireResumes
    <3>2. /\ \/ lockPc'[t] = "held" /\ asyncLocked' = TRUE /\ IsFree(ws)
             \/ lockPc'[t] = "reacquire"
          /\ \A u \in Task : u # t => lockPc'[u] = lockPc[u]
      BY <3>1, AcquireOrWaitGoes
    <3> QED BY <2>1, <2>2, <3>2, FreeIsBehindNobody
  <2>4. CASE ~Throws(t)
    <3>1. asyncLocked' = TRUE /\ lockPc' = [lockPc EXCEPT ![t] = "held"]
      BY <1>7, <2>4 DEF ReacquireResumes, LockGoes
    <3>2. Overtakes(t)
      BY <2>2, <2>4, WokenIsFirst DEF Queued
    <3>3. v # t => lockPc'[v] = lockPc[v]
      BY <1>1, <3>1
    <3>4. lockPc'[t] = "held"
      BY <1>1, <3>1
    <3> QED BY <3>1, <3>2, <3>3, <3>4
  <2> QED BY <2>3, <2>4
<1>8. CASE LockNext
  <2>1. PICK t \in Task : \/ Acquire(t) \/ Release(t) \/ ConditionWait(t)
                          \/ LockResumes(t) \/ LockCancel(t)
                          \/ \E n \in 1 .. MaxNotify : ConditionNotify(t, n)
    BY <1>8 DEF LockNext
  <2>2. CASE LockCancel(t) \/ \E n \in 1 .. MaxNotify : ConditionNotify(t, n)
    BY <1>2, <2>2 DEF LockCancel, ConditionNotify
  <2> QED BY <1>3, <1>4, <1>5, <1>6, <1>7, <2>1, <2>2 DEF LockResumes
<1>9. CASE UNCHANGED lockVars
  BY <1>2, <1>9 DEF lockVars
<1> QED
  BY <1>8, <1>9

(* The lock goes to the waiters in their order: who gets it leaves behind  *)
(* only waiters that are cancelled, be it a newcomer in acquire, a waiter  *)
(* that was woken, or a task that comes back from Condition.wait.          *)
THEOREM LockIsFair ==
  LockSpec => LockInOrder
<1>1. LockIInv /\ [LockNext]_lockVars =>
        [\A t \in Task : lockPc[t] # "held" /\ lockPc'[t] = "held" =>
           \A i \in DOMAIN waiters :
             (\E j \in DOMAIN waiters : waiters[j] = t /\ j > i) \/ t \notin ToSet(waiters)
               => fut[waiters[i]] = "cancelled"]_lockVars
  BY LockMoves DEF Overtakes
<1> QED
  BY <1>1, LockInvariance, PTL DEF LockSpec, LockInOrder

(* A task that waits for a condition has the lock again when it leaves     *)
(* wait(), however often and whenever it is cancelled.                     *)
THEOREM WaitersReacquire ==
  LockSpec => WaitEndsLocked
<1>1. LockIInv /\ [LockNext]_lockVars =>
        [\A t \in Task : lockPc[t] \in {"wait", "reacquire"} =>
           lockPc'[t] \in {"wait", "reacquire"} \/ (lockPc'[t] = "held" /\ asyncLocked')]_lockVars
  BY LockMoves
<1> QED
  BY <1>1, LockInvariance, PTL DEF LockSpec, WaitEndsLocked
-----------------------------------------------------------------------------
(***************************************************************************)
(* asyncio.Semaphore.                                                      *)
(***************************************************************************)
SemPlaces ==
  /\ value \in Nat /\ extra \in 0 .. MaxExtra
  /\ semPc \in [Task -> {"idle", "acquire", "has"}]
  /\ semWaiters \in Seq(Task) /\ Once(semWaiters)
  /\ \A u : On(semWaiters, u) <=> u \in Task /\ semPc[u] = "acquire"
  /\ \A u \in Task : fut[u] = "none" <=> semPc[u] \in {"idle", "has"}

SemCounted == IsFiniteSet(SemWoken) /\ IsFiniteSet(SemHolding) /\ PermitsConserved

(* PermitsUsed, by where the tasks are. *)
SemReady ==
  value > 0 /\ (\E u \in Task : semPc[u] = "acquire" /\ fut[u] = "pending") => SemWoken # {}

SemIInv == TaskInv /\ SemPlaces /\ SemCounted /\ SemReady

LEMMA PermitsUsedMeans ==
  ASSUME SemPlaces
  PROVE  PermitsUsed <=> SemReady
<1>1. Pending(semWaiters) = <<>> <=> \A u \in Task : On(semWaiters, u) => fut[u] # "pending"
  BY PendingOf DEF SemPlaces
<1> QED
  BY <1>1 DEF SemPlaces, PermitsUsed, SemReady

(* A step of t that wakes at most one of the others. *)
LEMMA SemLeaves ==
  ASSUME SemIInv, NEW t \in Task, fut[t] = "none" \/ Resumes(t),
         NEW ws \in Seq(Task), Once(ws),
         \A u : On(ws, u) <=> u \in Task /\ semPc[u] = "acquire" /\ u # t,
         semWaiters' = ws,
         NEW label \in {"idle", "has"},
         semPc' = [semPc EXCEPT ![t] = label], extra' \in 0 .. MaxExtra,
         NEW woken,
         \/ woken = FirstPending(ws)
         \/ woken = NoWake /\ (value' = 0 \/ (fut[t] = "cancelled" /\ value' = value)),
         Runs(t, woken, FALSE),
         value' \in Nat, IsFiniteSet(SemHolding'),
         value' + Len(woken) + Cardinality(SemWoken \ {t}) + Cardinality(SemHolding')
           = Initial + extra'
  PROVE  SemIInv'
<1>1. TaskInv /\ SemPlaces /\ SemCounted /\ SemReady
  BY DEF SemIInv
<1>2. /\ woken \in Seq(Task) /\ Once(woken)
      /\ \A u : On(woken, u) => On(ws, u) /\ fut[u] = "pending"
      /\ \/ Len(woken) = 0 /\ \A u : ~On(woken, u)
         \/ Len(woken) = 1 /\ \E x \in Task : \A u : On(woken, u) <=> u = x
  <2>1. CASE woken = FirstPending(ws)
    <3>1. /\ FirstPending(ws) \in Seq(Task) /\ Once(FirstPending(ws))
          /\ \A u : On(FirstPending(ws), u) => On(ws, u) /\ fut[u] = "pending"
      BY FirstPendingOf
    <3>2. \/ Len(woken) = 0 /\ \A u : ~On(woken, u)
          \/ Len(woken) = 1 /\ \E x \in Task : \A u : On(woken, u) <=> u = x
      <4>1. \/ Len(FirstPending(ws)) = 0 /\ \A u : ~On(FirstPending(ws), u)
            \/ \E x \in Task : /\ Len(FirstPending(ws)) = 1
                               /\ \A u : On(FirstPending(ws), u) <=> u = x
        BY FirstPendingIs
      <4> QED BY <2>1, <4>1
    <3> QED BY <2>1, <3>1, <3>2
  <2>2. CASE woken = NoWake
    BY <2>2, NoneOf
  <2> QED BY <2>1, <2>2
<1>3. /\ TaskInv' /\ ~On(woken, t) /\ fut'[t] = "none"
      /\ \A u \in Task : u # t => fut'[u] = IF On(woken, u) THEN "result" ELSE fut[u]
  <2>1. TaskInv
    BY <1>1
  <2>2. \A u : On(woken, u) => fut[u] = "pending"
    BY <1>2
  <2>3. woken \in Seq(Task) /\ Once(woken)
    BY <1>2
  <2>4. fut[t] = "none" \/ Resumes(t)
    OBVIOUS
  <2> QED BY <2>1, <2>2, <2>3, <2>4, RunsOn
<1>4. /\ semPc' \in [Task -> {"idle", "acquire", "has"}]
      /\ semPc'[t] = label /\ \A u \in Task : u # t => semPc'[u] = semPc[u]
  BY <1>1 DEF SemPlaces
<1>5. SemPlaces'
  <2>1. \A u : On(semWaiters', u) <=> u \in Task /\ semPc'[u] = "acquire"
    BY <1>4
  <2>2. \A u \in Task : fut'[u] = "none" <=> semPc'[u] \in {"idle", "has"}
    <3>1. \A u \in Task : On(woken, u) => semPc[u] = "acquire"
      BY <1>2
    <3> QED BY <1>1, <1>3, <1>4, <3>1 DEF SemPlaces
  <2> QED BY <1>4, <2>1, <2>2 DEF SemPlaces
<1>6. \A u \in Task : u \in SemWoken' <=> On(woken, u) \/ (u \in SemWoken /\ u # t)
  <2>1. \A u \in Task : On(woken, u) => semPc[u] = "acquire" /\ u # t
    BY <1>2
  <2> QED BY <1>3, <1>4, <2>1 DEF SemWoken
<1>7. SemWoken' \subseteq Task /\ SemWoken \subseteq Task
  BY DEF SemWoken
<1>8. SemCounted'
  <2>1. /\ IsFiniteSet(SemWoken \ {t}) /\ Cardinality(SemWoken \ {t}) \in Nat
        /\ Cardinality(SemHolding') \in Nat
    BY <1>1, OneLess, FS_CardinalityType DEF SemCounted
  <2>2. IsFiniteSet(SemWoken') /\ Cardinality(SemWoken') = Len(woken) + Cardinality(SemWoken \ {t})
    <3>1. CASE Len(woken) = 0 /\ \A u : ~On(woken, u)
      <4>1. SemWoken' = SemWoken \ {t}
        BY <1>6, <1>7, <3>1
      <4> QED BY <2>1, <3>1, <4>1
    <3>2. CASE Len(woken) = 1 /\ \E x \in Task : \A u : On(woken, u) <=> u = x
      <4>1. PICK x \in Task : \A u : On(woken, u) <=> u = x
        BY <3>2
      <4>2. SemWoken' = (SemWoken \ {t}) \cup {x}
        BY <1>6, <1>7, <4>1
      <4>3. x \notin SemWoken \ {t}
        BY <1>2, <4>1 DEF SemWoken
      <4>4. PICK S : S = SemWoken \ {t}
        OBVIOUS
      <4>5. IsFiniteSet(S \cup {x}) /\ Cardinality(S \cup {x}) = Cardinality(S) + 1
        BY <2>1, <4>3, <4>4, OneMore
      <4> QED BY <2>1, <3>2, <4>2, <4>4, <4>5
    <3> QED BY <1>2, <3>1, <3>2
  <2>3. PermitsConserved'
    <3>1. (value + Cardinality(SemWoken) + Cardinality(SemHolding) = Initial + extra)'
      <4>1. /\ Len(woken) \in Nat /\ value' \in Nat /\ extra' \in Nat /\ Initial \in Nat
        BY <1>2, LenProperties, SemaphoreAssumption
      <4> QED BY <2>1, <2>2, <4>1
    <3> QED BY <3>1 DEF PermitsConserved
  <2> QED BY <2>2, <2>3 DEF SemCounted
<1>9. SemReady'
  <2> SUFFICES ASSUME value' > 0, NEW u \in Task, semPc'[u] = "acquire", fut'[u] = "pending"
               PROVE  SemWoken' # {}
    BY DEF SemReady
  <2>1. u # t /\ semPc[u] = "acquire" /\ fut[u] = "pending" /\ On(ws, u) /\ ~On(woken, u)
    BY <1>3, <1>4
  <2>2. CASE woken = FirstPending(ws)
    <3>1. \E x \in Task : \A y : On(FirstPending(ws), y) <=> y = x
      BY <2>1, FirstPendingIs
    <3> QED BY <1>6, <2>2, <3>1
  <2>3. CASE woken = NoWake /\ fut[t] = "cancelled" /\ value' = value
    <3>1. PICK w : w \in SemWoken
      BY <1>1, <2>1, <2>3 DEF SemReady
    <3>2. w \in Task /\ w # t
      BY <2>3, <3>1 DEF SemWoken
    <3> QED BY <1>6, <3>1, <3>2
  <2> QED BY <2>2, <2>3
<1> QED
  BY <1>3, <1>5, <1>8, <1>9 DEF SemIInv

LEMMA WakeUpNextIs ==
  ASSUME NEW t \in Task, NEW v \in Nat, v > 0, NEW ws \in Seq(Task), WakeUpNext(t, v, ws)
  PROVE  /\ semWaiters' = ws /\ Runs(t, FirstPending(ws), FALSE)
         /\ value' \in Nat /\ Len(FirstPending(ws)) \in Nat
         /\ value' + Len(FirstPending(ws)) = v
<1>1. Len(FirstPending(ws)) \in {0, 1}
  <2>1. Len(FirstPending(ws)) = 0 \/ Len(FirstPending(ws)) = 1
    BY FirstPendingIs
  <2> QED BY <2>1
<1>2. /\ value' = v - Len(FirstPending(ws)) /\ semWaiters' = ws
      /\ Runs(t, FirstPending(ws), FALSE)
  BY DEF WakeUpNext
<1>3. PICK n \in {0, 1} : n = Len(FirstPending(ws))
  BY <1>1
<1>4. value' = v - n
  BY <1>2, <1>3
<1>5. value' \in Nat /\ value' + n = v
  BY <1>3, <1>4
<1>6. Len(FirstPending(ws)) \in Nat
  BY <1>1
<1>7. value' + Len(FirstPending(ws)) = v
  BY <1>3, <1>5
<1>8. value' \in Nat
  BY <1>5
<1> QED
  BY <1>2, <1>6, <1>7, <1>8

LEMMA SemRest ==
  ASSUME SemIInv, NEW t \in Task
  PROVE  /\ Others(semWaiters, t) \in Seq(Task) /\ Once(Others(semWaiters, t))
         /\ \A u : On(Others(semWaiters, t), u) <=> u \in Task /\ semPc[u] = "acquire" /\ u # t
BY OthersOf DEF SemIInv, SemPlaces

(* Who has acquired, when t moves. *)
LEMMA HoldingMoves ==
  ASSUME SemIInv, NEW t \in Task, NEW label \in {"idle", "acquire", "has"},
         semPc' = [semPc EXCEPT ![t] = label]
  PROVE  /\ IsFiniteSet(SemHolding') /\ Cardinality(SemHolding') \in Nat
         /\ Cardinality(SemHolding) \in Nat /\ Cardinality(SemWoken) \in Nat
         /\ Cardinality(SemWoken \ {t}) \in Nat
         /\ Cardinality(SemWoken \ {t}) = IF t \in SemWoken THEN Cardinality(SemWoken) - 1
                                                            ELSE Cardinality(SemWoken)
         /\ Cardinality(SemHolding') =
              IF label = "has" THEN IF semPc[t] = "has" THEN Cardinality(SemHolding)
                                    ELSE Cardinality(SemHolding) + 1
              ELSE IF semPc[t] = "has" THEN Cardinality(SemHolding) - 1
                   ELSE Cardinality(SemHolding)
<1>1. SemPlaces /\ SemCounted
  BY DEF SemIInv
<1>2. semPc'[t] = label /\ \A u \in Task : u # t => semPc'[u] = semPc[u]
  BY <1>1 DEF SemPlaces
<1>3. SemHolding' = IF label = "has" THEN SemHolding \cup {t} ELSE SemHolding \ {t}
  BY <1>2 DEF SemHolding
<1>4. t \in SemHolding <=> semPc[t] = "has"
  BY DEF SemHolding
<1>5. /\ IsFiniteSet(SemHolding) /\ Cardinality(SemHolding) \in Nat
      /\ IsFiniteSet(SemHolding \cup {t}) /\ IsFiniteSet(SemHolding \ {t})
      /\ Cardinality(SemHolding \cup {t}) =
           IF t \in SemHolding THEN Cardinality(SemHolding) ELSE Cardinality(SemHolding) + 1
      /\ Cardinality(SemHolding \ {t}) =
           IF t \in SemHolding THEN Cardinality(SemHolding) - 1 ELSE Cardinality(SemHolding)
  BY <1>1, OneLess, OneMore DEF SemCounted
<1>6. /\ Cardinality(SemWoken) \in Nat /\ Cardinality(SemWoken \ {t}) \in Nat
      /\ Cardinality(SemWoken \ {t}) = IF t \in SemWoken THEN Cardinality(SemWoken) - 1
                                                         ELSE Cardinality(SemWoken)
  BY <1>1, OneLess DEF SemCounted
<1>7. IsFiniteSet(SemHolding') /\ Cardinality(SemHolding') \in Nat
  BY <1>3, <1>5, FS_CardinalityType
<1> QED
  BY <1>3, <1>4, <1>5, <1>6, <1>7

(* What a waiting acquire does when it goes on. *)
LEMMA SemCancelledKeeps ==
  ASSUME SemIInv, NEW t \in Task, SemAcquireResumes(t), Throws(t)
  PROVE  SemIInv'
<1>1. TaskInv /\ SemPlaces /\ SemCounted /\ SemReady
  BY DEF SemIInv
<1>2. PICK ws : /\ ws = Others(semWaiters, t)
                /\ ws \in Seq(Task) /\ Once(ws)
                /\ \A u : On(ws, u) <=> u \in Task /\ semPc[u] = "acquire" /\ u # t
  BY SemRest
<1>3. /\ semPc[t] = "acquire" /\ Resumes(t) /\ semPc' = [semPc EXCEPT ![t] = "idle"]
      /\ extra' = extra /\ SemCancelled(t, ws)
  BY <1>2 DEF SemAcquireResumes, SemGoes
<1>4. /\ IsFiniteSet(SemHolding') /\ Cardinality(SemHolding') \in Nat
      /\ Cardinality(SemWoken) \in Nat /\ Cardinality(SemWoken \ {t}) \in Nat
      /\ Cardinality(SemWoken \ {t}) = IF t \in SemWoken THEN Cardinality(SemWoken) - 1
                                                         ELSE Cardinality(SemWoken)
      /\ Cardinality(SemHolding') = Cardinality(SemHolding) /\ Cardinality(SemHolding) \in Nat
  <2>1. PICK label \in {"idle", "acquire", "has"} : label = "idle"
    OBVIOUS
  <2> QED BY <1>3, <2>1, HoldingMoves
<1>5. /\ value + Cardinality(SemWoken) + Cardinality(SemHolding) = Initial + extra
      /\ value \in Nat /\ extra \in Nat /\ extra' \in 0 .. MaxExtra /\ Initial \in Nat
  BY <1>1, <1>3, SemaphoreAssumption DEF SemCounted, PermitsConserved, SemPlaces
<1>6. CASE fut[t] # "cancelled"
  <2>1. t \in SemWoken
    BY <1>1, <1>3, <1>6, ResumesMeans DEF SemWoken, Scheduled
  <2>2. PICK v \in Nat : v = value + 1 /\ v > 0
    BY <1>5
  <2>3. WakeUpNext(t, v, ws)
    BY <1>3, <1>6, <2>2 DEF SemCancelled
  <2>4. PICK woken : woken = FirstPending(ws)
    OBVIOUS
  <2>5. /\ semWaiters' = ws /\ Runs(t, woken, FALSE) /\ value' \in Nat
        /\ Len(woken) \in Nat /\ value' + Len(woken) = v
    BY <1>2, <2>2, <2>3, <2>4, WakeUpNextIs
  <2>6. value' + Len(woken) + Cardinality(SemWoken \ {t}) + Cardinality(SemHolding')
          = Initial + extra'
    BY <1>3, <1>4, <1>5, <2>1, <2>2, <2>5
  <2> QED BY <1>2, <1>3, <1>4, <1>5, <2>4, <2>5, <2>6, SemLeaves
<1>7. CASE fut[t] = "cancelled"
  <2>1. t \notin SemWoken
    BY <1>7 DEF SemWoken
  <2>2. semWaiters' = ws /\ Runs(t, NoWake, FALSE) /\ value' = value
    BY <1>3, <1>7 DEF SemCancelled
  <2>3. PICK woken : woken = NoWake /\ Len(woken) = 0
    BY NoneOf
  <2>4. value' + Len(woken) + Cardinality(SemWoken \ {t}) + Cardinality(SemHolding')
          = Initial + extra'
    BY <1>3, <1>4, <1>5, <2>1, <2>2, <2>3
  <2>5. Runs(t, woken, FALSE) /\ value' \in Nat
    BY <1>5, <2>2, <2>3
  <2> QED BY <1>2, <1>3, <1>4, <1>5, <1>7, <2>2, <2>3, <2>4, <2>5, SemLeaves
<1> QED
  BY <1>6, <1>7

LEMMA SemGotKeeps ==
  ASSUME SemIInv, NEW t \in Task, SemAcquireResumes(t), ~Throws(t)
  PROVE  SemIInv'
<1>1. TaskInv /\ SemPlaces /\ SemCounted /\ SemReady
  BY DEF SemIInv
<1>2. PICK ws : /\ ws = Others(semWaiters, t)
                /\ ws \in Seq(Task) /\ Once(ws)
                /\ \A u : On(ws, u) <=> u \in Task /\ semPc[u] = "acquire" /\ u # t
  BY SemRest
<1>3. /\ semPc[t] = "acquire" /\ Resumes(t) /\ semPc' = [semPc EXCEPT ![t] = "has"]
      /\ extra' = extra /\ SemGot(t, ws)
  BY <1>2 DEF SemAcquireResumes, SemGoes
<1>4. /\ IsFiniteSet(SemHolding') /\ Cardinality(SemHolding') \in Nat
      /\ Cardinality(SemWoken) \in Nat /\ Cardinality(SemWoken \ {t}) \in Nat
      /\ Cardinality(SemWoken \ {t}) = IF t \in SemWoken THEN Cardinality(SemWoken) - 1
                                                         ELSE Cardinality(SemWoken)
      /\ Cardinality(SemHolding') = Cardinality(SemHolding) + 1
      /\ Cardinality(SemHolding) \in Nat
  <2>1. PICK label \in {"idle", "acquire", "has"} : label = "has"
    OBVIOUS
  <2> QED BY <1>3, <2>1, HoldingMoves
<1>5. /\ value + Cardinality(SemWoken) + Cardinality(SemHolding) = Initial + extra
      /\ value \in Nat /\ extra \in Nat /\ extra' \in 0 .. MaxExtra /\ Initial \in Nat
  BY <1>1, <1>3, SemaphoreAssumption DEF SemCounted, PermitsConserved, SemPlaces
<1>6. t \in SemWoken
  BY <1>1, <1>3, ResumesMeans DEF SemWoken
<1>7. CASE value > 0
  <2>1. WakeUpNext(t, value, ws)
    BY <1>3, <1>7 DEF SemGot
  <2>2. PICK woken : woken = FirstPending(ws)
    OBVIOUS
  <2>3. PICK v \in Nat : v = value /\ v > 0
    BY <1>5, <1>7
  <2>4. /\ semWaiters' = ws /\ Runs(t, woken, FALSE) /\ value' \in Nat
        /\ Len(woken) \in Nat /\ value' + Len(woken) = v
    BY <1>2, <2>1, <2>2, <2>3, WakeUpNextIs
  <2>5. value' + Len(woken) + Cardinality(SemWoken \ {t}) + Cardinality(SemHolding')
          = Initial + extra'
    BY <1>3, <1>4, <1>5, <1>6, <2>3, <2>4, SMTT(30)
  <2> QED BY <1>2, <1>3, <1>4, <1>5, <2>2, <2>4, <2>5, SemLeaves
<1>8. CASE ~(value > 0)
  <2>0. value = 0
    BY <1>5, <1>8
  <2>1. value = 0 /\ semWaiters' = ws /\ Runs(t, NoWake, FALSE) /\ value' = value
    BY <1>3, <1>8, <2>0 DEF SemGot
  <2>2. PICK woken : woken = NoWake /\ Len(woken) = 0
    BY NoneOf
  <2>3. value' + Len(woken) + Cardinality(SemWoken \ {t}) + Cardinality(SemHolding')
          = Initial + extra'
    BY <1>3, <1>4, <1>5, <1>6, <2>1, <2>2
  <2>4. Runs(t, woken, FALSE) /\ value' \in Nat /\ value' = 0
    BY <2>1, <2>2
  <2> QED BY <1>2, <1>3, <1>4, <1>5, <2>1, <2>2, <2>3, <2>4, SemLeaves
<1> QED
  BY <1>7, <1>8

LEMMA SemReleaseKeeps ==
  ASSUME SemIInv, NEW t \in Task, SemRelease(t)
  PROVE  SemIInv'
<1>1. TaskInv /\ SemPlaces /\ SemCounted /\ SemReady
  BY DEF SemIInv
<1>2. /\ WakeUpNext(t, value + 1, semWaiters)
      /\ \/ semPc[t] = "has" /\ semPc' = [semPc EXCEPT ![t] = "idle"] /\ extra' = extra
         \/ semPc[t] = "idle" /\ extra < MaxExtra /\ extra' = extra + 1 /\ semPc' = semPc
  BY DEF SemRelease, SemGoes
<1>3. /\ value + Cardinality(SemWoken) + Cardinality(SemHolding) = Initial + extra
      /\ value \in Nat /\ extra \in Nat /\ MaxExtra \in Nat /\ Initial \in Nat
      /\ extra \in 0 .. MaxExtra
      /\ semPc \in [Task -> {"idle", "acquire", "has"}]
      /\ semWaiters \in Seq(Task) /\ Once(semWaiters)
      /\ \A u : On(semWaiters, u) <=> u \in Task /\ semPc[u] = "acquire"
      /\ fut[t] = "none" <=> semPc[t] \in {"idle", "has"}
  BY <1>1, SemaphoreAssumption DEF SemCounted, PermitsConserved, SemPlaces
<1>4. /\ fut[t] = "none" /\ semPc' = [semPc EXCEPT ![t] = "idle"] /\ extra' \in 0 .. MaxExtra
      /\ \A u : On(semWaiters, u) <=> u \in Task /\ semPc[u] = "acquire" /\ u # t
      /\ t \notin SemWoken
  BY <1>2, <1>3 DEF SemWoken
<1>5. /\ IsFiniteSet(SemHolding') /\ Cardinality(SemHolding') \in Nat
      /\ Cardinality(SemWoken) \in Nat /\ Cardinality(SemWoken \ {t}) = Cardinality(SemWoken)
      /\ Cardinality(SemHolding') = IF semPc[t] = "has" THEN Cardinality(SemHolding) - 1
                                    ELSE Cardinality(SemHolding)
      /\ Cardinality(SemHolding) \in Nat
  <2>1. PICK label \in {"idle", "acquire", "has"} : label = "idle"
    OBVIOUS
  <2> QED BY <1>4, <2>1, HoldingMoves
<1>6. PICK v \in Nat : v = value + 1 /\ v > 0
  BY <1>3
<1>7. PICK woken, ws : woken = FirstPending(ws) /\ ws = semWaiters
  OBVIOUS
<1>8. /\ semWaiters' = ws /\ Runs(t, woken, FALSE) /\ value' \in Nat
      /\ Len(woken) \in Nat /\ value' + Len(woken) = v
  BY <1>2, <1>3, <1>6, <1>7, WakeUpNextIs
<1>9. value' + Len(woken) + Cardinality(SemWoken \ {t}) + Cardinality(SemHolding')
        = Initial + extra'
  <2>1. PICK n, w, h, k : /\ n = Len(woken) /\ w = Cardinality(SemWoken)
                          /\ h = Cardinality(SemHolding) /\ k = Cardinality(SemHolding')
    OBVIOUS
  <2>2. /\ n \in Nat /\ w \in Nat /\ h \in Nat /\ k \in Nat
        /\ value' + n = value + 1 /\ value + w + h = Initial + extra
        /\ value \in Nat /\ value' \in Nat /\ Initial \in Nat /\ extra \in Nat
        /\ \/ k = h - 1 /\ extra' = extra
           \/ k = h /\ extra' = extra + 1
    BY <1>2, <1>3, <1>5, <1>6, <1>8, <2>1
  <2>3. value' + n + w + k = Initial + extra'
    <3>1. PICK v2, e2 : v2 = value' /\ e2 = extra'
      OBVIOUS
    <3>2. /\ v2 \in Nat /\ v2 + n = value + 1
          /\ \/ k = h - 1 /\ e2 = extra
             \/ k = h /\ e2 = extra + 1
      BY <2>2, <3>1
    <3>3. v2 + n + w + k = Initial + e2
      BY <2>2, <3>2
    <3> QED BY <3>1, <3>3
  <2> QED BY <1>5, <2>1, <2>3
<1>10. /\ ws \in Seq(Task) /\ Once(ws)
       /\ \A u : On(ws, u) <=> u \in Task /\ semPc[u] = "acquire" /\ u # t
  BY <1>3, <1>4, <1>7
<1> QED
  BY <1>4, <1>5, <1>7, <1>8, <1>9, <1>10, SemLeaves

LEMMA SemAcquireKeeps ==
  ASSUME SemIInv, NEW t \in Task, SemAcquire(t)
  PROVE  SemIInv'
<1>1. TaskInv /\ SemPlaces /\ SemCounted /\ SemReady
  BY DEF SemIInv
<1>2. semPc[t] = "idle" /\ extra' = extra
  BY DEF SemAcquire
<1>3. /\ value + Cardinality(SemWoken) + Cardinality(SemHolding) = Initial + extra
      /\ value \in Nat /\ extra \in Nat /\ Initial \in Nat
      /\ semPc \in [Task -> {"idle", "acquire", "has"}]
      /\ semWaiters \in Seq(Task) /\ Once(semWaiters) /\ fut[t] = "none"
      /\ \A u : On(semWaiters, u) <=> u \in Task /\ semPc[u] = "acquire"
      /\ \A u \in Task : fut[u] = "none" <=> semPc[u] \in {"idle", "has"}
  BY <1>1, <1>2, SemaphoreAssumption DEF SemCounted, PermitsConserved, SemPlaces
<1>4. CASE /\ ~SemLocked /\ value' = value - 1 /\ semPc' = [semPc EXCEPT ![t] = "has"]
           /\ UNCHANGED <<taskVars, semWaiters>>
  <2>1. value > 0 /\ value' \in Nat
    BY <1>3, <1>4 DEF SemLocked
  <2>2. /\ fut' = fut /\ must_cancel' = must_cancel /\ ready' = ready
        /\ semWaiters' = semWaiters
    BY <1>4 DEF taskVars
  <2>3. TaskInv'
    BY <1>1, <2>2 DEF TaskInv, TaskTypeOK, ScheduledOnce
  <2>4. /\ semPc' \in [Task -> {"idle", "acquire", "has"}]
        /\ semPc'[t] = "has" /\ \A u \in Task : u # t => semPc'[u] = semPc[u]
    BY <1>3, <1>4
  <2>5. SemPlaces'
    BY <1>1, <1>2, <1>3, <2>1, <2>2, <2>4 DEF SemPlaces
  <2>6. SemWoken' = SemWoken
    BY <1>2, <2>2, <2>4 DEF SemWoken
  <2>7. /\ IsFiniteSet(SemHolding') /\ Cardinality(SemHolding) \in Nat
        /\ Cardinality(SemHolding') = Cardinality(SemHolding) + 1
        /\ Cardinality(SemWoken) \in Nat
    <3>1. PICK label \in {"idle", "acquire", "has"} : label = "has"
      OBVIOUS
    <3> QED BY <1>2, <1>4, <3>1, HoldingMoves
  <2>8. SemCounted'
    <3>1. PermitsConserved'
      BY <1>2, <1>3, <1>4, <2>6, <2>7 DEF PermitsConserved
    <3> QED BY <1>1, <2>6, <2>7, <3>1 DEF SemCounted
  <2>9. SemReady'
    BY <1>1, <1>2, <2>1, <2>2, <2>4, <2>6 DEF SemReady
  <2> QED BY <2>3, <2>5, <2>8, <2>9 DEF SemIInv
<1>5. CASE /\ SemLocked /\ semWaiters' = Append(semWaiters, t)
           /\ semPc' = [semPc EXCEPT ![t] = "acquire"]
           /\ Runs(t, NoWake, TRUE) /\ value' = value
  <2>1. /\ TaskInv' /\ fut'[t] = "pending"
        /\ \A u \in Task : u # t => fut'[u] = fut[u]
    <3>1. /\ TaskInv' /\ fut'[t] = "pending"
          /\ \A u \in Task : u # t => fut'[u] = IF On(NoWake, u) THEN "result" ELSE fut[u]
      BY <1>1, <1>3, <1>5, NoneOf, RunsUntil
    <3> QED BY <3>1, NoneOf
  <2>2. /\ semPc' \in [Task -> {"idle", "acquire", "has"}]
        /\ semPc'[t] = "acquire" /\ \A u \in Task : u # t => semPc'[u] = semPc[u]
    BY <1>3, <1>5
  <2>3. /\ semWaiters' \in Seq(Task) /\ Once(semWaiters')
        /\ \A u : On(semWaiters', u) <=> On(semWaiters, u) \/ u = t
    BY <1>2, <1>3, <1>5, Appended
  <2>4. SemPlaces'
    <3>1. \A u : On(semWaiters', u) <=> u \in Task /\ semPc'[u] = "acquire"
      BY <1>3, <2>2, <2>3
    <3>2. \A u \in Task : fut'[u] = "none" <=> semPc'[u] \in {"idle", "has"}
      BY <1>3, <2>1, <2>2
    <3> QED BY <1>1, <1>2, <1>5, <2>2, <2>3, <3>1, <3>2 DEF SemPlaces
  <2>5. SemWoken' = SemWoken
    BY <1>2, <2>1, <2>2 DEF SemWoken
  <2>6. SemHolding' = SemHolding
    BY <1>2, <2>2 DEF SemHolding
  <2>7. SemCounted'
    BY <1>1, <1>2, <1>5, <2>5, <2>6 DEF SemCounted, PermitsConserved
  <2>8. SemReady'
    <3> SUFFICES ASSUME value' > 0
                 PROVE  SemWoken # {}
      BY <2>5 DEF SemReady
    <3>1. PICK i \in DOMAIN semWaiters : fut[semWaiters[i]] # "cancelled"
      BY <1>5 DEF SemLocked, AllCancelled
    <3>2. PICK u \in Task : semPc[u] = "acquire" /\ fut[u] # "cancelled"
      <4>1. On(semWaiters, semWaiters[i])
        BY <1>3, <3>1, OnIsToSet DEF On
      <4> QED BY <1>3, <3>1, <4>1
    <3>3. fut[u] \in {"pending", "result"}
      BY <1>1, <1>3, <3>2, TaskInvMeans
    <3> QED BY <1>1, <1>5, <3>2, <3>3 DEF SemReady, SemWoken
  <2> QED BY <2>1, <2>4, <2>7, <2>8 DEF SemIInv
<1> QED
  BY <1>4, <1>5 DEF SemAcquire, SemGoes

LEMMA SemCancelKeeps ==
  ASSUME SemIInv, NEW t \in Task, SemCancel(t)
  PROVE  SemIInv'
<1>1. TaskInv /\ SemPlaces /\ SemCounted /\ SemReady
  BY DEF SemIInv
<1>2. /\ CancelTask(t) /\ value' = value /\ semWaiters' = semWaiters
      /\ semPc' = semPc /\ extra' = extra
  BY DEF SemCancel
<1>3. /\ TaskInv' /\ fut[t] # "none"
      /\ fut' = [fut EXCEPT ![t] = IF fut[t] = "pending" THEN "cancelled" ELSE fut[t]]
      /\ fut \in [Task -> {"none", "pending", "result", "cancelled"}]
  BY <1>1, <1>2, CancelKeeps, TaskInvMeans
<1>4. \A u \in Task : /\ fut'[u] = "none" <=> fut[u] = "none"
                      /\ fut'[u] = "result" <=> fut[u] = "result"
                      /\ fut'[u] = "pending" => fut[u] = "pending"
  BY <1>3
<1>5. SemPlaces'
  BY <1>1, <1>2, <1>4 DEF SemPlaces
<1>6. SemWoken' = SemWoken /\ SemHolding' = SemHolding
  BY <1>2, <1>4 DEF SemWoken, SemHolding
<1>7. SemCounted'
  BY <1>1, <1>2, <1>6 DEF SemCounted, PermitsConserved
<1>8. SemReady'
  BY <1>1, <1>2, <1>4, <1>6 DEF SemReady
<1> QED
  BY <1>3, <1>5, <1>7, <1>8 DEF SemIInv

LEMMA SemInitOK ==
  SemInit => SemIInv
<1> SUFFICES ASSUME SemInit
             PROVE  SemIInv
  OBVIOUS
<1>1. /\ TaskInv /\ \A u \in Task : fut[u] = "none"
      /\ value = Initial /\ semWaiters = <<>> /\ extra = 0
      /\ semPc = [t \in Task |-> "idle"]
  BY TaskInitOK DEF SemInit
<1>2. <<>> \in Seq(Task) /\ Once(<<>>) /\ \A u : ~On(<<>>, u)
  BY NoneOf DEF NoWake
<1>3. SemPlaces
  BY <1>1, <1>2, SemaphoreAssumption DEF SemPlaces
<1>4. SemWoken = {} /\ SemHolding = {}
  BY <1>1 DEF SemWoken, SemHolding
<1>5. SemCounted
  BY <1>1, <1>4, FS_EmptySet, SemaphoreAssumption DEF SemCounted, PermitsConserved
<1>6. SemReady
  BY <1>1 DEF SemReady
<1> QED
  BY <1>1, <1>3, <1>5, <1>6 DEF SemIInv

LEMMA SemStutters ==
  ASSUME SemIInv, UNCHANGED semVars
  PROVE  SemIInv'
<1>1. /\ fut' = fut /\ must_cancel' = must_cancel /\ ready' = ready
      /\ value' = value /\ semWaiters' = semWaiters /\ semPc' = semPc /\ extra' = extra
  BY DEF semVars, taskVars
<1>2. TaskInv' /\ SemPlaces'
  BY <1>1 DEF SemIInv, TaskInv, TaskTypeOK, ScheduledOnce, SemPlaces, Once, On
<1>3. SemWoken' = SemWoken /\ SemHolding' = SemHolding
  BY <1>1 DEF SemWoken, SemHolding
<1> QED
  BY <1>1, <1>2, <1>3 DEF SemIInv, SemCounted, PermitsConserved, SemReady

(* The inductive invariant holds in every reachable state of the semaphore. *)
THEOREM SemInvariance ==
  SemSpec => []SemIInv
<1>1. SemInit => SemIInv
  BY SemInitOK
<1>2. SemIInv /\ [SemNext]_semVars => SemIInv'
  <2> SUFFICES ASSUME SemIInv, [SemNext]_semVars
               PROVE  SemIInv'
    OBVIOUS
  <2>1. CASE SemNext
    <3>1. PICK t \in Task :
            SemAcquire(t) \/ SemAcquireResumes(t) \/ SemRelease(t) \/ SemCancel(t)
      BY <2>1 DEF SemNext
    <3>2. CASE SemAcquireResumes(t)
      BY <3>2, SemCancelledKeeps, SemGotKeeps
    <3> QED BY <3>1, <3>2, SemAcquireKeeps, SemReleaseKeeps, SemCancelKeeps
  <2> QED BY <2>1, SemStutters
<1> QED
  BY <1>1, <1>2, PTL DEF SemSpec

(* No permit of an asyncio.Semaphore is lost, made up or left idle: the    *)
(* value, the waiters that were woken and the tasks that acquired add up   *)
(* to the initial value and the extra releases, and while a waiter sleeps  *)
(* and there is some value, a woken one is still to come.                  *)
THEOREM SemaphoreIsRight ==
  SemSpec => []SemInv
<1>1. SemIInv => SemInv
  <2> SUFFICES ASSUME SemIInv
               PROVE  SemInv
    OBVIOUS
  <2>1. SemTypeOK
    BY DEF SemIInv, SemPlaces, SemTypeOK, TaskInv
  <2>2. PermitsConserved /\ PermitsUsed
    BY PermitsUsedMeans DEF SemIInv, SemCounted
  <2> QED BY <2>1, <2>2 DEF SemInv
<1> QED
  BY <1>1, SemInvariance, PTL
-----------------------------------------------------------------------------
(***************************************************************************)
(* asyncio.Queue.                                                          *)
(***************************************************************************)
QueueBase ==
  /\ size \in 0 .. asyncMaxsize /\ unfinished \in Nat /\ asyncPuts \in Nat
  /\ finishedEvent \in BOOLEAN
  /\ queuePc \in [Task -> {"idle", "put", "get", "join"}]
  /\ \A u \in Task : fut[u] = "none" <=> queuePc[u] = "idle"

(* One side of the queue: the tasks in a call, the list of that call, and  *)
(* what there is for them.  Who is woken is off the list; who sleeps is on *)
(* it; and there are enough wake-ups on their way, or nobody sleeps.       *)
Side(list, call, n) ==
  /\ list \in Seq(Task) /\ Once(list)
  /\ \A u : On(list, u) => u \in Task /\ queuePc[u] = call /\ fut[u] # "result"
  /\ \A u \in Task : queuePc[u] = call /\ fut[u] = "pending" => On(list, u)
  /\ IsFiniteSet(WokenFor(call))
  /\ (\E u \in Task : queuePc[u] = call /\ fut[u] = "pending") => Cardinality(WokenFor(call)) >= n

SideNext(list, call, n) ==
  /\ list \in Seq(Task) /\ Once(list)
  /\ \A u : On(list, u) => u \in Task /\ queuePc'[u] = call /\ fut'[u] # "result"
  /\ \A u \in Task : queuePc'[u] = call /\ fut'[u] = "pending" => On(list, u)
  /\ IsFiniteSet(WokenFor(call)')
  /\ (\E u \in Task : queuePc'[u] = call /\ fut'[u] = "pending") =>
       Cardinality(WokenFor(call)') >= n

Joining ==
  /\ joiners \in Seq(Task) /\ Once(joiners)
  /\ \A u : On(joiners, u) <=> u \in Task /\ queuePc[u] = "join"
  /\ finishedEvent <=> unfinished = 0
  /\ (\E u \in Task : queuePc[u] = "join" /\ fut[u] = "pending") => unfinished > 0

QueueIInv ==
  /\ TaskInv /\ QueueBase /\ Joining
  /\ Side(getters, "get", size) /\ Side(putters, "put", asyncMaxsize - size)

LEMMA SidesNext ==
  /\ Side(getters, "get", size)' <=> SideNext(getters', "get", size')
  /\ Side(putters, "put", asyncMaxsize - size)' <=>
       SideNext(putters', "put", asyncMaxsize - size')
BY DEF Side, SideNext, Once, On

(* Who is left on the list after one was taken off and woken. *)
LEMMA AfterWakeupOf ==
  ASSUME NEW ws \in Seq(Task), Once(ws)
  PROVE  /\ AfterWakeup(ws) \in Seq(Task) /\ Once(AfterWakeup(ws))
         /\ \A u : On(AfterWakeup(ws), u) => On(ws, u) /\ ~On(FirstPending(ws), u)
         /\ \A u \in Task : On(ws, u) /\ fut[u] = "pending" /\ ~On(FirstPending(ws), u) =>
              On(AfterWakeup(ws), u)
<1>1. CASE Pending(ws) = <<>>
  <2>1. AfterWakeup(ws) = NoWake
    BY <1>1 DEF AfterWakeup, NoWake
  <2>2. \A u \in Task : On(ws, u) => fut[u] # "pending"
    BY <1>1, PendingOf
  <2> QED BY <2>1, <2>2, NoneOf
<1>2. CASE Pending(ws) # <<>>
  <2>1. PICK p : p = Pending(ws)
    OBVIOUS
  <2>2. /\ p \in Seq(Task) /\ p # <<>>
        /\ \E i \in 1 .. Len(ws) : /\ ws[i] = p[1] /\ fut[ws[i]] = "pending"
                                   /\ \A j \in 1 .. i - 1 : fut[ws[j]] # "pending"
    <3>1. Pending(ws) \in Seq(Task)
      BY PendingOf
    <3>2. \E i \in 1 .. Len(ws) : /\ ws[i] = Pending(ws)[1] /\ fut[ws[i]] = "pending"
                                  /\ \A j \in 1 .. i - 1 : fut[ws[j]] # "pending"
      BY <1>2, PendingOf
    <3> QED BY <1>2, <2>1, <3>1, <3>2
  <2>3. Head(p) = p[1] /\ p[1] \in Task
    BY <2>2, TailOf
  <2>4. PICK i \in 1 .. Len(ws) : /\ ws[i] = p[1]
                                  /\ \A j \in 1 .. i - 1 : fut[ws[j]] # "pending"
    BY <2>2
  <2>5. /\ DOMAIN ws = 1 .. Len(ws) /\ Len(ws) \in Nat
        /\ \A j \in 1 .. Len(ws) : ws[j] \in Task
    BY OnIsToSet
  <2>6. i = CHOOSE j \in DOMAIN ws : ws[j] = Head(p)
    <3>1. i \in DOMAIN ws /\ ws[i] = Head(p)
      BY <2>3, <2>4, <2>5
    <3>2. \A j \in DOMAIN ws : ws[j] = Head(p) => j = i
      BY <2>3, <2>4, <2>5 DEF Once
    <3> QED BY <3>1, <3>2
  <2>7. PICK r : r = SubSeq(ws, i + 1, Len(ws))
    OBVIOUS
  <2>8. AfterWakeup(ws) = r
    BY <1>2, <2>1, <2>6, <2>7 DEF AfterWakeup
  <2>9. /\ r \in Seq(Task) /\ Len(r) = Len(ws) - i
        /\ \A j \in 1 .. Len(ws) - i : r[j] = ws[i + j]
    <3>1. PICK m, n : m = i + 1 /\ n = Len(ws)
      OBVIOUS
    <3>2. /\ m \in Nat \ {0} /\ n \in Nat /\ n \in 0 .. Len(ws) /\ m \in 1 .. n + 1
      BY <2>5, <3>1
    <3>3. \A j \in m .. n : ws[j] \in Task
      BY <2>5, <3>1
    <3>4. /\ SubSeq(ws, m, n) \in Seq(Task)
          /\ Len(SubSeq(ws, m, n)) = IF m <= n THEN n - m + 1 ELSE 0
          /\ \A j \in 1 .. n - m + 1 : SubSeq(ws, m, n)[j] = ws[m + j - 1]
      BY <3>2, <3>3, SubSeqProperties
    <3>5. \A j \in 1 .. n - m + 1 : m + j - 1 = i + j
      BY <2>5, <3>1
    <3>6. n - m + 1 = Len(ws) - i /\ (m <= n <=> i < Len(ws))
      BY <2>5, <3>1
    <3>7. r = SubSeq(ws, m, n)
      BY <2>7, <3>1
    <3>8. Len(r) = Len(ws) - i
      <4>1. Len(r) = IF m <= n THEN n - m + 1 ELSE 0
        BY <3>4, <3>7
      <4>2. i <= Len(ws) /\ Len(ws) - i \in Nat
        BY <2>5
      <4> QED BY <2>5, <3>6, <4>1, <4>2
    <3>9. \A j \in 1 .. Len(ws) - i : r[j] = ws[i + j]
      <4>1. \A j \in 1 .. n - m + 1 : r[j] = ws[m + j - 1]
        BY <3>4, <3>7
      <4> QED BY <3>5, <3>6, <4>1
    <3> QED BY <3>4, <3>7, <3>8, <3>9
  <2>10. FirstPending(ws) = <<p[1]>> /\ \A u : On(FirstPending(ws), u) <=> u = p[1]
    BY <1>2, <2>1, <2>3, OneOf DEF FirstPending
  <2>11. Once(r)
    BY <2>5, <2>9 DEF Once
  <2>12. ASSUME NEW u, On(r, u)
         PROVE  On(ws, u) /\ u # p[1]
    BY <2>4, <2>5, <2>9, <2>12 DEF On, Once
  <2>13. ASSUME NEW u \in Task, On(ws, u), fut[u] = "pending", u # p[1]
         PROVE  On(r, u)
    <3>1. PICK k \in 1 .. Len(ws) : ws[k] = u
      BY <2>13 DEF On
    <3>2. k > i
      BY <2>4, <2>5, <2>13, <3>1
    <3>3. PICK j \in 1 .. Len(ws) - i : k = i + j
      <4>1. k - i \in 1 .. Len(ws) - i /\ k = i + (k - i)
        BY <2>5, <3>2
      <4> QED BY <4>1
    <3> QED BY <2>9, <3>1, <3>3 DEF On
  <2> QED BY <2>8, <2>9, <2>10, <2>11, <2>12, <2>13
<1> QED
  BY <1>1, <1>2

(* The tasks but t stay where they are. *)
MovedOnly(t, woken) ==
  /\ \A u \in Task : u # t => queuePc'[u] = queuePc[u]
  /\ \A u \in Task : u # t => fut'[u] = IF On(woken, u) THEN "result" ELSE fut[u]

(* The first on a list is woken: there may be one item, or one room, more, *)
(* or t may be one that was woken and does not need it.                    *)
LEMMA SideWakes ==
  ASSUME NEW t \in Task, NEW list, NEW call, NEW n \in Nat, Side(list, call, n),
         NEW rest \in Seq(Task), Once(rest), \A u : On(rest, u) <=> On(list, u) /\ u # t,
         NEW woken, woken = FirstPending(rest), MovedOnly(t, woken), queuePc'[t] # call,
         NEW list2, list2 = AfterWakeup(rest),
         NEW n2 \in Nat, n2 <= n \/ (t \notin WokenFor(call) /\ n2 <= n + 1)
  PROVE  SideNext(list2, call, n2)
<1>1. /\ list2 \in Seq(Task) /\ Once(list2)
      /\ \A u : On(list2, u) => On(rest, u) /\ ~On(woken, u)
      /\ \A u \in Task : On(rest, u) /\ fut[u] = "pending" /\ ~On(woken, u) => On(list2, u)
  BY AfterWakeupOf
<1>2. \/ /\ \A u : ~On(woken, u)
         /\ \A u \in Task : On(rest, u) => fut[u] # "pending"
      \/ \E x \in Task : /\ On(rest, x) /\ fut[x] = "pending"
                         /\ \A u : On(woken, u) <=> u = x
  BY FirstPendingIs
<1>3. \A u : On(rest, u) => u \in Task /\ queuePc[u] = call /\ fut[u] # "result" /\ u # t
  BY DEF Side
<1>4. \A u \in Task : queuePc[u] = call /\ fut[u] = "pending" /\ u # t => On(rest, u)
  BY DEF Side
<1>5. \A u : On(woken, u) => On(rest, u) /\ fut[u] = "pending"
  BY <1>2
<1>6. \A u : On(list2, u) => u \in Task /\ queuePc'[u] = call /\ fut'[u] # "result"
  BY <1>1, <1>3 DEF MovedOnly
<1>7. \A u \in Task : queuePc'[u] = call /\ fut'[u] = "pending" => On(list2, u)
  <2> SUFFICES ASSUME NEW u \in Task, queuePc'[u] = call, fut'[u] = "pending"
               PROVE  On(list2, u)
    OBVIOUS
  <2>1. u # t /\ queuePc[u] = call /\ ~On(woken, u) /\ fut[u] = "pending"
    BY DEF MovedOnly
  <2> QED BY <1>1, <1>4, <2>1
<1>8. PICK w, w2 : w = WokenFor(call) /\ w2 = WokenFor(call)'
  OBVIOUS
<1>9. \A u : u \in w2 <=> u \in Task /\ (On(woken, u) \/ (u \in w /\ u # t))
  <2>1. ASSUME NEW u \in Task, u # t
        PROVE  u \in w2 <=> On(woken, u) \/ u \in w
    BY <1>3, <1>5, <1>8, <2>1 DEF MovedOnly, WokenFor
  <2>2. t \notin w2 /\ ~On(woken, t)
    BY <1>3, <1>5, <1>8 DEF WokenFor
  <2>3. w2 \subseteq Task
    BY <1>8 DEF WokenFor
  <2> QED BY <2>1, <2>2, <2>3
<1>10. /\ IsFiniteSet(w) /\ Cardinality(w) \in Nat
       /\ IsFiniteSet(w \ {t}) /\ Cardinality(w \ {t}) \in Nat
       /\ Cardinality(w \ {t}) = IF t \in w THEN Cardinality(w) - 1 ELSE Cardinality(w)
  <2>1. IsFiniteSet(w)
    BY <1>8 DEF Side
  <2> QED BY <2>1, OneLess
<1>11. w \subseteq Task
  BY <1>8 DEF WokenFor
<1>12. CASE /\ \A u : ~On(woken, u)
            /\ \A u \in Task : On(rest, u) => fut[u] # "pending"
  <2>1. w2 = w \ {t}
    BY <1>9, <1>11, <1>12
  <2>2. ~\E u \in Task : queuePc'[u] = call /\ fut'[u] = "pending"
    BY <1>4, <1>12 DEF MovedOnly
  <2> QED BY <1>1, <1>6, <1>7, <1>8, <1>10, <2>1, <2>2 DEF SideNext
<1>13. ASSUME NEW x \in Task, On(rest, x), fut[x] = "pending", \A u : On(woken, u) <=> u = x
       PROVE  SideNext(list2, call, n2)
  <2>1. PICK v : v = w \ {t}
    OBVIOUS
  <2>2. w2 = v \cup {x} /\ x \notin v
    BY <1>8, <1>9, <1>11, <1>13, <2>1 DEF WokenFor
  <2>3. IsFiniteSet(w2) /\ Cardinality(w2) = Cardinality(v) + 1
    BY <1>10, <2>1, <2>2, OneMore
  <2>4. Cardinality(w) >= n
    BY <1>3, <1>8, <1>13 DEF Side
  <2>5. Cardinality(w2) >= n2
    <3>1. PICK c, d, e : c = Cardinality(w) /\ d = Cardinality(v) /\ e = Cardinality(w2)
      OBVIOUS
    <3>2. /\ c \in Nat /\ d \in Nat /\ e = d + 1 /\ c >= n
          /\ d = IF t \in w THEN c - 1 ELSE c
          /\ n2 <= n \/ (t \notin w /\ n2 <= n + 1)
      BY <1>8, <1>10, <2>1, <2>3, <2>4, <3>1
    <3>3. e >= n2
      BY <3>2
    <3> QED BY <3>1, <3>3
  <2> QED BY <1>1, <1>6, <1>7, <1>8, <2>3, <2>5 DEF SideNext
<1> QED
  BY <1>2, <1>12, <1>13

(* Nobody on this side is woken. *)
LEMMA SideQuiet ==
  ASSUME NEW t \in Task, NEW list, NEW call, NEW n \in Nat, Side(list, call, n),
         NEW list2 \in Seq(Task), Once(list2), \A u : On(list2, u) <=> On(list, u) /\ u # t,
         NEW woken, MovedOnly(t, woken), queuePc'[t] # call,
         \A u \in Task : On(woken, u) => queuePc[u] # call,
         NEW n2 \in Nat,
         \/ n2 = 0
         \/ t \notin WokenFor(call) /\ n2 <= n
         \/ n2 + 1 <= n
  PROVE  SideNext(list2, call, n2)
<1>1. \A u \in Task : u # t /\ queuePc[u] = call => queuePc'[u] = call /\ fut'[u] = fut[u]
  BY DEF MovedOnly
<1>2. \A u \in Task : queuePc'[u] = call => u # t /\ queuePc[u] = call /\ fut'[u] = fut[u]
  BY DEF MovedOnly
<1>3. \A u : On(list2, u) => u \in Task /\ queuePc'[u] = call /\ fut'[u] # "result"
  BY <1>1 DEF Side
<1>4. \A u \in Task : queuePc'[u] = call /\ fut'[u] = "pending" => On(list2, u)
  BY <1>2 DEF Side
<1>5. PICK w, w2 : w = WokenFor(call) /\ w2 = WokenFor(call)'
  OBVIOUS
<1>6. w2 = w \ {t}
  BY <1>1, <1>2, <1>5 DEF WokenFor
<1>7. /\ Cardinality(w) \in Nat /\ IsFiniteSet(w2) /\ Cardinality(w2) \in Nat
      /\ Cardinality(w2) = IF t \in w THEN Cardinality(w) - 1 ELSE Cardinality(w)
  <2>1. IsFiniteSet(w)
    BY <1>5 DEF Side
  <2> QED BY <1>6, <2>1, OneLess
<1>8. ASSUME NEW u \in Task, queuePc'[u] = call, fut'[u] = "pending"
      PROVE  Cardinality(w2) >= n2
  <2>1. Cardinality(w) >= n
    BY <1>2, <1>5, <1>8 DEF Side
  <2>2. PICK c, e : c = Cardinality(w) /\ e = Cardinality(w2)
    OBVIOUS
  <2>3. /\ c \in Nat /\ e \in Nat /\ c >= n /\ e = (IF t \in w THEN c - 1 ELSE c)
        /\ n2 = 0 \/ (t \notin w /\ n2 <= n) \/ n2 + 1 <= n
    BY <1>5, <1>7, <2>1, <2>2
  <2>4. e >= n2
    BY <2>3
  <2> QED BY <2>2, <2>4
<1> QED
  BY <1>3, <1>4, <1>5, <1>7, <1>8 DEF SideNext

(* t goes to sleep in the call: there is nothing for it. *)
LEMMA SideWaits ==
  ASSUME NEW t \in Task, NEW list, NEW call, NEW n \in Nat, Side(list, call, n),
         ~On(list, t), MovedOnly(t, NoWake), queuePc'[t] = call, fut'[t] = "pending",
         NEW list2, list2 = Append(list, t)
  PROVE  SideNext(list2, call, 0)
<1>1. /\ list2 \in Seq(Task) /\ Once(list2)
      /\ \A u : On(list2, u) <=> On(list, u) \/ u = t
  BY Appended DEF Side
<1>2. \A u \in Task : u # t => queuePc'[u] = queuePc[u] /\ fut'[u] = fut[u]
  BY NoneOf DEF MovedOnly
<1>3. \A u : On(list2, u) => u \in Task /\ queuePc'[u] = call /\ fut'[u] # "result"
  BY <1>1, <1>2 DEF Side
<1>4. \A u \in Task : queuePc'[u] = call /\ fut'[u] = "pending" => On(list2, u)
  BY <1>1, <1>2 DEF Side
<1>5. PICK w, w2 : w = WokenFor(call) /\ w2 = WokenFor(call)'
  OBVIOUS
<1>6. w2 = w \ {t}
  BY <1>2, <1>5 DEF WokenFor
<1>7. IsFiniteSet(w2) /\ Cardinality(w2) \in Nat
  <2>1. IsFiniteSet(w)
    BY <1>5 DEF Side
  <2> QED BY <1>6, <2>1, OneLess
<1> QED
  BY <1>1, <1>3, <1>4, <1>5, <1>7 DEF SideNext

LEMMA QueueRuns ==
  ASSUME QueueIInv, NEW t \in Task, queuePc[t] = "idle" \/ Resumes(t),
         NEW woken \in Seq(Task), Once(woken), \A u : On(woken, u) => fut[u] = "pending",
         Runs(t, woken, FALSE), queuePc' = [queuePc EXCEPT ![t] = "idle"]
  PROVE  /\ TaskInv' /\ MovedOnly(t, woken) /\ queuePc'[t] = "idle"
         /\ queuePc' \in [Task -> {"idle", "put", "get", "join"}]
         /\ \A u \in Task : fut'[u] = "none" <=> queuePc'[u] = "idle"
<1>1. TaskInv /\ QueueBase
  BY DEF QueueIInv
<1>2. /\ TaskInv' /\ ~On(woken, t) /\ fut'[t] = "none"
      /\ \A u \in Task : u # t => fut'[u] = IF On(woken, u) THEN "result" ELSE fut[u]
  <2>1. TaskInv
    BY <1>1
  <2>2. fut[t] = "none" \/ Resumes(t)
    BY <1>1 DEF QueueBase
  <2>3. /\ woken \in Seq(Task) /\ Once(woken)
        /\ \A u : On(woken, u) => fut[u] = "pending"
    OBVIOUS
  <2>4. Runs(t, woken, FALSE)
    OBVIOUS
  <2> QED BY <2>1, <2>2, <2>3, <2>4, RunsOn
<1>3. /\ queuePc' \in [Task -> {"idle", "put", "get", "join"}]
      /\ queuePc'[t] = "idle" /\ \A u \in Task : u # t => queuePc'[u] = queuePc[u]
  BY <1>1 DEF QueueBase
<1>4. \A u \in Task : fut'[u] = "none" <=> queuePc'[u] = "idle"
  BY <1>1, <1>2, <1>3 DEF QueueBase
<1> QED
  BY <1>2, <1>3, <1>4 DEF MovedOnly

LEMMA QueueSleeps ==
  ASSUME QueueIInv, NEW t \in Task, queuePc[t] = "idle" \/ Resumes(t),
         Runs(t, NoWake, TRUE),
         NEW label \in {"put", "get", "join"}, queuePc' = [queuePc EXCEPT ![t] = label]
  PROVE  /\ TaskInv' /\ MovedOnly(t, NoWake) /\ queuePc'[t] = label /\ fut'[t] = "pending"
         /\ queuePc' \in [Task -> {"idle", "put", "get", "join"}]
         /\ \A u \in Task : fut'[u] = "none" <=> queuePc'[u] = "idle"
<1>1. TaskInv /\ QueueBase
  BY DEF QueueIInv
<1>2. /\ TaskInv' /\ fut'[t] = "pending"
      /\ \A u \in Task : u # t => fut'[u] = IF On(NoWake, u) THEN "result" ELSE fut[u]
  <2>1. TaskInv
    BY <1>1
  <2>2. fut[t] = "none" \/ Resumes(t)
    BY <1>1 DEF QueueBase
  <2>3. /\ NoWake \in Seq(Task) /\ Once(NoWake)
        /\ \A u : On(NoWake, u) => fut[u] = "pending"
    BY NoneOf
  <2>4. Runs(t, NoWake, TRUE)
    OBVIOUS
  <2> QED BY <2>1, <2>2, <2>3, <2>4, RunsUntil
<1>3. /\ queuePc' \in [Task -> {"idle", "put", "get", "join"}]
      /\ queuePc'[t] = label /\ \A u \in Task : u # t => queuePc'[u] = queuePc[u]
  BY <1>1 DEF QueueBase
<1>4. \A u \in Task : fut'[u] = "none" <=> queuePc'[u] = "idle"
  BY <1>1, <1>2, <1>3, NoneOf DEF QueueBase
<1> QED
  BY <1>2, <1>3, <1>4 DEF MovedOnly

(* join is not concerned. *)
LEMMA JoiningStays ==
  ASSUME QueueIInv, NEW t \in Task, queuePc[t] # "join", queuePc'[t] # "join",
         NEW woken, MovedOnly(t, woken), joiners' = joiners,
         finishedEvent' <=> unfinished' = 0, unfinished' > 0 \/ unfinished' = unfinished
  PROVE  Joining'
<1>1. Joining
  BY DEF QueueIInv
<1>2. \A u \in Task : queuePc'[u] = "join" => queuePc[u] = "join"
                                              /\ (fut'[u] = "pending" => fut[u] = "pending")
  BY DEF MovedOnly
<1>3. \A u \in Task : queuePc[u] = "join" => queuePc'[u] = "join"
  BY DEF MovedOnly
<1>4. /\ joiners' \in Seq(Task) /\ Once(joiners')
      /\ \A u : On(joiners', u) <=> u \in Task /\ queuePc'[u] = "join"
  BY <1>1, <1>2, <1>3 DEF Joining
<1>5. (\E u \in Task : queuePc'[u] = "join" /\ fut'[u] = "pending") => unfinished' > 0
  BY <1>1, <1>2 DEF Joining
<1> QED
  BY <1>4, <1>5 DEF Joining

(* What is woken is on the list, so in the call. *)
LEMMA WokenAreListed ==
  ASSUME NEW list \in Seq(Task), NEW woken, woken = FirstPending(list) \/ woken = NoWake
  PROVE  /\ woken \in Seq(Task) /\ Once(woken)
         /\ \A u : On(woken, u) => On(list, u) /\ fut[u] = "pending"
<1>1. CASE woken = FirstPending(list)
  <2>1. /\ FirstPending(list) \in Seq(Task) /\ Once(FirstPending(list))
        /\ \A u : On(FirstPending(list), u) => On(list, u) /\ fut[u] = "pending"
    BY FirstPendingOf
  <2> QED BY <1>1, <2>1
<1>2. CASE woken = NoWake
  BY <1>2, NoneOf
<1> QED
  BY <1>1, <1>2

(* Who begins a call or was woken for it is on neither list. *)
LEMMA NotListed ==
  ASSUME QueueIInv, NEW t \in Task, NEW call,
         queuePc[t] = "idle" \/ (call = "put" /\ WokenUp(t, "put"))
                             \/ (call = "get" /\ WokenUp(t, "get"))
  PROVE  /\ ~On(getters, t) /\ ~On(putters, t) /\ queuePc[t] # "join"
         /\ queuePc[t] = "idle" \/ Resumes(t)
         /\ call = "put" => t \notin WokenFor("get")
         /\ call = "get" => t \notin WokenFor("put")
<1>1. TaskInv /\ Side(getters, "get", size) /\ Side(putters, "put", asyncMaxsize - size)
  BY DEF QueueIInv
<1>2. CASE queuePc[t] = "idle"
  BY <1>1, <1>2 DEF Side, WokenFor
<1>3. CASE call = "put" /\ WokenUp(t, "put")
  <2>1. queuePc[t] = "put" /\ Resumes(t) /\ ~Throws(t)
    BY <1>3 DEF WokenUp
  <2>2. fut[t] = "result"
    BY <1>1, <2>1, ResumesMeans
  <2> QED BY <1>1, <1>3, <2>1, <2>2 DEF Side, WokenFor
<1>4. CASE call = "get" /\ WokenUp(t, "get")
  <2>1. queuePc[t] = "get" /\ Resumes(t) /\ ~Throws(t)
    BY <1>4 DEF WokenUp
  <2>2. fut[t] = "result"
    BY <1>1, <2>1, ResumesMeans
  <2> QED BY <1>1, <1>4, <2>1, <2>2 DEF Side, WokenFor
<1> QED
  BY <1>2, <1>3, <1>4

LEMMA Sizes ==
  ASSUME QueueIInv
  PROVE  /\ size \in Nat /\ asyncMaxsize \in Nat /\ size <= asyncMaxsize
         /\ asyncMaxsize - size \in Nat /\ unfinished \in Nat /\ asyncPuts \in Nat
         /\ ~Full => size + 1 \in 0 .. asyncMaxsize /\ asyncMaxsize - (size + 1) \in Nat
         /\ Full => asyncMaxsize - size = 0
         /\ ~Empty => size - 1 \in 0 .. asyncMaxsize /\ asyncMaxsize - (size - 1) \in Nat
         /\ Empty => size = 0
BY AsyncQueueAssumption DEF QueueIInv, QueueBase, Full, Empty

LEMMA AsyncPutKeeps ==
  ASSUME QueueIInv, NEW t \in Task, AsyncPut(t)
  PROVE  QueueIInv'
<1>1. /\ ~Full /\ (queuePc[t] = "idle" \/ WokenUp(t, "put"))
      /\ size' = size + 1 /\ asyncPuts' = asyncPuts + 1
      /\ unfinished' = unfinished + 1 /\ finishedEvent' = FALSE
      /\ getters' = AfterWakeup(getters) /\ putters' = putters
      /\ queuePc' = [queuePc EXCEPT ![t] = "idle"]
      /\ Runs(t, FirstPending(getters), FALSE) /\ joiners' = joiners
  BY DEF AsyncPut, PutNowait, QueueGoes, Begins
<1>2. Side(getters, "get", size) /\ Side(putters, "put", asyncMaxsize - size)
  BY DEF QueueIInv
<1>3. PICK woken, rest : woken = FirstPending(rest) /\ rest = getters
  OBVIOUS
<1>4. /\ woken \in Seq(Task) /\ Once(woken)
      /\ \A u : On(woken, u) => On(getters, u) /\ fut[u] = "pending"
  BY <1>2, <1>3, WokenAreListed DEF Side
<1>5. /\ ~On(getters, t) /\ ~On(putters, t) /\ queuePc[t] # "join"
      /\ queuePc[t] = "idle" \/ Resumes(t)
      /\ t \notin WokenFor("get")
  <2>1. PICK call : call = "put"
    OBVIOUS
  <2> QED BY <1>1, <2>1, NotListed
<1>6. /\ TaskInv' /\ MovedOnly(t, woken) /\ queuePc'[t] = "idle"
      /\ queuePc' \in [Task -> {"idle", "put", "get", "join"}]
      /\ \A u \in Task : fut'[u] = "none" <=> queuePc'[u] = "idle"
  <2>1. Runs(t, woken, FALSE)
    BY <1>1, <1>3
  <2>2. \A u : On(woken, u) => fut[u] = "pending"
    BY <1>4
  <2> QED BY <1>1, <1>4, <1>5, <2>1, <2>2, QueueRuns
<1>7. /\ size' \in 0 .. asyncMaxsize /\ size' \in Nat /\ size \in Nat
      /\ unfinished \in Nat /\ asyncPuts \in Nat
      /\ asyncMaxsize - size \in Nat /\ asyncMaxsize - size' \in Nat
      /\ asyncMaxsize - size' + 1 <= asyncMaxsize - size
  <2>1. /\ size \in Nat /\ asyncMaxsize \in Nat /\ unfinished \in Nat /\ asyncPuts \in Nat
        /\ asyncMaxsize - size \in Nat
        /\ size + 1 \in 0 .. asyncMaxsize /\ asyncMaxsize - (size + 1) \in Nat
    BY <1>1, Sizes
  <2>2. PICK s : s = size'
    OBVIOUS
  <2>3. s = size + 1
    BY <1>1, <2>2
  <2>4. /\ s \in 0 .. asyncMaxsize /\ s \in Nat /\ asyncMaxsize - s \in Nat
        /\ asyncMaxsize - s + 1 <= asyncMaxsize - size
    BY <2>1, <2>3
  <2> QED BY <2>1, <2>2, <2>4
<1>8. QueueBase'
  <2>1. unfinished' \in Nat
    BY <1>1, <1>7
  <2>2. asyncPuts' \in Nat
    BY <1>1, <1>7
  <2> QED BY <1>1, <1>6, <1>7, <2>1, <2>2 DEF QueueBase
<1>9. SideNext(getters', "get", size')
  <2>a. PICK n \in Nat : n = size
    BY <1>7
  <2>b. PICK n2 \in Nat : n2 = size'
    BY <1>7
  <2>c. PICK list2, call : list2 = AfterWakeup(rest) /\ call = "get"
    OBVIOUS
  <2>1. list2 = AfterWakeup(rest) /\ call = "get" /\ n = size /\ n2 = size'
    BY <2>a, <2>b, <2>c
  <2>2. n2 <= n + 1
    BY <1>1, <1>7, <2>1
  <2>3. rest \in Seq(Task) /\ Once(rest) /\ \A u : On(rest, u) <=> On(getters, u) /\ u # t
    BY <1>2, <1>3, <1>5 DEF Side
  <2>4. Side(getters, call, n) /\ t \notin WokenFor(call) /\ queuePc'[t] # call
    BY <1>2, <1>5, <1>6, <2>1
  <2>5. SideNext(list2, call, n2)
    BY <1>3, <1>6, <2>1, <2>2, <2>3, <2>4, SideWakes
  <2> QED BY <1>1, <1>3, <2>1, <2>5
<1>10. SideNext(putters', "put", asyncMaxsize - size')
  <2>a. PICK n \in Nat : n = asyncMaxsize - size
    BY <1>7
  <2>b. PICK n2 \in Nat : n2 = asyncMaxsize - size'
    BY <1>7
  <2>c. PICK list2, call : list2 = putters' /\ call = "put"
    OBVIOUS
  <2>1. /\ list2 = putters' /\ call = "put"
        /\ n = asyncMaxsize - size /\ n2 = asyncMaxsize - size'
    BY <2>a, <2>b, <2>c
  <2>2. n2 + 1 <= n
    BY <1>7, <2>1
  <2>3. list2 \in Seq(Task) /\ Once(list2) /\ \A u : On(list2, u) <=> On(putters, u) /\ u # t
    BY <1>1, <1>2, <1>5, <2>1 DEF Side
  <2>4. Side(putters, call, n) /\ queuePc'[t] # call
    BY <1>2, <1>6, <2>1
  <2>5. \A u \in Task : On(woken, u) => queuePc[u] # call
    BY <1>2, <1>4, <2>1 DEF Side
  <2>6. SideNext(list2, call, n2)
    BY <1>6, <2>2, <2>3, <2>4, <2>5, SideQuiet
  <2> QED BY <2>1, <2>6
<1>11. Joining'
  <2>1. unfinished' > 0 /\ (finishedEvent' <=> unfinished' = 0)
    BY <1>1, <1>7
  <2> QED BY <1>1, <1>5, <1>6, <2>1, JoiningStays
<1> QED
  BY <1>6, <1>8, <1>9, <1>10, <1>11, SidesNext DEF QueueIInv

LEMMA AsyncGetKeeps ==
  ASSUME QueueIInv, NEW t \in Task, AsyncGet(t)
  PROVE  QueueIInv'
<1>1. /\ ~Empty /\ (queuePc[t] = "idle" \/ WokenUp(t, "get"))
      /\ size' = size - 1 /\ asyncPuts' = asyncPuts
      /\ unfinished' = unfinished /\ finishedEvent' = finishedEvent
      /\ putters' = AfterWakeup(putters) /\ getters' = getters
      /\ queuePc' = [queuePc EXCEPT ![t] = "idle"]
      /\ Runs(t, FirstPending(putters), FALSE) /\ joiners' = joiners
  BY DEF AsyncGet, GetNowait, QueueGoes, Begins
<1>2. Side(getters, "get", size) /\ Side(putters, "put", asyncMaxsize - size)
  BY DEF QueueIInv
<1>3. PICK woken, rest : woken = FirstPending(rest) /\ rest = putters
  OBVIOUS
<1>4. /\ woken \in Seq(Task) /\ Once(woken)
      /\ \A u : On(woken, u) => On(putters, u) /\ fut[u] = "pending"
  BY <1>2, <1>3, WokenAreListed DEF Side
<1>5. /\ ~On(getters, t) /\ ~On(putters, t) /\ queuePc[t] # "join"
      /\ queuePc[t] = "idle" \/ Resumes(t)
      /\ t \notin WokenFor("put")
  <2>1. PICK call : call = "get"
    OBVIOUS
  <2> QED BY <1>1, <2>1, NotListed
<1>6. /\ TaskInv' /\ MovedOnly(t, woken) /\ queuePc'[t] = "idle"
      /\ queuePc' \in [Task -> {"idle", "put", "get", "join"}]
      /\ \A u \in Task : fut'[u] = "none" <=> queuePc'[u] = "idle"
  <2>1. Runs(t, woken, FALSE)
    BY <1>1, <1>3
  <2>2. \A u : On(woken, u) => fut[u] = "pending"
    BY <1>4
  <2> QED BY <1>1, <1>4, <1>5, <2>1, <2>2, QueueRuns
<1>7. /\ size' \in 0 .. asyncMaxsize /\ size' \in Nat /\ size \in Nat /\ size' + 1 <= size
      /\ asyncMaxsize - size \in Nat /\ asyncMaxsize - size' \in Nat
      /\ asyncMaxsize - size' <= asyncMaxsize - size + 1
  <2>1. /\ size \in Nat /\ asyncMaxsize \in Nat /\ asyncMaxsize - size \in Nat
        /\ size - 1 \in 0 .. asyncMaxsize /\ asyncMaxsize - (size - 1) \in Nat
    BY <1>1, Sizes
  <2>2. PICK s : s = size'
    OBVIOUS
  <2>3. s = size - 1
    BY <1>1, <2>2
  <2>4. /\ s \in 0 .. asyncMaxsize /\ s \in Nat /\ s + 1 <= size /\ asyncMaxsize - s \in Nat
        /\ asyncMaxsize - s <= asyncMaxsize - size + 1
    BY <2>1, <2>3
  <2> QED BY <2>1, <2>2, <2>4
<1>8. QueueBase'
  BY <1>1, <1>6, <1>7 DEF QueueBase, QueueIInv
<1>9. SideNext(putters', "put", asyncMaxsize - size')
  <2>a. PICK n \in Nat : n = asyncMaxsize - size
    BY <1>7
  <2>b. PICK n2 \in Nat : n2 = asyncMaxsize - size'
    BY <1>7
  <2>c. PICK list2, call : list2 = AfterWakeup(rest) /\ call = "put"
    OBVIOUS
  <2>1. /\ list2 = AfterWakeup(rest) /\ call = "put"
        /\ n = asyncMaxsize - size /\ n2 = asyncMaxsize - size'
    BY <2>a, <2>b, <2>c
  <2>2. n2 <= n + 1
    BY <1>7, <2>1
  <2>3. rest \in Seq(Task) /\ Once(rest) /\ \A u : On(rest, u) <=> On(putters, u) /\ u # t
    BY <1>2, <1>3, <1>5 DEF Side
  <2>4. Side(putters, call, n) /\ t \notin WokenFor(call) /\ queuePc'[t] # call
    BY <1>2, <1>5, <1>6, <2>1
  <2>5. SideNext(list2, call, n2)
    BY <1>3, <1>6, <2>1, <2>2, <2>3, <2>4, SideWakes
  <2> QED BY <1>1, <1>3, <2>1, <2>5
<1>10. SideNext(getters', "get", size')
  <2>a. PICK n \in Nat : n = size
    BY <1>7
  <2>b. PICK n2 \in Nat : n2 = size'
    BY <1>7
  <2>c. PICK list2, call : list2 = getters' /\ call = "get"
    OBVIOUS
  <2>1. list2 = getters' /\ call = "get" /\ n = size /\ n2 = size'
    BY <2>a, <2>b, <2>c
  <2>2. n2 + 1 <= n
    BY <1>7, <2>1
  <2>3. list2 \in Seq(Task) /\ Once(list2) /\ \A u : On(list2, u) <=> On(getters, u) /\ u # t
    BY <1>1, <1>2, <1>5, <2>1 DEF Side
  <2>4. Side(getters, call, n) /\ queuePc'[t] # call
    BY <1>2, <1>6, <2>1
  <2>5. \A u \in Task : On(woken, u) => queuePc[u] # call
    BY <1>2, <1>4, <2>1 DEF Side
  <2>6. SideNext(list2, call, n2)
    BY <1>6, <2>2, <2>3, <2>4, <2>5, SideQuiet
  <2> QED BY <2>1, <2>6
<1>11. Joining'
  <2>1. unfinished' = unfinished /\ (finishedEvent' <=> unfinished' = 0)
    BY <1>1 DEF QueueIInv, Joining
  <2> QED BY <1>1, <1>5, <1>6, <2>1, JoiningStays
<1> QED
  BY <1>6, <1>8, <1>9, <1>10, <1>11, SidesNext DEF QueueIInv

(* A side whose waiters and supply do not change, in a step of a task that *)
(* is not in its call and wakes nobody of it.                              *)
LEMMA SideStays ==
  ASSUME NEW t \in Task, NEW list, NEW call, NEW n \in Nat, Side(list, call, n),
         queuePc[t] # call, queuePc'[t] # call, NEW woken, MovedOnly(t, woken),
         \A u \in Task : On(woken, u) => queuePc[u] # call
  PROVE  SideNext(list, call, n)
<1>1. list \in Seq(Task) /\ Once(list) /\ \A u : On(list, u) <=> On(list, u) /\ u # t
  BY DEF Side
<1>2. t \notin WokenFor(call)
  BY DEF WokenFor
<1>3. PICK list2 : list2 = list
  OBVIOUS
<1>4. PICK n2 \in Nat : n2 = n
  OBVIOUS
<1>5. SideNext(list2, call, n2)
  BY <1>1, <1>2, <1>3, <1>4, SideQuiet
<1> QED
  BY <1>3, <1>4, <1>5

(* The sides whose numbers are the same, as SideStays says them. *)
LEMMA GettersStay ==
  ASSUME QueueIInv, NEW t \in Task, queuePc[t] # "get", queuePc'[t] # "get",
         NEW woken, MovedOnly(t, woken), \A u \in Task : On(woken, u) => queuePc[u] # "get",
         getters' = getters, size' = size
  PROVE  SideNext(getters', "get", size')
<1>1. size \in Nat /\ Side(getters, "get", size)
  BY Sizes DEF QueueIInv
<1>2. PICK call : call = "get"
  OBVIOUS
<1>3. SideNext(getters, call, size)
  BY <1>1, <1>2, SideStays
<1> QED
  BY <1>2, <1>3

LEMMA PuttersStay ==
  ASSUME QueueIInv, NEW t \in Task, queuePc[t] # "put", queuePc'[t] # "put",
         NEW woken, MovedOnly(t, woken), \A u \in Task : On(woken, u) => queuePc[u] # "put",
         putters' = putters, size' = size
  PROVE  SideNext(putters', "put", asyncMaxsize - size')
<1>1. asyncMaxsize - size \in Nat /\ Side(putters, "put", asyncMaxsize - size)
  BY Sizes DEF QueueIInv
<1>2. PICK call : call = "put"
  OBVIOUS
<1>3. PICK n \in Nat : n = asyncMaxsize - size
  BY <1>1
<1>4. Side(putters, call, n)
  BY <1>1, <1>2, <1>3
<1>5. SideNext(putters, call, n)
  BY <1>2, <1>4, SideStays
<1> QED
  BY <1>2, <1>3, <1>5

LEMMA AsyncPutWaitsKeeps ==
  ASSUME QueueIInv, NEW t \in Task, AsyncPutWaits(t)
  PROVE  QueueIInv'
<1>1. /\ Full /\ (queuePc[t] = "idle" \/ WokenUp(t, "put"))
      /\ putters' = Append(putters, t)
      /\ queuePc' = [queuePc EXCEPT ![t] = "put"] /\ Runs(t, NoWake, TRUE)
      /\ size' = size /\ unfinished' = unfinished /\ getters' = getters
      /\ finishedEvent' = finishedEvent /\ joiners' = joiners /\ asyncPuts' = asyncPuts
  BY DEF AsyncPutWaits, QueueGoes, Begins
<1>2. /\ ~On(putters, t) /\ queuePc[t] # "join" /\ queuePc[t] # "get"
      /\ queuePc[t] = "idle" \/ Resumes(t)
  <2>1. PICK call : call = "put"
    OBVIOUS
  <2>2. ~On(putters, t) /\ queuePc[t] # "join" /\ (queuePc[t] = "idle" \/ Resumes(t))
    BY <1>1, <2>1, NotListed
  <2> QED BY <1>1, <2>2 DEF WokenUp
<1>3. /\ TaskInv' /\ MovedOnly(t, NoWake) /\ queuePc'[t] = "put" /\ fut'[t] = "pending"
      /\ queuePc' \in [Task -> {"idle", "put", "get", "join"}]
      /\ \A u \in Task : fut'[u] = "none" <=> queuePc'[u] = "idle"
  <2>1. PICK label \in {"put", "get", "join"} : label = "put"
    OBVIOUS
  <2> QED BY <1>1, <1>2, <2>1, QueueSleeps
<1>4. QueueBase'
  BY <1>1, <1>3 DEF QueueBase, QueueIInv
<1>5. SideNext(getters', "get", size')
  BY <1>1, <1>2, <1>3, NoneOf, GettersStay
<1>6. SideNext(putters', "put", asyncMaxsize - size')
  <2>1. asyncMaxsize - size \in Nat /\ asyncMaxsize - size' = 0
    BY <1>1, Sizes
  <2>2. PICK call, list2 : call = "put" /\ list2 = putters'
    OBVIOUS
  <2>3. PICK n \in Nat : n = asyncMaxsize - size
    BY <2>1
  <2>4. Side(putters, call, n) /\ list2 = Append(putters, t)
    BY <1>1, <2>2, <2>3 DEF QueueIInv
  <2>5. SideNext(list2, call, 0)
    BY <1>2, <1>3, <2>2, <2>4, SideWaits
  <2> QED BY <2>1, <2>2, <2>5
<1>7. Joining'
  <2>1. unfinished' = unfinished /\ (finishedEvent' <=> unfinished' = 0)
    BY <1>1 DEF QueueIInv, Joining
  <2> QED BY <1>1, <1>2, <1>3, <2>1, JoiningStays
<1> QED
  BY <1>3, <1>4, <1>5, <1>6, <1>7, SidesNext DEF QueueIInv

LEMMA AsyncGetWaitsKeeps ==
  ASSUME QueueIInv, NEW t \in Task, AsyncGetWaits(t)
  PROVE  QueueIInv'
<1>1. /\ Empty /\ (queuePc[t] = "idle" \/ WokenUp(t, "get"))
      /\ getters' = Append(getters, t)
      /\ queuePc' = [queuePc EXCEPT ![t] = "get"] /\ Runs(t, NoWake, TRUE)
      /\ size' = size /\ unfinished' = unfinished /\ putters' = putters
      /\ finishedEvent' = finishedEvent /\ joiners' = joiners /\ asyncPuts' = asyncPuts
  BY DEF AsyncGetWaits, QueueGoes, Begins
<1>2. /\ ~On(getters, t) /\ queuePc[t] # "join" /\ queuePc[t] # "put"
      /\ queuePc[t] = "idle" \/ Resumes(t)
  <2>1. PICK call : call = "get"
    OBVIOUS
  <2>2. ~On(getters, t) /\ queuePc[t] # "join" /\ (queuePc[t] = "idle" \/ Resumes(t))
    BY <1>1, <2>1, NotListed
  <2> QED BY <1>1, <2>2 DEF WokenUp
<1>3. /\ TaskInv' /\ MovedOnly(t, NoWake) /\ queuePc'[t] = "get" /\ fut'[t] = "pending"
      /\ queuePc' \in [Task -> {"idle", "put", "get", "join"}]
      /\ \A u \in Task : fut'[u] = "none" <=> queuePc'[u] = "idle"
  <2>1. PICK label \in {"put", "get", "join"} : label = "get"
    OBVIOUS
  <2> QED BY <1>1, <1>2, <2>1, QueueSleeps
<1>4. QueueBase'
  BY <1>1, <1>3 DEF QueueBase, QueueIInv
<1>5. SideNext(putters', "put", asyncMaxsize - size')
  BY <1>1, <1>2, <1>3, NoneOf, PuttersStay
<1>6. SideNext(getters', "get", size')
  <2>1. size \in Nat /\ size' = 0
    BY <1>1, Sizes
  <2>2. PICK call, list2 : call = "get" /\ list2 = getters'
    OBVIOUS
  <2>3. PICK n \in Nat : n = size
    BY <2>1
  <2>4. Side(getters, call, n) /\ list2 = Append(getters, t)
    BY <1>1, <2>2, <2>3 DEF QueueIInv
  <2>5. SideNext(list2, call, 0)
    BY <1>2, <1>3, <2>2, <2>4, SideWaits
  <2> QED BY <2>1, <2>2, <2>5
<1>7. Joining'
  <2>1. unfinished' = unfinished /\ (finishedEvent' <=> unfinished' = 0)
    BY <1>1 DEF QueueIInv, Joining
  <2> QED BY <1>1, <1>2, <1>3, <2>1, JoiningStays
<1> QED
  BY <1>3, <1>4, <1>5, <1>6, <1>7, SidesNext DEF QueueIInv

(* A waiter leaves its call with an exception. *)
LEMMA SideLeaves ==
  ASSUME TaskInv, NEW t \in Task, Resumes(t), NEW list, NEW call, NEW n \in Nat,
         Side(list, call, n),
         queuePc'[t] # call, NEW rest \in Seq(Task), Once(rest),
         \A u : On(rest, u) <=> On(list, u) /\ u # t,
         NEW wakes \in BOOLEAN, wakes <=> n > 0 /\ fut[t] # "cancelled",
         NEW woken, woken = IF wakes THEN FirstPending(rest) ELSE NoWake, MovedOnly(t, woken),
         NEW list2, list2 = IF wakes THEN AfterWakeup(rest) ELSE rest
  PROVE  SideNext(list2, call, n)
<1>0. PICK n2 \in Nat : n2 = n
  OBVIOUS
<1>1. CASE wakes
  <2>1. n2 <= n \/ (t \notin WokenFor(call) /\ n2 <= n + 1)
    BY <1>0
  <2>2. woken = FirstPending(rest) /\ list2 = AfterWakeup(rest)
    BY <1>1
  <2>3. SideNext(list2, call, n2)
    BY <2>1, <2>2, SideWakes
  <2> QED BY <1>0, <2>3
<1>2. CASE ~wakes
  <2>1. woken = NoWake /\ list2 = rest
    BY <1>2
  <2>2. n2 = 0 \/ (t \notin WokenFor(call) /\ n2 <= n) \/ n2 + 1 <= n
    <3>1. CASE n = 0
      BY <1>0, <3>1
    <3>2. CASE fut[t] = "cancelled"
      BY <1>0, <3>2 DEF WokenFor
    <3> QED BY <1>2, <3>1, <3>2
  <2>3. list2 \in Seq(Task) /\ Once(list2) /\ \A u : On(list2, u) <=> On(list, u) /\ u # t
    BY <2>1
  <2>4. \A u \in Task : On(woken, u) => queuePc[u] # call
    BY <2>1, NoneOf
  <2>5. SideNext(list2, call, n2)
    BY <2>2, <2>3, <2>4, SideQuiet
  <2> QED BY <1>0, <2>5
<1> QED
  BY <1>1, <1>2

LEMMA PutCancelledKeeps ==
  ASSUME QueueIInv, NEW t \in Task, PutCancelled(t)
  PROVE  QueueIInv'
<1>1. PICK wakes \in BOOLEAN : wakes <=> ~Full /\ fut[t] # "cancelled"
  <2>1. (~Full /\ fut[t] # "cancelled") \in BOOLEAN
    OBVIOUS
  <2> QED BY <2>1
<1>2. PICK rest : rest = Others(putters, t)
  OBVIOUS
<1>3. PICK woken : woken = IF wakes THEN FirstPending(rest) ELSE NoWake
  OBVIOUS
<1>4. /\ queuePc[t] = "put" /\ Resumes(t)
      /\ putters' = (IF wakes THEN AfterWakeup(rest) ELSE rest)
      /\ queuePc' = [queuePc EXCEPT ![t] = "idle"] /\ Runs(t, woken, FALSE)
      /\ size' = size /\ unfinished' = unfinished /\ getters' = getters
      /\ finishedEvent' = finishedEvent /\ joiners' = joiners /\ asyncPuts' = asyncPuts
  BY <1>1, <1>2, <1>3 DEF PutCancelled, QueueGoes
<1>5. /\ TaskInv /\ Side(putters, "put", asyncMaxsize - size)
      /\ putters \in Seq(Task) /\ Once(putters)
      /\ \A u : On(putters, u) => queuePc[u] = "put"
  BY DEF QueueIInv, Side
<1>6. /\ rest \in Seq(Task) /\ Once(rest)
      /\ \A u : On(rest, u) <=> On(putters, u) /\ u # t
  BY <1>2, <1>5, OthersOf
<1>7. /\ woken \in Seq(Task) /\ Once(woken)
      /\ \A u : On(woken, u) => On(rest, u) /\ fut[u] = "pending"
  BY <1>3, <1>6, WokenAreListed
<1>8. /\ TaskInv' /\ MovedOnly(t, woken) /\ queuePc'[t] = "idle"
      /\ queuePc' \in [Task -> {"idle", "put", "get", "join"}]
      /\ \A u \in Task : fut'[u] = "none" <=> queuePc'[u] = "idle"
  <2>1. \A u : On(woken, u) => fut[u] = "pending"
    BY <1>7
  <2> QED BY <1>4, <1>7, <2>1, QueueRuns
<1>9. QueueBase'
  BY <1>4, <1>8 DEF QueueBase, QueueIInv
<1>10. SideNext(getters', "get", size')
  <2>1. \A u \in Task : On(woken, u) => queuePc[u] # "get"
    BY <1>5, <1>6, <1>7
  <2> QED BY <1>4, <1>8, <2>1, GettersStay
<1>11. SideNext(putters', "put", asyncMaxsize - size')
  <2>1. asyncMaxsize - size \in Nat /\ (~Full <=> asyncMaxsize - size > 0)
    BY Sizes DEF Full
  <2>2. PICK n \in Nat : n = asyncMaxsize - size
    BY <2>1
  <2>3. PICK call, list2 : call = "put" /\ list2 = putters'
    OBVIOUS
  <2>4. Side(putters, call, n) /\ (wakes <=> n > 0 /\ fut[t] # "cancelled")
    BY <1>1, <1>5, <2>1, <2>2, <2>3
  <2>5. list2 = (IF wakes THEN AfterWakeup(rest) ELSE rest) /\ queuePc'[t] # call
    BY <1>4, <1>8, <2>3
  <2>6. SideNext(list2, call, n)
    BY <1>3, <1>4, <1>5, <1>6, <1>8, <2>4, <2>5, SideLeaves
  <2> QED BY <1>4, <2>2, <2>3, <2>6
<1>12. Joining'
  <2>1. unfinished' = unfinished /\ (finishedEvent' <=> unfinished' = 0)
    BY <1>4 DEF QueueIInv, Joining
  <2> QED BY <1>4, <1>8, <2>1, JoiningStays
<1> QED
  BY <1>8, <1>9, <1>10, <1>11, <1>12, SidesNext DEF QueueIInv

LEMMA GetCancelledKeeps ==
  ASSUME QueueIInv, NEW t \in Task, GetCancelled(t)
  PROVE  QueueIInv'
<1>1. PICK wakes \in BOOLEAN : wakes <=> ~Empty /\ fut[t] # "cancelled"
  <2>1. (~Empty /\ fut[t] # "cancelled") \in BOOLEAN
    OBVIOUS
  <2> QED BY <2>1
<1>2. PICK rest : rest = Others(getters, t)
  OBVIOUS
<1>3. PICK woken : woken = IF wakes THEN FirstPending(rest) ELSE NoWake
  OBVIOUS
<1>4. /\ queuePc[t] = "get" /\ Resumes(t)
      /\ getters' = (IF wakes THEN AfterWakeup(rest) ELSE rest)
      /\ queuePc' = [queuePc EXCEPT ![t] = "idle"] /\ Runs(t, woken, FALSE)
      /\ size' = size /\ unfinished' = unfinished /\ putters' = putters
      /\ finishedEvent' = finishedEvent /\ joiners' = joiners /\ asyncPuts' = asyncPuts
  BY <1>1, <1>2, <1>3 DEF GetCancelled, QueueGoes
<1>5. /\ TaskInv /\ Side(getters, "get", size)
      /\ getters \in Seq(Task) /\ Once(getters)
      /\ \A u : On(getters, u) => queuePc[u] = "get"
  BY DEF QueueIInv, Side
<1>6. /\ rest \in Seq(Task) /\ Once(rest)
      /\ \A u : On(rest, u) <=> On(getters, u) /\ u # t
  BY <1>2, <1>5, OthersOf
<1>7. /\ woken \in Seq(Task) /\ Once(woken)
      /\ \A u : On(woken, u) => On(rest, u) /\ fut[u] = "pending"
  BY <1>3, <1>6, WokenAreListed
<1>8. /\ TaskInv' /\ MovedOnly(t, woken) /\ queuePc'[t] = "idle"
      /\ queuePc' \in [Task -> {"idle", "put", "get", "join"}]
      /\ \A u \in Task : fut'[u] = "none" <=> queuePc'[u] = "idle"
  <2>1. \A u : On(woken, u) => fut[u] = "pending"
    BY <1>7
  <2> QED BY <1>4, <1>7, <2>1, QueueRuns
<1>9. QueueBase'
  BY <1>4, <1>8 DEF QueueBase, QueueIInv
<1>10. SideNext(putters', "put", asyncMaxsize - size')
  <2>1. \A u \in Task : On(woken, u) => queuePc[u] # "put"
    BY <1>5, <1>6, <1>7
  <2> QED BY <1>4, <1>8, <2>1, PuttersStay
<1>11. SideNext(getters', "get", size')
  <2>1. size \in Nat /\ (~Empty <=> size > 0)
    BY Sizes DEF Empty
  <2>2. PICK n \in Nat : n = size
    BY <2>1
  <2>3. PICK call, list2 : call = "get" /\ list2 = getters'
    OBVIOUS
  <2>4. Side(getters, call, n) /\ (wakes <=> n > 0 /\ fut[t] # "cancelled")
    BY <1>1, <1>5, <2>1, <2>2, <2>3
  <2>5. list2 = (IF wakes THEN AfterWakeup(rest) ELSE rest) /\ queuePc'[t] # call
    BY <1>4, <1>8, <2>3
  <2>6. SideNext(list2, call, n)
    BY <1>3, <1>4, <1>5, <1>6, <1>8, <2>4, <2>5, SideLeaves
  <2> QED BY <1>4, <2>2, <2>3, <2>6
<1>12. Joining'
  <2>1. unfinished' = unfinished /\ (finishedEvent' <=> unfinished' = 0)
    BY <1>4 DEF QueueIInv, Joining
  <2> QED BY <1>4, <1>8, <2>1, JoiningStays
<1> QED
  BY <1>8, <1>9, <1>10, <1>11, <1>12, SidesNext DEF QueueIInv

(* A step that leaves both sides alone. *)
LEMMA SidesStay ==
  ASSUME QueueIInv, NEW t \in Task, queuePc[t] \notin {"get", "put"},
         queuePc'[t] \notin {"get", "put"}, NEW woken, MovedOnly(t, woken),
         \A u \in Task : On(woken, u) => queuePc[u] = "join",
         getters' = getters, putters' = putters, size' = size
  PROVE  /\ Side(getters, "get", size)' /\ Side(putters, "put", asyncMaxsize - size)'
<1>1. SideNext(getters', "get", size')
  BY GettersStay
<1>2. SideNext(putters', "put", asyncMaxsize - size')
  BY PuttersStay
<1> QED
  BY <1>1, <1>2, SidesNext

LEMMA AsyncTaskDoneKeeps ==
  ASSUME QueueIInv, NEW t \in Task, AsyncTaskDone(t)
  PROVE  QueueIInv'
<1>1. /\ queuePc[t] = "idle" /\ unfinished > size /\ unfinished' = unfinished - 1
      /\ size' = size /\ getters' = getters /\ putters' = putters /\ joiners' = joiners
      /\ queuePc' = queuePc /\ asyncPuts' = asyncPuts
  BY DEF AsyncTaskDone, Begins
<1>2. TaskInv /\ QueueBase /\ Joining
  BY DEF QueueIInv
<1>3. unfinished \in Nat /\ unfinished > 0 /\ unfinished' \in Nat
  <2>1. unfinished \in Nat /\ size \in Nat
    BY <1>2, Sizes
  <2> QED BY <1>1, <2>1
<1>4. CASE unfinished = 1
  <2>1. PICK woken : woken = Pending(joiners)
    OBVIOUS
  <2>2. finishedEvent' = TRUE /\ Runs(t, woken, FALSE) /\ unfinished' = 0
    <3>1. finishedEvent' = TRUE /\ Runs(t, Pending(joiners), FALSE)
      BY <1>4 DEF AsyncTaskDone
    <3>2. unfinished' = 0
      BY <1>1, <1>4
    <3> QED BY <2>1, <3>1, <3>2
  <2>3. joiners \in Seq(Task) /\ Once(joiners)
    BY <1>2 DEF Joining
  <2>4. /\ woken \in Seq(Task) /\ Once(woken)
        /\ \A u : On(woken, u) <=> u \in Task /\ fut[u] = "pending" /\ On(joiners, u)
    BY <2>1, <2>3, PendingOf
  <2>5. /\ TaskInv' /\ MovedOnly(t, woken) /\ queuePc'[t] = "idle"
        /\ queuePc' \in [Task -> {"idle", "put", "get", "join"}]
        /\ \A u \in Task : fut'[u] = "none" <=> queuePc'[u] = "idle"
    <3>1. queuePc' = [queuePc EXCEPT ![t] = "idle"]
      BY <1>1, <1>2 DEF QueueBase
    <3>2. \A u : On(woken, u) => fut[u] = "pending"
      BY <2>4
    <3> QED BY <1>1, <2>2, <2>4, <3>1, <3>2, QueueRuns
  <2>6. QueueBase'
    BY <1>1, <1>2, <1>3, <2>2, <2>5 DEF QueueBase
  <2>7. \A u \in Task : On(woken, u) => queuePc[u] = "join"
    BY <1>2, <2>4 DEF Joining
  <2>8. Side(getters, "get", size)' /\ Side(putters, "put", asyncMaxsize - size)'
    BY <1>1, <2>5, <2>7, SidesStay
  <2>9. \A u \in Task : queuePc'[u] = "join" => fut'[u] # "pending"
    <3>1. ASSUME NEW u \in Task, queuePc'[u] = "join", fut'[u] = "pending"
          PROVE  FALSE
      <4>1. u # t /\ queuePc[u] = "join" /\ On(joiners, u)
        BY <1>1, <1>2, <3>1 DEF Joining
      <4>2. ~On(woken, u) /\ fut[u] = "pending"
        BY <2>5, <3>1, <4>1 DEF MovedOnly
      <4> QED BY <2>4, <4>1, <4>2
    <3> QED BY <3>1
  <2>10. Joining'
    BY <1>1, <1>2, <2>2, <2>9 DEF Joining
  <2> QED BY <2>5, <2>6, <2>8, <2>10 DEF QueueIInv
<1>5. CASE unfinished # 1
  <2>1. /\ finishedEvent' = finishedEvent
        /\ fut' = fut /\ must_cancel' = must_cancel /\ ready' = ready
    BY <1>5 DEF AsyncTaskDone, taskVars
  <2>2. unfinished' > 0 /\ unfinished # 0 /\ unfinished' # 0
    BY <1>1, <1>3, <1>5
  <2>3. TaskInv'
    BY <1>2, <2>1 DEF TaskInv, TaskTypeOK, ScheduledOnce
  <2>4. QueueBase'
    BY <1>1, <1>2, <1>3, <2>1 DEF QueueBase
  <2>5. Joining'
    BY <1>1, <1>2, <2>1, <2>2 DEF Joining
  <2>6. Side(getters, "get", size)' /\ Side(putters, "put", asyncMaxsize - size)'
    BY <1>1, <2>1 DEF QueueIInv, Side, WokenFor, Once, On
  <2> QED BY <2>3, <2>4, <2>5, <2>6 DEF QueueIInv
<1> QED
  BY <1>4, <1>5

LEMMA JoinKeeps ==
  ASSUME QueueIInv, NEW t \in Task, Join(t)
  PROVE  QueueIInv'
<1>1. /\ queuePc[t] = "idle" /\ unfinished > 0 /\ joiners' = Append(joiners, t)
      /\ queuePc' = [queuePc EXCEPT ![t] = "join"] /\ Runs(t, NoWake, TRUE)
      /\ size' = size /\ unfinished' = unfinished /\ getters' = getters /\ putters' = putters
      /\ finishedEvent' = finishedEvent /\ asyncPuts' = asyncPuts
  BY DEF Join, QueueGoes, Begins
<1>2. QueueBase /\ Joining
  BY DEF QueueIInv
<1>3. /\ TaskInv' /\ MovedOnly(t, NoWake) /\ queuePc'[t] = "join" /\ fut'[t] = "pending"
      /\ queuePc' \in [Task -> {"idle", "put", "get", "join"}]
      /\ \A u \in Task : fut'[u] = "none" <=> queuePc'[u] = "idle"
  <2>1. PICK label \in {"put", "get", "join"} : label = "join"
    OBVIOUS
  <2> QED BY <1>1, <2>1, QueueSleeps
<1>4. QueueBase'
  BY <1>1, <1>2, <1>3 DEF QueueBase
<1>5. Side(getters, "get", size)' /\ Side(putters, "put", asyncMaxsize - size)'
  <2>1. queuePc[t] \notin {"get", "put"} /\ queuePc'[t] \notin {"get", "put"}
    BY <1>1, <1>3
  <2>2. \A u \in Task : On(NoWake, u) => queuePc[u] = "join"
    BY NoneOf
  <2> QED BY <1>1, <1>3, <2>1, <2>2, SidesStay
<1>6. Joining'
  <2>1. ~On(joiners, t)
    BY <1>1, <1>2 DEF Joining
  <2>2. /\ joiners' \in Seq(Task) /\ Once(joiners')
        /\ \A u : On(joiners', u) <=> On(joiners, u) \/ u = t
    BY <1>1, <1>2, <2>1, Appended DEF Joining
  <2>3. \A u \in Task : u # t => queuePc'[u] = queuePc[u]
    BY <1>3 DEF MovedOnly
  <2>4. \A u : On(joiners', u) <=> u \in Task /\ queuePc'[u] = "join"
    BY <1>2, <1>3, <2>2, <2>3 DEF Joining
  <2> QED BY <1>1, <1>2, <2>2, <2>4 DEF Joining
<1> QED
  BY <1>3, <1>4, <1>5, <1>6 DEF QueueIInv

LEMMA JoinResumesKeeps ==
  ASSUME QueueIInv, NEW t \in Task, JoinResumes(t)
  PROVE  QueueIInv'
<1>1. /\ queuePc[t] = "join" /\ Resumes(t) /\ joiners' = Others(joiners, t)
      /\ queuePc' = [queuePc EXCEPT ![t] = "idle"] /\ Runs(t, NoWake, FALSE)
      /\ size' = size /\ unfinished' = unfinished /\ getters' = getters /\ putters' = putters
      /\ finishedEvent' = finishedEvent /\ asyncPuts' = asyncPuts
  BY DEF JoinResumes, QueueGoes
<1>2. QueueBase /\ Joining
  BY DEF QueueIInv
<1>3. /\ TaskInv' /\ MovedOnly(t, NoWake) /\ queuePc'[t] = "idle"
      /\ queuePc' \in [Task -> {"idle", "put", "get", "join"}]
      /\ \A u \in Task : fut'[u] = "none" <=> queuePc'[u] = "idle"
  BY <1>1, NoneOf, QueueRuns
<1>4. QueueBase'
  BY <1>1, <1>2, <1>3 DEF QueueBase
<1>5. Side(getters, "get", size)' /\ Side(putters, "put", asyncMaxsize - size)'
  <2>1. queuePc[t] \notin {"get", "put"} /\ queuePc'[t] \notin {"get", "put"}
    BY <1>1, <1>3
  <2>2. \A u \in Task : On(NoWake, u) => queuePc[u] = "join"
    BY NoneOf
  <2> QED BY <1>1, <1>3, <2>1, <2>2, SidesStay
<1>6. Joining'
  <2>1. /\ joiners' \in Seq(Task) /\ Once(joiners')
        /\ \A u : On(joiners', u) <=> u # t /\ On(joiners, u)
    BY <1>1, <1>2, OthersOf DEF Joining
  <2>2. \A u \in Task : u # t => queuePc'[u] = queuePc[u] /\ fut'[u] = fut[u]
    BY <1>3, NoneOf DEF MovedOnly
  <2>3. \A u : On(joiners', u) <=> u \in Task /\ queuePc'[u] = "join"
    BY <1>2, <1>3, <2>1, <2>2 DEF Joining
  <2>4. (\E u \in Task : queuePc'[u] = "join" /\ fut'[u] = "pending") => unfinished' > 0
    BY <1>1, <1>2, <1>3, <2>2 DEF Joining
  <2> QED BY <1>1, <1>2, <2>1, <2>3, <2>4 DEF Joining
<1> QED
  BY <1>3, <1>4, <1>5, <1>6 DEF QueueIInv

LEMMA AsyncQueueCancelKeeps ==
  ASSUME QueueIInv, NEW t \in Task, AsyncQueueCancel(t)
  PROVE  QueueIInv'
<1>1. /\ CancelTask(t)
      /\ size' = size /\ unfinished' = unfinished /\ getters' = getters /\ putters' = putters
      /\ finishedEvent' = finishedEvent /\ asyncPuts' = asyncPuts /\ joiners' = joiners
      /\ queuePc' = queuePc
  BY DEF AsyncQueueCancel
<1>2. /\ TaskInv /\ QueueBase /\ Joining
      /\ Side(getters, "get", size) /\ Side(putters, "put", asyncMaxsize - size)
  BY DEF QueueIInv
<1>3. /\ TaskInv' /\ fut[t] # "none"
      /\ fut' = [fut EXCEPT ![t] = IF fut[t] = "pending" THEN "cancelled" ELSE fut[t]]
      /\ fut \in [Task -> {"none", "pending", "result", "cancelled"}]
  BY <1>1, <1>2, CancelKeeps, TaskInvMeans
<1>4. \A u \in Task : /\ fut'[u] = "none" <=> fut[u] = "none"
                      /\ fut'[u] = "result" <=> fut[u] = "result"
                      /\ fut'[u] = "pending" => fut[u] = "pending"
  BY <1>3
<1>5. QueueBase' /\ Joining'
  BY <1>1, <1>2, <1>4 DEF QueueBase, Joining
<1>6. WokenFor("get")' = WokenFor("get") /\ WokenFor("put")' = WokenFor("put")
  BY <1>1, <1>4 DEF WokenFor
<1>7. SideNext(getters', "get", size')
  BY <1>1, <1>2, <1>4, <1>6 DEF Side, SideNext
<1>8. SideNext(putters', "put", asyncMaxsize - size')
  BY <1>1, <1>2, <1>4, <1>6 DEF Side, SideNext
<1> QED
  BY <1>3, <1>5, <1>7, <1>8, SidesNext DEF QueueIInv

LEMMA AsyncQueueInitOK ==
  AsyncQueueInit => QueueIInv
<1> SUFFICES ASSUME AsyncQueueInit
             PROVE  QueueIInv
  OBVIOUS
<1>1. /\ TaskInv /\ \A u \in Task : fut[u] = "none"
      /\ size = 0 /\ unfinished = 0 /\ finishedEvent = TRUE /\ asyncPuts = 0
      /\ getters = <<>> /\ putters = <<>> /\ joiners = <<>>
      /\ queuePc = [t \in Task |-> "idle"]
  BY TaskInitOK DEF AsyncQueueInit
<1>2. <<>> \in Seq(Task) /\ Once(<<>>) /\ \A u : ~On(<<>>, u)
  BY NoneOf DEF NoWake
<1>3. QueueBase
  BY <1>1, AsyncQueueAssumption DEF QueueBase
<1>4. Joining
  BY <1>1, <1>2 DEF Joining
<1>5. WokenFor("get") = {} /\ WokenFor("put") = {} /\ IsFiniteSet({})
  BY <1>1, FS_EmptySet DEF WokenFor
<1>6. Side(getters, "get", size) /\ Side(putters, "put", asyncMaxsize - size)
  BY <1>1, <1>2, <1>5 DEF Side
<1> QED
  BY <1>1, <1>3, <1>4, <1>6 DEF QueueIInv

LEMMA AsyncQueueStutters ==
  ASSUME QueueIInv, UNCHANGED asyncQueueVars
  PROVE  QueueIInv'
<1>1. /\ fut' = fut /\ must_cancel' = must_cancel /\ ready' = ready
      /\ size' = size /\ unfinished' = unfinished /\ getters' = getters /\ putters' = putters
      /\ finishedEvent' = finishedEvent /\ asyncPuts' = asyncPuts /\ joiners' = joiners
      /\ queuePc' = queuePc
  BY DEF asyncQueueVars, taskVars
<1>2. TaskInv' /\ QueueBase' /\ Joining'
  BY <1>1 DEF QueueIInv, TaskInv, TaskTypeOK, ScheduledOnce, QueueBase, Joining, Once, On
<1>3. Side(getters, "get", size)' /\ Side(putters, "put", asyncMaxsize - size)'
  BY <1>1 DEF QueueIInv, Side, WokenFor, Once, On
<1> QED
  BY <1>2, <1>3 DEF QueueIInv

(* The inductive invariant holds in every reachable state of the queue.    *)
THEOREM QueueInvariance ==
  AsyncQueueSpec => []QueueIInv
<1>1. AsyncQueueInit => QueueIInv
  BY AsyncQueueInitOK
<1>2. QueueIInv /\ [AsyncQueueNext]_asyncQueueVars => QueueIInv'
  <2> SUFFICES ASSUME QueueIInv, [AsyncQueueNext]_asyncQueueVars
               PROVE  QueueIInv'
    OBVIOUS
  <2>1. CASE AsyncQueueNext
    <3>1. PICK t \in Task :
            \/ AsyncPut(t) \/ AsyncPutWaits(t) \/ AsyncGet(t) \/ AsyncGetWaits(t)
            \/ PutCancelled(t) \/ GetCancelled(t) \/ JoinResumes(t)
            \/ AsyncTaskDone(t) \/ Join(t) \/ AsyncQueueCancel(t)
      BY <2>1 DEF AsyncQueueNext, QueueResumes
    <3>2. CASE AsyncPut(t) \/ AsyncPutWaits(t) \/ AsyncGet(t) \/ AsyncGetWaits(t)
      BY <3>2, AsyncPutKeeps, AsyncPutWaitsKeeps, AsyncGetKeeps, AsyncGetWaitsKeeps
    <3>3. CASE PutCancelled(t) \/ GetCancelled(t) \/ JoinResumes(t)
      BY <3>3, PutCancelledKeeps, GetCancelledKeeps, JoinResumesKeeps
    <3>4. CASE AsyncTaskDone(t) \/ Join(t) \/ AsyncQueueCancel(t)
      BY <3>4, AsyncTaskDoneKeeps, JoinKeeps, AsyncQueueCancelKeeps
    <3> QED BY <3>1, <3>2, <3>3, <3>4
  <2> QED BY <2>1, AsyncQueueStutters
<1> QED
  BY <1>1, <1>2, PTL DEF AsyncQueueSpec

(* The lists of an asyncio.Queue hold the tasks that sleep, each once, and *)
(* no others than those in the call; while a task sleeps in get (put), as  *)
(* many others were woken as there are items (as there is room); nobody    *)
(* sleeps in join when all is done.  For every maxsize and every number of *)
(* tasks, whichever of them are cancelled and when.                        *)
THEOREM AsyncQueueIsRight ==
  AsyncQueueSpec => []AsyncQueueInv
<1>1. QueueIInv => AsyncQueueInv
  <2> SUFFICES ASSUME QueueIInv
               PROVE  AsyncQueueInv
    OBVIOUS
  <2>1. /\ TaskInv /\ QueueBase /\ Joining
        /\ Side(getters, "get", size) /\ Side(putters, "put", asyncMaxsize - size)
    BY DEF QueueIInv
  <2>2. AsyncQueueTypeOK
    BY <2>1 DEF AsyncQueueTypeOK, QueueBase, Joining, Side, TaskInv
  <2>3. /\ getters \in Seq(Task) /\ putters \in Seq(Task) /\ joiners \in Seq(Task)
        /\ Once(getters) /\ Once(putters) /\ Once(joiners)
    BY <2>1 DEF Side, Joining
  <2>4. AsyncNoLostWakeup
    <3>1. ASSUME Pending(getters) # <<>>
          PROVE  Cardinality(WokenFor("get")) >= size
      <4>1. \E u \in Task : On(getters, u) /\ fut[u] = "pending"
        BY <2>3, <3>1, PendingOf
      <4> QED BY <2>1, <4>1 DEF Side
    <3>2. ASSUME Pending(putters) # <<>>
          PROVE  Cardinality(WokenFor("put")) >= asyncMaxsize - size
      <4>1. \E u \in Task : On(putters, u) /\ fut[u] = "pending"
        BY <2>3, <3>2, PendingOf
      <4> QED BY <2>1, <4>1 DEF Side
    <3> QED BY <3>1, <3>2 DEF AsyncNoLostWakeup
  <2>5. SleepersListed
    <3>1. /\ IsInjective(getters) /\ IsInjective(putters) /\ IsInjective(joiners)
          /\ \A u : u \in ToSet(getters) <=> On(getters, u)
          /\ \A u : u \in ToSet(putters) <=> On(putters, u)
          /\ \A u : u \in ToSet(joiners) <=> On(joiners, u)
          /\ DOMAIN getters = 1 .. Len(getters) /\ DOMAIN putters = 1 .. Len(putters)
          /\ DOMAIN joiners = 1 .. Len(joiners)
      BY <2>3, OnIsToSet
    <3>2. /\ \A i \in DOMAIN getters : queuePc[getters[i]] = "get"
          /\ \A t \in Task : queuePc[t] = "get" /\ fut[t] = "pending" => t \in ToSet(getters)
      BY <2>1, <3>1 DEF Side, On
    <3>3. /\ \A i \in DOMAIN putters : queuePc[putters[i]] = "put"
          /\ \A t \in Task : queuePc[t] = "put" /\ fut[t] = "pending" => t \in ToSet(putters)
      BY <2>1, <3>1 DEF Side, On
    <3>4. /\ \A i \in DOMAIN joiners : queuePc[joiners[i]] = "join"
          /\ \A t \in Task : queuePc[t] = "join" /\ fut[t] = "pending" => t \in ToSet(joiners)
      BY <2>1, <3>1 DEF Joining, On
    <3> QED BY <3>1, <3>2, <3>3, <3>4 DEF SleepersListed
  <2>6. JoinNeedsWork
    <3>1. Pending(joiners) # <<>> => \E u \in Task : On(joiners, u) /\ fut[u] = "pending"
      BY <2>3, PendingOf
    <3> QED BY <2>1, <3>1 DEF Joining, JoinNeedsWork
  <2> QED BY <2>2, <2>4, <2>5, <2>6 DEF AsyncQueueInv
<1> QED
  BY <1>1, QueueInvariance, PTL
-----------------------------------------------------------------------------
(***************************************************************************)
(* asyncio.Barrier: the count, and who sleeps.                             *)
(***************************************************************************)
BarStates == {"FILLING", "DRAINING", "RESETTING", "BROKEN"}

BarTypes ==
  /\ barrier \in BarStates /\ count \in Nat
  /\ barPc \in [Task -> {"idle", "block", "wait"}]

BarCounts == BarTypes /\ IsFiniteSet(Waiting) /\ CountRight /\ AllPartiesCame

LEMMA BarCountsInit == BarInit => BarCounts
<1> SUFFICES ASSUME BarInit PROVE BarCounts
  OBVIOUS
<1>1. Waiting = {}
  BY DEF BarInit, Waiting
<1>2. IsFiniteSet(Waiting) /\ Cardinality(Waiting) = 0
  BY <1>1, FS_EmptySet
<1>3. BarTypes
  BY DEF BarInit, BarTypes, BarStates
<1> QED
  BY <1>1, <1>2, <1>3, BarrierAssumption DEF BarInit, BarCounts, CountRight, AllPartiesCame

(* What becomes of the tasks in _wait when t goes to another place.        *)
LEMMA WaitingGoes ==
  ASSUME BarTypes, NEW t \in Task, NEW l \in {"idle", "block", "wait"}, BarGoes(t, l)
  PROVE  /\ barPc' \in [Task -> {"idle", "block", "wait"}]
         /\ Waiting' = IF l = "wait" THEN Waiting \cup {t} ELSE Waiting \ {t}
<1>1. /\ barPc' \in [Task -> {"idle", "block", "wait"}]
      /\ barPc'[t] = l /\ \A u \in Task \ {t} : barPc'[u] = barPc[u]
  BY DEF BarTypes, BarGoes
<1>2. CASE l = "wait"
  BY <1>1, <1>2 DEF Waiting
<1>3. CASE l # "wait"
  BY <1>1, <1>3 DEF Waiting
<1> QED
  BY <1>1, <1>2, <1>3

(* A step that leaves the tasks in _wait, and their count, as they are.    *)
LEMMA SameWaiting ==
  ASSUME BarCounts, Waiting' = Waiting, count' = count, barrier' \in BarStates,
         barPc' \in [Task -> {"idle", "block", "wait"}],
         barrier' = "FILLING" => count < parties,
         barrier' \in {"DRAINING", "RESETTING"} => count > 0,
         barrier' = "DRAINING" => Waiting \subseteq through'
  PROVE  BarCounts'
BY DEF BarCounts, BarTypes, CountRight, AllPartiesCame

(* _block and what follows it, by a task that is not in _wait.             *)
LEMMA EntersCounts ==
  ASSUME BarCounts, NEW t \in Task, barPc[t] # "wait", NEW ws, Enters(t, ws)
  PROVE  BarCounts'
<1>1. t \notin Waiting
  BY DEF Waiting
<1>2. BarTypes /\ CountRight /\ AllPartiesCame /\ IsFiniteSet(Waiting)
  BY DEF BarCounts
<1>3. CASE barrier' = barrier /\ UNCHANGED <<count, through>> /\ \E l \in {"idle", "block"} : BarGoes(t, l)
  <2>1. Waiting' = Waiting /\ barPc' \in [Task -> {"idle", "block", "wait"}]
    BY <1>1, <1>2, <1>3, WaitingGoes
  <2> QED
    BY <1>2, <1>3, <2>1, SameWaiting DEF BarTypes, CountRight, AllPartiesCame
<1>4. CASE /\ ~Blocked /\ barrier # "BROKEN" /\ count + 1 # parties
           /\ count' = count + 1 /\ WaitsIn(t, "wait", ws) /\ UNCHANGED through
  <2>1. /\ Waiting' = Waiting \cup {t} /\ barPc' \in [Task -> {"idle", "block", "wait"}]
        /\ barrier' = barrier /\ barrier = "FILLING" /\ count' = count + 1
    BY <1>2, <1>4, WaitingGoes DEF WaitsIn, Blocked, BarTypes, BarStates
  <2>2. IsFiniteSet(Waiting') /\ Cardinality(Waiting') = Cardinality(Waiting) + 1
    BY <1>1, <1>2, <2>1, FS_AddElement
  <2>3. count' = Cardinality(Waiting') /\ count' < parties /\ count' \in Nat
    BY <1>2, <1>4, <2>1, <2>2, BarrierAssumption DEF CountRight, BarTypes
  <2> QED
    BY <1>2, <2>1, <2>2, <2>3 DEF BarCounts, BarTypes, CountRight, AllPartiesCame
<1>5. CASE /\ ~Blocked /\ barrier # "BROKEN" /\ count + 1 = parties
           /\ Exits(t, count, "DRAINING", ws, TRUE) /\ through' = Waiting
  <2>1. /\ Waiting' = Waiting /\ barPc' \in [Task -> {"idle", "block", "wait"}]
        /\ count' = count
        /\ barrier' = IF count = 0 THEN "FILLING" ELSE "DRAINING"
    BY <1>1, <1>2, <1>5, WaitingGoes DEF Exits, Finishes
  <2>2. count < parties /\ count \in Nat
    BY <1>2, <1>5, BarrierAssumption DEF BarTypes
  <2> QED
    BY <1>5, <2>1, <2>2, SameWaiting DEF BarStates
<1> QED
  BY <1>3, <1>4, <1>5 DEF Enters, WaitsIn, Finishes

(* A task leaves _wait: the last one to leave reopens the barrier.         *)
LEMMA WaitEndsCounts ==
  ASSUME BarCounts, NEW t \in Task, WaitEnds(t)
  PROVE  BarCounts'
<1> DEFINE others == Others(barWaiters, t)
<1>1. t \in Waiting
  BY DEF WaitEnds, Waiting
<1>2. BarTypes /\ CountRight /\ AllPartiesCame /\ IsFiniteSet(Waiting)
  BY DEF BarCounts
<1>3. CASE WaitsIn(t, "wait", others) /\ UNCHANGED <<count, through>>
  <2>1. /\ Waiting' = Waiting /\ barPc' \in [Task -> {"idle", "block", "wait"}]
        /\ barrier' = barrier
    BY <1>1, <1>2, <1>3, WaitingGoes DEF WaitsIn
  <2> QED
    BY <1>2, <1>3, <2>1, SameWaiting DEF BarTypes, CountRight, AllPartiesCame
<1>4. CASE Exits(t, count - 1, barrier, others, FALSE) /\ through' = through \ {t}
  <2>1. /\ Waiting' = Waiting \ {t} /\ barPc' \in [Task -> {"idle", "block", "wait"}]
        /\ count' = count - 1
        /\ barrier' = IF count - 1 = 0 /\ barrier \in {"RESETTING", "DRAINING"}
                      THEN "FILLING" ELSE barrier
    BY <1>2, <1>4, WaitingGoes DEF Exits, Finishes
  <2>2. IsFiniteSet(Waiting') /\ Cardinality(Waiting') = Cardinality(Waiting) - 1
    BY <1>1, <1>2, <2>1, FS_RemoveElement
  <2>3. Cardinality(Waiting) \in Nat /\ Cardinality(Waiting') \in Nat
    BY <1>2, <2>2, FS_CardinalityType
  <2>4. count' = Cardinality(Waiting') /\ count' \in Nat
    BY <1>2, <2>1, <2>2, <2>3 DEF CountRight
  <2>5. barrier' = "FILLING" => count' < parties
    <3>1. count \in Nat /\ parties \in Nat \ {0}
      BY <1>2, BarrierAssumption DEF BarTypes
    <3>2. CASE barrier = "FILLING"
      BY <1>2, <2>1, <3>1, <3>2 DEF CountRight
    <3>3. CASE barrier # "FILLING"
      BY <2>1, <3>1, <3>3
    <3> QED
      BY <3>2, <3>3
  <2>6. barrier' \in {"DRAINING", "RESETTING"} => count' > 0 /\ barrier' = barrier
    <3>1. CASE count - 1 = 0 /\ barrier \in {"RESETTING", "DRAINING"}
      BY <2>1, <3>1
    <3>2. CASE ~(count - 1 = 0 /\ barrier \in {"RESETTING", "DRAINING"})
      <4>1. barrier' = barrier
        BY <2>1, <3>2
      <4>2. barrier \in {"DRAINING", "RESETTING"} => count' # 0
        BY <2>1, <3>2
      <4>3. count' # 0 => count' > 0
        BY <2>4
      <4> QED
        BY <4>1, <4>2, <4>3
    <3> QED
      BY <3>1, <3>2
  <2>7. AllPartiesCame'
    BY <1>2, <1>4, <2>1, <2>6 DEF AllPartiesCame
  <2> QED
    BY <1>2, <2>1, <2>2, <2>4, <2>5, <2>6, <2>7 DEF BarCounts, BarTypes, BarStates, CountRight
<1> QED
  BY <1>3, <1>4 DEF WaitEnds

LEMMA BlockResumesCounts ==
  ASSUME BarCounts, NEW t \in Task, BlockResumes(t)
  PROVE  BarCounts'
<1> DEFINE others == Others(barWaiters, t)
<1>1. barPc[t] = "block" /\ t \notin Waiting
  BY DEF BlockResumes, Waiting
<1>2. CASE Enters(t, others)
  BY <1>1, <1>2, EntersCounts
<1>3. CASE Finishes(t, barrier, others, FALSE) /\ UNCHANGED <<count, through>>
  <2>1. /\ Waiting' = Waiting /\ barPc' \in [Task -> {"idle", "block", "wait"}]
        /\ barrier' = barrier
    BY <1>1, <1>3, WaitingGoes DEF Finishes, BarCounts
  <2> QED
    BY <1>3, <2>1, SameWaiting DEF BarCounts, BarTypes, CountRight, AllPartiesCame
<1> QED
  BY <1>2, <1>3 DEF BlockResumes

(* reset and abort, by a task that is not in wait. *)
LEMMA ResetAbortCounts ==
  ASSUME BarCounts, NEW t \in Task, Reset(t) \/ Abort(t)
  PROVE  BarCounts'
<1>1. t \notin Waiting /\ UNCHANGED <<count, through>>
  BY DEF Reset, Abort, Waiting
<1>2. /\ Waiting' = Waiting /\ barPc' \in [Task -> {"idle", "block", "wait"}]
      /\ \/ barrier' = IF count > 0 THEN "RESETTING" ELSE "FILLING"
         \/ barrier' = "BROKEN"
  BY <1>1, WaitingGoes DEF Reset, Abort, Finishes, BarCounts
<1>3. count \in Nat /\ 0 < parties
  BY BarrierAssumption DEF BarCounts, BarTypes
<1> QED
  BY <1>1, <1>2, <1>3, SameWaiting DEF BarStates

LEMMA CancelCounts ==
  ASSUME BarCounts, UNCHANGED <<barrier, count, barPc, through>>
  PROVE  BarCounts'
<1>1. Waiting' = Waiting
  BY DEF Waiting
<1> QED
  BY <1>1, SameWaiting DEF BarCounts, BarTypes, CountRight, AllPartiesCame
LEMMA BarCountsStep == BarCounts /\ [BarNext]_barVars => BarCounts'
<1> SUFFICES ASSUME BarCounts, [BarNext]_barVars PROVE BarCounts'
  OBVIOUS
<1>1. ASSUME NEW t \in Task, BarrierWait(t) PROVE BarCounts'
  BY <1>1, EntersCounts DEF BarrierWait
<1>2. ASSUME NEW t \in Task, BlockResumes(t) \/ WaitEnds(t) PROVE BarCounts'
  BY <1>2, BlockResumesCounts, WaitEndsCounts
<1>3. ASSUME NEW t \in Task, Reset(t) \/ Abort(t) PROVE BarCounts'
  BY <1>3, ResetAbortCounts
<1>4. ASSUME NEW t \in Task, BarCancel(t) PROVE BarCounts'
  BY <1>4, CancelCounts DEF BarCancel
<1>5. CASE UNCHANGED barVars
  BY <1>5, CancelCounts DEF barVars
<1> QED
  BY <1>1, <1>2, <1>3, <1>4, <1>5 DEF BarNext

(* Who is where, and why the sleepers sleep. *)
BarSleeps ==
  /\ TaskInv /\ count < parties /\ through \subseteq Task
  /\ barWaiters \in Seq(Task) /\ Once(barWaiters)
  /\ \A u : On(barWaiters, u) <=> u \in Task /\ barPc[u] # "idle"
  /\ \A u \in Task : fut[u] = "none" <=> barPc[u] = "idle"
  /\ \A u \in Task : fut[u] = "pending" =>
       \/ barPc[u] = "wait" /\ barrier = "FILLING"
       \/ barPc[u] = "block" /\ barrier \in {"DRAINING", "RESETTING"}

BarIInv == BarCounts /\ BarSleeps

(* The list without t. *)
BarRest(ws, t) ==
  /\ ws \in Seq(Task) /\ Once(ws)
  /\ \A u : On(ws, u) <=> u \in Task /\ barPc[u] # "idle" /\ u # t

LEMMA BarRests ==
  ASSUME BarIInv, NEW t \in Task
  PROVE  BarRest(Others(barWaiters, t), t) /\ (barPc[t] = "idle" => BarRest(barWaiters, t))
<1>1. /\ barWaiters \in Seq(Task) /\ Once(barWaiters)
      /\ \A u : On(barWaiters, u) <=> u \in Task /\ barPc[u] # "idle"
  BY DEF BarIInv, BarSleeps
<1>2. /\ Others(barWaiters, t) \in Seq(Task) /\ Once(Others(barWaiters, t))
      /\ \A u : On(Others(barWaiters, t), u) <=> u # t /\ On(barWaiters, u)
  BY <1>1, OthersOf
<1> QED
  BY <1>1, <1>2 DEF BarRest

LEMMA FinishesKeeps ==
  ASSUME BarIInv, NEW t \in Task, fut[t] = "none" \/ Resumes(t), NEW ws, BarRest(ws, t),
         NEW b, NEW all \in BOOLEAN, Finishes(t, b, ws, all), b = barrier \/ all,
         count' < parties, through' \subseteq Task
  PROVE  BarSleeps'
<1>1. PICK woken : woken = IF all THEN Pending(ws) ELSE NoWake
  OBVIOUS
<1>2. /\ barrier' = b /\ barWaiters' = ws /\ barPc' = [barPc EXCEPT ![t] = "idle"]
      /\ Runs(t, woken, FALSE)
  BY <1>1 DEF Finishes, BarGoes
<1>3. BarCounts /\ BarSleeps /\ TaskInv
  BY DEF BarIInv, BarSleeps
<1>4. /\ ws \in Seq(Task) /\ Once(ws)
      /\ \A u : On(ws, u) <=> u \in Task /\ barPc[u] # "idle" /\ u # t
  BY DEF BarRest
<1>5. /\ woken \in Seq(Task) /\ Once(woken)
      /\ \A u : On(woken, u) => u \in Task /\ fut[u] = "pending" /\ On(ws, u)
      /\ all => \A u \in Task : fut[u] = "pending" /\ On(ws, u) => On(woken, u)
  <2>1. CASE all
    BY <1>1, <1>4, <2>1, PendingOf
  <2>2. CASE ~all
    BY <1>1, <2>2, NoneOf
  <2> QED BY <2>1, <2>2
<1>6. /\ TaskInv' /\ fut'[t] = "none"
      /\ \A u \in Task : u # t => fut'[u] = IF On(woken, u) THEN "result" ELSE fut[u]
  <2>1. \A u : On(woken, u) => fut[u] = "pending"
    BY <1>5
  <2>2. woken \in Seq(Task) /\ Once(woken)
    BY <1>5
  <2>3. Runs(t, woken, FALSE) /\ TaskInv
    BY <1>2, <1>3
  <2>4. fut[t] = "none" \/ Resumes(t)
    OBVIOUS
  <2> QED BY <2>1, <2>2, <2>3, <2>4, RunsOn
<1>7. barPc'[t] = "idle" /\ \A u \in Task : u # t => barPc'[u] = barPc[u]
  BY <1>2, <1>3 DEF BarCounts, BarTypes
<1>8. \A u : On(barWaiters', u) <=> u \in Task /\ barPc'[u] # "idle"
  BY <1>2, <1>4, <1>7
<1>9. \A u \in Task : fut'[u] = "none" <=> barPc'[u] = "idle"
  BY <1>3, <1>5, <1>6, <1>7 DEF BarSleeps
<1>10. ASSUME NEW u \in Task, fut'[u] = "pending"
       PROVE  \/ barPc'[u] = "wait" /\ barrier' = "FILLING"
              \/ barPc'[u] = "block" /\ barrier' \in {"DRAINING", "RESETTING"}
  <2>1. u # t /\ fut[u] = "pending" /\ ~On(woken, u) /\ barPc'[u] = barPc[u]
    BY <1>6, <1>7, <1>10
  <2>2. On(ws, u)
    BY <1>3, <1>4, <2>1 DEF BarSleeps
  <2>3. ~all
    BY <1>5, <2>1, <2>2
  <2> QED BY <1>2, <1>3, <2>1, <2>3 DEF BarSleeps
<1> QED
  BY <1>2, <1>4, <1>6, <1>8, <1>9, <1>10 DEF BarSleeps

LEMMA WaitsInKeeps ==
  ASSUME BarIInv, NEW t \in Task, fut[t] = "none" \/ Resumes(t), NEW ws, BarRest(ws, t),
         NEW l, WaitsIn(t, l, ws),
         \/ l = "wait" /\ barrier = "FILLING"
         \/ l = "block" /\ barrier \in {"DRAINING", "RESETTING"},
         count' < parties, through' = through
  PROVE  BarSleeps'
<1>1. /\ barrier' = barrier /\ barWaiters' = Append(ws, t) /\ barPc' = [barPc EXCEPT ![t] = l]
      /\ Runs(t, NoWake, TRUE)
  BY DEF WaitsIn, BarGoes
<1>2. BarCounts /\ BarSleeps /\ TaskInv
  BY DEF BarIInv, BarSleeps
<1>3. /\ ws \in Seq(Task) /\ Once(ws)
      /\ \A u : On(ws, u) <=> u \in Task /\ barPc[u] # "idle" /\ u # t
  BY DEF BarRest
<1>4. /\ barWaiters' \in Seq(Task) /\ Once(barWaiters')
      /\ \A u : On(barWaiters', u) <=> On(ws, u) \/ u = t
  BY <1>1, <1>3, Appended
<1>5. /\ TaskInv' /\ fut'[t] = "pending"
      /\ \A u \in Task : u # t => fut'[u] = fut[u]
  <2>1. /\ TaskInv' /\ fut'[t] = "pending"
        /\ \A u \in Task : u # t => fut'[u] = IF On(NoWake, u) THEN "result" ELSE fut[u]
    BY <1>1, <1>2, NoneOf, RunsUntil
  <2> QED BY <2>1, NoneOf
<1>6. barPc'[t] = l /\ \A u \in Task : u # t => barPc'[u] = barPc[u]
  BY <1>1, <1>2 DEF BarCounts, BarTypes
<1>7. \A u : On(barWaiters', u) <=> u \in Task /\ barPc'[u] # "idle"
  BY <1>3, <1>4, <1>6
<1>8. \A u \in Task : fut'[u] = "none" <=> barPc'[u] = "idle"
  BY <1>2, <1>5, <1>6 DEF BarSleeps
<1>9. \A u \in Task : fut'[u] = "pending" =>
        \/ barPc'[u] = "wait" /\ barrier' = "FILLING"
        \/ barPc'[u] = "block" /\ barrier' \in {"DRAINING", "RESETTING"}
  BY <1>1, <1>2, <1>5, <1>6 DEF BarSleeps
<1> QED
  BY <1>2, <1>4, <1>5, <1>7, <1>8, <1>9 DEF BarSleeps

LEMMA EntersSleeps ==
  ASSUME BarIInv, NEW t \in Task, fut[t] = "none" \/ Resumes(t), NEW ws, BarRest(ws, t),
         Enters(t, ws)
  PROVE  BarSleeps'
<1>1. /\ count \in Nat /\ count < parties /\ through \subseteq Task /\ parties \in Nat \ {0}
      /\ barrier \in BarStates
  BY BarrierAssumption DEF BarIInv, BarSleeps, BarCounts, BarTypes
<1>2. CASE Blocked /\ WaitsIn(t, "block", ws) /\ UNCHANGED <<count, through>>
  <2>1. PICK l : l = "block"
    OBVIOUS
  <2> QED BY <1>1, <1>2, <2>1, WaitsInKeeps DEF Blocked
<1>3. CASE /\ barrier = "BROKEN"
           /\ Finishes(t, barrier, ws, FALSE) /\ UNCHANGED <<count, through>>
  <2>1. PICK all \in BOOLEAN : all = FALSE
    OBVIOUS
  <2> QED BY <1>1, <1>3, <2>1, FinishesKeeps
<1>4. CASE /\ ~Blocked /\ barrier # "BROKEN" /\ count + 1 # parties
           /\ count' = count + 1 /\ WaitsIn(t, "wait", ws) /\ UNCHANGED through
  <2>1. PICK l : l = "wait"
    OBVIOUS
  <2>2. barrier = "FILLING"
    BY <1>1, <1>4 DEF Blocked, BarStates
  <2>3. count' < parties
    BY <1>1, <1>4
  <2> QED BY <1>4, <2>1, <2>2, <2>3, WaitsInKeeps
<1>5. CASE /\ ~Blocked /\ barrier # "BROKEN" /\ count + 1 = parties
           /\ Exits(t, count, "DRAINING", ws, TRUE) /\ through' = Waiting
  <2>1. PICK all \in BOOLEAN : all = TRUE
    OBVIOUS
  <2>2. PICK b : b = IF count = 0 /\ "DRAINING" \in {"RESETTING", "DRAINING"}
                     THEN "FILLING" ELSE "DRAINING"
    OBVIOUS
  <2>3. count' = count /\ Finishes(t, b, ws, TRUE \/ count = 0)
    BY <1>5, <2>2 DEF Exits
  <2>4. (TRUE \/ count = 0) = all
    BY <2>1
  <2>5. Finishes(t, b, ws, all)
    BY <2>3, <2>4
  <2>6. through' \subseteq Task /\ count' < parties
    BY <1>1, <1>5, <2>3 DEF Waiting
  <2> QED BY <2>1, <2>5, <2>6, FinishesKeeps
<1> QED
  BY <1>2, <1>3, <1>4, <1>5 DEF Enters

LEMMA WaitEndsSleeps ==
  ASSUME BarIInv, NEW t \in Task, WaitEnds(t)
  PROVE  BarSleeps'
<1>1. PICK ws : ws = Others(barWaiters, t) /\ BarRest(ws, t)
  BY BarRests
<1>2. /\ barPc[t] = "wait" /\ Resumes(t)
      /\ IF ~Throws(t) /\ barrier = "FILLING"
         THEN WaitsIn(t, "wait", ws) /\ UNCHANGED <<count, through>>
         ELSE Exits(t, count - 1, barrier, ws, FALSE) /\ through' = through \ {t}
  BY <1>1 DEF WaitEnds
<1>3. /\ count \in Nat /\ count < parties /\ through \subseteq Task /\ parties \in Nat \ {0}
  BY BarrierAssumption DEF BarIInv, BarSleeps, BarCounts, BarTypes
<1>4. CASE ~Throws(t) /\ barrier = "FILLING"
  <2>1. PICK l : l = "wait"
    OBVIOUS
  <2> QED BY <1>1, <1>2, <1>3, <1>4, <2>1, WaitsInKeeps
<1>5. CASE ~(~Throws(t) /\ barrier = "FILLING")
  <2>1. Exits(t, count - 1, barrier, ws, FALSE) /\ through' = through \ {t}
    BY <1>2, <1>5
  <2>2. PICK b : b = IF count - 1 = 0 /\ barrier \in {"RESETTING", "DRAINING"}
                     THEN "FILLING" ELSE barrier
    OBVIOUS
  <2>3. PICK all \in BOOLEAN : all = (FALSE \/ count - 1 = 0)
    OBVIOUS
  <2>4. count' = count - 1 /\ Finishes(t, b, ws, all)
    BY <2>1, <2>2, <2>3 DEF Exits
  <2>5. b = barrier \/ all
    BY <2>2, <2>3
  <2>6. through' \subseteq Task /\ count' < parties
    BY <1>3, <2>1, <2>4
  <2> QED BY <1>1, <1>2, <2>4, <2>5, <2>6, FinishesKeeps
<1> QED
  BY <1>4, <1>5

LEMMA BarNextSleeps ==
  ASSUME BarIInv, [BarNext]_barVars
  PROVE  BarSleeps'
<1>1. /\ count \in Nat /\ count < parties /\ through \subseteq Task
      /\ \A u \in Task : fut[u] = "none" <=> barPc[u] = "idle"
  BY DEF BarIInv, BarSleeps, BarCounts, BarTypes
<1>2. ASSUME NEW t \in Task, BarrierWait(t)
      PROVE  BarSleeps'
  <2>1. PICK ws : ws = barWaiters
    OBVIOUS
  <2>2. BarRest(ws, t) /\ fut[t] = "none" /\ Enters(t, ws)
    BY <1>1, <1>2, <2>1, BarRests DEF BarrierWait
  <2> QED BY <2>2, EntersSleeps
<1>3. ASSUME NEW t \in Task, BlockResumes(t)
      PROVE  BarSleeps'
  <2>1. PICK ws : ws = Others(barWaiters, t) /\ BarRest(ws, t)
    BY BarRests
  <2>2. /\ Resumes(t)
        /\ \/ Finishes(t, barrier, ws, FALSE) /\ UNCHANGED <<count, through>>
           \/ Enters(t, ws)
    BY <1>3, <2>1 DEF BlockResumes
  <2>3. CASE Finishes(t, barrier, ws, FALSE) /\ UNCHANGED <<count, through>>
    <3>1. PICK all \in BOOLEAN : all = FALSE
      OBVIOUS
    <3> QED BY <1>1, <2>1, <2>2, <2>3, <3>1, FinishesKeeps
  <2>4. CASE Enters(t, ws)
    BY <2>1, <2>2, <2>4, EntersSleeps
  <2> QED BY <2>2, <2>3, <2>4
<1>4. ASSUME NEW t \in Task, Reset(t) \/ Abort(t)
      PROVE  BarSleeps'
  <2>1. PICK b : Finishes(t, b, barWaiters, TRUE)
    BY <1>4 DEF Reset, Abort
  <2>2. barPc[t] = "idle" /\ UNCHANGED <<count, through>>
    BY <1>4 DEF Reset, Abort
  <2>3. PICK all \in BOOLEAN : all = TRUE
    OBVIOUS
  <2>4. BarRest(barWaiters, t) /\ fut[t] = "none"
    BY <1>1, <2>2, BarRests
  <2> QED BY <1>1, <2>1, <2>2, <2>3, <2>4, FinishesKeeps
<1>5. ASSUME NEW t \in Task, BarCancel(t)
      PROVE  BarSleeps'
  <2>1. /\ CancelTask(t) /\ barrier' = barrier /\ count' = count /\ barWaiters' = barWaiters
        /\ barPc' = barPc /\ through' = through
    BY <1>5 DEF BarCancel
  <2>2. TaskInv
    BY DEF BarIInv, BarSleeps
  <2>3. /\ TaskInv' /\ fut[t] # "none"
        /\ fut' = [fut EXCEPT ![t] = IF fut[t] = "pending" THEN "cancelled" ELSE fut[t]]
        /\ fut \in [Task -> {"none", "pending", "result", "cancelled"}]
    BY <2>1, <2>2, CancelKeeps, TaskInvMeans
  <2>4. \A u \in Task : /\ fut'[u] = "none" <=> fut[u] = "none"
                        /\ fut'[u] = "pending" => fut[u] = "pending"
    BY <2>3
  <2> QED BY <2>1, <2>3, <2>4 DEF BarIInv, BarSleeps
<1>6. CASE UNCHANGED barVars
  <2>1. /\ fut' = fut /\ must_cancel' = must_cancel /\ ready' = ready
        /\ barrier' = barrier /\ count' = count /\ barWaiters' = barWaiters
        /\ barPc' = barPc /\ through' = through
    BY <1>6 DEF barVars, taskVars
  <2> QED BY <2>1 DEF BarIInv, BarSleeps, TaskInv, TaskTypeOK, ScheduledOnce, Once, On
<1> QED
  BY <1>2, <1>3, <1>4, <1>5, <1>6, WaitEndsSleeps DEF BarNext

LEMMA BarInitOK ==
  BarInit => BarIInv
<1> SUFFICES ASSUME BarInit
             PROVE  BarIInv
  OBVIOUS
<1>1. /\ TaskInv /\ \A u \in Task : fut[u] = "none"
      /\ count = 0 /\ barWaiters = <<>> /\ barPc = [t \in Task |-> "idle"] /\ through = {}
  BY TaskInitOK DEF BarInit
<1>2. <<>> \in Seq(Task) /\ Once(<<>>) /\ \A u : ~On(<<>>, u)
  BY NoneOf DEF NoWake
<1>3. BarSleeps
  BY <1>1, <1>2, BarrierAssumption DEF BarSleeps
<1> QED
  BY <1>3, BarCountsInit DEF BarIInv

(* The inductive invariant holds of every reachable state of the barrier.  *)
THEOREM BarInvariance ==
  BarSpec => []BarIInv
<1>1. BarInit => BarIInv
  BY BarInitOK
<1>2. BarIInv /\ [BarNext]_barVars => BarIInv'
  BY BarCountsStep, BarNextSleeps DEF BarIInv
<1> QED
  BY <1>1, <1>2, PTL DEF BarSpec

(* The count of an asyncio.Barrier is that of the tasks in _wait however   *)
(* they leave it, one that drains or resets is not empty, and whoever      *)
(* sleeps has a reason to: it fills, or those in _block wait until it is   *)
(* empty.                                                                  *)
THEOREM BarrierIsRight ==
  BarSpec => []BarInv
<1>1. BarIInv => BarInv
  <2> SUFFICES ASSUME BarIInv
               PROVE  BarInv
    OBVIOUS
  <2>1. BarCounts /\ BarSleeps /\ TaskInv
    BY DEF BarIInv, BarSleeps
  <2>2. BarTypeOK
    <3>1. count \in 0 .. parties
      BY <2>1, BarrierAssumption DEF BarSleeps, BarCounts, BarTypes
    <3> QED BY <2>1, <3>1 DEF BarTypeOK, BarSleeps, BarCounts, BarTypes, BarStates, TaskInv
  <2>3. SleepersHaveReason
    <3>1. PICK p : p = Pending(barWaiters)
      OBVIOUS
    <3>2. /\ p \in Seq(Task)
          /\ \A u : On(p, u) => u \in Task /\ fut[u] = "pending"
      BY <2>1, <3>1, PendingOf DEF BarSleeps
    <3>3. DOMAIN p = 1 .. Len(p)
      BY <3>2, OnIsToSet
    <3>4. \A i \in DOMAIN p : \/ barPc[p[i]] = "wait" /\ barrier = "FILLING"
                              \/ barPc[p[i]] = "block" /\ barrier \in {"DRAINING", "RESETTING"}
      BY <2>1, <3>2, <3>3 DEF BarSleeps, On
    <3> QED BY <3>1, <3>4 DEF SleepersHaveReason
  <2> QED BY <2>1, <2>2, <2>3 DEF BarInv, BarCounts
<1> QED
  BY <1>1, BarInvariance, PTL

(* Nobody is let through by a barrier at which parties are missing.        *)
THEOREM Parties ==
  BarSpec => []AllPartiesCame
<1>1. BarIInv => AllPartiesCame
  BY DEF BarIInv, BarCounts
<1> QED
  BY <1>1, BarInvariance, PTL
=============================================================================
