---------------------------- MODULE LibraryProof ----------------------------
EXTENDS ThreadQueue, SimpleQueue, ThreadPool, FiniteSetTheorems, SequenceTheorems,
        WellFoundedInduction, TLAPS
(***************************************************************************)
(* Proofs about the library's tools for threads: queue.Queue, SimpleQueue  *)
(* and the thread pool of concurrent.futures, in this order.               *)
(*                                                                         *)
(* queue.Queue: QueueInv holds in every state, for any threads, maxsize    *)
(* and signals.                                                            *)
(*                                                                         *)
(* NoLostWakeUp is not inductive.  It counts every thread whose time is up *)
(* as one that is on its way, since it will see the item or the room that  *)
(* there is; but such a thread may come back to find the supply gone and   *)
(* raise, or take an item while an item more was put: what keeps the       *)
(* account is the notifications.  Enough therefore counts those threads    *)
(* that a notify hit (Hit), and of those whose time is up only the         *)
(* ones whose waiter was released.  That a notify hits somebody who waits, *)
(* and nobody twice, is what Listed says of the lists of waiters: a thread *)
(* has its waiter on one list at most, once, and nothing that was released *)
(* stays there.  An interrupted notify breaks that, and with it the        *)
(* account; broke records it.                                              *)
(***************************************************************************)

(* Every set of numbers has a least element. *)
LEMMA LeastNat ==
  ASSUME NEW T, T \subseteq Nat, T # {}
  PROVE  \E x \in T : \A y \in T : x <= y
<1>1. PICK R : /\ R = OpToRel(<, Nat)
               /\ IsWellFoundedOn(R, Nat)
               /\ \A x, y \in Nat : <<y, x>> \in R <=> y < x
  <2> DEFINE R == OpToRel(<, Nat)
  <2>1. IsWellFoundedOn(R, Nat)
    BY NatLessThanWellFounded, Zenon
  <2>2. \A x, y \in Nat : <<y, x>> \in R <=> y < x
    BY DEF OpToRel
  <2>3. R = OpToRel(<, Nat)
    BY Zenon
  <2> HIDE DEF R
  <2> QED BY <2>1, <2>2, <2>3, Zenon
<1>2. \E x \in T : \A y \in T : ~(<<y, x>> \in R)
  BY <1>1, WFMin, Zenon
<1>3. \A x, y \in Nat : <<y, x>> \in R <=> y < x
  BY <1>1, Zenon
<1>4. \A x, y \in T : ~(y < x) => x <= y
  OBVIOUS
<1> QED
  BY <1>2, <1>3, <1>4, Zenon

(***************************************************************************)
(* The list without the waiter of a thread that gives up.                  *)
(***************************************************************************)
LEMMA RemovedAt ==
  ASSUME NEW U, NEW s \in Seq(U), NEW x, NEW n \in 1 .. Len(s), s[n] = x,
         \A i \in 1 .. Len(s) : s[i] = x => i = n
  PROVE  RemoveFirst(s, x) = SubSeq(s, 1, n - 1) \o SubSeq(s, n + 1, Len(s))
<1> DEFINE I == {i \in 1 .. Len(s) : s[i] = x}
<1>1. I = {n}
  OBVIOUS
<1>2. Min(I) = n
  BY <1>1 DEF Min
<1>3. RemoveFirst(s, x) = RemoveAt(s, Min(I))
  BY <1>1 DEF RemoveFirst, SelectInSeq
<1> QED
  BY <1>2, <1>3 DEF RemoveAt

(* What is left is where it was, or one place further to the front.        *)
LEMMA Removed ==
  ASSUME NEW U, NEW s \in Seq(U), NEW x,
         \A i, j \in 1 .. Len(s) : s[i] = x /\ s[j] = x => i = j
  PROVE  LET r == RemoveFirst(s, x)
         IN  /\ r \in Seq(U)
             /\ \A i \in 1 .. Len(r) : r[i] # x /\ \E j \in 1 .. Len(s) : s[j] = r[i]
             /\ \A j \in 1 .. Len(s) : s[j] # x => \E i \in 1 .. Len(r) : r[i] = s[j]
             /\ \A T : (\A i, j \in 1 .. Len(s) : s[i] = s[j] /\ s[i] \in T => i = j) =>
                  \A i, j \in 1 .. Len(r) : r[i] = r[j] /\ r[i] \in T => i = j
<1>1. CASE \A i \in 1 .. Len(s) : s[i] # x
  <2>1. RemoveFirst(s, x) = s
    BY <1>1 DEF RemoveFirst
  <2> QED
    BY <1>1, <2>1
<1>2. ASSUME NEW n \in 1 .. Len(s), s[n] = x
      PROVE  LET r == RemoveFirst(s, x)
             IN  /\ r \in Seq(U)
                 /\ \A i \in 1 .. Len(r) : r[i] # x /\ \E j \in 1 .. Len(s) : s[j] = r[i]
                 /\ \A j \in 1 .. Len(s) : s[j] # x => \E i \in 1 .. Len(r) : r[i] = s[j]
                 /\ \A T : (\A i, j \in 1 .. Len(s) : s[i] = s[j] /\ s[i] \in T => i = j) =>
                      \A i, j \in 1 .. Len(r) : r[i] = r[j] /\ r[i] \in T => i = j
  <2> DEFINE a == SubSeq(s, 1, n - 1)
             b == SubSeq(s, n + 1, Len(s))
             r == a \o b
  <2>1. \A i \in 1 .. Len(s) : s[i] = x => i = n
    BY <1>2
  <2>2. RemoveFirst(s, x) = r
    BY <1>2, <2>1, RemovedAt
  <2>3. /\ a \in Seq(U) /\ Len(a) = n - 1 /\ \A i \in 1 .. n - 1 : a[i] = s[i]
        /\ b \in Seq(U) /\ Len(b) = Len(s) - n /\ \A i \in 1 .. Len(s) - n : b[i] = s[i + n]
    BY <1>2
  <2> HIDE DEF a, b
  <2>4. r \in Seq(U) /\ Len(r) = Len(s) - 1
    BY <1>2, <2>3
  <2>5. \A i \in 1 .. Len(r) : r[i] = IF i < n THEN s[i] ELSE s[i + 1]
    <3> SUFFICES ASSUME NEW i \in 1 .. Len(r)
                 PROVE  r[i] = IF i < n THEN s[i] ELSE s[i + 1]
      OBVIOUS
    <3>1. r[i] = IF i <= Len(a) THEN a[i] ELSE b[i - Len(a)]
      BY <1>2, <2>3, <2>4
    <3>2. CASE i < n
      BY <1>2, <2>3, <2>4, <3>1, <3>2
    <3>3. CASE ~(i < n)
      <4>1. i - (n - 1) \in 1 .. Len(s) - n /\ (i - (n - 1)) + n = i + 1
        BY <1>2, <2>4, <3>3
      <4> QED BY <1>2, <2>3, <2>4, <3>1, <3>3, <4>1
    <3> QED BY <3>2, <3>3
  <2> HIDE DEF r
  <2>6. \A i \in 1 .. Len(r) : r[i] # x /\ \E j \in 1 .. Len(s) : s[j] = r[i]
    <3> SUFFICES ASSUME NEW i \in 1 .. Len(r)
                 PROVE  r[i] # x /\ \E j \in 1 .. Len(s) : s[j] = r[i]
      OBVIOUS
    <3>1. CASE i < n
      BY <1>2, <2>1, <2>4, <2>5, <3>1
    <3>2. CASE ~(i < n)
      <4>1. i + 1 \in 1 .. Len(s) /\ i + 1 # n
        BY <1>2, <2>4, <3>2
      <4> QED BY <2>1, <2>5, <3>2, <4>1
    <3> QED BY <3>1, <3>2
  <2>7. \A j \in 1 .. Len(s) : s[j] # x => \E i \in 1 .. Len(r) : r[i] = s[j]
    <3> SUFFICES ASSUME NEW j \in 1 .. Len(s), s[j] # x
                 PROVE  \E i \in 1 .. Len(r) : r[i] = s[j]
      OBVIOUS
    <3>1. CASE j < n
      <4>1. j \in 1 .. Len(r)
        BY <1>2, <2>4, <3>1
      <4> QED BY <2>5, <3>1, <4>1
    <3>2. CASE j > n
      <4>1. j - 1 \in 1 .. Len(r) /\ ~(j - 1 < n) /\ (j - 1) + 1 = j
        BY <1>2, <2>4, <3>2
      <4> QED BY <2>5, <4>1
    <3> QED BY <1>2, <3>1, <3>2
  <2>8. ASSUME NEW T, \A i, j \in 1 .. Len(s) : s[i] = s[j] /\ s[i] \in T => i = j
        PROVE  \A i, j \in 1 .. Len(r) : r[i] = r[j] /\ r[i] \in T => i = j
    <3> SUFFICES ASSUME NEW i \in 1 .. Len(r), NEW j \in 1 .. Len(r), r[i] = r[j], r[i] \in T
                 PROVE  i = j
      OBVIOUS
    <3> DEFINE at(m) == IF m < n THEN m ELSE m + 1
    <3>1. \A m \in 1 .. Len(r) : at(m) \in 1 .. Len(s) /\ r[m] = s[at(m)]
      BY <1>2, <2>4, <2>5, SMTT(30)
    <3>2. at(i) = at(j)
      BY <2>8, <3>1
    <3> QED BY <1>2, <3>2
  <2> QED BY <2>2, <2>4, <2>6, <2>7, <2>8
<1> QED
  BY <1>1, <1>2
-----------------------------------------------------------------------------
(***************************************************************************)
(* The inductive invariant.                                                *)
(***************************************************************************)
Waiter == User \cup {Stale, Spent}

Waiting(u) == userPc[u] \in {"asleep", "late", "raising"}

(* A thread has its waiter on one list at most, that of the condition it   *)
(* waits for; and on that as long as it sleeps.  Unless a notify was       *)
(* interrupted, there is nothing else, and nothing that was released.      *)
Listed ==
  /\ \A k \in Condition : \A i \in 1 .. Len(waiters[k]) :
       waiters[k][i] \in User => Waiting(waiters[k][i]) /\ waitsFor[waiters[k][i]] = k
  /\ \A k \in Condition : \A i, j \in 1 .. Len(waiters[k]) :
       waiters[k][i] = waiters[k][j] /\ waiters[k][i] \in User => i = j
  /\ \A u \in User : userPc[u] = "asleep" /\ u \notin released =>
       \E i \in 1 .. Len(waiters[waitsFor[u]]) : waiters[waitsFor[u]][i] = u
  /\ ~broke => \A k \in Condition : \A i \in 1 .. Len(waiters[k]) :
       waiters[k][i] \in User \ released

(* An unfinished task is an item on the queue, or one that a thread got.   *)
TakenItems == {p \in User \X Nat : p[2] \in 1 .. taken[p[1]]}

Counted ==
  IsFiniteSet(TakenItems) /\ unfinished_tasks = qsize + Cardinality(TakenItems)

(* The threads that were notified.  One whose time was up counts only if   *)
(* a notify hit it.                                                        *)
Hit(k) == {u \in User : /\ waitsFor[u] = k
                             /\ \/ userPc[u] = "gotit"
                                \/ userPc[u] \in {"asleep", "late"} /\ u \in released}

Inside == {u \in User : userPc[u] # "idle"}

Enough ==
  ~Lost =>
    /\ Sleepers("not_empty") # {} => Cardinality(Hit("not_empty")) >= qsize
    /\ Sleepers("not_full") # {} => Cardinality(Hit("not_full")) >= maxsize - qsize

QueueIInv == /\ QueueTypeOK /\ Listed /\ Counted /\ IsFiniteSet(Inside) /\ Enough
        /\ JoinersHaveReason
-----------------------------------------------------------------------------
(***************************************************************************)
(* The lists as a thread finds them that is back from a wait, and as it    *)
(* leaves them.                                                            *)
(***************************************************************************)
Others(ws, t) ==
  /\ ws \in [Condition -> Seq(Waiter)]
  /\ \A k \in Condition : \A i \in 1 .. Len(ws[k]) :
       ws[k][i] \in User => ws[k][i] # t /\ Waiting(ws[k][i]) /\ waitsFor[ws[k][i]] = k
  /\ \A k \in Condition : \A i, j \in 1 .. Len(ws[k]) :
       ws[k][i] = ws[k][j] /\ ws[k][i] \in User => i = j
  /\ \A u \in User \ {t} : userPc[u] = "asleep" /\ u \notin released =>
       \E i \in 1 .. Len(ws[waitsFor[u]]) : ws[waitsFor[u]][i] = u
  /\ ~broke => \A k \in Condition : \A i \in 1 .. Len(ws[k]) : ws[k][i] \in User \ released

LEMMA OnReturn ==
  ASSUME QueueTypeOK, Listed, NEW t \in User, userPc[t] # "asleep"
  PROVE  Others(WaitersOnReturn(t), t)
<1> DEFINE ws == WaitersOnReturn(t)
<1>1. waiters \in [Condition -> Seq(Waiter)] /\ waitsFor[t] \in Condition
  BY DEF QueueTypeOK, Waiter
<1>2. CASE userPc[t] \notin {"late", "raising"}
  <2>1. ws = waiters /\ ~Waiting(t)
    BY <1>2 DEF WaitersOnReturn, Waiting
  <2> QED BY <1>1, <2>1 DEF Others, Listed
<1>3. CASE userPc[t] \in {"late", "raising"}
  <2> DEFINE c == waitsFor[t]
             s == waiters[c]
             r == RemoveFirst(s, t)
  <2>1. ws = [waiters EXCEPT ![c] = r]
    BY <1>3 DEF WaitersOnReturn, Without
  <2>2. s \in Seq(Waiter) /\ \A i, j \in 1 .. Len(s) : s[i] = t /\ s[j] = t => i = j
    BY <1>1 DEF Listed
  <2>3. /\ r \in Seq(Waiter)
        /\ \A i \in 1 .. Len(r) : r[i] # t /\ \E j \in 1 .. Len(s) : s[j] = r[i]
        /\ \A j \in 1 .. Len(s) : s[j] # t => \E i \in 1 .. Len(r) : r[i] = s[j]
        /\ \A T : (\A i, j \in 1 .. Len(s) : s[i] = s[j] /\ s[i] \in T => i = j) =>
             \A i, j \in 1 .. Len(r) : r[i] = r[j] /\ r[i] \in T => i = j
    BY <2>2, Removed
  <2> HIDE DEF r
  <2>4. \A i, j \in 1 .. Len(r) : r[i] = r[j] /\ r[i] \in User => i = j
    BY <1>1, <2>3 DEF Listed
  <2>5. ws \in [Condition -> Seq(Waiter)] /\ ws[c] = r
    BY <1>1, <2>1, <2>3
  <2>6. \A k \in Condition \ {c} : ws[k] = waiters[k]
    BY <1>1, <2>1
  <2> HIDE DEF ws
  <2>7. ASSUME NEW k \in Condition, NEW i \in 1 .. Len(ws[k])
        PROVE  /\ ws[k][i] \in User => ws[k][i] # t /\ Waiting(ws[k][i]) /\ waitsFor[ws[k][i]] = k
               /\ ~broke => ws[k][i] \in User \ released
    <3>1. CASE k # c
      <4>1. ws[k] = waiters[k]
        BY <2>6, <3>1
      <4>2. ws[k][i] # t
        BY <1>1, <2>7, <3>1, <4>1 DEF Listed
      <4> QED BY <2>7, <4>1, <4>2 DEF Listed
    <3>2. CASE k = c
      <4>1. PICK j \in 1 .. Len(s) : s[j] = ws[k][i]
        BY <2>3, <2>5, <2>7, <3>2
      <4>2. ws[k][i] # t
        BY <2>3, <2>5, <2>7, <3>2
      <4> QED BY <1>1, <3>2, <4>1, <4>2 DEF Listed
    <3> QED BY <3>1, <3>2
  <2>8. ASSUME NEW k \in Condition, NEW i \in 1 .. Len(ws[k]), NEW j \in 1 .. Len(ws[k]),
               ws[k][i] = ws[k][j], ws[k][i] \in User
        PROVE  i = j
    <3>1. CASE k = c
      BY <2>4, <2>5, <2>8, <3>1
    <3>2. CASE k # c
      <4>1. ws[k] = waiters[k]
        BY <2>6, <3>2
      <4> QED BY <2>8, <4>1 DEF Listed
    <3> QED BY <3>1, <3>2
  <2>9. ASSUME NEW u \in User \ {t}, userPc[u] = "asleep", u \notin released
        PROVE  \E i \in 1 .. Len(ws[waitsFor[u]]) : ws[waitsFor[u]][i] = u
    <3>1. waitsFor[u] \in Condition
      BY DEF QueueTypeOK
    <3>2. PICK i \in 1 .. Len(waiters[waitsFor[u]]) : waiters[waitsFor[u]][i] = u
      BY <2>9 DEF Listed
    <3>3. CASE waitsFor[u] = c
      BY <2>3, <2>5, <3>2, <3>3, SMTT(30)
    <3>4. CASE waitsFor[u] # c
      BY <2>6, <3>1, <3>2, <3>4
    <3> QED BY <3>3, <3>4
  <2>10. ws \in [Condition -> Seq(Waiter)]
    BY <2>5
  <2>11. ~broke => \A k \in Condition : \A i \in 1 .. Len(ws[k]) : ws[k][i] \in User \ released
    BY <2>7
  <2>12. \A k \in Condition : \A i \in 1 .. Len(ws[k]) :
           ws[k][i] \in User => ws[k][i] # t /\ Waiting(ws[k][i]) /\ waitsFor[ws[k][i]] = k
    BY <2>7
  <2>13. \A k \in Condition : \A i, j \in 1 .. Len(ws[k]) :
           ws[k][i] = ws[k][j] /\ ws[k][i] \in User => i = j
    BY <2>8
  <2> QED BY <2>9, <2>10, <2>11, <2>12, <2>13 DEF Others, ws
<1> QED
  BY <1>2, <1>3
-----------------------------------------------------------------------------
(* The same after a step of t, of which it does not depend where t is then.*)
AfterLists(t) ==
  /\ waiters' \in [Condition -> Seq(Waiter)] /\ released' \subseteq User
  /\ \A k \in Condition : \A i \in 1 .. Len(waiters'[k]) :
       waiters'[k][i] \in User =>
         waiters'[k][i] # t /\ Waiting(waiters'[k][i]) /\ waitsFor[waiters'[k][i]] = k
  /\ \A k \in Condition : \A i, j \in 1 .. Len(waiters'[k]) :
       waiters'[k][i] = waiters'[k][j] /\ waiters'[k][i] \in User => i = j
  /\ \A u \in User \ {t} : userPc[u] = "asleep" /\ u \notin released' =>
       \E i \in 1 .. Len(waiters'[waitsFor[u]]) : waiters'[waitsFor[u]][i] = u
  /\ ~broke' => \A k \in Condition : \A i \in 1 .. Len(waiters'[k]) :
       waiters'[k][i] \in User \ released'

(* How many waiters notify takes from the list: all of them, or one if all *)
(* can be released.                                                        *)
LEMMA NotifyTakes ==
  ASSUME QueueTypeOK, NEW t \in User, NEW ws, Others(ws, t), NEW k \in Condition,
         NEW all \in BOOLEAN, Notify(k, all, ws)
  PROVE  \E n \in 0 .. Len(ws[k]) :
           /\ waiters' = [ws EXCEPT ![k] = SubSeq(ws[k], n + 1, Len(ws[k]))]
           /\ released' = (released \cup {ws[k][i] : i \in 1 .. n}) \cap User
           /\ all => n = Len(ws[k])
           /\ ~all /\ ~broke /\ Len(ws[k]) > 0 => n = 1
<1>1. ws \in [Condition -> Seq(Waiter)] /\ ws[k] \in Seq(Waiter) /\ Len(ws[k]) \in Nat
      /\ DOMAIN ws[k] = 1 .. Len(ws[k])
  BY DEF Others
<1> DEFINE live == {i \in DOMAIN ws[k] : Releasable(ws[k][i])}
           n == IF all \/ live = {} THEN Len(ws[k])
                ELSE CHOOSE i \in live : \A j \in live : i <= j
<1>2. /\ waiters' = [ws EXCEPT ![k] = SubSeq(ws[k], n + 1, Len(ws[k]))]
      /\ released' = (released \cup {ws[k][i] : i \in 1 .. n}) \cap User
  BY <1>1 DEF Notify
<1>3. live \subseteq 1 .. Len(ws[k])
  BY <1>1
<1>4. all => n = Len(ws[k])
  OBVIOUS
<1>5. live = {} \/ all \/ (n \in live /\ \A j \in live : n <= j)
  <2>1. live \subseteq Nat
    BY <1>1, <1>3
  <2> HIDE DEF live
  <2>2. live # {} => \E i \in live : \A j \in live : i <= j
    BY <2>1, LeastNat, Zenon
  <2> QED BY <2>2
<1>6. ~all /\ ~broke /\ Len(ws[k]) > 0 => n = 1
  <2> SUFFICES ASSUME ~all, ~broke, Len(ws[k]) > 0 PROVE n = 1
    OBVIOUS
  <2>1. \A i \in 1 .. Len(ws[k]) : ws[k][i] \in User \ released
    BY DEF Others
  <2>2. 1 \in live
    BY <1>1, <2>1, ThreadQueueAssumption DEF Releasable
  <2> QED BY <1>3, <1>5, <2>2
<1> HIDE DEF n
<1>7. n \in 0 .. Len(ws[k])
  BY <1>1, <1>3, <1>4, <1>5 DEF n
<1> QED
  BY <1>2, <1>4, <1>6, <1>7

LEMMA NotifyLists ==
  ASSUME QueueTypeOK, NEW t \in User, NEW ws, Others(ws, t), NEW k \in Condition,
         NEW all \in BOOLEAN, Notify(k, all, ws), broke' = broke
  PROVE  /\ AfterLists(t) /\ released \subseteq released'
         /\ all => Sleepers(k) \subseteq released' \cup {t}
         /\ \A u \in released' \ released : waitsFor[u] = k /\ Waiting(u) /\ u # t
         /\ ~broke /\ Sleepers(k) \ {t} # {} => released' \ released # {}
<1> DEFINE s == ws[k]
<1>1. PICK n \in 0 .. Len(s) :
           /\ waiters' = [ws EXCEPT ![k] = SubSeq(s, n + 1, Len(s))]
           /\ released' = (released \cup {s[i] : i \in 1 .. n}) \cap User
           /\ all => n = Len(s)
           /\ ~all /\ ~broke /\ Len(s) > 0 => n = 1
  BY NotifyTakes
<1>2. /\ ws \in [Condition -> Seq(Waiter)] /\ s \in Seq(Waiter) /\ Len(s) \in Nat
      /\ released \subseteq User
  BY DEF Others, QueueTypeOK
<1> DEFINE r == SubSeq(s, n + 1, Len(s))
<1>3. r \in Seq(Waiter) /\ Len(r) = Len(s) - n /\ \A i \in 1 .. Len(s) - n : r[i] = s[i + n]
  BY <1>1, <1>2
<1>4. /\ waiters' \in [Condition -> Seq(Waiter)] /\ waiters'[k] = r
      /\ \A c \in Condition \ {k} : waiters'[c] = ws[c]
  BY <1>1, <1>2, <1>3
<1> HIDE DEF r
<1>5. \A i \in 1 .. Len(r) : i + n \in 1 .. Len(s) /\ i + n > n /\ r[i] = s[i + n]
  BY <1>1, <1>2, <1>3
<1>6. released \subseteq released' /\ released' \subseteq User
  BY <1>1, <1>2
<1>7. \A u \in released' \ released : \E i \in 1 .. n : i \in 1 .. Len(s) /\ u = s[i]
  <2>1. \A i \in 1 .. n : i \in 1 .. Len(s)
    BY <1>1, <1>2
  <2>2. \A u \in released' : u \in released \/ u \in {s[i] : i \in 1 .. n}
    BY <1>1, Zenon
  <2> QED BY <2>1, <2>2, Zenon
<1>8. \A u \in released' \ released : waitsFor[u] = k /\ Waiting(u) /\ u # t
  BY <1>6, <1>7 DEF Others
<1>9. \A c \in Condition : \A i \in 1 .. Len(waiters'[c]) :
        waiters'[c][i] \in User =>
          waiters'[c][i] # t /\ Waiting(waiters'[c][i]) /\ waitsFor[waiters'[c][i]] = c
  <2> TAKE c \in Condition
  <2> TAKE i \in 1 .. Len(waiters'[c])
  <2>1. CASE c = k
    BY <1>4, <1>5, <2>1 DEF Others
  <2>2. CASE c # k
    <3>1. waiters'[c] = ws[c]
      BY <1>4, <2>2
    <3> QED BY <3>1 DEF Others
  <2> QED BY <2>1, <2>2
<1>10. \A c \in Condition : \A i, j \in 1 .. Len(waiters'[c]) :
         waiters'[c][i] = waiters'[c][j] /\ waiters'[c][i] \in User => i = j
  <2> TAKE c \in Condition
  <2> TAKE i, j \in 1 .. Len(waiters'[c])
  <2>1. CASE c = k
    <3>1. i \in 1 .. Len(r) /\ j \in 1 .. Len(r) /\ waiters'[c] = r
      BY <1>4, <2>1
    <3>2. r[i] = r[j] /\ r[i] \in User => i + n = j + n
      BY <1>5, <3>1 DEF Others
    <3> QED BY <1>1, <1>2, <1>3, <3>1, <3>2, SMTT(30)
  <2>2. CASE c # k
    <3>1. waiters'[c] = ws[c]
      BY <1>4, <2>2
    <3> QED BY <3>1 DEF Others
  <2> QED BY <2>1, <2>2
<1>11. \A u \in User \ {t} : userPc[u] = "asleep" /\ u \notin released' =>
         \E i \in 1 .. Len(waiters'[waitsFor[u]]) : waiters'[waitsFor[u]][i] = u
  <2> SUFFICES ASSUME NEW u \in User \ {t}, userPc[u] = "asleep", u \notin released'
               PROVE  \E i \in 1 .. Len(waiters'[waitsFor[u]]) : waiters'[waitsFor[u]][i] = u
    OBVIOUS
  <2>1. PICK i \in 1 .. Len(ws[waitsFor[u]]) : ws[waitsFor[u]][i] = u
    BY <1>6 DEF Others
  <2>2. waitsFor[u] \in Condition
    BY DEF QueueTypeOK
  <2>3. CASE waitsFor[u] = k
    <3>1. ~(i <= n)
      BY <1>1, <2>1, <2>3
    <3>2. i - n \in 1 .. Len(r) /\ (i - n) + n = i
      BY <1>1, <1>2, <1>3, <2>1, <2>3, <3>1
    <3>3. r[i - n] = u
      BY <1>5, <2>1, <2>3, <3>2
    <3> QED BY <1>4, <2>3, <3>2, <3>3
  <2>4. CASE waitsFor[u] # k
    BY <1>4, <2>1, <2>2, <2>4
  <2> QED BY <2>3, <2>4
<1>12. ~broke => \A c \in Condition : \A i \in 1 .. Len(waiters'[c]) :
         waiters'[c][i] \in User \ released'
  <2> SUFFICES ASSUME ~broke, NEW c \in Condition, NEW i \in 1 .. Len(waiters'[c])
               PROVE  waiters'[c][i] \in User \ released'
    OBVIOUS
  <2>1. CASE c = k
    <3>1. waiters'[c][i] = s[i + n] /\ i + n \in 1 .. Len(s) /\ i + n > n
      BY <1>4, <1>5, <2>1
    <3>2. s[i + n] \in User \ released
      BY <3>1 DEF Others
    <3>3. \A j \in 1 .. n : j \in 1 .. Len(s) /\ s[j] = s[i + n] => j = i + n
      BY <3>1, <3>2 DEF Others
    <3>4. s[i + n] \notin released'
      BY <1>1, <1>2, <1>7, <3>1, <3>2, <3>3
    <3> QED BY <3>1, <3>2, <3>4
  <2>2. CASE c # k
    <3>1. waiters'[c] = ws[c]
      BY <1>4, <2>2
    <3>2. waiters'[c][i] \in User \ released /\ waitsFor[waiters'[c][i]] = c
      BY <3>1 DEF Others
    <3> QED BY <1>8, <2>2, <3>2
  <2> QED BY <2>1, <2>2
<1>13. AfterLists(t)
  BY <1>4, <1>6, <1>9, <1>10, <1>11, <1>12 DEF AfterLists
<1>14. \A u \in Sleepers(k) \ {t} : \E i \in 1 .. Len(s) : s[i] = u
  BY DEF Others, Sleepers
<1>15. all => Sleepers(k) \subseteq released' \cup {t}
  BY <1>1, <1>2, <1>14 DEF Sleepers
<1>16. ~broke /\ Sleepers(k) \ {t} # {} => released' \ released # {}
  <2> SUFFICES ASSUME ~broke, NEW u \in Sleepers(k) \ {t}
               PROVE  released' \ released # {}
    OBVIOUS
  <2>1. Len(s) > 0
    BY <1>2, <1>14
  <2>2. 1 \in 1 .. n
    BY <1>1, <1>2, <2>1
  <2>3. s[1] \in User \ released
    BY <1>1, <1>2, <2>1 DEF Others
  <2> QED BY <1>1, <2>2, <2>3
<1> QED
  BY <1>6, <1>8, <1>13, <1>15, <1>16

(* An exception in notify leaves the first waiter where it is.             *)
LEMMA InterruptedLists ==
  ASSUME QueueTypeOK, NEW t \in User, NEW ws, Others(ws, t), NEW k \in Condition,
         NotifyInterrupted(k, ws), broke'
  PROVE  AfterLists(t)
<1> DEFINE s == ws[k]
           r == [s EXCEPT ![1] = IF @ = Stale THEN Spent ELSE @]
<1>1. /\ ws \in [Condition -> Seq(Waiter)] /\ s \in Seq(Waiter) /\ Len(s) \in Nat
      /\ s # <<>> /\ released \subseteq User
  BY DEF Others, QueueTypeOK, NotifyInterrupted
<1>2. Len(s) > 0
  BY <1>1
<1>3. r \in Seq(Waiter) /\ Len(r) = Len(s)
      /\ \A i \in 1 .. Len(s) : r[i] = s[i] \/ (r[i] \notin User /\ s[i] \notin User)
  <2> DEFINE v == IF s[1] = Stale THEN Spent ELSE s[1]
  <2>1. 1 \in 1 .. Len(s) /\ s[1] \in Waiter
    BY <1>1, <1>2
  <2>2. v \in Waiter /\ (v = s[1] \/ (v \notin User /\ s[1] \notin User))
    BY <2>1, ThreadQueueAssumption DEF Waiter
  <2>3. r = [s EXCEPT ![1] = v]
    OBVIOUS
  <2> HIDE DEF v, r
  <2>4. /\ r \in Seq(Waiter) /\ Len(r) = Len(s)
        /\ \A i \in 1 .. Len(s) : r[i] = IF i = 1 THEN v ELSE s[i]
    BY <1>1, <2>1, <2>2, <2>3, ExceptSeq
  <2> QED BY <2>2, <2>4
<1>4. waiters' = [ws EXCEPT ![k] = r] /\ released' = released \cup (User \cap {Head(s)})
  BY <1>1 DEF NotifyInterrupted
<1> HIDE DEF r
<1>5. /\ waiters' \in [Condition -> Seq(Waiter)] /\ waiters'[k] = r
      /\ \A c \in Condition \ {k} : waiters'[c] = ws[c]
  BY <1>1, <1>3, <1>4
<1>6. released \subseteq released' /\ released' \subseteq User
  BY <1>1, <1>4
<1>7. \A c \in Condition : Len(waiters'[c]) = Len(ws[c]) /\ \A i \in 1 .. Len(ws[c]) :
        waiters'[c][i] = ws[c][i] \/ (waiters'[c][i] \notin User /\ ws[c][i] \notin User)
  <2> TAKE c \in Condition
  <2>1. CASE c = k
    BY <1>3, <1>5, <2>1
  <2>2. CASE c # k
    BY <1>5, <2>2
  <2> QED BY <2>1, <2>2
<1>8. \A c \in Condition : \A i \in 1 .. Len(waiters'[c]) :
        waiters'[c][i] \in User =>
          waiters'[c][i] # t /\ Waiting(waiters'[c][i]) /\ waitsFor[waiters'[c][i]] = c
  <2> SUFFICES ASSUME NEW c \in Condition, NEW i \in 1 .. Len(waiters'[c]), waiters'[c][i] \in User
               PROVE  /\ waiters'[c][i] # t /\ Waiting(waiters'[c][i])
                      /\ waitsFor[waiters'[c][i]] = c
    OBVIOUS
  <2>1. i \in 1 .. Len(ws[c]) /\ waiters'[c][i] = ws[c][i]
    BY <1>7
  <2> QED BY <2>1 DEF Others
<1>9. \A c \in Condition : \A i, j \in 1 .. Len(waiters'[c]) :
         waiters'[c][i] = waiters'[c][j] /\ waiters'[c][i] \in User => i = j
  BY <1>7 DEF Others
<1>10. \A u \in User \ {t} : userPc[u] = "asleep" /\ u \notin released' =>
         \E i \in 1 .. Len(waiters'[waitsFor[u]]) : waiters'[waitsFor[u]][i] = u
  <2> SUFFICES ASSUME NEW u \in User \ {t}, userPc[u] = "asleep", u \notin released'
               PROVE  \E i \in 1 .. Len(waiters'[waitsFor[u]]) : waiters'[waitsFor[u]][i] = u
    OBVIOUS
  <2>1. PICK i \in 1 .. Len(ws[waitsFor[u]]) : ws[waitsFor[u]][i] = u
    BY <1>6 DEF Others
  <2>2. waitsFor[u] \in Condition
    BY DEF QueueTypeOK
  <2> QED BY <1>7, <2>1, <2>2
<1> QED
  BY <1>5, <1>6, <1>8, <1>9, <1>10 DEF AfterLists

(* No notify at all.                                                       *)
LEMMA QuietLists ==
  ASSUME QueueTypeOK, NEW t \in User, Others(waiters', t), released' = released \ {t},
         broke => broke'
  PROVE  AfterLists(t)
<1>1. waiters' \in [Condition -> Seq(Waiter)] /\ released' \subseteq User
  BY DEF Others, QueueTypeOK
<1>2. \A u \in User \ {t} : userPc[u] = "asleep" /\ u \notin released' =>
         \E i \in 1 .. Len(waiters'[waitsFor[u]]) : waiters'[waitsFor[u]][i] = u
  BY DEF Others
<1>3. ~broke' => \A k \in Condition : \A i \in 1 .. Len(waiters'[k]) :
         waiters'[k][i] \in User \ released'
  BY DEF Others
<1> QED
  BY <1>1, <1>2, <1>3 DEF AfterLists, Others
-----------------------------------------------------------------------------
(***************************************************************************)
(* Counting.                                                               *)
(***************************************************************************)
LEMMA Fewer ==
  ASSUME NEW A, NEW B, IsFiniteSet(A), IsFiniteSet(B), NEW t, A \ {t} \subseteq B
  PROVE  /\ Cardinality(A) \in Nat /\ Cardinality(B) \in Nat
         /\ Cardinality(A) <= Cardinality(B) + 1
         /\ t \notin A => Cardinality(A) <= Cardinality(B)
         /\ t \notin A /\ B \ A # {} => Cardinality(A) + 1 <= Cardinality(B)
<1>1. Cardinality(A) \in Nat /\ Cardinality(B) \in Nat
  BY FS_CardinalityType
<1>2. IsFiniteSet(A \ {t}) /\ Cardinality(A \ {t}) <= Cardinality(B)
  BY FS_Subset
<1>3. Cardinality(A \ {t}) \in Nat
  BY <1>2, FS_CardinalityType
<1>4. Cardinality(A \ {t}) = IF t \in A THEN Cardinality(A) - 1 ELSE Cardinality(A)
  BY FS_RemoveElement
<1>5. ASSUME t \notin A, NEW h \in B \ A
      PROVE  Cardinality(A) + 1 <= Cardinality(B)
  <2>1. IsFiniteSet(A \cup {h}) /\ Cardinality(A \cup {h}) = Cardinality(A) + 1
    BY <1>5, FS_AddElement
  <2>2. A \cup {h} \subseteq B
    BY <1>5
  <2> QED BY <2>1, <2>2, FS_Subset
<1> QED
  BY <1>1, <1>2, <1>3, <1>4, <1>5

LEMMA NotifiedFinite ==
  ASSUME IsFiniteSet(Inside)
  PROVE  \A k \in Condition : IsFiniteSet(Hit(k))
<1>1. \A k \in Condition : Hit(k) \subseteq Inside
  BY DEF Hit, Inside
<1> QED
  BY <1>1, FS_Subset

(* Those that are notified are on their way.                               *)
LEMMA NotifiedCome ==
  ASSUME IsFiniteSet(Inside), NEW k \in Condition
  PROVE  /\ Cardinality(Hit(k)) \in Nat /\ Cardinality(Coming(k)) \in Nat
         /\ Cardinality(Hit(k)) <= Cardinality(Coming(k))
<1>1. Hit(k) \subseteq Coming(k) /\ Coming(k) \subseteq Inside
  BY DEF Hit, Coming, Inside
<1>2. IsFiniteSet(Coming(k))
  BY <1>1, FS_Subset
<1> QED
  BY <1>1, <1>2, NotifiedFinite, FS_Subset, FS_CardinalityType
-----------------------------------------------------------------------------
(***************************************************************************)
(* The steps.                                                              *)
(***************************************************************************)
(* A step after which t is in no call, and nobody else has moved.          *)
IsIdle(t) ==
  /\ userPc' = [userPc EXCEPT ![t] = "idle"]
  /\ waitsFor' \in [User -> Condition] /\ \A u \in User \ {t} : waitsFor'[u] = waitsFor[u]
  /\ hasTimeout' \in [User -> BOOLEAN]

LEMMA LeavesIdle ==
  ASSUME QueueTypeOK, NEW t \in User, Leaves(t)
  PROVE  IsIdle(t)
<1>1. /\ userPc' = [userPc EXCEPT ![t] = "idle"]
      /\ waitsFor' = [waitsFor EXCEPT ![t] = "not_full"]
      /\ hasTimeout' = [hasTimeout EXCEPT ![t] = FALSE]
  BY DEF Leaves
<1>2. waitsFor \in [User -> Condition] /\ hasTimeout \in [User -> BOOLEAN]
  BY DEF QueueTypeOK
<1>3. waitsFor' \in [User -> Condition]
  BY <1>1, <1>2 DEF Condition
<1>4. \A u \in User \ {t} : waitsFor'[u] = waitsFor[u]
  BY <1>1, <1>2
<1>5. hasTimeout' \in [User -> BOOLEAN]
  BY <1>1, <1>2
<1> QED
  BY <1>1, <1>3, <1>4, <1>5 DEF IsIdle

LEMMA IdleKeeps ==
  ASSUME QueueIInv, NEW t \in User, AfterLists(t), IsIdle(t), released \ {t} \subseteq released',
         broke' \in BOOLEAN,
         broke \/ (userPc[t] = "raising" /\ t \in released) => broke'
  PROVE  /\ waiters' \in [Condition -> Seq(Waiter)] /\ released' \subseteq User
         /\ userPc' \in [User -> {"idle", "asleep", "gotit", "late", "raising"}]
         /\ waitsFor' \in [User -> Condition] /\ hasTimeout' \in [User -> BOOLEAN]
         /\ Listed' /\ IsFiniteSet(Inside')
         /\ Lost => Lost'
         /\ \A k \in Condition :
              /\ Sleepers(k)' \subseteq Sleepers(k) \ {t}
              /\ Hit(k) \ {t} \subseteq Hit(k)'
              /\ IsFiniteSet(Hit(k)) /\ IsFiniteSet(Hit(k)')
<1>1. /\ userPc \in [User -> {"idle", "asleep", "gotit", "late", "raising"}]
      /\ userPc' = [userPc EXCEPT ![t] = "idle"] /\ released \subseteq User
      /\ \A u \in User \ {t} : waitsFor'[u] = waitsFor[u]
      /\ waitsFor' \in [User -> Condition] /\ hasTimeout' \in [User -> BOOLEAN]
  BY DEF QueueIInv, QueueTypeOK, IsIdle
<1>2. userPc' \in [User -> {"idle", "asleep", "gotit", "late", "raising"}]
  BY <1>1
<1>3. userPc'[t] = "idle" /\ \A u \in User \ {t} : userPc'[u] = userPc[u]
  BY <1>1
<1>4. waiters' \in [Condition -> Seq(Waiter)] /\ released' \subseteq User
  BY DEF AfterLists
<1>5. \A k \in Condition : \A i \in 1 .. Len(waiters'[k]) :
        waiters'[k][i] \in User =>
          /\ userPc'[waiters'[k][i]] \in {"asleep", "late", "raising"}
          /\ waitsFor'[waiters'[k][i]] = k
  <2> SUFFICES ASSUME NEW k \in Condition, NEW i \in 1 .. Len(waiters'[k]), waiters'[k][i] \in User
               PROVE  /\ userPc'[waiters'[k][i]] \in {"asleep", "late", "raising"}
                      /\ waitsFor'[waiters'[k][i]] = k
    OBVIOUS
  <2>1. PICK u \in User : u = waiters'[k][i]
    OBVIOUS
  <2>2. u # t /\ Waiting(u) /\ waitsFor[u] = k
    BY <2>1 DEF AfterLists
  <2> QED BY <1>1, <1>3, <2>1, <2>2 DEF Waiting
<1>6. \A u \in User : userPc'[u] = "asleep" /\ u \notin released' =>
        \E i \in 1 .. Len(waiters'[waitsFor'[u]]) : waiters'[waitsFor'[u]][i] = u
  <2> SUFFICES ASSUME NEW u \in User, userPc'[u] = "asleep", u \notin released'
               PROVE  \E i \in 1 .. Len(waiters'[waitsFor'[u]]) : waiters'[waitsFor'[u]][i] = u
    OBVIOUS
  <2>1. u # t /\ userPc[u] = "asleep" /\ waitsFor'[u] = waitsFor[u]
    BY <1>1, <1>3
  <2> QED BY <2>1 DEF AfterLists
<1>7. Listed'
  BY <1>5, <1>6 DEF Listed, AfterLists, Waiting
<1>8. IsFiniteSet(Inside')
  <2>1. Inside' \subseteq Inside
    BY <1>3 DEF Inside
  <2> QED BY <2>1, FS_Subset DEF QueueIInv
<1>9. Lost => Lost'
  BY <1>1, <1>3 DEF Lost
<1>10. \A k \in Condition : Sleepers(k)' \subseteq Sleepers(k) \ {t}
  BY <1>1, <1>3, <1>4 DEF Sleepers
<1>11. \A k \in Condition : Hit(k) \ {t} \subseteq Hit(k)'
  BY <1>1, <1>3, <1>4 DEF Hit
<1>12. \A k \in Condition : IsFiniteSet(Hit(k)) /\ IsFiniteSet(Hit(k)')
  <2>1. \A k \in Condition : Hit(k)' \subseteq Inside'
    BY <1>1, <1>3, <1>4 DEF Hit, Inside
  <2> QED BY <1>8, <2>1, NotifiedFinite, FS_Subset DEF QueueIInv
<1> QED
  BY <1>1, <1>2, <1>4, <1>7, <1>8, <1>9, <1>10, <1>11, <1>12

(* What of the queue itself the steps of one call leave alone.             *)
LEMMA CountedKept ==
  ASSUME Counted, UNCHANGED <<qsize, unfinished_tasks, taken>>
  PROVE  Counted'
  BY DEF Counted, TakenItems

(* The end of a call that changes nothing but the lists.                   *)
LEMMA QuietEnds ==
  ASSUME QueueIInv, NEW t \in User, userPc[t] # "asleep", Leaves(t),
         waiters' = WaitersOnReturn(t), released' = released \ {t}, broke' \in BOOLEAN,
         broke \/ (userPc[t] = "raising" /\ t \in released) => broke',
         UNCHANGED <<qsize, unfinished_tasks, taken, putCount>>,
         ~Lost' => /\ t \in Hit("not_empty") => qsize = 0
                   /\ t \in Hit("not_full") => qsize >= maxsize
  PROVE  QueueIInv'
<1>1. Others(WaitersOnReturn(t), t)
  BY OnReturn DEF QueueIInv
<1>2. AfterLists(t)
  BY <1>1, QuietLists DEF QueueIInv
<1>3. IsIdle(t)
  BY LeavesIdle DEF QueueIInv
<1>4. /\ waiters' \in [Condition -> Seq(Waiter)] /\ released' \subseteq User
      /\ userPc' \in [User -> {"idle", "asleep", "gotit", "late", "raising"}]
      /\ waitsFor' \in [User -> Condition] /\ hasTimeout' \in [User -> BOOLEAN]
      /\ Listed' /\ IsFiniteSet(Inside')
      /\ Lost => Lost'
      /\ \A k \in Condition :
           /\ Sleepers(k)' \subseteq Sleepers(k) \ {t}
           /\ Hit(k) \ {t} \subseteq Hit(k)'
           /\ IsFiniteSet(Hit(k)) /\ IsFiniteSet(Hit(k)')
  BY <1>2, <1>3, IdleKeeps
<1>5. QueueTypeOK'
  BY <1>4 DEF QueueIInv, QueueTypeOK, Waiter
<1>6. Counted'
  BY CountedKept DEF QueueIInv
<1>7. {"not_empty", "not_full", "all_tasks_done"} \subseteq Condition
  BY DEF Condition
<1>8. qsize \in Nat /\ maxsize \in Nat /\ qsize' = qsize
  BY ThreadQueueAssumption DEF QueueIInv, QueueTypeOK
<1>9. Enough'
  <2> SUFFICES ASSUME ~Lost'
               PROVE  /\ Sleepers("not_empty")' # {} => Cardinality(Hit("not_empty")') >= qsize
                      /\ Sleepers("not_full")' # {} =>
                           Cardinality(Hit("not_full")') >= maxsize - qsize
    BY <1>8 DEF Enough
  <2>1. ~Lost
    BY <1>4
  <2>2. /\ Sleepers("not_empty")' # {} => Cardinality(Hit("not_empty")) >= qsize
        /\ Sleepers("not_full")' # {} => Cardinality(Hit("not_full")) >= maxsize - qsize
    BY <1>4, <1>7, <2>1 DEF QueueIInv, Enough
  <2>3. /\ Cardinality(Hit("not_empty")) \in Nat /\ Cardinality(Hit("not_empty")') \in Nat
        /\ t \notin Hit("not_empty") =>
             Cardinality(Hit("not_empty")) <= Cardinality(Hit("not_empty")')
    BY <1>4, <1>7, Fewer
  <2>4. /\ Cardinality(Hit("not_full")) \in Nat /\ Cardinality(Hit("not_full")') \in Nat
        /\ t \notin Hit("not_full") =>
             Cardinality(Hit("not_full")) <= Cardinality(Hit("not_full")')
    BY <1>4, <1>7, Fewer
  <2> QED BY <1>8, <2>2, <2>3, <2>4
<1>10. JoinersHaveReason'
  BY <1>4, <1>7 DEF QueueIInv, JoinersHaveReason
<1> QED
  BY <1>4, <1>5, <1>6, <1>9, <1>10 DEF QueueIInv

(* The end of a call that was notified or need not wait, with a notify of  *)
(* other: it has used up one of mine, and added one for the others.        *)
LEMMA SimpleCallEnds ==
  ASSUME QueueIInv, NEW t \in User, NEW mine \in Condition, NEW other \in Condition, mine # other,
         AtLoop(t, mine), Leaves(t),
         \/ Notify(other, FALSE, WaitersOnReturn(t)) /\ UNCHANGED broke
         \/ NotifyInterrupted(other, WaitersOnReturn(t)) /\ broke' = TRUE
  PROVE  /\ waiters' \in [Condition -> Seq(Waiter)] /\ released' \subseteq User
         /\ userPc' \in [User -> {"idle", "asleep", "gotit", "late", "raising"}]
         /\ waitsFor' \in [User -> Condition] /\ hasTimeout' \in [User -> BOOLEAN]
         /\ broke' \in BOOLEAN
         /\ Listed' /\ IsFiniteSet(Inside')
         /\ Lost => Lost'
         /\ \A k \in Condition :
              /\ Sleepers(k)' \subseteq Sleepers(k)
              /\ Cardinality(Hit(k)) \in Nat /\ Cardinality(Hit(k)') \in Nat
         /\ Cardinality(Hit(mine)) <= Cardinality(Hit(mine)') + 1
         /\ ~Lost' /\ Sleepers(other)' # {} =>
              Cardinality(Hit(other)) + 1 <= Cardinality(Hit(other)')
<1> DEFINE ws == WaitersOnReturn(t)
<1>1. userPc[t] \in {"idle", "gotit", "late"} /\ (userPc[t] # "idle" => waitsFor[t] = mine)
  BY DEF AtLoop
<1>2. Others(ws, t)
  BY <1>1, OnReturn DEF QueueIInv
<1>3. QueueTypeOK /\ broke \in BOOLEAN /\ IsIdle(t)
  BY LeavesIdle DEF QueueIInv, QueueTypeOK
<1>4. CASE NotifyInterrupted(other, ws) /\ broke' = TRUE
  <2>1. AfterLists(t)
    BY <1>2, <1>3, <1>4, InterruptedLists
  <2>2. released \ {t} \subseteq released'
    BY <1>4 DEF NotifyInterrupted
  <2>3. /\ waiters' \in [Condition -> Seq(Waiter)] /\ released' \subseteq User
        /\ userPc' \in [User -> {"idle", "asleep", "gotit", "late", "raising"}]
        /\ waitsFor' \in [User -> Condition] /\ hasTimeout' \in [User -> BOOLEAN]
        /\ Listed' /\ IsFiniteSet(Inside')
        /\ Lost => Lost'
        /\ \A k \in Condition :
             /\ Sleepers(k)' \subseteq Sleepers(k) \ {t}
             /\ Hit(k) \ {t} \subseteq Hit(k)'
             /\ IsFiniteSet(Hit(k)) /\ IsFiniteSet(Hit(k)')
    BY <1>3, <1>4, <2>1, <2>2, IdleKeeps
  <2>4. Lost'
    BY <1>4 DEF Lost
  <2>5. Cardinality(Hit(mine)) <= Cardinality(Hit(mine)') + 1
    BY <2>3, Fewer
  <2>6. \A k \in Condition : Cardinality(Hit(k)) \in Nat /\ Cardinality(Hit(k)') \in Nat
    BY <2>3, FS_CardinalityType
  <2> QED BY <1>4, <2>3, <2>4, <2>5, <2>6
<1>5. CASE Notify(other, FALSE, ws) /\ UNCHANGED broke
  <2>1. /\ AfterLists(t) /\ released \subseteq released'
        /\ \A u \in released' \ released : waitsFor[u] = other /\ Waiting(u) /\ u # t
        /\ ~broke /\ Sleepers(other) \ {t} # {} => released' \ released # {}
    BY <1>2, <1>3, <1>5, NotifyLists
  <2>2. /\ waiters' \in [Condition -> Seq(Waiter)] /\ released' \subseteq User
        /\ userPc' \in [User -> {"idle", "asleep", "gotit", "late", "raising"}]
        /\ waitsFor' \in [User -> Condition] /\ hasTimeout' \in [User -> BOOLEAN]
        /\ Listed' /\ IsFiniteSet(Inside')
        /\ Lost => Lost'
        /\ \A k \in Condition :
             /\ Sleepers(k)' \subseteq Sleepers(k) \ {t}
             /\ Hit(k) \ {t} \subseteq Hit(k)'
             /\ IsFiniteSet(Hit(k)) /\ IsFiniteSet(Hit(k)')
    BY <1>1, <1>3, <1>5, <2>1, IdleKeeps
  <2>3. Cardinality(Hit(mine)) <= Cardinality(Hit(mine)') + 1
    BY <2>2, Fewer
  <2>4. \A k \in Condition : Cardinality(Hit(k)) \in Nat /\ Cardinality(Hit(k)') \in Nat
    BY <2>2, FS_CardinalityType
  <2>5. ASSUME ~Lost', Sleepers(other)' # {}
        PROVE  Cardinality(Hit(other)) + 1 <= Cardinality(Hit(other)')
    <3>1. PICK u \in released' \ released : waitsFor[u] = other /\ Waiting(u) /\ u # t
      BY <1>5, <2>1, <2>2, <2>5 DEF Lost
    <3>2. u \in User /\ userPc'[u] = userPc[u] /\ waitsFor'[u] = other
      BY <1>3, <2>2, <3>1 DEF IsIdle, QueueTypeOK
    <3>3. userPc[u] \in {"asleep", "late"}
      BY <2>5, <3>1, <3>2 DEF Lost, Waiting
    <3>4. u \in Hit(other)' /\ u \notin Hit(other)
      BY <3>1, <3>2, <3>3 DEF Hit
    <3>5. t \notin Hit(other)
      BY <1>1 DEF Hit
    <3> QED BY <2>2, <3>4, <3>5, Fewer
  <2> QED BY <1>3, <1>5, <2>2, <2>3, <2>4, <2>5
<1> QED
  BY <1>4, <1>5

LEMMA PutKeeps ==
  ASSUME QueueIInv, NEW t \in User, Put(t)
  PROVE  QueueIInv'
<1>1. /\ AtLoop(t, "not_full") /\ ~(qsize >= maxsize) /\ Leaves(t)
      /\ putCount' = putCount + 1 /\ qsize' = qsize + 1
      /\ unfinished_tasks' = unfinished_tasks + 1 /\ taken' = taken
      /\ \/ Notify("not_empty", FALSE, WaitersOnReturn(t)) /\ UNCHANGED broke
         \/ NotifyInterrupted("not_empty", WaitersOnReturn(t)) /\ broke' = TRUE
  BY DEF Put, HasNoRoom
<1>2. {"not_empty", "not_full", "all_tasks_done"} \subseteq Condition
  BY DEF Condition
<1>3. /\ waiters' \in [Condition -> Seq(Waiter)] /\ released' \subseteq User
      /\ userPc' \in [User -> {"idle", "asleep", "gotit", "late", "raising"}]
      /\ waitsFor' \in [User -> Condition] /\ hasTimeout' \in [User -> BOOLEAN]
      /\ broke' \in BOOLEAN
      /\ Listed' /\ IsFiniteSet(Inside')
      /\ Lost => Lost'
      /\ \A k \in Condition :
           /\ Sleepers(k)' \subseteq Sleepers(k)
           /\ Cardinality(Hit(k)) \in Nat /\ Cardinality(Hit(k)') \in Nat
      /\ Cardinality(Hit("not_full")) <= Cardinality(Hit("not_full")') + 1
      /\ ~Lost' /\ Sleepers("not_empty")' # {} =>
           Cardinality(Hit("not_empty")) + 1 <= Cardinality(Hit("not_empty")')
  BY <1>1, <1>2, SimpleCallEnds
<1>4. /\ qsize \in 0 .. maxsize /\ maxsize \in Nat /\ unfinished_tasks \in Nat /\ putCount \in Nat
      /\ taken \in [User -> Nat]
  BY ThreadQueueAssumption DEF QueueIInv, QueueTypeOK
<1>5. QueueTypeOK'
  BY <1>1, <1>3, <1>4 DEF QueueTypeOK, Waiter
<1>6. Counted'
  <2>1. TakenItems' = TakenItems /\ Cardinality(TakenItems) \in Nat
    BY <1>1, FS_CardinalityType DEF TakenItems, QueueIInv, Counted
  <2> QED BY <1>1, <1>4, <2>1 DEF QueueIInv, Counted
<1>7. Enough'
  <2> SUFFICES ASSUME ~Lost'
               PROVE  /\ Sleepers("not_empty")' # {} => Cardinality(Hit("not_empty")') >= qsize'
                      /\ Sleepers("not_full")' # {} =>
                           Cardinality(Hit("not_full")') >= maxsize - qsize'
    BY DEF Enough
  <2>1. /\ Sleepers("not_empty")' # {} => Cardinality(Hit("not_empty")) >= qsize
        /\ Sleepers("not_full")' # {} => Cardinality(Hit("not_full")) >= maxsize - qsize
    BY <1>2, <1>3 DEF QueueIInv, Enough
  <2>2. /\ Cardinality(Hit("not_empty")) \in Nat /\ Cardinality(Hit("not_empty")') \in Nat
        /\ Cardinality(Hit("not_full")) \in Nat /\ Cardinality(Hit("not_full")') \in Nat
    BY <1>2, <1>3
  <2>3. /\ Cardinality(Hit("not_full")) <= Cardinality(Hit("not_full")') + 1
        /\ Sleepers("not_empty")' # {} =>
             Cardinality(Hit("not_empty")) + 1 <= Cardinality(Hit("not_empty")')
    BY <1>3
  <2> QED BY <1>1, <1>4, <2>1, <2>2, <2>3
<1>8. JoinersHaveReason'
  BY <1>1, <1>4 DEF JoinersHaveReason
<1> QED
  BY <1>3, <1>5, <1>6, <1>7, <1>8 DEF QueueIInv

LEMMA GetItemKeeps ==
  ASSUME QueueIInv, NEW t \in User, GetItem(t)
  PROVE  QueueIInv'
<1>1. /\ AtLoop(t, "not_empty") /\ qsize > 0 /\ Leaves(t)
      /\ qsize' = qsize - 1 /\ taken' = [taken EXCEPT ![t] = @ + 1]
      /\ unfinished_tasks' = unfinished_tasks /\ putCount' = putCount
      /\ \/ Notify("not_full", FALSE, WaitersOnReturn(t)) /\ UNCHANGED broke
         \/ NotifyInterrupted("not_full", WaitersOnReturn(t)) /\ broke' = TRUE
  BY DEF GetItem
<1>2. {"not_empty", "not_full", "all_tasks_done"} \subseteq Condition
  BY DEF Condition
<1>3. /\ waiters' \in [Condition -> Seq(Waiter)] /\ released' \subseteq User
      /\ userPc' \in [User -> {"idle", "asleep", "gotit", "late", "raising"}]
      /\ waitsFor' \in [User -> Condition] /\ hasTimeout' \in [User -> BOOLEAN]
      /\ broke' \in BOOLEAN
      /\ Listed' /\ IsFiniteSet(Inside')
      /\ Lost => Lost'
      /\ \A k \in Condition :
           /\ Sleepers(k)' \subseteq Sleepers(k)
           /\ Cardinality(Hit(k)) \in Nat /\ Cardinality(Hit(k)') \in Nat
      /\ Cardinality(Hit("not_empty")) <= Cardinality(Hit("not_empty")') + 1
      /\ ~Lost' /\ Sleepers("not_full")' # {} =>
           Cardinality(Hit("not_full")) + 1 <= Cardinality(Hit("not_full")')
  BY <1>1, <1>2, SimpleCallEnds
<1>4. /\ qsize \in 0 .. maxsize /\ maxsize \in Nat /\ unfinished_tasks \in Nat /\ putCount \in Nat
      /\ taken \in [User -> Nat]
  BY ThreadQueueAssumption DEF QueueIInv, QueueTypeOK
<1>5. QueueTypeOK'
  <2>1. taken' \in [User -> Nat]
    BY <1>1, <1>4
  <2>2. qsize' \in 0 .. maxsize
    BY <1>1, <1>4
  <2> QED BY <1>1, <1>3, <1>4, <2>1, <2>2 DEF QueueTypeOK, Waiter
<1>6. Counted'
  <2> DEFINE new == <<t, taken[t] + 1>>
  <2>1. \A u \in User : taken'[u] = IF u = t THEN taken[u] + 1 ELSE taken[u]
    BY <1>1, <1>4
  <2>2. TakenItems' = TakenItems \cup {new} /\ new \notin TakenItems
    BY <1>4, <2>1 DEF TakenItems
  <2>3. IsFiniteSet(TakenItems) /\ Cardinality(TakenItems) \in Nat
    BY FS_CardinalityType DEF QueueIInv, Counted
  <2>4. IsFiniteSet(TakenItems') /\ Cardinality(TakenItems') = Cardinality(TakenItems) + 1
    BY <2>2, <2>3, FS_AddElement
  <2> QED BY <1>1, <1>4, <2>3, <2>4 DEF QueueIInv, Counted
<1>7. Enough'
  <2> SUFFICES ASSUME ~Lost'
               PROVE  /\ Sleepers("not_empty")' # {} => Cardinality(Hit("not_empty")') >= qsize'
                      /\ Sleepers("not_full")' # {} =>
                           Cardinality(Hit("not_full")') >= maxsize - qsize'
    BY DEF Enough
  <2>1. /\ Sleepers("not_empty")' # {} => Cardinality(Hit("not_empty")) >= qsize
        /\ Sleepers("not_full")' # {} => Cardinality(Hit("not_full")) >= maxsize - qsize
    BY <1>2, <1>3 DEF QueueIInv, Enough
  <2>2. /\ Cardinality(Hit("not_empty")) \in Nat /\ Cardinality(Hit("not_empty")') \in Nat
        /\ Cardinality(Hit("not_full")) \in Nat /\ Cardinality(Hit("not_full")') \in Nat
    BY <1>2, <1>3
  <2>3. /\ Cardinality(Hit("not_empty")) <= Cardinality(Hit("not_empty")') + 1
        /\ Sleepers("not_full")' # {} =>
             Cardinality(Hit("not_full")) + 1 <= Cardinality(Hit("not_full")')
    BY <1>3
  <2> QED BY <1>1, <1>4, <2>1, <2>2, <2>3
<1>8. JoinersHaveReason'
  BY <1>1, <1>2, <1>3 DEF QueueIInv, JoinersHaveReason
<1> QED
  BY <1>3, <1>5, <1>6, <1>7, <1>8 DEF QueueIInv

(* Full and Empty are raised only when there is no room, or no item.       *)
LEMMA RaisesKeeps ==
  ASSUME QueueIInv, NEW t \in User, NEW k \in Condition, AtLoop(t, k), RaisesFullOrEmpty(t),
         k = "not_empty" => qsize = 0, k = "not_full" => qsize >= maxsize
  PROVE  QueueIInv'
<1>1. /\ Leaves(t) /\ waiters' = WaitersOnReturn(t) /\ released' = released \ {t}
      /\ UNCHANGED <<qsize, unfinished_tasks, taken, putCount>> /\ broke' = broke
      /\ broke' \in BOOLEAN
  BY DEF RaisesFullOrEmpty, QueueIInv, QueueTypeOK
<1>2. userPc[t] \in {"idle", "gotit", "late"} /\ (userPc[t] # "idle" => waitsFor[t] = k)
  BY DEF AtLoop
<1>3. /\ t \in Hit("not_empty") => qsize = 0
      /\ t \in Hit("not_full") => qsize >= maxsize
  BY <1>2 DEF Hit
<1> QED
  BY <1>1, <1>2, <1>3, QuietEnds

LEMMA JoinReturnsKeeps ==
  ASSUME QueueIInv, NEW t \in User, JoinReturns(t)
  PROVE  QueueIInv'
<1>1. /\ Leaves(t) /\ waiters' = WaitersOnReturn(t) /\ released' = released \ {t}
      /\ UNCHANGED <<qsize, unfinished_tasks, taken, putCount>> /\ broke' = broke
      /\ broke' \in BOOLEAN /\ userPc[t] = "gotit" /\ waitsFor[t] = "all_tasks_done"
  BY DEF JoinReturns, QueueIInv, QueueTypeOK
<1>2. t \notin Hit("not_empty") /\ t \notin Hit("not_full")
  BY <1>1 DEF Hit
<1> QED
  BY <1>1, <1>2, QuietEnds

LEMMA RaisesOutKeeps ==
  ASSUME QueueIInv, NEW t \in User, RaisesOut(t)
  PROVE  QueueIInv'
<1>1. /\ Leaves(t) /\ waiters' = WaitersOnReturn(t) /\ released' = released \ {t}
      /\ UNCHANGED <<qsize, unfinished_tasks, taken, putCount>>
      /\ broke' = (broke \/ t \in released) /\ userPc[t] = "raising"
  BY DEF RaisesOut
<1>2. t \notin Hit("not_empty") /\ t \notin Hit("not_full")
  BY <1>1 DEF Hit
<1>3. broke' \in BOOLEAN /\ (broke \/ (userPc[t] = "raising" /\ t \in released) => broke')
  BY <1>1 DEF QueueIInv, QueueTypeOK
<1> QED
  BY <1>1, <1>2, <1>3, QuietEnds

LEMMA TaskDoneKeeps ==
  ASSUME QueueIInv, NEW t \in User, TaskDone(t)
  PROVE  QueueIInv'
<1>1. /\ userPc[t] = "idle" /\ taken[t] > 0 /\ taken' = [taken EXCEPT ![t] = @ - 1]
      /\ unfinished_tasks' = unfinished_tasks - 1
      /\ IF unfinished_tasks = 1 THEN Notify("all_tasks_done", TRUE, waiters)
                                 ELSE UNCHANGED <<waiters, released>>
      /\ UNCHANGED <<qsize, putCount, userPc, waitsFor, hasTimeout, broke>>
  BY DEF TaskDone
<1>2. {"not_empty", "not_full", "all_tasks_done"} \subseteq Condition
  BY DEF Condition
<1>3. /\ QueueTypeOK /\ broke \in BOOLEAN
      /\ qsize \in 0 .. maxsize /\ maxsize \in Nat /\ unfinished_tasks \in Nat /\ putCount \in Nat
      /\ taken \in [User -> Nat]
  BY ThreadQueueAssumption DEF QueueIInv, QueueTypeOK
<1>4. Others(waiters, t)
  BY <1>1, OnReturn DEF QueueIInv, WaitersOnReturn
<1>5. IsIdle(t)
  BY <1>1 DEF QueueIInv, QueueTypeOK, IsIdle
<1>6. /\ AfterLists(t) /\ released \subseteq released'
      /\ unfinished_tasks = 1 => Sleepers("all_tasks_done") \subseteq released' \cup {t}
  <2>1. CASE unfinished_tasks = 1
    <3>1. Notify("all_tasks_done", TRUE, waiters) /\ broke' = broke
      BY <1>1, <2>1
    <3>2. PICK all \in BOOLEAN : all = TRUE
      OBVIOUS
    <3>3. /\ AfterLists(t) /\ released \subseteq released'
          /\ all => Sleepers("all_tasks_done") \subseteq released' \cup {t}
      BY <1>2, <1>3, <1>4, <3>1, <3>2, NotifyLists
    <3> QED BY <3>2, <3>3
  <2>2. CASE unfinished_tasks # 1
    <3>1. waiters' = waiters /\ released' = released /\ broke' = broke
      BY <1>1, <2>2
    <3>2. AfterLists(t)
      BY <1>3, <1>4, <3>1 DEF AfterLists, Others, QueueTypeOK
    <3> QED BY <2>2, <3>1, <3>2
  <2> QED BY <2>1, <2>2
<1>7. /\ waiters' \in [Condition -> Seq(Waiter)] /\ released' \subseteq User
      /\ userPc' \in [User -> {"idle", "asleep", "gotit", "late", "raising"}]
      /\ waitsFor' \in [User -> Condition] /\ hasTimeout' \in [User -> BOOLEAN]
      /\ Listed' /\ IsFiniteSet(Inside')
      /\ Lost => Lost'
      /\ \A k \in Condition :
           /\ Sleepers(k)' \subseteq Sleepers(k) \ {t}
           /\ Hit(k) \ {t} \subseteq Hit(k)'
           /\ IsFiniteSet(Hit(k)) /\ IsFiniteSet(Hit(k)')
  BY <1>1, <1>3, <1>5, <1>6, IdleKeeps
<1>8. Counted' /\ unfinished_tasks > 0
  <2> DEFINE old == <<t, taken[t]>>
  <2>1. \A u \in User : taken'[u] = IF u = t THEN taken[u] - 1 ELSE taken[u]
    BY <1>1, <1>3
  <2>2. TakenItems' = TakenItems \ {old} /\ old \in TakenItems
    BY <1>1, <1>3, <2>1 DEF TakenItems
  <2>3. IsFiniteSet(TakenItems) /\ Cardinality(TakenItems) \in Nat
    BY FS_CardinalityType DEF QueueIInv, Counted
  <2>4. IsFiniteSet(TakenItems') /\ Cardinality(TakenItems') = Cardinality(TakenItems) - 1
    BY <2>2, <2>3, FS_RemoveElement
  <2>5. Cardinality(TakenItems') \in Nat
    BY <2>4, FS_CardinalityType
  <2> QED BY <1>1, <1>3, <2>3, <2>4, <2>5 DEF QueueIInv, Counted
<1>9. QueueTypeOK'
  <2>1. taken' \in [User -> Nat]
    BY <1>1, <1>3
  <2>2. unfinished_tasks' \in Nat
    BY <1>1, <1>3, <1>8
  <2> QED BY <1>1, <1>3, <1>7, <2>1, <2>2 DEF QueueTypeOK, Waiter
<1>10. Enough'
  <2> SUFFICES ASSUME ~Lost'
               PROVE  /\ Sleepers("not_empty")' # {} => Cardinality(Hit("not_empty")') >= qsize
                      /\ Sleepers("not_full")' # {} =>
                           Cardinality(Hit("not_full")') >= maxsize - qsize
    BY <1>1 DEF Enough
  <2>1. /\ Sleepers("not_empty")' # {} => Cardinality(Hit("not_empty")) >= qsize
        /\ Sleepers("not_full")' # {} => Cardinality(Hit("not_full")) >= maxsize - qsize
    BY <1>2, <1>7 DEF QueueIInv, Enough
  <2>2. t \notin Hit("not_empty") /\ t \notin Hit("not_full")
    BY <1>1 DEF Hit
  <2>3. /\ Cardinality(Hit("not_empty")) \in Nat /\ Cardinality(Hit("not_empty")') \in Nat
        /\ Cardinality(Hit("not_empty")) <= Cardinality(Hit("not_empty")')
    BY <1>2, <1>7, <2>2, Fewer
  <2>4. /\ Cardinality(Hit("not_full")) \in Nat /\ Cardinality(Hit("not_full")') \in Nat
        /\ Cardinality(Hit("not_full")) <= Cardinality(Hit("not_full")')
    BY <1>2, <1>7, <2>2, Fewer
  <2> QED BY <1>3, <2>1, <2>3, <2>4
<1>11. JoinersHaveReason'
  <2> SUFFICES ASSUME Sleepers("all_tasks_done")' # {} PROVE unfinished_tasks' > 0
    BY DEF JoinersHaveReason
  <2>1. unfinished_tasks # 1
    BY <1>2, <1>6, <1>7 DEF Sleepers
  <2> QED BY <1>1, <1>3, <1>8, <2>1
<1> QED
  BY <1>7, <1>8, <1>9, <1>10, <1>11 DEF QueueIInv
-----------------------------------------------------------------------------
(* A thread begins to wait, when there is nothing for it.                  *)
LEMMA WaitsKeeps ==
  ASSUME QueueIInv, NEW t \in User, NEW k \in Condition, AtLoop(t, k), Waits(t, k),
         k = "not_empty" => qsize = 0, k = "not_full" => qsize >= maxsize,
         k = "all_tasks_done" => unfinished_tasks > 0
  PROVE  QueueIInv'
<1> DEFINE ws == WaitersOnReturn(t)
<1>1. userPc[t] \in {"idle", "gotit", "late"} /\ (userPc[t] # "idle" => waitsFor[t] = k)
  BY DEF AtLoop
<1>2. /\ waiters' = [ws EXCEPT ![k] = Append(ws[k], t)]
      /\ released' = released \ {t}
      /\ userPc' = [userPc EXCEPT ![t] = "asleep"] /\ waitsFor' = [waitsFor EXCEPT ![t] = k]
      /\ UNCHANGED <<qsize, unfinished_tasks, taken, putCount, broke>>
  BY DEF Waits
<1>3. hasTimeout' \in [User -> BOOLEAN]
  <2>1. hasTimeout \in [User -> BOOLEAN]
    BY DEF QueueIInv, QueueTypeOK
  <2>2. PICK b : b \in BOOLEAN /\ hasTimeout' = [hasTimeout EXCEPT ![t] = b]
    BY <2>1 DEF Waits
  <2> QED BY <2>1, <2>2
<1>4. /\ Others(ws, t) /\ ws \in [Condition -> Seq(Waiter)] /\ released \subseteq User
      /\ userPc \in [User -> {"idle", "asleep", "gotit", "late", "raising"}]
      /\ waitsFor \in [User -> Condition] /\ maxsize \in Nat /\ qsize \in 0 .. maxsize
  BY <1>1, OnReturn, ThreadQueueAssumption DEF QueueIInv, QueueTypeOK, Others
<1> HIDE DEF ws
<1>5. /\ userPc' \in [User -> {"idle", "asleep", "gotit", "late", "raising"}]
      /\ waitsFor' \in [User -> Condition] /\ userPc'[t] = "asleep" /\ waitsFor'[t] = k
      /\ \A u \in User \ {t} : userPc'[u] = userPc[u] /\ waitsFor'[u] = waitsFor[u]
  BY <1>2, <1>4
<1> DEFINE r == Append(ws[k], t)
<1>6. /\ r \in Seq(Waiter) /\ Len(r) = Len(ws[k]) + 1 /\ r[Len(r)] = t /\ Len(ws[k]) \in Nat
      /\ \A i \in 1 .. Len(ws[k]) : r[i] = ws[k][i]
  BY <1>4, AppendProperties DEF Waiter
<1>7. waiters' \in [Condition -> Seq(Waiter)] /\ waiters'[k] = r
      /\ \A c \in Condition \ {k} : waiters'[c] = ws[c]
  BY <1>2, <1>4, <1>6
<1> HIDE DEF r
<1>8. \A c \in Condition : \A i \in 1 .. Len(waiters'[c]) :
        \/ i \in 1 .. Len(ws[c]) /\ waiters'[c][i] = ws[c][i]
        \/ c = k /\ i = Len(r) /\ waiters'[c][i] = t
  BY <1>6, <1>7
<1>9. \A c \in Condition : \A i \in 1 .. Len(ws[c]) :
        i \in 1 .. Len(waiters'[c]) /\ waiters'[c][i] = ws[c][i]
  BY <1>6, <1>7
<1>10. \A c \in Condition : \A i \in 1 .. Len(waiters'[c]) :
         waiters'[c][i] \in User =>
           /\ userPc'[waiters'[c][i]] \in {"asleep", "late", "raising"}
           /\ waitsFor'[waiters'[c][i]] = c
  <2> SUFFICES ASSUME NEW c \in Condition, NEW i \in 1 .. Len(waiters'[c]), waiters'[c][i] \in User
               PROVE  /\ userPc'[waiters'[c][i]] \in {"asleep", "late", "raising"}
                      /\ waitsFor'[waiters'[c][i]] = c
    OBVIOUS
  <2>1. PICK u \in User : u = waiters'[c][i]
    OBVIOUS
  <2>2. CASE c = k /\ u = t
    BY <1>5, <2>1, <2>2
  <2>3. CASE i \in 1 .. Len(ws[c]) /\ u = ws[c][i]
    <3>1. u # t /\ Waiting(u) /\ waitsFor[u] = c
      BY <1>4, <2>3 DEF Others
    <3> QED BY <1>5, <2>1, <3>1 DEF Waiting
  <2> QED BY <1>8, <2>1, <2>2, <2>3
<1>11. \A c \in Condition : \A i, j \in 1 .. Len(waiters'[c]) :
         waiters'[c][i] = waiters'[c][j] /\ waiters'[c][i] \in User => i = j
  <2> SUFFICES ASSUME NEW c \in Condition, NEW i \in 1 .. Len(waiters'[c]),
                      NEW j \in 1 .. Len(waiters'[c]),
                      waiters'[c][i] = waiters'[c][j], waiters'[c][i] \in User
               PROVE  i = j
    OBVIOUS
  <2>1. \A n \in 1 .. Len(ws[c]) : ws[c][n] \in User => ws[c][n] # t
    BY <1>4 DEF Others
  <2>2. \A m, n \in 1 .. Len(ws[c]) : ws[c][m] = ws[c][n] /\ ws[c][m] \in User => m = n
    BY <1>4 DEF Others
  <2> QED BY <1>8, <2>1, <2>2
<1>12. \A u \in User : userPc'[u] = "asleep" /\ u \notin released' =>
         \E i \in 1 .. Len(waiters'[waitsFor'[u]]) : waiters'[waitsFor'[u]][i] = u
  <2> SUFFICES ASSUME NEW u \in User, userPc'[u] = "asleep", u \notin released'
               PROVE  \E i \in 1 .. Len(waiters'[waitsFor'[u]]) : waiters'[waitsFor'[u]][i] = u
    OBVIOUS
  <2>1. CASE u = t
    <3>1. Len(r) \in 1 .. Len(r)
      BY <1>6
    <3> QED BY <1>5, <1>6, <1>7, <2>1, <3>1
  <2>2. CASE u # t
    <3>1. userPc[u] = "asleep" /\ u \notin released /\ waitsFor'[u] = waitsFor[u] /\ waitsFor[u] \in Condition
      BY <1>2, <1>4, <1>5, <2>2
    <3>2. PICK i \in 1 .. Len(ws[waitsFor[u]]) : ws[waitsFor[u]][i] = u
      BY <1>4, <2>2, <3>1 DEF Others
    <3> QED BY <1>9, <3>1, <3>2
  <2> QED BY <2>1, <2>2
<1>13. ~broke' => \A c \in Condition : \A i \in 1 .. Len(waiters'[c]) :
         waiters'[c][i] \in User \ released'
  <2> SUFFICES ASSUME ~broke', NEW c \in Condition, NEW i \in 1 .. Len(waiters'[c])
               PROVE  waiters'[c][i] \in User \ released'
    OBVIOUS
  <2>1. \A n \in 1 .. Len(ws[c]) : ws[c][n] \in User \ released
    BY <1>2, <1>4 DEF Others
  <2> QED BY <1>2, <1>8, <2>1
<1>14. Listed'
  BY <1>10, <1>11, <1>12, <1>13 DEF Listed, Waiting
<1>15. IsFiniteSet(Inside')
  <2>1. Inside' \subseteq Inside \cup {t}
    BY <1>5 DEF Inside
  <2>2. IsFiniteSet(Inside \cup {t})
    BY FS_AddElement DEF QueueIInv
  <2> QED BY <2>1, <2>2, FS_Subset
<1>16. QueueTypeOK'
  BY <1>2, <1>3, <1>4, <1>5, <1>7 DEF QueueIInv, QueueTypeOK, Waiter
<1>17. Counted'
  BY <1>2, CountedKept DEF QueueIInv
<1>18. Lost => Lost'
  BY <1>1, <1>2, <1>5 DEF Lost
<1>19. \A c \in Condition \ {k} : Sleepers(c)' = Sleepers(c) /\ Hit(c)' = Hit(c)
  BY <1>1, <1>2, <1>5 DEF Sleepers, Hit
<1>20. IsFiniteSet(Hit(k)') /\ Cardinality(Hit(k)') \in Nat
  <2>1. Hit(k)' \subseteq Inside'
    BY DEF Hit, Inside
  <2> QED BY <1>15, <2>1, FS_Subset, FS_CardinalityType
<1>21. "not_empty" \in Condition /\ "not_full" \in Condition /\ "all_tasks_done" \in Condition
  BY DEF Condition
<1>22. ~Lost' => (Sleepers("not_empty")' # {} => Cardinality(Hit("not_empty")') >= qsize')
  <2>1. CASE k = "not_empty"
    <3>1. qsize' = 0
      BY <1>2, <2>1
    <3> QED BY <1>20, <2>1, <3>1
  <2>2. CASE k # "not_empty"
    BY <1>2, <1>18, <1>19, <1>21, <2>2 DEF QueueIInv, Enough
  <2> QED BY <2>1, <2>2
<1>23. ~Lost' =>
         (Sleepers("not_full")' # {} => Cardinality(Hit("not_full")') >= maxsize - qsize')
  <2>1. CASE k = "not_full"
    <3>1. qsize' = maxsize
      BY <1>2, <1>4, <2>1
    <3> QED BY <1>4, <1>20, <2>1, <3>1
  <2>2. CASE k # "not_full"
    BY <1>2, <1>18, <1>19, <1>21, <2>2 DEF QueueIInv, Enough
  <2> QED BY <2>1, <2>2
<1>24. JoinersHaveReason'
  <2>1. CASE k = "all_tasks_done"
    BY <1>2, <2>1 DEF JoinersHaveReason
  <2>2. CASE k # "all_tasks_done"
    BY <1>2, <1>19, <1>21, <2>2 DEF QueueIInv, JoinersHaveReason
  <2> QED BY <2>1, <2>2
<1> QED
  BY <1>14, <1>15, <1>16, <1>17, <1>22, <1>23, <1>24 DEF QueueIInv, Enough
-----------------------------------------------------------------------------
(* A released thread gets its waiter, which is stale if still on the list. *)
LEMMA GetsWaiterKeeps ==
  ASSUME QueueIInv, NEW t \in User, GetsWaiter(t)
  PROVE  QueueIInv'
<1> DEFINE c == waitsFor[t]
           r == [i \in DOMAIN waiters[c] |-> IF waiters[c][i] = t THEN Stale ELSE waiters[c][i]]
<1>1. /\ userPc[t] = "asleep" /\ t \in released
      /\ userPc' = [userPc EXCEPT ![t] = "gotit"] /\ released' = released \ {t}
      /\ waiters' = [waiters EXCEPT ![c] = r]
      /\ UNCHANGED <<qsize, unfinished_tasks, taken, putCount, waitsFor, hasTimeout, broke>>
  BY DEF GetsWaiter
<1>2. /\ waiters \in [Condition -> Seq(Waiter)] /\ released \subseteq User
      /\ userPc \in [User -> {"idle", "asleep", "gotit", "late", "raising"}]
      /\ waitsFor \in [User -> Condition] /\ c \in Condition
  BY DEF QueueIInv, QueueTypeOK, Waiter
<1>3. /\ userPc' \in [User -> {"idle", "asleep", "gotit", "late", "raising"}]
      /\ userPc'[t] = "gotit" /\ \A u \in User \ {t} : userPc'[u] = userPc[u]
  BY <1>1, <1>2
<1>4. /\ waiters[c] \in Seq(Waiter) /\ DOMAIN waiters[c] = 1 .. Len(waiters[c])
      /\ Len(waiters[c]) \in Nat
  BY <1>2
<1>5. /\ r \in Seq(Waiter) /\ Len(r) = Len(waiters[c])
      /\ \A i \in 1 .. Len(waiters[c]) :
           r[i] = IF waiters[c][i] = t THEN Stale ELSE waiters[c][i]
  <2>1. r \in [1 .. Len(waiters[c]) -> Waiter]
    BY <1>4 DEF Waiter
  <2> HIDE DEF r
  <2>2. r \in Seq(Waiter) /\ Len(r) = Len(waiters[c])
    BY <1>4, <2>1
  <2>3. \A i \in 1 .. Len(waiters[c]) :
           r[i] = IF waiters[c][i] = t THEN Stale ELSE waiters[c][i]
    BY <1>4 DEF r
  <2> QED BY <2>2, <2>3
<1> HIDE DEF r
<1>6. waiters' \in [Condition -> Seq(Waiter)] /\ waiters'[c] = r
      /\ \A k \in Condition \ {c} : waiters'[k] = waiters[k]
  BY <1>1, <1>2, <1>5
<1>7. \A k \in Condition : Len(waiters'[k]) = Len(waiters[k]) /\ \A i \in 1 .. Len(waiters[k]) :
        \/ waiters'[k][i] = waiters[k][i] /\ (k = c => waiters[k][i] # t)
        \/ k = c /\ waiters[k][i] = t /\ waiters'[k][i] = Stale
  <2> TAKE k \in Condition
  <2>1. CASE k = c
    BY <1>5, <1>6, <2>1
  <2>2. CASE k # c
    BY <1>6, <2>2
  <2> QED BY <2>1, <2>2
<1>8. Stale \notin User
  BY ThreadQueueAssumption
<1>9. \A k \in Condition : \A i \in 1 .. Len(waiters'[k]) :
        waiters'[k][i] \in User =>
          waiters'[k][i] = waiters[k][i] /\ waiters'[k][i] # t
            /\ Waiting(waiters[k][i]) /\ waitsFor[waiters[k][i]] = k
  BY <1>7, <1>8 DEF QueueIInv, Listed
<1>10. \A k \in Condition : \A i \in 1 .. Len(waiters'[k]) :
         waiters'[k][i] \in User =>
           /\ userPc'[waiters'[k][i]] \in {"asleep", "late", "raising"}
           /\ waitsFor'[waiters'[k][i]] = k
  <2> SUFFICES ASSUME NEW k \in Condition, NEW i \in 1 .. Len(waiters'[k]), waiters'[k][i] \in User
               PROVE  /\ userPc'[waiters'[k][i]] \in {"asleep", "late", "raising"}
                      /\ waitsFor'[waiters'[k][i]] = k
    OBVIOUS
  <2>1. PICK u \in User : u = waiters'[k][i]
    OBVIOUS
  <2>2. u # t /\ Waiting(u) /\ waitsFor[u] = k
    BY <1>9, <2>1
  <2> QED BY <1>1, <1>3, <2>1, <2>2 DEF Waiting
<1>11. \A k \in Condition : \A i, j \in 1 .. Len(waiters'[k]) :
         waiters'[k][i] = waiters'[k][j] /\ waiters'[k][i] \in User => i = j
  BY <1>7, <1>9 DEF QueueIInv, Listed
<1>12. \A u \in User : userPc'[u] = "asleep" /\ u \notin released' =>
         \E i \in 1 .. Len(waiters'[waitsFor'[u]]) : waiters'[waitsFor'[u]][i] = u
  <2> SUFFICES ASSUME NEW u \in User, userPc'[u] = "asleep", u \notin released'
               PROVE  \E i \in 1 .. Len(waiters'[waitsFor'[u]]) : waiters'[waitsFor'[u]][i] = u
    OBVIOUS
  <2>1. u # t /\ userPc[u] = "asleep" /\ u \notin released /\ waitsFor[u] \in Condition
        /\ waitsFor' = waitsFor
    BY <1>1, <1>2, <1>3
  <2>2. PICK i \in 1 .. Len(waiters[waitsFor[u]]) : waiters[waitsFor[u]][i] = u
    BY <2>1 DEF QueueIInv, Listed
  <2> QED BY <1>7, <2>1, <2>2
<1>13. ~broke' => \A k \in Condition : \A i \in 1 .. Len(waiters'[k]) :
         waiters'[k][i] \in User \ released'
  <2> SUFFICES ASSUME ~broke', NEW k \in Condition, NEW i \in 1 .. Len(waiters'[k])
               PROVE  waiters'[k][i] \in User \ released'
    OBVIOUS
  <2>1. i \in 1 .. Len(waiters[k]) /\ waiters[k][i] \in User \ released
    BY <1>1, <1>7 DEF QueueIInv, Listed
  <2> QED BY <1>1, <1>7, <2>1
<1>14. Listed'
  BY <1>10, <1>11, <1>12, <1>13 DEF Listed, Waiting
<1>15. QueueTypeOK'
  BY <1>1, <1>2, <1>3, <1>6 DEF QueueIInv, QueueTypeOK, Waiter
<1>16. Counted' /\ IsFiniteSet(Inside')
  <2>1. Inside' = Inside
    BY <1>1, <1>3 DEF Inside
  <2> QED BY <1>1, <2>1, CountedKept DEF QueueIInv
<1>17. \A k \in Condition : Sleepers(k)' = Sleepers(k) /\ Hit(k)' = Hit(k)
  BY <1>1, <1>3 DEF Sleepers, Hit
<1>18. Lost' <=> Lost
  BY <1>1, <1>2, <1>3 DEF Lost
<1>19. Enough' /\ JoinersHaveReason'
  BY <1>1, <1>17, <1>18 DEF QueueIInv, Enough, JoinersHaveReason, Condition
<1> QED
  BY <1>14, <1>15, <1>16, <1>19 DEF QueueIInv

(* The time of a sleeper is up, or its signal handler raises.              *)
LEMMA GivesUpKeeps ==
  ASSUME QueueIInv, NEW t \in User, NEW l \in {"late", "raising"}, GivesUp(t, l)
  PROVE  QueueIInv'
<1>1. /\ userPc[t] = "asleep" /\ userPc' = [userPc EXCEPT ![t] = l]
      /\ UNCHANGED <<qsize, unfinished_tasks, taken, putCount, waiters, released, waitsFor,
                     hasTimeout, broke>>
  BY DEF GivesUp
<1>2. userPc \in [User -> {"idle", "asleep", "gotit", "late", "raising"}] /\ released \subseteq User
  BY DEF QueueIInv, QueueTypeOK
<1>3. /\ userPc' \in [User -> {"idle", "asleep", "gotit", "late", "raising"}]
      /\ userPc'[t] = l /\ \A u \in User \ {t} : userPc'[u] = userPc[u]
  BY <1>1, <1>2
<1>4. QueueTypeOK'
  BY <1>1, <1>3 DEF QueueIInv, QueueTypeOK
<1>5. Listed'
  <2>1. \A u \in User : Waiting(u) => userPc'[u] \in {"asleep", "late", "raising"}
    BY <1>3 DEF Waiting
  <2>2. \A k \in Condition : \A i \in 1 .. Len(waiters[k]) :
          waiters[k][i] \in User =>
            /\ userPc'[waiters[k][i]] \in {"asleep", "late", "raising"}
            /\ waitsFor[waiters[k][i]] = k
    BY <2>1 DEF QueueIInv, Listed
  <2>3. \A u \in User : userPc'[u] = "asleep" => userPc[u] = "asleep"
    BY <1>1, <1>3
  <2> QED BY <1>1, <2>2, <2>3 DEF QueueIInv, Listed, Waiting
<1>6. Counted' /\ IsFiniteSet(Inside')
  <2>1. Inside' = Inside
    BY <1>1, <1>3 DEF Inside
  <2> QED BY <1>1, <2>1, CountedKept DEF QueueIInv
<1>7. \A k \in Condition : Sleepers(k)' \subseteq Sleepers(k)
  BY <1>1, <1>3 DEF Sleepers
<1>8. Lost => Lost'
  BY <1>1, <1>2, <1>3 DEF Lost
<1>9. ~Lost' => \A k \in Condition : Hit(k)' = Hit(k)
  BY <1>1, <1>2, <1>3 DEF Lost, Hit
<1>10. Enough' /\ JoinersHaveReason'
  BY <1>1, <1>7, <1>8, <1>9 DEF QueueIInv, Enough, JoinersHaveReason, Condition
<1> QED
  BY <1>4, <1>5, <1>6, <1>10 DEF QueueIInv
-----------------------------------------------------------------------------
LEMMA InitKeeps == QueueInit => QueueIInv
<1> SUFFICES ASSUME QueueInit PROVE QueueIInv
  OBVIOUS
<1>1. /\ qsize = 0 /\ unfinished_tasks = 0 /\ putCount = 0
      /\ taken = [t \in User |-> 0]
      /\ waiters = [k \in Condition |-> <<>>] /\ released = {}
      /\ userPc = [t \in User |-> "idle"]
      /\ waitsFor = [t \in User |-> "not_full"] /\ hasTimeout = [t \in User |-> FALSE]
      /\ broke = FALSE
  BY DEF QueueInit
<1>2. QueueTypeOK
  <2>1. waiters \in [Condition -> Seq(User \cup {Stale, Spent})]
    BY <1>1
  <2>2. waitsFor \in [User -> Condition]
    BY <1>1 DEF Condition
  <2>3. qsize \in 0 .. maxsize /\ unfinished_tasks \in Nat /\ putCount \in Nat
    BY <1>1, ThreadQueueAssumption
  <2>4. taken \in [User -> Nat]
    BY <1>1
  <2>5. userPc \in [User -> {"idle", "asleep", "gotit", "late", "raising"}]
    BY <1>1
  <2>6. hasTimeout \in [User -> BOOLEAN] /\ broke \in BOOLEAN /\ released \subseteq User
    BY <1>1
  <2> QED BY <2>1, <2>2, <2>3, <2>4, <2>5, <2>6 DEF QueueTypeOK
<1>3. Listed
  BY <1>1 DEF Listed
<1>4. Counted
  <2>1. TakenItems = {}
    BY <1>1 DEF TakenItems
  <2> QED BY <1>1, <2>1, FS_EmptySet DEF Counted
<1>5. Inside = {} /\ \A k \in Condition : Sleepers(k) = {}
  BY <1>1 DEF Inside, Sleepers
<1>6. IsFiniteSet(Inside) /\ Enough /\ JoinersHaveReason
  BY <1>5, FS_EmptySet DEF Enough, JoinersHaveReason, Condition
<1> QED
  BY <1>2, <1>3, <1>4, <1>6 DEF QueueIInv

LEMMA StepKeeps == QueueIInv /\ [QueueNext]_queueVars => QueueIInv'
<1> SUFFICES ASSUME QueueIInv, [QueueNext]_queueVars PROVE QueueIInv'
  OBVIOUS
<1>1. "not_empty" \in Condition /\ "not_full" \in Condition /\ "all_tasks_done" \in Condition
  BY DEF Condition
<1>2. ASSUME NEW t \in User, PutHasNoRoom(t) PROVE QueueIInv'
  <2>1. AtLoop(t, "not_full") /\ qsize >= maxsize
    BY <1>2 DEF PutHasNoRoom, HasNoRoom
  <2>2. CASE Waits(t, "not_full")
    BY <1>1, <2>1, <2>2, WaitsKeeps
  <2>3. CASE RaisesFullOrEmpty(t)
    BY <1>1, <2>1, <2>3, RaisesKeeps
  <2> QED BY <1>2, <2>2, <2>3 DEF PutHasNoRoom
<1>3. ASSUME NEW t \in User, GetHasNoItem(t) PROVE QueueIInv'
  <2>1. AtLoop(t, "not_empty") /\ qsize = 0
    BY <1>3 DEF GetHasNoItem
  <2>2. CASE Waits(t, "not_empty")
    BY <1>1, <2>1, <2>2, WaitsKeeps
  <2>3. CASE RaisesFullOrEmpty(t)
    BY <1>1, <2>1, <2>3, RaisesKeeps
  <2> QED BY <1>3, <2>2, <2>3 DEF GetHasNoItem
<1>4. ASSUME NEW t \in User, JoinWaits(t) PROVE QueueIInv'
  <2>1. AtLoop(t, "all_tasks_done") /\ unfinished_tasks > 0 /\ Waits(t, "all_tasks_done")
    BY <1>4 DEF JoinWaits
  <2> QED BY <1>1, <2>1, WaitsKeeps
<1>5. CASE UNCHANGED queueVars
  <2>1. /\ UNCHANGED <<qsize, unfinished_tasks, taken, putCount, waiters, released>>
        /\ UNCHANGED <<userPc, waitsFor, hasTimeout, broke>>
    BY <1>5 DEF queueVars
  <2>2. QueueTypeOK' /\ Listed'
    BY <2>1 DEF QueueIInv, QueueTypeOK, Listed, Waiting
  <2>3. Counted' /\ Inside' = Inside
    BY <2>1, CountedKept DEF QueueIInv, Inside
  <2>4. \A k \in Condition : Sleepers(k)' = Sleepers(k) /\ Hit(k)' = Hit(k)
    BY <2>1 DEF Sleepers, Hit
  <2>5. Lost' <=> Lost
    BY <2>1 DEF Lost
  <2>6. Enough' /\ JoinersHaveReason'
    BY <1>1, <2>1, <2>4, <2>5 DEF QueueIInv, Enough, JoinersHaveReason
  <2> QED BY <2>2, <2>3, <2>6 DEF QueueIInv
<1> QED
  BY <1>2, <1>3, <1>4, <1>5, PutKeeps, GetItemKeeps, TaskDoneKeeps, JoinReturnsKeeps,
     GetsWaiterKeeps, RaisesOutKeeps, GivesUpKeeps DEF QueueNext

(* The inductive invariant holds in every reachable state of the queue.    *)
THEOREM QueueInvariance == QueueSpec => []QueueIInv
<1>1. QueueInit => QueueIInv
  BY InitKeeps
<1>2. QueueIInv /\ [QueueNext]_queueVars => QueueIInv'
  BY StepKeeps
<1> QED
  BY <1>1, <1>2, PTL DEF QueueSpec

(* What the runs check of queue.Queue holds for any number of threads and  *)
(* any maxsize, whichever of them have timeouts or signal handlers that    *)
(* raise: a sleeper has its waiter on the list of its condition, once;     *)
(* while one sleeps in get (put), as many others are on their way as there *)
(* are items (as there is room), unless an exception lost a notification;  *)
(* and nobody sleeps in join when all is done.                             *)
THEOREM QueueIsRight == QueueSpec => []QueueInv
<1>1. QueueIInv => QueueInv
  <2> SUFFICES ASSUME QueueIInv PROVE QueueInv
    OBVIOUS
  <2>1. \A k \in Condition : \A u \in Sleepers(k) : Cardinality(Entries(k, u)) = 1
    <3> SUFFICES ASSUME NEW k \in Condition, NEW u \in Sleepers(k)
                 PROVE  Cardinality(Entries(k, u)) = 1
      OBVIOUS
    <3>1. PICK i \in 1 .. Len(waiters[k]) : waiters[k][i] = u
      BY DEF QueueIInv, Listed, Sleepers
    <3>2. u \in User /\ waiters[k] \in Seq(Waiter)
      BY DEF QueueIInv, QueueTypeOK, Waiter, Sleepers
    <3>3. DOMAIN waiters[k] = 1 .. Len(waiters[k])
      BY <3>2
    <3>4. Entries(k, u) = {i}
      BY <3>1, <3>2, <3>3 DEF QueueIInv, Listed, Entries
    <3> QED BY <3>4, FS_Singleton
  <2>2. ~broke => \A k \in Condition : \A i \in DOMAIN waiters[k] :
          /\ waiters[k][i] \in User
          /\ userPc[waiters[k][i]] \in {"asleep", "late", "raising"}
          /\ waitsFor[waiters[k][i]] = k
    <3>1. \A k \in Condition : DOMAIN waiters[k] = 1 .. Len(waiters[k])
      BY DEF QueueIInv, QueueTypeOK
    <3> QED BY <3>1 DEF QueueIInv, Listed, Waiting
  <2>3. NoLostWakeUp
    <3>1. "not_empty" \in Condition /\ "not_full" \in Condition
      BY DEF Condition
    <3>2. IsFiniteSet(Inside) /\ qsize \in 0 .. maxsize /\ maxsize \in Nat
      BY ThreadQueueAssumption DEF QueueIInv, QueueTypeOK
    <3>3. /\ Cardinality(Hit("not_empty")) \in Nat /\ Cardinality(Coming("not_empty")) \in Nat
          /\ Cardinality(Hit("not_empty")) <= Cardinality(Coming("not_empty"))
      BY <3>1, <3>2, NotifiedCome
    <3>4. /\ Cardinality(Hit("not_full")) \in Nat /\ Cardinality(Coming("not_full")) \in Nat
          /\ Cardinality(Hit("not_full")) <= Cardinality(Coming("not_full"))
      BY <3>1, <3>2, NotifiedCome
    <3> QED BY <3>2, <3>3, <3>4 DEF QueueIInv, Enough, NoLostWakeUp
  <2> QED BY <2>1, <2>2, <2>3 DEF QueueIInv, QueueInv, WaitersAreListed
<1> QED
  BY <1>1, QueueInvariance, PTL
-----------------------------------------------------------------------------
(***************************************************************************)
(* queue.SimpleQueue: type correctness, and that the lock tells of the     *)
(* items, for any getters, any of them reached by signals.                 *)
(***************************************************************************)

(* There are no more items than were put. *)
ItemsWerePut == items <= puts

(* The lock is free, or locked says that it is not, or somebody has it who *)
(* is on its way: so put and get know when they have to let it go.         *)
LockAccounted ==
  \/ lockFree > 0
  \/ locked
  \/ \E t \in Getter : getPc[t] = "woken"

SimpleIInv == SimpleTypeOK /\ ItemsWerePut /\ LockAccounted /\ ItemsAreAnnounced
-----------------------------------------------------------------------------
LEMMA SimpleInitOK == SimpleInit => SimpleIInv
<1> SUFFICES ASSUME SimpleInit PROVE SimpleIInv
  OBVIOUS
<1> USE DEF SimpleInit
<1>1. items \in 0 .. MaxItems /\ puts \in 0 .. MaxItems /\ lockFree \in Nat
  BY SimpleQueueAssumption
<1>2. locked \in BOOLEAN
  BY Zenon
<1>3. getPc \in [Getter -> {"idle", "blocked", "woken", "late", "interrupted"}]
  OBVIOUS
<1>4. timed \in [Getter -> BOOLEAN]
  BY Zenon
<1>5. patience \in [Getter -> {"zero", "some", "negative"}]
  OBVIOUS
<1>6. ItemsWerePut /\ LockAccounted /\ ItemsAreAnnounced
  BY DEF ItemsWerePut, LockAccounted, ItemsAreAnnounced
<1> QED
  BY <1>1, <1>2, <1>3, <1>4, <1>5, <1>6 DEF SimpleIInv, SimpleTypeOK

(* A call of get that returns leaves its place, and keeps the types.       *)
LEMMA ReturnTypes ==
  ASSUME SimpleTypeOK, NEW t \in Getter, GetReturns(t)
  PROVE  /\ getPc' \in [Getter -> {"idle", "blocked", "woken", "late", "interrupted"}]
         /\ timed' \in [Getter -> BOOLEAN]
         /\ patience' \in [Getter -> {"zero", "some", "negative"}]
         /\ \A u \in Getter \ {t} : getPc'[u] = getPc[u]
         /\ getPc'[t] = "idle"
BY DEF SimpleTypeOK, GetReturns

LEMMA PutOK == SimpleIInv /\ SimplePut => SimpleIInv'
<1> SUFFICES ASSUME SimpleIInv, SimplePut PROVE SimpleIInv'
  OBVIOUS
<1> USE DEF SimpleIInv, SimplePut
<1>1. SimpleTypeOK' /\ ItemsWerePut'
  <2>1. /\ items' \in 0 .. MaxItems /\ puts' \in 0 .. MaxItems
        /\ lockFree' \in Nat /\ items' <= puts'
    BY SimpleQueueAssumption DEF SimpleTypeOK, ItemsWerePut
  <2>2. locked' \in BOOLEAN
    BY Zenon
  <2> QED
    BY <2>1, <2>2, Zenon DEF SimpleTypeOK, ItemsWerePut
<1>2. LockAccounted'
  BY DEF SimpleTypeOK, LockAccounted
<1>3. ItemsAreAnnounced'
  BY DEF SimpleTypeOK, LockAccounted, ItemsAreAnnounced
<1> QED
  BY <1>1, <1>2, <1>3

(* The end of get with an item.  A getter that was woken, or interrupted,  *)
(* lets the lock go whatever locked says.                                  *)
LEMMA TakeOK ==
  ASSUME SimpleIInv, NEW t \in Getter, NEW isLocked \in BOOLEAN, TakesAnItem(t, isLocked),
         locked => isLocked, getPc[t] = "woken" => isLocked
  PROVE  SimpleIInv'
<1> USE DEF SimpleIInv, TakesAnItem
<1>1. SimpleTypeOK' /\ ItemsWerePut'
  <2>1. /\ items' \in 0 .. MaxItems /\ puts' \in 0 .. MaxItems
        /\ lockFree' \in Nat /\ items' <= puts'
    BY SimpleQueueAssumption DEF SimpleTypeOK, ItemsWerePut
  <2>2. locked' \in BOOLEAN
    BY Zenon
  <2> QED
    BY <2>1, <2>2, ReturnTypes, Zenon DEF SimpleTypeOK, ItemsWerePut
<1>2. CASE isLocked
  BY <1>1, <1>2 DEF SimpleTypeOK, LockAccounted, ItemsAreAnnounced
<1>3. CASE ~isLocked
  <2>1. lockFree > 0 \/ \E u \in Getter : getPc[u] = "woken"
    BY <1>3 DEF LockAccounted
  <2>2. lockFree' > 0 \/ \E u \in Getter : getPc'[u] = "woken"
    BY <1>3, <2>1, ReturnTypes
  <2> QED
    BY <1>1, <2>2 DEF LockAccounted, ItemsAreAnnounced
<1> QED
  BY <1>2, <1>3

LEMMA WaitOK ==
  ASSUME SimpleIInv, NEW t \in Getter, NEW isLocked \in BOOLEAN, NEW isTimed \in BOOLEAN,
         NEW p \in {"zero", "some", "negative"}, WaitsForTheLock(t, isLocked, isTimed, p),
         locked => isLocked, getPc[t] = "woken" => isLocked
  PROVE  SimpleIInv'
<1> USE DEF SimpleIInv, WaitsForTheLock
<1>1. PICK q \in {"zero", "some", "negative"} :
        IF q = "zero" THEN GetReturns(t)
        ELSE /\ getPc' = [getPc EXCEPT ![t] = "blocked"]
             /\ patience' = [patience EXCEPT ![t] = q]
             /\ timed' = [timed EXCEPT ![t] = isTimed]
  BY DEF TimeLeft
<1>2. SimpleTypeOK' /\ \A u \in Getter \ {t} : getPc'[u] = getPc[u]
  <2>1. CASE q = "zero"
    BY <1>1, <2>1, ReturnTypes DEF SimpleTypeOK
  <2>2. CASE q # "zero"
    BY <1>1, <2>2 DEF SimpleTypeOK
  <2> QED
    BY <2>1, <2>2
<1>3. ItemsWerePut' /\ ItemsAreAnnounced'
  BY DEF SimpleTypeOK, ItemsWerePut, ItemsAreAnnounced
<1>4. LockAccounted'
  BY <1>2 DEF SimpleTypeOK, LockAccounted
<1> QED
  BY <1>2, <1>3, <1>4

LEMMA GetOK ==
  ASSUME SimpleIInv, NEW t \in Getter, NEW p \in {"zero", "some", "negative"}, Get(t, p)
  PROVE  SimpleIInv'
<1>1. locked \in BOOLEAN /\ getPc[t] # "woken"
  BY DEF SimpleIInv, SimpleTypeOK, Get
<1>2. CASE TakesAnItem(t, locked)
  BY <1>1, <1>2, TakeOK
<1>3. CASE WaitsForTheLock(t, locked, p = "some", p)
  BY <1>1, <1>3, WaitOK
<1> QED
  BY <1>2, <1>3 DEF Get

LEMMA GoesOnOK ==
  ASSUME SimpleIInv, NEW t \in Getter, GoesOn(t)
  PROVE  SimpleIInv'
<1>1. PICK p \in TimeLeft(patience[t]) :
        TakesAnItem(t, TRUE) \/ WaitsForTheLock(t, TRUE, timed[t], p)
  BY DEF GoesOn
<1>2. p \in {"zero", "some", "negative"} /\ timed[t] \in BOOLEAN
  BY <1>1 DEF SimpleIInv, SimpleTypeOK, TimeLeft
<1>3. CASE TakesAnItem(t, TRUE)
  BY <1>3, TakeOK
<1>4. CASE WaitsForTheLock(t, TRUE, timed[t], p)
  BY <1>2, <1>4, WaitOK
<1> QED
  BY <1>1, <1>3, <1>4

LEMMA GotLockOK ==
  ASSUME SimpleIInv, NEW t \in Getter, GotLock(t)
  PROVE  SimpleIInv'
<1> USE DEF SimpleIInv, GotLock
<1>1. SimpleTypeOK' /\ ItemsWerePut' /\ getPc'[t] = "woken"
  BY DEF SimpleTypeOK, ItemsWerePut
<1> QED
  BY <1>1 DEF LockAccounted, ItemsAreAnnounced

(* A getter that gives up waiting, for whatever reason, did not have the   *)
(* lock.                                                                   *)
LEMMA GivesUpOK ==
  ASSUME SimpleIInv, NEW t \in Getter,
         TimeIsUp(t) \/ Interrupted(t) \/ RaisesEmpty(t) \/ HandlerRaises(t)
  PROVE  SimpleIInv'
<1>1. /\ SimpleTypeOK' /\ getPc[t] # "woken" /\ getPc'[t] # "blocked"
      /\ UNCHANGED <<items, puts, lockFree, locked>>
      /\ \A u \in Getter \ {t} : getPc'[u] = getPc[u]
  <2>1. CASE TimeIsUp(t) \/ Interrupted(t)
    BY <2>1 DEF SimpleIInv, SimpleTypeOK, TimeIsUp, Interrupted
  <2>2. CASE RaisesEmpty(t) \/ HandlerRaises(t)
    BY <2>2, ReturnTypes DEF SimpleIInv, SimpleTypeOK, RaisesEmpty, HandlerRaises
  <2> QED
    BY <2>1, <2>2
<1>2. ItemsWerePut' /\ LockAccounted' /\ ItemsAreAnnounced'
  BY <1>1 DEF SimpleIInv, ItemsWerePut, LockAccounted, ItemsAreAnnounced
<1> QED
  BY <1>1, <1>2 DEF SimpleIInv
-----------------------------------------------------------------------------
LEMMA StepOK == SimpleIInv /\ [SimpleNext]_simpleVars => SimpleIInv'
<1> SUFFICES ASSUME SimpleIInv, [SimpleNext]_simpleVars PROVE SimpleIInv'
  OBVIOUS
<1>1. CASE SimplePut
  BY <1>1, PutOK
<1>2. ASSUME NEW t \in Getter, NEW p \in {"zero", "some", "negative"}, Get(t, p)
      PROVE  SimpleIInv'
  BY <1>2, GetOK
<1>3. ASSUME NEW t \in Getter, GetterStep(t) \/ TimeIsUp(t) \/ Interrupted(t)
                               \/ HandlerRaises(t)
      PROVE  SimpleIInv'
  BY <1>3, GotLockOK, GoesOnOK, GivesUpOK DEF GetterStep
<1>4. CASE UNCHANGED simpleVars
  BY <1>4 DEF simpleVars, SimpleIInv, SimpleTypeOK, ItemsWerePut, LockAccounted, ItemsAreAnnounced
<1> QED
  BY <1>1, <1>2, <1>3, <1>4 DEF SimpleNext

(* The inductive invariant holds of every reachable state of the queue.    *)
THEOREM SimpleInvariance == SimpleSpec => []SimpleIInv
BY SimpleInitOK, StepOK, PTL DEF SimpleSpec

(* No item is taken that was not put, the lock is never released below its *)
(* count, and no get sleeps on while there are items and the lock is taken *)
(* by nobody who is on its way: put and get hand the lock on whatever      *)
(* interruptions and time-outs there are.                                  *)
THEOREM Announced == SimpleSpec => []SimpleInv
<1>1. SimpleIInv => SimpleInv
  BY DEF SimpleIInv, SimpleInv
<1> QED
  BY <1>1, SimpleInvariance, PTL
-----------------------------------------------------------------------------
(***************************************************************************)
(* Proofs about the thread pool: what PoolInv, CallbackOnce and            *)
(* WaitersCount say holds in every state of ThreadPool, for any finite     *)
(* sets of threads and calls and any set of clients.                       *)
(*                                                                         *)
(* None of the three is inductive.  That a pending call is in one place    *)
(* needs the order of the queue (a work item once, None only behind the    *)
(* work items), which of the threads hold an item and in what state its    *)
(* future is then, and who holds _shutdown_lock while the queue is         *)
(* drained.  That some thread takes it needs what makes a worker leave.    *)
(* A callback runs once because only one agent is past the change of the   *)
(* state that ends a future.  A waiter's count needs the hooks: on which   *)
(* futures the waiter is installed while it waits and while it is being    *)
(* removed again.  PoolIInv is the conjunction; its parts have lemmas      *)
(* that say which steps leave it alone and lemmas for the steps that do    *)
(* not.                                                                    *)
(***************************************************************************)
(***************************************************************************)
(* The queue.                                                              *)
(***************************************************************************)
InQueue(f)   == \E i \in 1 .. Len(workQueue) : workQueue[i] = f
NoneInQueue  == \E i \in 1 .. Len(workQueue) : workQueue[i] = None

(* A work item is on the queue once, and no work item is behind a None.    *)
QueueInOrder ==
  /\ \A i, j \in 1 .. Len(workQueue) :
       workQueue[i] = workQueue[j] /\ workQueue[i] # None => i = j
  /\ \A i, j \in 1 .. Len(workQueue) :
       i < j /\ workQueue[i] = None => workQueue[j] = None

(* Where a future may be in each of its states.  A pending one is on the   *)
(* queue or with a worker, and what is on the queue is with no worker.     *)
HasItem == {"run", "call", "callbacks", "drained"}

ItemInv ==
  /\ \A w \in Worker : item[w] \in Work <=> workerPc[w] \in HasItem
  /\ \A v, w \in Worker : item[v] = item[w] /\ item[v] \in Work => v = w
  /\ \A w \in Worker : item[w] \in Work => ~InQueue(item[w])

StateInv ==
  /\ \A f \in Work : InQueue(f) => state[f] \in {"PENDING", "CANCELLED"}
  /\ \A f \in Work : state[f] = "PENDING" => InQueue(f) \/ \E w \in Worker : item[w] = f
  /\ \A w \in Worker :
       /\ workerPc[w] = "run"  => state[item[w]] \in {"PENDING", "CANCELLED"}
       /\ workerPc[w] = "call" => state[item[w]] = "RUNNING"
       /\ workerPc[w] \in {"callbacks", "drained"} => state[item[w]] = "FINISHED"

PlacesInv == QueueInOrder /\ ItemInv /\ StateInv

(***************************************************************************)
(* The lock, and the end of the pool.                                      *)
(***************************************************************************)
LockInv ==
  /\ \A c \in Client : clientPc[c] \in {"adjust", "drain", "drained", "wakeup"}
                         => shutdownLock = c
  /\ \A w \in Worker : workerPc[w] \in {"drain", "drained"} => shutdownLock = w
  /\ \A c \in Client : \A w \in Worker :
       ~(/\ clientPc[c] \in {"adjust", "drain", "drained", "wakeup"}
         /\ workerPc[w] \in {"drain", "drained"})

(* None is there only if the workers are to leave, so that no call comes   *)
(* after it; a worker that left has left no call behind.                   *)
Leaving == exiting \/ collected \/ shutdown

LeavingInv ==
  /\ mainPc # "running" => exiting
  /\ \A c \in Client : clientPc[c] \in {"drain", "drained", "wakeup"} => shutdown
  /\ NoneInQueue => Leaving
  /\ \A w \in Worker : workerPc[w] \in {"none", "exited"} =>
       Leaving /\ \A f \in Work : ~InQueue(f)

(* There is a thread for the calls, once submit is over.                   *)
ServedInv ==
  /\ idleSemaphore > 0 => Started # {}
  /\ \A f \in Work : InQueue(f) => Started # {} \/ \E c \in Client : clientPc[c] = "adjust"

(***************************************************************************)
(* The callbacks.                                                          *)
(***************************************************************************)
CallsBack(c, f)    == clientPc[c] \in {"callbacks", "drained"} /\ target[c] = f
WorkerCallsBack(w, f) == workerPc[w] \in {"callbacks", "drained"} /\ item[w] = f

CallbackInv(f) ==
  /\ ~Done(f) => ran[f] = 0 /\ ~AtCallbacks(f)
  /\ AtCallbacks(f) /\ listed[f] => ran[f] = 0
  /\ Done(f) /\ listed[f] /\ ~AtCallbacks(f) => ran[f] = 1
  /\ ~listed[f] => ran[f] <= 1
  /\ \A c, d \in Client : CallsBack(c, f) /\ CallsBack(d, f) => c = d
  /\ \A c \in Client : \A w \in Worker : ~(CallsBack(c, f) /\ WorkerCallsBack(w, f))

CallbacksInv ==
  /\ \A c \in Client : clientPc[c] \in {"callbacks", "drained", "result"} => target[c] \in Work
  /\ \A f \in Work : CallbackInv(f)

(***************************************************************************)
(* The waiters.                                                            *)
(***************************************************************************)
Open(c) == {f \in fs[c] : ~Notified(f)}

CountRight(c) ==
  CASE mode[c] = "ALL_COMPLETED"   -> /\ pendingCalls[c] = Cardinality(Open(c))
                                      /\ c \in event <=> Open(c) = {}
    [] mode[c] = "FIRST_EXCEPTION" -> /\ pendingCalls[c] = Cardinality(Open(c))
                                                            + Cardinality(fs[c] \cap raised)
                                      /\ c \in event <=> Open(c) = {} \/ fs[c] \cap raised # {}
    [] mode[c] = "FIRST_COMPLETED" -> c \in event <=> Open(c) # fs[c]
    [] mode[c] = "AS_COMPLETED"    -> /\ c \in event <=> Open(c) # fs[c]
                                      /\ finished[c] = fs[c] \ Open(c)

WaitInv(c) ==
  /\ batch[c] \subseteq fs[c] /\ fs[c] \subseteq Created
  /\ \A f \in Work : c \in hooked[f] <=>
       \/ clientPc[c] = "wait" /\ f \in fs[c]
       \/ clientPc[c] = "unhook" /\ f \in batch[c]
       \/ clientPc[c] = "unhook" /\ mode[c] = "AS_COMPLETED" /\ f \in fs[c]
  /\ clientPc[c] \notin {"wait", "unhook"} =>
       fs[c] = {} /\ finished[c] = {} /\ c \notin event
  /\ clientPc[c] = "wait" => CountRight(c)
  /\ clientPc[c] = "unhook" /\ mode[c] \in {"ALL_COMPLETED", "FIRST_EXCEPTION"} =>
       pendingCalls[c] >= Cardinality({f \in batch[c] : ~Notified(f)})
  /\ clientPc[c] = "unhook" /\ mode[c] = "AS_COMPLETED" =>
       \/ batch[c] = fs[c]
       \/ /\ batch[c] \cap Open(c) = {}
          /\ finished[c] = (fs[c] \ Open(c)) \ batch[c]
          /\ c \in event <=> finished[c] # {}

WaitersInv ==
  /\ \A f \in raised : state[f] = "FINISHED"
  /\ \A c \in Client : WaitInv(c)

PoolIInv == /\ PoolTypeOK /\ NoSleeperOnDone /\ PlacesInv /\ LockInv /\ LeavingInv /\ ServedInv
        /\ CallbacksInv /\ WaitersInv
-----------------------------------------------------------------------------
LEMMA QueueType ==
  ASSUME PoolTypeOK
  PROVE  workQueue \in Seq(Work \cup {None}) /\ Len(workQueue) \in Nat
BY DEF PoolTypeOK

(* A call at the end of a queue with no None.                              *)
LEMMA CallIsAppended ==
  ASSUME PoolTypeOK, QueueInOrder, ~NoneInQueue,
         NEW f \in Work, ~InQueue(f), workQueue' = Append(workQueue, f)
  PROVE  /\ workQueue' \in Seq(Work \cup {None})
         /\ QueueInOrder' /\ ~NoneInQueue'
         /\ \A g \in Work : InQueue(g)' <=> InQueue(g) \/ g = f
<1> DEFINE n == Len(workQueue)
<1>1. /\ workQueue' \in Seq(Work \cup {None}) /\ n \in Nat /\ Len(workQueue') = n + 1
      /\ \A i \in 1 .. n : workQueue'[i] = workQueue[i]
      /\ workQueue'[n + 1] = f
  BY QueueType, AppendProperties
<1>2. f # None
  BY ThreadPoolAssumption DEF ThreadPoolAssumption
<1>3. \A g \in Work : InQueue(g)' <=> InQueue(g) \/ g = f
  BY <1>1 DEF InQueue
<1>4. ~NoneInQueue'
  BY <1>1, <1>2 DEF NoneInQueue
<1>5. \A i, j \in 1 .. n + 1 : workQueue'[i] = workQueue'[j] => i = j
  <2> SUFFICES ASSUME NEW i \in 1 .. n + 1, NEW j \in 1 .. n + 1, i < j
               PROVE  workQueue'[i] # workQueue'[j]
    BY <1>1
  <2>1. CASE j = n + 1
    BY <2>1, <1>1 DEF InQueue
  <2>2. CASE j # n + 1
    BY <2>2, <1>1 DEF QueueInOrder, NoneInQueue
  <2> QED BY <2>1, <2>2
<1> QED
  BY <1>1, <1>3, <1>4, <1>5 DEF QueueInOrder, NoneInQueue

(* Wake-ups at the end.                                                    *)
LEMMA WakeUpsAreAppended ==
  ASSUME PoolTypeOK, QueueInOrder, NEW k \in Nat, workQueue' = workQueue \o WakeUps(k)
  PROVE  /\ workQueue' \in Seq(Work \cup {None})
         /\ QueueInOrder'
         /\ \A g \in Work : InQueue(g)' <=> InQueue(g)
<1> DEFINE n == Len(workQueue)
<1>1. WakeUps(k) \in Seq(Work \cup {None}) /\ Len(WakeUps(k)) = k
      /\ \A i \in 1 .. k : WakeUps(k)[i] = None
  BY DEF WakeUps
<1>2. /\ workQueue' \in Seq(Work \cup {None}) /\ n \in Nat /\ Len(workQueue') = n + k
      /\ \A i \in 1 .. n : workQueue'[i] = workQueue[i]
      /\ \A i \in n + 1 .. n + k : workQueue'[i] = None
  <2>1. workQueue \in Seq(Work \cup {None}) /\ n \in Nat
    BY QueueType
  <2>2. /\ workQueue' \in Seq(Work \cup {None}) /\ Len(workQueue') = n + k
        /\ \A i \in 1 .. n + k : workQueue'[i] = IF i <= n THEN workQueue[i]
                                                          ELSE WakeUps(k)[i - n]
    <3> HIDE DEF n
    <3> QED BY <2>1, <1>1, ConcatProperties DEF n
  <2>3. \A i \in n + 1 .. n + k : i - n \in 1 .. k /\ ~(i <= n) /\ i \in 1 .. n + k
    BY <2>1
  <2> QED BY <2>1, <2>2, <2>3, <1>1
<1>3. None \notin Work
  BY ThreadPoolAssumption DEF ThreadPoolAssumption
<1>4. \A g \in Work : InQueue(g)' <=> InQueue(g)
  BY <1>2, <1>3 DEF InQueue
<1>5. ASSUME NEW i \in 1 .. n + k, NEW j \in 1 .. n + k,
             workQueue'[i] = workQueue'[j], workQueue'[i] # None
      PROVE  i = j
  <2>1. i \in 1 .. n /\ j \in 1 .. n
    <3>1. i \in 1 .. n \/ i \in n + 1 .. n + k
      BY <1>2
    <3>2. j \in 1 .. n \/ j \in n + 1 .. n + k
      BY <1>2
    <3> QED BY <1>2, <1>5, <3>1, <3>2
  <2> QED BY <1>2, <1>5, <2>1 DEF QueueInOrder
<1>6. ASSUME NEW i \in 1 .. n + k, NEW j \in 1 .. n + k, i < j, workQueue'[i] = None
      PROVE  workQueue'[j] = None
  <2>1. CASE j \in 1 .. n
    <3>1. i \in 1 .. n
      BY <1>2, <1>6, <2>1
    <3> QED BY <1>2, <1>6, <2>1, <3>1 DEF QueueInOrder
  <2>2. CASE j \notin 1 .. n
    <3>1. j \in n + 1 .. n + k
      BY <1>2, <2>2
    <3> QED BY <1>2, <3>1
  <2> QED BY <2>1, <2>2
<1> QED
  BY <1>2, <1>4, <1>5, <1>6 DEF QueueInOrder

LEMMA WakeUpIsAppended ==
  ASSUME PoolTypeOK, QueueInOrder, workQueue' = Append(workQueue, None)
  PROVE  /\ workQueue' \in Seq(Work \cup {None})
         /\ QueueInOrder'
         /\ \A g \in Work : InQueue(g)' <=> InQueue(g)
<1>1. WakeUps(1) = <<None>>
  BY DEF WakeUps
<1>2. workQueue' = workQueue \o WakeUps(1)
  <2>1. workQueue \in Seq(Work \cup {None}) /\ None \in Work \cup {None}
    BY QueueType
  <2>2. Append(workQueue, None) = workQueue \o <<None>>
    BY <2>1, AppendIsConcat
  <2> QED BY <1>1, <2>2
<1> QED
  BY <1>2, WakeUpsAreAppended

(* The first is taken.                                                     *)
LEMMA HeadIsTaken ==
  ASSUME PoolTypeOK, QueueInOrder, workQueue # <<>>, workQueue' = Tail(workQueue)
  PROVE  /\ workQueue' \in Seq(Work \cup {None})
         /\ QueueInOrder'
         /\ NoneInQueue' => NoneInQueue
         /\ Head(workQueue) = None => NoneInQueue /\ \A g \in Work : ~InQueue(g) /\ ~InQueue(g)'
         /\ Head(workQueue) # None =>
              /\ Head(workQueue) \in Work /\ InQueue(Head(workQueue))
              /\ \A g \in Work : InQueue(g)' <=> InQueue(g) /\ g # Head(workQueue)
<1> DEFINE n == Len(workQueue)
<1> PICK h : h = Head(workQueue)
  OBVIOUS
<1>1. /\ workQueue' \in Seq(Work \cup {None}) /\ n \in Nat /\ n >= 1
      /\ h = workQueue[1] /\ h \in Work \cup {None}
      /\ Len(workQueue') = n - 1
      /\ \A i \in 1 .. n - 1 : workQueue'[i] = workQueue[i + 1]
  BY QueueType, HeadTailProperties, EmptySeq
<1>2. None \notin Work
  BY ThreadPoolAssumption DEF ThreadPoolAssumption
<1>3. \A i \in 1 .. n - 1 : i + 1 \in 1 .. n /\ i + 1 # 1
  BY <1>1
<1>4. \A i \in 1 .. n : i # 1 => i - 1 \in 1 .. n - 1 /\ (i - 1) + 1 = i
  BY <1>1
<1>5. 1 \in 1 .. n /\ \A i \in 2 .. n : i \in 1 .. n /\ 1 < i
  BY <1>1
<1>6. QueueInOrder'
  <2>1. \A i, j \in 1 .. n - 1 :
          workQueue'[i] = workQueue'[j] /\ workQueue'[i] # None => i = j
    BY <1>1, <1>3 DEF QueueInOrder
  <2>2. \A i, j \in 1 .. n - 1 : i < j /\ workQueue'[i] = None => workQueue'[j] = None
    BY <1>1, <1>3 DEF QueueInOrder
  <2> QED BY <1>1, <2>1, <2>2 DEF QueueInOrder
<1>7. NoneInQueue' => NoneInQueue
  BY <1>1, <1>3 DEF NoneInQueue
<1>8. \A g \in Work : InQueue(g)' => InQueue(g)
  BY <1>1, <1>3 DEF InQueue
<1>9. ASSUME NEW g \in Work, InQueue(g), g # h
      PROVE  InQueue(g)'
  <2>1. PICK i \in 1 .. n : workQueue[i] = g
    BY <1>9 DEF InQueue
  <2>2. i - 1 \in 1 .. n - 1 /\ workQueue'[i - 1] = g
    BY <1>1, <1>4, <1>9, <2>1
  <2> QED BY <2>2, <1>1 DEF InQueue
<1>10. ASSUME h = None
       PROVE  NoneInQueue /\ \A g \in Work : ~InQueue(g) /\ ~InQueue(g)'
  <2>1. NoneInQueue
    BY <1>10, <1>1, <1>5 DEF NoneInQueue
  <2>2. \A i \in 1 .. n : workQueue[i] = None
    BY <1>10, <1>1, <1>5 DEF QueueInOrder
  <2>3. \A g \in Work : ~InQueue(g)
    BY <2>2, <1>2 DEF InQueue
  <2> QED BY <2>1, <2>3, <1>8
<1>11. ASSUME h # None
       PROVE  h \in Work /\ InQueue(h) /\ ~InQueue(h)'
  <2>1. InQueue(h)
    BY <1>1, <1>5 DEF InQueue
  <2>2. \A i \in 1 .. n - 1 : workQueue'[i] # h
    BY <1>11, <1>1, <1>3, <1>5 DEF QueueInOrder
  <2>3. h \in Work
    BY <1>11, <1>1
  <2>4. ~InQueue(h)'
    BY <1>1, <2>2 DEF InQueue
  <2> QED BY <2>1, <2>3, <2>4
<1> HIDE DEF n
<1>12. ASSUME NEW g \in Work, h # None
       PROVE  InQueue(g)' <=> InQueue(g) /\ g # h
  BY <1>8, <1>9, <1>11, <1>12
<1> QED
  BY <1>1, <1>6, <1>7, <1>10, <1>11, <1>12
-----------------------------------------------------------------------------
(***************************************************************************)
(* What leaves each part of the invariant as it is.                        *)
(***************************************************************************)
AsideC(c, ls) == clientPc'[c] = clientPc[c]
                   \/ (clientPc[c] \notin ls /\ clientPc'[c] \notin ls)
AsideW(w, ls) == workerPc'[w] = workerPc[w]
                   \/ (workerPc[w] \notin ls /\ workerPc'[w] \notin ls)

InPool   == {"adjust", "drain", "drained", "wakeup"}
InDrain  == {"drain", "drained"}
InCall   == {"callbacks", "drained"}

LEMMA PlacesKept ==
  ASSUME PlacesInv, QueueInOrder', \A g \in Work : InQueue(g)' <=> InQueue(g),
         UNCHANGED <<state, item>>, \A w \in Worker : AsideW(w, HasItem)
  PROVE  PlacesInv'
<1>1. \A w \in Worker : workerPc'[w] \in HasItem \/ workerPc[w] \in HasItem =>
        workerPc'[w] = workerPc[w]
  BY DEF AsideW
<1>2. ItemInv'
  BY <1>1 DEF PlacesInv, ItemInv
<1>3. StateInv'
  BY <1>1 DEF PlacesInv, StateInv, HasItem
<1> QED
  BY <1>2, <1>3 DEF PlacesInv

LEMMA LockKept ==
  ASSUME LockInv, UNCHANGED shutdownLock,
         \A c \in Client : AsideC(c, InPool), \A w \in Worker : AsideW(w, InDrain)
  PROVE  LockInv'
BY DEF LockInv, AsideC, AsideW, InPool, InDrain

LEMMA LeavingKept ==
  ASSUME LeavingInv, UNCHANGED mainPc, exiting => exiting', collected => collected',
         shutdown => shutdown', NoneInQueue' => NoneInQueue,
         \A g \in Work : InQueue(g)' => InQueue(g),
         \A c \in Client : AsideC(c, {"drain", "drained", "wakeup"}),
         \A w \in Worker : AsideW(w, {"none", "exited"})
  PROVE  LeavingInv'
<1>1. Leaving => Leaving'
  BY DEF Leaving
<1>2. \A c \in Client : clientPc'[c] \in {"drain", "drained", "wakeup"} =>
        clientPc[c] \in {"drain", "drained", "wakeup"}
  BY DEF AsideC
<1>3. \A w \in Worker : workerPc'[w] \in {"none", "exited"} =>
        workerPc[w] \in {"none", "exited"}
  BY DEF AsideW
<1> QED
  BY <1>1, <1>2, <1>3 DEF LeavingInv

LEMMA ServedKept ==
  ASSUME ServedInv, idleSemaphore' = idleSemaphore,
         \A g \in Work : InQueue(g)' => InQueue(g),
         \A c \in Client : clientPc[c] = "adjust" => clientPc'[c] = "adjust",
         \A w \in Worker : workerPc[w] # "unborn" => workerPc'[w] # "unborn"
  PROVE  ServedInv'
<1>1. Started \subseteq Started'
  BY DEF Started
<1> QED
  BY <1>1 DEF ServedInv

LEMMA CallbacksKept ==
  ASSUME CallbacksInv, UNCHANGED <<listed, ran>>,
         \A f \in Work : Done(f)' <=> Done(f),
         \A c \in Client : AsideC(c, InCall) /\ (clientPc[c] \in InCall => target'[c] = target[c]),
         \A c \in Client : clientPc'[c] = "result" => target'[c] \in Work,
         \A w \in Worker : AsideW(w, InCall) /\ (workerPc[w] \in InCall => item'[w] = item[w])
  PROVE  CallbacksInv'
<1>1. \A c \in Client : clientPc'[c] \in InCall => clientPc[c] = clientPc'[c] /\ target'[c] = target[c]
  BY DEF AsideC
<1>2. \A f \in Work : \A c \in Client : CallsBack(c, f)' <=> CallsBack(c, f)
  BY DEF AsideC, CallsBack, InCall
<1>3. \A f \in Work : \A w \in Worker : WorkerCallsBack(w, f)' <=> WorkerCallsBack(w, f)
  BY DEF AsideW, WorkerCallsBack, InCall
<1>4. \A f \in Work : AtCallbacks(f)' <=> AtCallbacks(f)
  BY <1>2, <1>3 DEF AtCallbacks, CallsBack, WorkerCallsBack
<1>5. \A f \in Work : CallbackInv(f)'
  BY <1>2, <1>3, <1>4 DEF CallbacksInv, CallbackInv
<1>6. \A c \in Client : clientPc'[c] \in {"callbacks", "drained", "result"} => target'[c] \in Work
  BY <1>1 DEF CallbacksInv, InCall
<1> QED
  BY <1>5, <1>6 DEF CallbacksInv

LEMMA WaitersKept ==
  ASSUME PoolTypeOK, WaitersInv,
         UNCHANGED <<raised, hooked, fs, mode, finished, pendingCalls, event, batch>>,
         \A f \in Work : Notified(f)' <=> Notified(f), \A f \in Work : f \in Created => f \in Created',
         \A f \in raised : state'[f] = state[f],
         \A c \in Client : AsideC(c, {"wait", "unhook"})
  PROVE  WaitersInv'
<1> SUFFICES ASSUME NEW c \in Client
             PROVE  WaitInv(c)'
  BY DEF WaitersInv
<1>1. fs[c] \subseteq Work /\ batch[c] \subseteq Work
  BY DEF PoolTypeOK, WaitersInv, WaitInv
<1>2. Open(c)' = Open(c) /\ {f \in batch[c] : ~Notified(f)}' = {f \in batch[c] : ~Notified(f)}
  BY <1>1 DEF Open
<1>3. CountRight(c)' <=> CountRight(c)
  BY <1>2 DEF CountRight
<1>4. \A l \in {"wait", "unhook"} : clientPc'[c] = l <=> clientPc[c] = l
  BY DEF AsideC
<1>5. WaitInv(c)
  BY DEF WaitersInv
<1>6. fs[c] \subseteq Created'
  BY <1>1, <1>5 DEF WaitInv
<1> QED
  BY <1>2, <1>3, <1>4, <1>5, <1>6 DEF WaitInv

(* A step that is not about any call. *)
LEMMA CallsAside ==
  ASSUME PoolIInv,
         UNCHANGED <<state, raised, parked, hooked, listed, ran, target, fs, mode, batch,
                     finished, pendingCalls, event, item>>,
         QueueInOrder', \A g \in Work : InQueue(g)' <=> InQueue(g),
         \A c \in Client : AsideC(c, {"callbacks", "drained", "result", "wait", "unhook"}),
         \A w \in Worker : AsideW(w, HasItem)
  PROVE  NoSleeperOnDone' /\ PlacesInv' /\ CallbacksInv' /\ WaitersInv'
<1>1. NoSleeperOnDone'
  BY DEF PoolIInv, NoSleeperOnDone, Done
<1>2. PlacesInv'
  BY PlacesKept DEF PoolIInv
<1>3. CallbacksInv'
  <2>1. \A f \in Work : Done(f)' <=> Done(f)
    BY DEF Done
  <2>2. \A c \in Client : /\ AsideC(c, InCall) /\ target'[c] = target[c]
                          /\ clientPc'[c] = "result" => target'[c] \in Work
    BY DEF AsideC, InCall, PoolIInv, CallbacksInv
  <2>3. \A w \in Worker : AsideW(w, InCall) /\ item'[w] = item[w]
    BY DEF AsideW, InCall, HasItem
  <2> QED BY <2>1, <2>2, <2>3, CallbacksKept DEF PoolIInv
<1>4. WaitersInv'
  <2>1. \A g \in Work : (Notified(g)' <=> Notified(g)) /\ (g \in Created => g \in Created')
    BY DEF Notified, Created
  <2>2. \A c \in Client : AsideC(c, {"wait", "unhook"})
    BY DEF AsideC
  <2> QED BY <2>1, <2>2, WaitersKept DEF PoolIInv
<1> QED
  BY <1>1, <1>2, <1>3, <1>4
-----------------------------------------------------------------------------
(***************************************************************************)
(* What the workers and clients do to the pool.                            *)
(***************************************************************************)
LEMMA SubmitKeeps ==
  ASSUME PoolIInv, NEW c \in Client, NEW f \in Work, Submit(c, f)
  PROVE  PoolIInv'
<1> USE DEF Submit, ClientGoes, futureVars, callVars, waiterVars, askVars, poolFlags, workers
<1>1. ~NoneInQueue /\ ~InQueue(f) /\ \A w \in Worker : item[w] # f
  BY DEF PoolIInv, LeavingInv, Leaving, Accepts, PlacesInv, StateInv, ItemInv, HasItem
<1>2. /\ workQueue' \in Seq(Work \cup {None}) /\ QueueInOrder' /\ ~NoneInQueue'
      /\ \A g \in Work : InQueue(g)' <=> InQueue(g) \/ g = f
  BY <1>1, CallIsAppended DEF PoolIInv, PlacesInv
<1>3. PoolTypeOK'
  BY <1>2 DEF PoolIInv, PoolTypeOK
<1>4. NoSleeperOnDone'
  BY DEF PoolIInv, NoSleeperOnDone, Done, PoolTypeOK
<1>5. PlacesInv'
  <2>1. ItemInv'
    BY <1>1, <1>2 DEF PoolIInv, PlacesInv, ItemInv
  <2>2. StateInv'
    BY <1>1, <1>2 DEF PoolIInv, PlacesInv, StateInv, ItemInv, HasItem, PoolTypeOK
  <2> QED BY <1>2, <2>1, <2>2 DEF PlacesInv
<1>6. LockInv'
  BY ThreadPoolAssumption DEF PoolIInv, LockInv, PoolTypeOK, ThreadPoolAssumption
<1>7. LeavingInv'
  BY <1>1, <1>2 DEF PoolIInv, LeavingInv, Leaving, Accepts, PoolTypeOK
<1>8. ServedInv'
  BY <1>2 DEF PoolIInv, ServedInv, Started, PoolTypeOK
<1>9. CallbacksInv'
  <2>1. \A g \in Work : Done(g)' <=> Done(g)
    BY DEF Done, PoolIInv, PoolTypeOK
  <2>2. \A d \in Client : /\ AsideC(d, InCall) /\ target'[d] = target[d]
                          /\ clientPc'[d] = "result" => target'[d] \in Work
    BY DEF AsideC, InCall, PoolIInv, PoolTypeOK, CallbacksInv
  <2>3. \A w \in Worker : AsideW(w, InCall) /\ item'[w] = item[w]
    BY DEF AsideW
  <2> QED BY <2>1, <2>2, <2>3, CallbacksKept DEF PoolIInv
<1>10. WaitersInv'
  <2>1. \A g \in Work : (Notified(g)' <=> Notified(g)) /\ (g \in Created => g \in Created')
    BY DEF Notified, Created, PoolIInv, PoolTypeOK
  <2>2. \A d \in Client : AsideC(d, {"wait", "unhook"})
    BY DEF AsideC, PoolIInv, PoolTypeOK
  <2>3. \A g \in raised : state'[g] = state[g]
    BY DEF PoolIInv, PoolTypeOK, WaitersInv
  <2> QED BY <2>1, <2>2, <2>3, WaitersKept DEF PoolIInv
<1> QED
  BY <1>3, <1>4, <1>5, <1>6, <1>7, <1>8, <1>9, <1>10 DEF PoolIInv

(* The threads are finitely many. *)
LEMMA WorkerCount ==
  Cardinality(Worker) \in Nat
BY FS_CardinalityType, ThreadPoolAssumption DEF ThreadPoolAssumption

LEMMA StartedCount ==
  Cardinality(Started) \in Nat /\ Cardinality(Alive) \in Nat
<1>1. IsFiniteSet(Worker)
  BY ThreadPoolAssumption DEF ThreadPoolAssumption
<1>2. Started \subseteq Worker /\ Alive \subseteq Worker
  BY DEF Started, Alive
<1>3. IsFiniteSet(Started) /\ IsFiniteSet(Alive)
  BY <1>1, <1>2, FS_Subset
<1> QED
  BY <1>3, FS_CardinalityType

LEMMA AdjustThreadCountKeeps ==
  ASSUME PoolIInv, NEW c \in Client, AdjustThreadCount(c)
  PROVE  PoolIInv'
<1> USE DEF AdjustThreadCount, HasIdle, ClientGoes, WorkerGoes, futureVars, callVars, waiterVars, askVars, poolFlags, workers
<1>0. \/ workerPc' = workerPc
      \/ \E w \in Worker : /\ workerPc[w] = "unborn" /\ ~HasIdle
                          /\ workerPc' = [workerPc EXCEPT ![w] = "initializer"]
  BY DEF Started
<1>1. QueueInOrder' /\ (NoneInQueue' <=> NoneInQueue) /\ \A g \in Work : InQueue(g)' <=> InQueue(g)
  BY DEF PoolIInv, PlacesInv, QueueInOrder, InQueue, NoneInQueue
<1>2. PoolTypeOK'
  <2>1. workerPc' \in [Worker -> {"unborn", "initializer", "failed", "drain", "drained",
                                   "get_nowait", "empty", "get", "run", "call", "callbacks",
                                   "none", "exited", "dead"}]
    BY <1>0 DEF PoolIInv, PoolTypeOK
  <2>2. idleSemaphore' \in Nat
    BY DEF PoolIInv, PoolTypeOK
  <2>3. clientPc' \in [Client -> {"idle", "callbacks", "result", "wait", "unhook", "adjust",
                                   "drain", "drained", "wakeup", "join"}]
    BY DEF PoolIInv, PoolTypeOK
  <2> QED BY <2>1, <2>2, <2>3 DEF PoolIInv, PoolTypeOK
<1>3. \A d \in Client : AsideC(d, {"callbacks", "drained", "result", "wait", "unhook"})
  BY DEF AsideC, PoolIInv, PoolTypeOK
<1>4. \A v \in Worker : AsideW(v, HasItem)
  BY <1>0 DEF AsideW, HasItem, PoolIInv, PoolTypeOK
<1>5. NoSleeperOnDone' /\ PlacesInv' /\ CallbacksInv' /\ WaitersInv'
  BY <1>1, <1>3, <1>4, CallsAside
<1>6. LockInv'
  BY ThreadPoolAssumption DEF PoolIInv, LockInv, PoolTypeOK, ThreadPoolAssumption
<1>7. LeavingInv'
  BY <1>1 DEF PoolIInv, LeavingInv, Leaving, PoolTypeOK
<1>8. ServedInv'
  <2>1. Started \subseteq Started'
    BY DEF Started, PoolIInv, PoolTypeOK
  <2>2. Started' # {}
    <3>1. CASE HasIdle
      BY <3>1, <2>1 DEF PoolIInv, ServedInv, PoolTypeOK
    <3>2. CASE ~HasIdle /\ Cardinality(Started) < MaxWorkers
      <4>1. ~(Cardinality(Started) >= MaxWorkers)
        BY <3>2, StartedCount, ThreadPoolAssumption, WorkerCount DEF ThreadPoolAssumption
      <4>2. PICK w \in Worker \ Started : workerPc' = [workerPc EXCEPT ![w] = "initializer"]
        BY <3>2, <4>1
      <4> QED BY <4>2 DEF Started, PoolIInv, PoolTypeOK
    <3>3. CASE ~HasIdle /\ Cardinality(Started) >= MaxWorkers
      <4>1. Started # {}
        <5> SUFFICES ASSUME Started = {} PROVE FALSE
          OBVIOUS
        <5>1. Cardinality(Started) = 0
          BY FS_EmptySet
        <5>2. MaxWorkers \in Nat /\ MaxWorkers >= 1
          BY WorkerCount, ThreadPoolAssumption DEF ThreadPoolAssumption
        <5> QED BY <3>3, <5>1, <5>2
      <4> QED BY <4>1, <2>1
    <3> QED BY <3>1, <3>2, <3>3
  <2> QED BY <2>2 DEF ServedInv
<1> QED
  BY <1>2, <1>5, <1>6, <1>7, <1>8 DEF PoolIInv

LEMMA ShutdownBeginsKeeps ==
  ASSUME PoolIInv, NEW c \in Client, NEW cancel \in Cancels, ShutdownBegins(c, cancel)
  PROVE  PoolIInv'
<1> USE DEF ShutdownBegins, ClientGoes, futureVars, callVars, waiterVars, askVars, poolFlags, workers
<1>1. QueueInOrder' /\ (NoneInQueue' <=> NoneInQueue) /\ \A g \in Work : InQueue(g)' <=> InQueue(g)
  BY DEF PoolIInv, PlacesInv, QueueInOrder, InQueue, NoneInQueue
<1>2. PoolTypeOK'
  BY <1>1 DEF PoolIInv, PoolTypeOK
<1>3. \A d \in Client : AsideC(d, {"callbacks", "drained", "result", "wait", "unhook"})
  BY DEF AsideC, PoolIInv, PoolTypeOK
<1>4. \A v \in Worker : AsideW(v, HasItem)
  BY DEF AsideW, HasItem, PoolIInv, PoolTypeOK
<1>5. NoSleeperOnDone' /\ PlacesInv' /\ CallbacksInv' /\ WaitersInv'
  BY <1>1, <1>3, <1>4, CallsAside
<1>6. LockInv'
  BY ThreadPoolAssumption DEF PoolIInv, LockInv, PoolTypeOK, ThreadPoolAssumption
<1>7. LeavingInv'
  BY <1>1 DEF PoolIInv, LeavingInv, Leaving, PoolTypeOK
<1>8. ServedInv'
  BY <1>1 DEF PoolIInv, ServedInv, Started, PoolTypeOK
<1> QED
  BY <1>2, <1>5, <1>6, <1>7, <1>8 DEF PoolIInv

LEMMA ShutdownWakesKeeps ==
  ASSUME PoolIInv, NEW c \in Client, NEW wait \in BOOLEAN, ShutdownWakes(c, wait)
  PROVE  PoolIInv'
<1> USE DEF ShutdownWakes, ClientGoes, futureVars, callVars, waiterVars, askVars, poolFlags, workers
<1>1. /\ workQueue' \in Seq(Work \cup {None}) /\ QueueInOrder'
      /\ \A g \in Work : InQueue(g)' <=> InQueue(g)
  BY WakeUpIsAppended DEF PoolIInv, PlacesInv
<1>2. PoolTypeOK'
  BY <1>1 DEF PoolIInv, PoolTypeOK
<1>3. \A d \in Client : AsideC(d, {"callbacks", "drained", "result", "wait", "unhook"})
  BY DEF AsideC, PoolIInv, PoolTypeOK
<1>4. \A v \in Worker : AsideW(v, HasItem)
  BY DEF AsideW, HasItem, PoolIInv, PoolTypeOK
<1>5. NoSleeperOnDone' /\ PlacesInv' /\ CallbacksInv' /\ WaitersInv'
  BY <1>1, <1>3, <1>4, CallsAside
<1>6. LockInv'
  BY ThreadPoolAssumption DEF PoolIInv, LockInv, PoolTypeOK, ThreadPoolAssumption
<1>7. LeavingInv'
  BY <1>1 DEF PoolIInv, LeavingInv, Leaving, PoolTypeOK
<1>8. ServedInv'
  BY <1>1 DEF PoolIInv, ServedInv, Started, PoolTypeOK
<1> QED
  BY <1>2, <1>5, <1>6, <1>7, <1>8 DEF PoolIInv

LEMMA ShutdownReturnsKeeps ==
  ASSUME PoolIInv, NEW c \in Client, ShutdownReturns(c)
  PROVE  PoolIInv'
<1> USE DEF ShutdownReturns, ClientGoes, futureVars, callVars, waiterVars, askVars, poolFlags, workers
<1>1. QueueInOrder' /\ (NoneInQueue' <=> NoneInQueue) /\ \A g \in Work : InQueue(g)' <=> InQueue(g)
  BY DEF PoolIInv, PlacesInv, QueueInOrder, InQueue, NoneInQueue
<1>2. PoolTypeOK'
  BY <1>1 DEF PoolIInv, PoolTypeOK
<1>3. \A d \in Client : AsideC(d, {"callbacks", "drained", "result", "wait", "unhook"})
  BY DEF AsideC, PoolIInv, PoolTypeOK
<1>4. \A v \in Worker : AsideW(v, HasItem)
  BY DEF AsideW, HasItem, PoolIInv, PoolTypeOK
<1>5. NoSleeperOnDone' /\ PlacesInv' /\ CallbacksInv' /\ WaitersInv'
  BY <1>1, <1>3, <1>4, CallsAside
<1>6. LockInv'
  BY ThreadPoolAssumption DEF PoolIInv, LockInv, PoolTypeOK, ThreadPoolAssumption
<1>7. LeavingInv'
  BY <1>1 DEF PoolIInv, LeavingInv, Leaving, PoolTypeOK
<1>8. ServedInv'
  BY <1>1 DEF PoolIInv, ServedInv, Started, PoolTypeOK
<1> QED
  BY <1>2, <1>5, <1>6, <1>7, <1>8 DEF PoolIInv

LEMMA ExecutorLostKeeps ==
  ASSUME PoolIInv, ExecutorLost
  PROVE  PoolIInv'
<1> USE DEF ExecutorLost, futureVars, callVars, waiterVars, askVars, poolFlags, workers
<1>1. /\ workQueue' \in Seq(Work \cup {None}) /\ QueueInOrder'
      /\ \A g \in Work : InQueue(g)' <=> InQueue(g)
  <2>1. Cardinality(Alive) \in Nat
    BY StartedCount
  <2> QED BY <2>1, WakeUpsAreAppended DEF PoolIInv, PlacesInv
<1>2. PoolTypeOK'
  BY <1>1 DEF PoolIInv, PoolTypeOK
<1>3. \A d \in Client : AsideC(d, {"callbacks", "drained", "result", "wait", "unhook"})
  BY DEF AsideC, PoolIInv, PoolTypeOK
<1>4. \A v \in Worker : AsideW(v, HasItem)
  BY DEF AsideW, HasItem, PoolIInv, PoolTypeOK
<1>5. NoSleeperOnDone' /\ PlacesInv' /\ CallbacksInv' /\ WaitersInv'
  BY <1>1, <1>3, <1>4, CallsAside
<1>6. LockInv'
  BY ThreadPoolAssumption DEF PoolIInv, LockInv, PoolTypeOK, ThreadPoolAssumption
<1>7. LeavingInv'
  BY <1>1 DEF PoolIInv, LeavingInv, Leaving, PoolTypeOK
<1>8. ServedInv'
  BY <1>1 DEF PoolIInv, ServedInv, Started, PoolTypeOK
<1> QED
  BY <1>2, <1>5, <1>6, <1>7, <1>8 DEF PoolIInv

LEMMA PythonExitsKeeps ==
  ASSUME PoolIInv, PythonExits
  PROVE  PoolIInv'
<1> USE DEF PythonExits, futureVars, callVars, waiterVars, askVars, poolFlags, workers
<1>1. QueueInOrder' /\ (NoneInQueue' <=> NoneInQueue) /\ \A g \in Work : InQueue(g)' <=> InQueue(g)
  BY DEF PoolIInv, PlacesInv, QueueInOrder, InQueue, NoneInQueue
<1>2. PoolTypeOK'
  BY <1>1 DEF PoolIInv, PoolTypeOK
<1>3. \A d \in Client : AsideC(d, {"callbacks", "drained", "result", "wait", "unhook"})
  BY DEF AsideC, PoolIInv, PoolTypeOK
<1>4. \A v \in Worker : AsideW(v, HasItem)
  BY DEF AsideW, HasItem, PoolIInv, PoolTypeOK
<1>5. NoSleeperOnDone' /\ PlacesInv' /\ CallbacksInv' /\ WaitersInv'
  BY <1>1, <1>3, <1>4, CallsAside
<1>6. LockInv'
  BY ThreadPoolAssumption DEF PoolIInv, LockInv, PoolTypeOK, ThreadPoolAssumption
<1>7. LeavingInv'
  BY <1>1 DEF PoolIInv, LeavingInv, Leaving, PoolTypeOK
<1>8. ServedInv'
  BY <1>1 DEF PoolIInv, ServedInv, Started, PoolTypeOK
<1> QED
  BY <1>2, <1>5, <1>6, <1>7, <1>8 DEF PoolIInv

LEMMA PythonExitWakesKeeps ==
  ASSUME PoolIInv, PythonExitWakes
  PROVE  PoolIInv'
<1> USE DEF PythonExitWakes, futureVars, callVars, waiterVars, askVars, poolFlags, workers
<1>1. /\ workQueue' \in Seq(Work \cup {None}) /\ QueueInOrder'
      /\ \A g \in Work : InQueue(g)' <=> InQueue(g)
  <2>1. PICK n \in Nat : workQueue' = workQueue \o WakeUps(n)
    BY StartedCount, SMTT(30)
  <2> QED BY <2>1, WakeUpsAreAppended DEF PoolIInv, PlacesInv
<1>2. PoolTypeOK'
  BY <1>1 DEF PoolIInv, PoolTypeOK
<1>3. \A d \in Client : AsideC(d, {"callbacks", "drained", "result", "wait", "unhook"})
  BY DEF AsideC, PoolIInv, PoolTypeOK
<1>4. \A v \in Worker : AsideW(v, HasItem)
  BY DEF AsideW, HasItem, PoolIInv, PoolTypeOK
<1>5. NoSleeperOnDone' /\ PlacesInv' /\ CallbacksInv' /\ WaitersInv'
  BY <1>1, <1>3, <1>4, CallsAside
<1>6. LockInv'
  BY ThreadPoolAssumption DEF PoolIInv, LockInv, PoolTypeOK, ThreadPoolAssumption
<1>7. LeavingInv'
  BY <1>1 DEF PoolIInv, LeavingInv, Leaving, PoolTypeOK
<1>8. ServedInv'
  BY <1>1 DEF PoolIInv, ServedInv, Started, PoolTypeOK
<1> QED
  BY <1>2, <1>5, <1>6, <1>7, <1>8 DEF PoolIInv

LEMMA PythonExitJoinsKeeps ==
  ASSUME PoolIInv, PythonExitJoins
  PROVE  PoolIInv'
<1> USE DEF PythonExitJoins, futureVars, callVars, waiterVars, askVars, poolFlags, workers
<1>1. QueueInOrder' /\ (NoneInQueue' <=> NoneInQueue) /\ \A g \in Work : InQueue(g)' <=> InQueue(g)
  BY DEF PoolIInv, PlacesInv, QueueInOrder, InQueue, NoneInQueue
<1>2. PoolTypeOK'
  BY <1>1 DEF PoolIInv, PoolTypeOK
<1>3. \A d \in Client : AsideC(d, {"callbacks", "drained", "result", "wait", "unhook"})
  BY DEF AsideC, PoolIInv, PoolTypeOK
<1>4. \A v \in Worker : AsideW(v, HasItem)
  BY DEF AsideW, HasItem, PoolIInv, PoolTypeOK
<1>5. NoSleeperOnDone' /\ PlacesInv' /\ CallbacksInv' /\ WaitersInv'
  BY <1>1, <1>3, <1>4, CallsAside
<1>6. LockInv'
  BY ThreadPoolAssumption DEF PoolIInv, LockInv, PoolTypeOK, ThreadPoolAssumption
<1>7. LeavingInv'
  BY <1>1 DEF PoolIInv, LeavingInv, Leaving, PoolTypeOK
<1>8. ServedInv'
  BY <1>1 DEF PoolIInv, ServedInv, Started, PoolTypeOK
<1> QED
  BY <1>2, <1>5, <1>6, <1>7, <1>8 DEF PoolIInv

LEMMA InitializerReturnsKeeps ==
  ASSUME PoolIInv, NEW w \in Worker, InitializerReturns(w)
  PROVE  PoolIInv'
<1> USE DEF InitializerReturns, WorkerGoes, futureVars, callVars, waiterVars, askVars, poolFlags, workers
<1>1. QueueInOrder' /\ (NoneInQueue' <=> NoneInQueue) /\ \A g \in Work : InQueue(g)' <=> InQueue(g)
  BY DEF PoolIInv, PlacesInv, QueueInOrder, InQueue, NoneInQueue
<1>2. PoolTypeOK'
  BY <1>1 DEF PoolIInv, PoolTypeOK
<1>3. \A d \in Client : AsideC(d, {"callbacks", "drained", "result", "wait", "unhook"})
  BY DEF AsideC, PoolIInv, PoolTypeOK
<1>4. \A v \in Worker : AsideW(v, HasItem)
  BY DEF AsideW, HasItem, PoolIInv, PoolTypeOK
<1>5. NoSleeperOnDone' /\ PlacesInv' /\ CallbacksInv' /\ WaitersInv'
  BY <1>1, <1>3, <1>4, CallsAside
<1>6. LockInv'
  BY ThreadPoolAssumption DEF PoolIInv, LockInv, PoolTypeOK, ThreadPoolAssumption
<1>7. LeavingInv'
  BY <1>1 DEF PoolIInv, LeavingInv, Leaving, PoolTypeOK
<1>8. ServedInv'
  BY <1>1 DEF PoolIInv, ServedInv, Started, PoolTypeOK
<1> QED
  BY <1>2, <1>5, <1>6, <1>7, <1>8 DEF PoolIInv

LEMMA InitializerRaisesKeeps ==
  ASSUME PoolIInv, NEW w \in Worker, InitializerRaises(w)
  PROVE  PoolIInv'
<1> USE DEF InitializerRaises, WorkerGoes, futureVars, callVars, waiterVars, askVars, poolFlags, workers
<1>1. QueueInOrder' /\ (NoneInQueue' <=> NoneInQueue) /\ \A g \in Work : InQueue(g)' <=> InQueue(g)
  BY DEF PoolIInv, PlacesInv, QueueInOrder, InQueue, NoneInQueue
<1>2. PoolTypeOK'
  BY <1>1 DEF PoolIInv, PoolTypeOK
<1>3. \A d \in Client : AsideC(d, {"callbacks", "drained", "result", "wait", "unhook"})
  BY DEF AsideC, PoolIInv, PoolTypeOK
<1>4. \A v \in Worker : AsideW(v, HasItem)
  BY DEF AsideW, HasItem, PoolIInv, PoolTypeOK
<1>5. NoSleeperOnDone' /\ PlacesInv' /\ CallbacksInv' /\ WaitersInv'
  BY <1>1, <1>3, <1>4, CallsAside
<1>6. LockInv'
  BY ThreadPoolAssumption DEF PoolIInv, LockInv, PoolTypeOK, ThreadPoolAssumption
<1>7. LeavingInv'
  BY <1>1 DEF PoolIInv, LeavingInv, Leaving, PoolTypeOK
<1>8. ServedInv'
  BY <1>1 DEF PoolIInv, ServedInv, Started, PoolTypeOK
<1> QED
  BY <1>2, <1>5, <1>6, <1>7, <1>8 DEF PoolIInv

LEMMA InitializerFailedKeeps ==
  ASSUME PoolIInv, NEW w \in Worker, InitializerFailed(w)
  PROVE  PoolIInv'
<1> USE DEF InitializerFailed, WorkerGoes, futureVars, callVars, waiterVars, askVars, poolFlags, workers
<1>1. QueueInOrder' /\ (NoneInQueue' <=> NoneInQueue) /\ \A g \in Work : InQueue(g)' <=> InQueue(g)
  BY DEF PoolIInv, PlacesInv, QueueInOrder, InQueue, NoneInQueue
<1>2. PoolTypeOK'
  BY <1>1 DEF PoolIInv, PoolTypeOK
<1>3. \A d \in Client : AsideC(d, {"callbacks", "drained", "result", "wait", "unhook"})
  BY DEF AsideC, PoolIInv, PoolTypeOK
<1>4. \A v \in Worker : AsideW(v, HasItem)
  BY DEF AsideW, HasItem, PoolIInv, PoolTypeOK
<1>5. NoSleeperOnDone' /\ PlacesInv' /\ CallbacksInv' /\ WaitersInv'
  BY <1>1, <1>3, <1>4, CallsAside
<1>6. LockInv'
  BY ThreadPoolAssumption DEF PoolIInv, LockInv, PoolTypeOK, ThreadPoolAssumption
<1>7. LeavingInv'
  BY <1>1 DEF PoolIInv, LeavingInv, Leaving, PoolTypeOK
<1>8. ServedInv'
  BY <1>1 DEF PoolIInv, ServedInv, Started, PoolTypeOK
<1> QED
  BY <1>2, <1>5, <1>6, <1>7, <1>8 DEF PoolIInv

LEMMA FoundEmptyKeeps ==
  ASSUME PoolIInv, NEW w \in Worker, FoundEmpty(w)
  PROVE  PoolIInv'
<1> USE DEF FoundEmpty, WorkerGoes, futureVars, callVars, waiterVars, askVars, poolFlags, workers
<1>1. QueueInOrder' /\ (NoneInQueue' <=> NoneInQueue) /\ \A g \in Work : InQueue(g)' <=> InQueue(g)
  BY DEF PoolIInv, PlacesInv, QueueInOrder, InQueue, NoneInQueue
<1>2. PoolTypeOK'
  BY <1>1 DEF PoolIInv, PoolTypeOK
<1>3. \A d \in Client : AsideC(d, {"callbacks", "drained", "result", "wait", "unhook"})
  BY DEF AsideC, PoolIInv, PoolTypeOK
<1>4. \A v \in Worker : AsideW(v, HasItem)
  BY DEF AsideW, HasItem, PoolIInv, PoolTypeOK
<1>5. NoSleeperOnDone' /\ PlacesInv' /\ CallbacksInv' /\ WaitersInv'
  BY <1>1, <1>3, <1>4, CallsAside
<1>6. LockInv'
  BY ThreadPoolAssumption DEF PoolIInv, LockInv, PoolTypeOK, ThreadPoolAssumption
<1>7. LeavingInv'
  BY <1>1 DEF PoolIInv, LeavingInv, Leaving, PoolTypeOK
<1>8. ServedInv'
  BY <1>1 DEF PoolIInv, ServedInv, Started, PoolTypeOK
<1> QED
  BY <1>2, <1>5, <1>6, <1>7, <1>8 DEF PoolIInv

LEMMA BecomesIdleKeeps ==
  ASSUME PoolIInv, NEW w \in Worker, BecomesIdle(w)
  PROVE  PoolIInv'
<1> USE DEF BecomesIdle, WorkerGoes, futureVars, callVars, waiterVars, askVars, poolFlags, workers
<1>1. QueueInOrder' /\ (NoneInQueue' <=> NoneInQueue) /\ \A g \in Work : InQueue(g)' <=> InQueue(g)
  BY DEF PoolIInv, PlacesInv, QueueInOrder, InQueue, NoneInQueue
<1>2. PoolTypeOK'
  BY <1>1 DEF PoolIInv, PoolTypeOK
<1>3. \A d \in Client : AsideC(d, {"callbacks", "drained", "result", "wait", "unhook"})
  BY DEF AsideC, PoolIInv, PoolTypeOK
<1>4. \A v \in Worker : AsideW(v, HasItem)
  BY DEF AsideW, HasItem, PoolIInv, PoolTypeOK
<1>5. NoSleeperOnDone' /\ PlacesInv' /\ CallbacksInv' /\ WaitersInv'
  BY <1>1, <1>3, <1>4, CallsAside
<1>6. LockInv'
  BY ThreadPoolAssumption DEF PoolIInv, LockInv, PoolTypeOK, ThreadPoolAssumption
<1>7. LeavingInv'
  BY <1>1 DEF PoolIInv, LeavingInv, Leaving, PoolTypeOK
<1>8. ServedInv'
  BY <1>1 DEF PoolIInv, ServedInv, Started, PoolTypeOK
<1> QED
  BY <1>2, <1>5, <1>6, <1>7, <1>8 DEF PoolIInv

LEMMA GotNoneKeeps ==
  ASSUME PoolIInv, NEW w \in Worker, GotNone(w)
  PROVE  PoolIInv'
<1> USE DEF GotNone, WorkerGoes, futureVars, callVars, waiterVars, askVars, poolFlags, workers
<1>1. /\ workQueue' \in Seq(Work \cup {None}) /\ QueueInOrder'
      /\ \A g \in Work : InQueue(g)' <=> InQueue(g)
  <2>1. CASE Leaving
    BY <2>1, WakeUpIsAppended DEF PoolIInv, PlacesInv, Leaving
  <2>2. CASE ~Leaving
    BY <2>2, QueueType DEF PoolIInv, PlacesInv, Leaving, QueueInOrder, InQueue
  <2> QED BY <2>1, <2>2
<1>2. PoolTypeOK'
  BY <1>1, ZenonT(60) DEF PoolIInv, PoolTypeOK
<1>3. \A d \in Client : AsideC(d, {"callbacks", "drained", "result", "wait", "unhook"})
  BY DEF AsideC, PoolIInv, PoolTypeOK
<1>4. \A v \in Worker : AsideW(v, HasItem)
  BY DEF AsideW, HasItem, PoolIInv, PoolTypeOK
<1>5. NoSleeperOnDone' /\ PlacesInv' /\ CallbacksInv' /\ WaitersInv'
  BY <1>1, <1>3, <1>4, CallsAside
<1>6. LockInv'
  BY ThreadPoolAssumption DEF PoolIInv, LockInv, PoolTypeOK, ThreadPoolAssumption
<1>7. LeavingInv'
  BY <1>1 DEF PoolIInv, LeavingInv, Leaving, PoolTypeOK
<1>8. ServedInv'
  BY <1>1 DEF PoolIInv, ServedInv, Started, PoolTypeOK
<1> QED
  BY <1>2, <1>5, <1>6, <1>7, <1>8 DEF PoolIInv

-----------------------------------------------------------------------------
(***************************************************************************)
(* Callbacks are about to be called, and are called.                       *)
(***************************************************************************)
LEMMA AtCallbacksMeans ==
  \A f \in Work : AtCallbacks(f) <=> \/ \E c \in Client : CallsBack(c, f)
                                     \/ \E w \in Worker : WorkerCallsBack(w, f)
BY DEF AtCallbacks, CallsBack, WorkerCallsBack

LEMMA AtCallbacksMeansPrimed ==
  \A f \in Work : AtCallbacks(f)' <=> \/ \E c \in Client : CallsBack(c, f)'
                                      \/ \E w \in Worker : WorkerCallsBack(w, f)'
BY DEF AtCallbacks, CallsBack, WorkerCallsBack

LEMMA CallbacksBegin ==
  ASSUME PoolIInv, NEW f \in Work, ~Done(f), Done(f)', UNCHANGED <<listed, ran>>,
         \A g \in Work : g # f => (Done(g)' <=> Done(g)),
         \A c \in Client : \A g \in Work : g # f => (CallsBack(c, g)' <=> CallsBack(c, g)),
         \A w \in Worker : \A g \in Work : g # f => (WorkerCallsBack(w, g)' <=> WorkerCallsBack(w, g)),
         AtCallbacks(f)',
         \A c, d \in Client : CallsBack(c, f)' /\ CallsBack(d, f)' => c = d,
         \A c \in Client : \A w \in Worker : ~(CallsBack(c, f)' /\ WorkerCallsBack(w, f)'),
         \A c \in Client : clientPc'[c] \in {"callbacks", "drained", "result"} => target'[c] \in Work
  PROVE  CallbacksInv'
<1>1. ASSUME NEW g \in Work, g # f
      PROVE  CallbackInv(g)'
  <2>1. AtCallbacks(g)' <=> AtCallbacks(g)
    BY <1>1, AtCallbacksMeans, AtCallbacksMeansPrimed
  <2>2. CallbackInv(g)
    BY DEF PoolIInv, CallbacksInv
  <2> QED BY <1>1, <2>1, <2>2 DEF CallbackInv
<1>2. CallbackInv(f)'
  <2>1. CallbackInv(f) /\ ran[f] = 0
    BY DEF PoolIInv, CallbacksInv, CallbackInv
  <2> QED BY <2>1 DEF CallbackInv
<1> QED
  BY <1>1, <1>2 DEF CallbacksInv

LEMMA CallbacksEnd ==
  ASSUME PoolIInv, NEW f \in Work, AtCallbacks(f), InvokeCallbacks(f), UNCHANGED listed,
         \A g \in Work : Done(g)' <=> Done(g),
         \A c \in Client : \A g \in Work : CallsBack(c, g)' <=> CallsBack(c, g) /\ g # f,
         \A w \in Worker : \A g \in Work : WorkerCallsBack(w, g)' <=> WorkerCallsBack(w, g) /\ g # f,
         \A c \in Client : clientPc'[c] \in {"callbacks", "drained", "result"} => target'[c] \in Work
  PROVE  CallbacksInv'
<1>0. ran \in [Work -> Nat] /\ ran' = [ran EXCEPT ![f] = IF listed[f] THEN @ + 1 ELSE @]
  BY DEF PoolIInv, PoolTypeOK, InvokeCallbacks
<1>1. ASSUME NEW g \in Work, g # f
      PROVE  CallbackInv(g)'
  <2>1. AtCallbacks(g)' <=> AtCallbacks(g)
    BY <1>1, AtCallbacksMeans, AtCallbacksMeansPrimed
  <2>2. CallbackInv(g) /\ ran'[g] = ran[g]
    BY <1>0, <1>1 DEF PoolIInv, CallbacksInv
  <2> QED BY <1>1, <2>1, <2>2 DEF CallbackInv
<1>2. CallbackInv(f)'
  <2>1. ~AtCallbacks(f)'
    BY AtCallbacksMeansPrimed
  <2>2. CallbackInv(f)
    BY DEF PoolIInv, CallbacksInv
  <2>3. Done(f)' /\ (listed[f] => ran[f] = 0) /\ (~listed[f] => ran[f] <= 1)
    BY <2>2 DEF CallbackInv
  <2>4. (listed[f] => ran'[f] = 1) /\ (~listed[f] => ran'[f] <= 1)
    BY <1>0, <2>3
  <2> QED BY <2>1, <2>3, <2>4 DEF CallbackInv
<1> QED
  BY <1>1, <1>2 DEF CallbacksInv

(***************************************************************************)
(* The waiters of a future are told that it is done.                       *)
(***************************************************************************)
LEMMA FewerOpen ==
  ASSUME NEW S, IsFiniteSet(S), NEW f \in S
  PROVE  /\ Cardinality(S) \in Nat /\ Cardinality(S) >= 1
         /\ Cardinality(S \ {f}) = Cardinality(S) - 1
<1>1. Cardinality(S) \in Nat /\ Cardinality(S \ {f}) \in Nat
  BY FS_CardinalityType, FS_RemoveElement
<1>2. Cardinality(S \ {f}) = Cardinality(S) - 1
  BY FS_RemoveElement
<1> QED
  BY <1>1, <1>2

LEMMA WorkFinite ==
  ASSUME NEW S, S \subseteq Work
  PROVE  IsFiniteSet(S) /\ Cardinality(S) \in Nat
BY FS_Subset, FS_CardinalityType, ThreadPoolAssumption DEF ThreadPoolAssumption

LEMMA WaitersAreTold ==
  ASSUME PoolIInv, NEW f \in Work, NEW ex \in BOOLEAN,
         NEW s \in {"CANCELLED_AND_NOTIFIED", "FINISHED"}, ex => s = "FINISHED",
         ~Notified(f), state' = [state EXCEPT ![f] = s],
         raised' = IF ex THEN raised \cup {f} ELSE raised,
         TellWaiters(f, ex), UNCHANGED <<hooked, clientPc, fs, mode, batch>>
  PROVE  /\ finished' \in [Client -> SUBSET Work] /\ pendingCalls' \in [Client -> Nat]
         /\ event' \subseteq Client /\ WaitersInv'
<1> DEFINE counting(c) == c \in hooked[f] /\ Counts(c, ex)
<1>1. /\ \A g \in Work : Notified(g)' <=> Notified(g) \/ g = f
      /\ f \notin raised /\ \A g \in raised' : state'[g] = "FINISHED"
      /\ \A g \in Work : g \in Created => g \in Created'
  BY DEF Notified, Created, PoolIInv, PoolTypeOK, WaitersInv
<1>2. ASSUME NEW c \in Client
      PROVE  /\ finished'[c] = IF c \in hooked[f] THEN finished[c] \cup {f} ELSE finished[c]
             /\ pendingCalls'[c] = IF counting(c) THEN pendingCalls[c] - 1 ELSE pendingCalls[c]
             /\ c \in event' <=> \/ c \in event
                                 \/ c \in hooked[f] /\ (counting(c) => pendingCalls'[c] = 0)
  <2>1. finished'[c] = finished[c] \cup (IF c \in hooked[f] THEN {f} ELSE {})
    BY DEF TellWaiters
  <2>2. pendingCalls'[c] = pendingCalls[c] - (IF counting(c) THEN 1 ELSE 0)
    BY DEF TellWaiters
  <2>3. pendingCalls[c] \in Nat
    BY DEF PoolIInv, PoolTypeOK
  <2>4. c \in event' <=> \/ c \in event
                         \/ c \in hooked[f] /\ (counting(c) => pendingCalls'[c] = 0)
    BY <2>2 DEF TellWaiters, PoolIInv, PoolTypeOK
  <2> QED BY <2>1, <2>2, <2>3, <2>4
<1>3. ASSUME NEW c \in Client
      PROVE  /\ pendingCalls'[c] \in Nat /\ WaitInv(c)'
  <2> DEFINE B == {g \in batch[c] : ~Notified(g)}
  <2>1. /\ fs[c] \subseteq Work /\ batch[c] \subseteq Work /\ hooked[f] \subseteq Client
        /\ pendingCalls[c] \in Nat /\ mode[c] \in Modes /\ WaitInv(c)
    BY ZenonT(60) DEF PoolIInv, PoolTypeOK, WaitersInv, WaitInv
  <2>2. Open(c)' = Open(c) \ {f} /\ B' = B \ {f}
    BY <2>1, <1>1 DEF Open
  <2>3. Open(c) \subseteq fs[c] /\ IsFiniteSet(Open(c)) /\ IsFiniteSet(B)
    BY <2>1, WorkFinite DEF Open
  <2>4. \A g \in Work : c \in hooked'[g] <=>
          \/ clientPc'[c] = "wait" /\ g \in fs'[c]
          \/ clientPc'[c] = "unhook" /\ g \in batch'[c]
          \/ clientPc'[c] = "unhook" /\ mode'[c] = "AS_COMPLETED" /\ g \in fs'[c]
    BY <2>1 DEF WaitInv
  <2>5. batch'[c] \subseteq fs'[c] /\ fs'[c] \subseteq Created'
    BY <2>1, <1>1 DEF WaitInv
  <2>6. CASE c \notin hooked[f]
    <3>1. /\ finished'[c] = finished[c] /\ pendingCalls'[c] = pendingCalls[c]
          /\ c \in event' <=> c \in event
      BY <2>6, <1>2
    <3>2. clientPc[c] \in {"wait", "unhook"} =>
            B' = B /\ (f \in fs[c] => clientPc[c] = "unhook" /\ mode[c] # "AS_COMPLETED")
      BY <2>1, <2>2, <2>6 DEF WaitInv
    <3>3. f \notin fs[c] => Open(c)' = Open(c) /\ fs[c] \cap raised' = fs[c] \cap raised
      BY <2>2, <2>3
    <3>4. clientPc[c] = "wait" => CountRight(c)'
      BY <3>1, <3>2, <3>3, <2>1 DEF CountRight, WaitInv
    <3>5. clientPc[c] = "unhook" /\ mode[c] = "AS_COMPLETED" =>
            \/ batch'[c] = fs'[c]
            \/ /\ batch'[c] \cap Open(c)' = {}
               /\ finished'[c] = (fs'[c] \ Open(c)') \ batch'[c]
               /\ c \in event' <=> finished'[c] # {}
      BY <3>1, <3>2, <3>3, <2>1 DEF WaitInv
    <3>6. clientPc[c] = "unhook" /\ mode[c] \in {"ALL_COMPLETED", "FIRST_EXCEPTION"} =>
            pendingCalls'[c] >= Cardinality(B')
      BY <3>1, <3>2, <2>1 DEF WaitInv
    <3>7. clientPc[c] \notin {"wait", "unhook"} =>
            fs'[c] = {} /\ finished'[c] = {} /\ c \notin event'
      BY <3>1, <2>1 DEF WaitInv
    <3> QED BY <2>1, <2>4, <2>5, <3>1, <3>4, <3>5, <3>6, <3>7 DEF WaitInv
  <2>7. CASE c \in hooked[f] /\ clientPc[c] = "wait"
    <3>1. f \in Open(c) /\ CountRight(c)
      BY <2>1, <2>7 DEF WaitInv, Open
    <3>2. /\ Cardinality(Open(c)) \in Nat /\ Cardinality(Open(c)) >= 1
          /\ Cardinality(Open(c)') = Cardinality(Open(c)) - 1
      BY <3>1, <2>2, <2>3, FewerOpen
    <3>3. Cardinality(Open(c)') = 0 <=> Open(c)' = {}
      <4>1. IsFiniteSet(Open(c)')
        BY <2>2, <2>3, FS_RemoveElement
      <4> QED BY <4>1, FS_EmptySet
    <3>4. CASE mode[c] = "ALL_COMPLETED"
      <4>1. counting(c) /\ pendingCalls'[c] = Cardinality(Open(c)')
        BY <3>1, <3>2, <3>4, <2>7, <1>2 DEF CountRight, Counts
      <4>2. c \in event' <=> Open(c)' = {}
        BY <4>1, <3>1, <3>3, <3>4, <2>7, <1>2 DEF CountRight
      <4> QED BY <4>1, <4>2, <3>2, <3>4, <2>1, <2>4, <2>5, <2>7 DEF WaitInv, CountRight
    <3>5. CASE mode[c] = "FIRST_EXCEPTION" /\ ~ex
      <4>1. raised' = raised /\ Cardinality(fs[c] \cap raised) \in Nat
        BY <3>5, <2>1, WorkFinite
      <4>2. counting(c) /\ pendingCalls'[c] = Cardinality(Open(c)') + Cardinality(fs[c] \cap raised)
        <5>1. counting(c)
          BY <3>5, <2>7 DEF Counts
        <5>2. pendingCalls'[c] = pendingCalls[c] - 1
          BY <5>1, <1>2
        <5>3. pendingCalls[c] = Cardinality(Open(c)) + Cardinality(fs[c] \cap raised)
          BY <3>1, <3>5 DEF CountRight
        <5> QED BY <5>1, <5>2, <5>3, <4>1, <3>2
      <4>3. Cardinality(fs[c] \cap raised) = 0 <=> fs[c] \cap raised = {}
        BY <2>1, WorkFinite, FS_EmptySet
      <4>4. c \in event' <=> Open(c)' = {} \/ fs[c] \cap raised # {}
        <5>1. c \in event <=> fs[c] \cap raised # {}
          BY <3>1, <3>5 DEF CountRight
        <5>2. pendingCalls'[c] = 0 <=> Open(c)' = {} /\ fs[c] \cap raised = {}
          BY <4>1, <4>2, <4>3, <3>2, <3>3
        <5> QED BY <5>1, <5>2, <4>2, <2>7, <1>2
      <4>5. pendingCalls'[c] \in Nat
        BY <4>1, <4>2, <3>2
      <4> QED BY <4>1, <4>2, <4>4, <4>5, <3>5, <2>1, <2>4, <2>5, <2>7 DEF WaitInv, CountRight
    <3>6. CASE mode[c] = "FIRST_EXCEPTION" /\ ex
      <4>1. /\ ~counting(c) /\ pendingCalls'[c] = pendingCalls[c] /\ c \in event'
        BY <3>6, <2>7, <1>2 DEF Counts
      <4>2. fs[c] \cap raised' = (fs[c] \cap raised) \cup {f} /\ f \notin fs[c] \cap raised
        BY <3>1, <3>6, <2>3, <1>1
      <4>3. /\ Cardinality(fs[c] \cap raised) \in Nat
            /\ Cardinality(fs[c] \cap raised') = Cardinality(fs[c] \cap raised) + 1
        BY <4>2, <2>1, WorkFinite, FS_AddElement
      <4>4. pendingCalls'[c] = Cardinality(Open(c)') + Cardinality(fs[c] \cap raised')
        BY <4>1, <4>3, <3>1, <3>2, <3>6 DEF CountRight
      <4>5. fs[c] \cap raised' # {}
        BY <4>2
      <4> QED BY <4>1, <4>4, <4>5, <3>6, <2>1, <2>4, <2>5, <2>7 DEF WaitInv, CountRight
    <3>7. CASE mode[c] \in {"FIRST_COMPLETED", "AS_COMPLETED"}
      <4>1. /\ ~counting(c) /\ pendingCalls'[c] = pendingCalls[c] /\ c \in event'
            /\ finished'[c] = finished[c] \cup {f}
        BY <3>7, <2>7, <1>2 DEF Counts
      <4>2. Open(c)' # fs[c] /\ fs[c] \ Open(c)' = (fs[c] \ Open(c)) \cup {f}
        BY <3>1, <2>2, <2>3
      <4> QED BY <4>1, <4>2, <3>1, <3>7, <2>1, <2>4, <2>5, <2>7 DEF WaitInv, CountRight
    <3> QED BY <3>4, <3>5, <3>6, <3>7, <2>1 DEF Modes
  <2>8. CASE c \in hooked[f] /\ clientPc[c] = "unhook"
    <3>1. CASE mode[c] = "AS_COMPLETED"
      <4>1. /\ ~counting(c) /\ pendingCalls'[c] = pendingCalls[c] /\ c \in event'
            /\ finished'[c] = finished[c] \cup {f}
        BY <3>1, <2>8, <1>2 DEF Counts
      <4>2. f \in fs[c]
        BY <2>1, <2>8 DEF WaitInv
      <4>3. f \in Open(c)
        BY <4>2 DEF Open
      <4>4. \/ batch'[c] = fs'[c]
            \/ /\ batch'[c] \cap Open(c)' = {}
               /\ finished'[c] = (fs'[c] \ Open(c)') \ batch'[c]
               /\ c \in event' <=> finished'[c] # {}
        BY <4>1, <4>2, <4>3, <3>1, <2>1, <2>2, <2>3, <2>8 DEF WaitInv
      <4> QED BY <4>1, <4>4, <3>1, <2>1, <2>4, <2>5, <2>8 DEF WaitInv
    <3>2. CASE mode[c] # "AS_COMPLETED"
      <4>1. f \in B
        BY <3>2, <2>1, <2>8 DEF WaitInv
      <4>2. /\ Cardinality(B) \in Nat /\ Cardinality(B) >= 1
            /\ Cardinality(B') = Cardinality(B) - 1
        <5> HIDE DEF B
        <5> QED BY <4>1, <2>2, <2>3, FewerOpen
      <4>3. CASE mode[c] \in {"ALL_COMPLETED", "FIRST_EXCEPTION"}
        <5>1. pendingCalls[c] >= Cardinality(B)
          BY <4>3, <2>1, <2>8 DEF WaitInv
        <5>2. pendingCalls'[c] \in Nat /\ pendingCalls'[c] >= Cardinality(B')
          <6>1. pendingCalls'[c] = pendingCalls[c] - 1 \/ pendingCalls'[c] = pendingCalls[c]
            BY <1>2
          <6> HIDE DEF B
          <6> QED BY <5>1, <4>2, <2>1, <6>1
        <5> QED BY <5>2, <4>3, <2>1, <2>4, <2>5, <2>8 DEF WaitInv
      <4>4. CASE mode[c] = "FIRST_COMPLETED"
        <5>1. pendingCalls'[c] = pendingCalls[c]
          BY <4>4, <1>2 DEF Counts
        <5> QED BY <5>1, <4>4, <2>1, <2>4, <2>5, <2>8 DEF WaitInv
      <4> QED BY <3>2, <4>3, <4>4, <2>1 DEF Modes
    <3> QED BY <3>1, <3>2
  <2>9. c \in hooked[f] => clientPc[c] \in {"wait", "unhook"}
    BY <2>1 DEF WaitInv
  <2> QED BY <2>6, <2>7, <2>8, <2>9
<1>4. finished' \in [Client -> SUBSET Work]
  BY <1>2 DEF TellWaiters, PoolIInv, PoolTypeOK
<1>5. pendingCalls' \in [Client -> Nat]
  BY <1>3 DEF TellWaiters
<1>6. event' \subseteq Client
  BY DEF TellWaiters, PoolIInv, PoolTypeOK
<1> QED
  BY <1>1, <1>3, <1>4, <1>5, <1>6 DEF WaitersInv
-----------------------------------------------------------------------------
(***************************************************************************)
(* What the workers, and a shutdown, do with the calls.                    *)
(***************************************************************************)
LEMMA TakeItemKeeps ==
  ASSUME PoolIInv, NEW w \in Worker, TakeItem(w)
  PROVE  PoolIInv'
<1> USE DEF TakeItem, WorkerGoes, WorkerTakes, futureVars, callVars, waiterVars, askVars, poolFlags
<1> PICK h : h = Head(workQueue)
  OBVIOUS
<1>1. /\ workQueue' \in Seq(Work \cup {None}) /\ QueueInOrder'
      /\ NoneInQueue' => NoneInQueue
      /\ \A g \in Work : InQueue(g)' => InQueue(g)
      /\ h = None => NoneInQueue /\ \A g \in Work : ~InQueue(g) /\ ~InQueue(g)'
      /\ h # None => /\ h \in Work /\ InQueue(h)
                     /\ \A g \in Work : InQueue(g)' <=> InQueue(g) /\ g # h
  <2>1. PoolTypeOK /\ QueueInOrder /\ workQueue # <<>> /\ workQueue' = Tail(workQueue)
    BY DEF PoolIInv, PlacesInv
  <2>2. /\ workQueue' \in Seq(Work \cup {None}) /\ QueueInOrder'
        /\ NoneInQueue' => NoneInQueue
        /\ h = None => NoneInQueue /\ \A g \in Work : ~InQueue(g) /\ ~InQueue(g)'
        /\ h # None => /\ h \in Work /\ InQueue(h)
                       /\ \A g \in Work : InQueue(g)' <=> InQueue(g) /\ g # h
    BY <2>1, HeadIsTaken
  <2> QED BY <2>2
<1>2. h \in Work => \A v \in Worker : item[v] # h
  BY <1>1, ThreadPoolAssumption DEF PoolIInv, PlacesInv, ItemInv, ThreadPoolAssumption
<1>3. PoolTypeOK'
  BY <1>1, ZenonT(60) DEF PoolIInv, PoolTypeOK
<1>4. NoSleeperOnDone'
  BY DEF PoolIInv, NoSleeperOnDone, Done
<1>5. PlacesInv'
  <2>1. CASE h = None
    <3>1. \A g \in Work : InQueue(g)' <=> InQueue(g)
      BY <1>1, <2>1
    <3>2. \A v \in Worker : AsideW(v, HasItem)
      BY <2>1 DEF AsideW, HasItem, PoolIInv, PoolTypeOK
    <3> QED BY <2>1, <3>1, <3>2, <1>1, PlacesKept DEF PoolIInv
  <2>2. CASE h # None
    <3>1. /\ workerPc' = [workerPc EXCEPT ![w] = "run"] /\ item' = [item EXCEPT ![w] = h]
          /\ state' = state /\ workerPc[w] \notin HasItem /\ item[w] \notin Work
      BY <2>2 DEF PoolIInv, PlacesInv, ItemInv, HasItem
    <3>2. ItemInv'
      BY <1>1, <1>2, <2>2, <3>1 DEF PoolIInv, PoolTypeOK, PlacesInv, ItemInv, HasItem
    <3>3. \A f \in Work : (InQueue(f) => state[f] \in {"PENDING", "CANCELLED"})
                     /\ (state[f] = "PENDING" => InQueue(f) \/ \E v \in Worker : item[v] = f)
      BY DEF PoolIInv, PlacesInv, StateInv
    <3>4. \A f \in Work : state'[f] = "PENDING" => InQueue(f)' \/ \E v \in Worker : item'[v] = f
      <4> SUFFICES ASSUME NEW f \in Work, state[f] = "PENDING"
                   PROVE  InQueue(f)' \/ \E v \in Worker : item'[v] = f
        BY <3>1
      <4>1. CASE f = h
        BY <4>1, <3>1 DEF PoolIInv, PoolTypeOK
      <4>2. CASE f # h
        BY <4>2, <3>3, <3>1, <1>1, <2>2 DEF PoolIInv, PoolTypeOK
      <4> QED BY <4>1, <4>2
    <3>5. StateInv'
      BY <1>1, <2>2, <3>1, <3>3, <3>4 DEF PoolIInv, PoolTypeOK, PlacesInv, StateInv
    <3> QED BY <1>1, <3>2, <3>5 DEF PlacesInv
  <2> QED BY <2>1, <2>2
<1>6. LockInv'
  BY DEF PoolIInv, LockInv, PoolTypeOK
<1>7. LeavingInv'
  <2>1. Leaving' <=> Leaving
    BY DEF Leaving
  <2>2. workerPc'[w] = "none" => h = None
    BY DEF PoolIInv, PoolTypeOK
  <2>3. \A v \in Worker : v # w => workerPc'[v] = workerPc[v]
    BY DEF PoolIInv, PoolTypeOK
  <2>4. workerPc'[w] \in {"none", "run"}
    BY DEF PoolIInv, PoolTypeOK
  <2> QED BY <1>1, <2>1, <2>2, <2>3, <2>4 DEF PoolIInv, LeavingInv
<1>8. ServedInv'
  BY <1>1, ServedKept DEF PoolIInv, PoolTypeOK
<1>9. CallbacksInv'
  <2>1. \A g \in Work : Done(g)' <=> Done(g)
    BY DEF Done
  <2>2. \A d \in Client : /\ AsideC(d, InCall) /\ target'[d] = target[d]
                          /\ clientPc'[d] = "result" => target'[d] \in Work
    BY DEF AsideC, InCall, PoolIInv, CallbacksInv
  <2>3. \A v \in Worker : AsideW(v, InCall) /\ (workerPc[v] \in InCall => item'[v] = item[v])
    BY DEF AsideW, InCall, PoolIInv, PoolTypeOK
  <2> QED BY <2>1, <2>2, <2>3, CallbacksKept DEF PoolIInv
<1>10. WaitersInv'
  BY WaitersKept DEF PoolIInv, Notified, Created, AsideC
<1> QED
  BY <1>3, <1>4, <1>5, <1>6, <1>7, <1>8, <1>9, <1>10 DEF PoolIInv

(* The queue, and where the clients are, do not change. *)
LEMMA QueueAside ==
  ASSUME PoolIInv, UNCHANGED <<workQueue, shutdownLock, clientPc, idleSemaphore, poolFlags>>,
         \A w \in Worker : AsideW(w, {"drain", "drained", "none", "exited", "unborn"})
  PROVE  LockInv' /\ LeavingInv' /\ ServedInv'
<1>1. (NoneInQueue' <=> NoneInQueue) /\ \A g \in Work : InQueue(g)' <=> InQueue(g)
  BY DEF NoneInQueue, InQueue
<1>2. \A c \in Client : AsideC(c, InPool) /\ AsideC(c, {"drain", "drained", "wakeup"})
  BY DEF AsideC
<1>3. LockInv'
  BY <1>2, LockKept DEF PoolIInv, AsideW, InDrain
<1>4. LeavingInv'
  <2>1. \A w \in Worker : AsideW(w, {"none", "exited"})
    BY DEF AsideW
  <2> QED BY <1>1, <1>2, <2>1, LeavingKept DEF PoolIInv, poolFlags
<1>5. ServedInv'
  BY <1>1, ServedKept DEF PoolIInv, AsideW
<1> QED
  BY <1>3, <1>4, <1>5

LEMMA RunItemKeeps ==
  ASSUME PoolIInv, NEW w \in Worker, RunItem(w)
  PROVE  PoolIInv'
<1> USE DEF RunItem, StartOrNotify, WorkerGoes, WorkerTakes, waiterVars, askVars, poolFlags
<1> PICK f : f = item[w]
  OBVIOUS
<1>1. /\ f \in Work /\ workerPc[w] = "run" /\ state[f] \in {"PENDING", "CANCELLED"} /\ ~InQueue(f)
      /\ \A v \in Worker : item[v] = f => v = w
  BY DEF PoolIInv, PlacesInv, ItemInv, StateInv, HasItem
<1>2. CASE state[f] = "CANCELLED"
  <2>1. /\ state' = [state EXCEPT ![f] = "CANCELLED_AND_NOTIFIED"] /\ TellWaiters(f, FALSE)
        /\ workerPc' = [workerPc EXCEPT ![w] = "get_nowait"]
        /\ item' = [item EXCEPT ![w] = NoWork]
        /\ ~Notified(f)
    BY <1>2 DEF Notified
  <2>2. /\ finished' \in [Client -> SUBSET Work] /\ pendingCalls' \in [Client -> Nat]
        /\ event' \subseteq Client /\ WaitersInv'
    BY <1>1, <2>1, WaitersAreTold
  <2>3. PoolTypeOK'
    BY <2>1, <2>2, <1>1 DEF PoolIInv, PoolTypeOK
  <2>4. NoSleeperOnDone'
    BY <2>1, <1>1, <1>2 DEF PoolIInv, NoSleeperOnDone, Done, PoolTypeOK
  <2>5. PlacesInv'
    <3>1. QueueInOrder' /\ \A g \in Work : InQueue(g)' <=> InQueue(g)
      BY DEF PoolIInv, PlacesInv, QueueInOrder, InQueue
    <3>2. NoWork \notin Work
      BY FutureAssumption DEF FutureAssumption
    <3>3. ItemInv'
      BY <2>1, <3>1, <3>2 DEF PoolIInv, PoolTypeOK, PlacesInv, ItemInv, HasItem
    <3>4. StateInv'
      BY <1>1, <1>2, <2>1, <3>1 DEF PoolIInv, PoolTypeOK, PlacesInv, ItemInv, StateInv, HasItem
    <3> QED BY <3>1, <3>3, <3>4 DEF PlacesInv
  <2>6. LockInv' /\ LeavingInv' /\ ServedInv'
    <3>1. \A v \in Worker : AsideW(v, {"drain", "drained", "none", "exited", "unborn"})
      BY <2>1 DEF AsideW, PoolIInv, PoolTypeOK
    <3> QED BY <3>1, QueueAside
  <2>7. CallbacksInv'
    <3>1. \A g \in Work : Done(g)' <=> Done(g)
      BY <2>1, <1>1, <1>2 DEF Done, PoolIInv, PoolTypeOK
    <3>2. \A d \in Client : /\ AsideC(d, InCall) /\ target'[d] = target[d]
                            /\ clientPc'[d] = "result" => target'[d] \in Work
      BY DEF AsideC, InCall, PoolIInv, CallbacksInv
    <3>3. \A v \in Worker : AsideW(v, InCall) /\ (workerPc[v] \in InCall => item'[v] = item[v])
      BY <2>1, <1>1 DEF AsideW, InCall, PoolIInv, PoolTypeOK
    <3> QED BY <3>1, <3>2, <3>3, CallbacksKept DEF PoolIInv
  <2> QED BY <2>2, <2>3, <2>4, <2>5, <2>6, <2>7 DEF PoolIInv
<1>3. CASE state[f] = "PENDING"
  <2>1. /\ state' = [state EXCEPT ![f] = "RUNNING"]
        /\ workerPc' = [workerPc EXCEPT ![w] = "call"] /\ item' = item
        /\ UNCHANGED <<finished, pendingCalls, event>>
    BY <1>3
  <2>2. PoolTypeOK'
    BY <2>1, <1>1 DEF PoolIInv, PoolTypeOK
  <2>3. NoSleeperOnDone'
    BY <2>1 DEF PoolIInv, NoSleeperOnDone, Done, PoolTypeOK
  <2>4. PlacesInv'
    <3>1. QueueInOrder' /\ \A g \in Work : InQueue(g)' <=> InQueue(g)
      BY DEF PoolIInv, PlacesInv, QueueInOrder, InQueue
    <3>2. ItemInv'
      BY <2>1, <1>1, <3>1 DEF PoolIInv, PoolTypeOK, PlacesInv, ItemInv, HasItem
    <3>3. StateInv'
      BY <1>1, <1>3, <2>1, <3>1 DEF PoolIInv, PoolTypeOK, PlacesInv, ItemInv, StateInv, HasItem
    <3> QED BY <3>1, <3>2, <3>3 DEF PlacesInv
  <2>5. LockInv' /\ LeavingInv' /\ ServedInv'
    <3>1. \A v \in Worker : AsideW(v, {"drain", "drained", "none", "exited", "unborn"})
      BY <2>1, <1>1 DEF AsideW, PoolIInv, PoolTypeOK
    <3> QED BY <3>1, QueueAside
  <2>6. CallbacksInv'
    <3>1. \A g \in Work : Done(g)' <=> Done(g)
      BY <2>1, <1>1, <1>3 DEF Done, PoolIInv, PoolTypeOK
    <3>2. \A d \in Client : /\ AsideC(d, InCall) /\ target'[d] = target[d]
                            /\ clientPc'[d] = "result" => target'[d] \in Work
      BY DEF AsideC, InCall, PoolIInv, CallbacksInv
    <3>3. \A v \in Worker : AsideW(v, InCall) /\ item'[v] = item[v]
      BY <2>1, <1>1 DEF AsideW, InCall, PoolIInv, PoolTypeOK
    <3> QED BY <3>1, <3>2, <3>3, CallbacksKept DEF PoolIInv
  <2>7. WaitersInv'
    <3>1. \A g \in Work : (Notified(g)' <=> Notified(g)) /\ (g \in Created => g \in Created')
      BY <2>1, <1>1, <1>3 DEF Notified, Created, PoolIInv, PoolTypeOK
    <3>2. \A g \in raised : state'[g] = state[g]
      BY <2>1, <1>3 DEF PoolIInv, PoolTypeOK, WaitersInv
    <3> QED BY <2>1, <3>1, <3>2, WaitersKept DEF PoolIInv, AsideC
  <2> QED BY <2>2, <2>3, <2>4, <2>5, <2>6, <2>7 DEF PoolIInv
<1> QED
  BY <1>1, <1>2, <1>3

LEMMA CallEndsKeeps ==
  ASSUME PoolIInv, NEW w \in Worker, NEW ex \in BOOLEAN, CallEnds(w, ex)
  PROVE  PoolIInv'
<1> USE DEF CallEnds, SetOutcome, NotifyAll, WorkerGoes, askVars, poolFlags
<1> PICK f : f = item[w]
  OBVIOUS
<1>1. /\ f \in Work /\ workerPc[w] = "call" /\ state[f] = "RUNNING" /\ ~InQueue(f)
      /\ \A v \in Worker : item[v] = f => v = w
      /\ ~Done(f) /\ ~Notified(f)
  BY DEF PoolIInv, PlacesInv, ItemInv, StateInv, HasItem, Done, Notified
<1>2. /\ state' = [state EXCEPT ![f] = "FINISHED"] /\ TellWaiters(f, ex)
      /\ raised' = IF ex THEN raised \cup {f} ELSE raised
      /\ parked' = [parked EXCEPT ![f] = {}]
      /\ workerPc' = [workerPc EXCEPT ![w] = "callbacks"] /\ item' = item
  OBVIOUS
<1>3. /\ finished' \in [Client -> SUBSET Work] /\ pendingCalls' \in [Client -> Nat]
      /\ event' \subseteq Client /\ WaitersInv'
  BY <1>1, <1>2, WaitersAreTold
<1>4. PoolTypeOK'
  <2>1. raised' \subseteq Work
    BY <1>1, <1>2 DEF PoolIInv, PoolTypeOK
  <2>2. parked' \in [Work -> SUBSET Client] /\ state' \in [Work -> {"NEW", "PENDING", "RUNNING",
          "CANCELLED", "CANCELLED_AND_NOTIFIED", "FINISHED"}]
    BY <1>1, <1>2 DEF PoolIInv, PoolTypeOK
  <2> QED BY <1>2, <1>3, <2>1, <2>2 DEF PoolIInv, PoolTypeOK
<1>5. NoSleeperOnDone'
  BY <1>2, <1>1 DEF PoolIInv, NoSleeperOnDone, Done, PoolTypeOK
<1>6. PlacesInv'
  <2>1. QueueInOrder' /\ \A g \in Work : InQueue(g)' <=> InQueue(g)
    BY DEF PoolIInv, PlacesInv, QueueInOrder, InQueue
  <2>2. ItemInv'
    BY <1>2, <1>1, <2>1 DEF PoolIInv, PoolTypeOK, PlacesInv, ItemInv, HasItem
  <2>3. StateInv'
    BY <1>1, <1>2, <2>1 DEF PoolIInv, PoolTypeOK, PlacesInv, ItemInv, StateInv, HasItem
  <2> QED BY <2>1, <2>2, <2>3 DEF PlacesInv
<1>7. LockInv' /\ LeavingInv' /\ ServedInv'
  <2>1. \A v \in Worker : AsideW(v, {"drain", "drained", "none", "exited", "unborn"})
    BY <1>2, <1>1 DEF AsideW, PoolIInv, PoolTypeOK
  <2> QED BY <2>1, QueueAside
<1>8. CallbacksInv'
  <2>1. Done(f)' /\ \A g \in Work : g # f => (Done(g)' <=> Done(g))
    BY <1>1, <1>2 DEF Done, PoolIInv, PoolTypeOK
  <2>2. \A c \in Client : \A g \in Work : CallsBack(c, g)' <=> CallsBack(c, g)
    BY DEF CallsBack
  <2>3. \A v \in Worker : \A g \in Work : g # f => (WorkerCallsBack(v, g)' <=> WorkerCallsBack(v, g))
    BY <1>1, <1>2 DEF WorkerCallsBack, PoolIInv, PoolTypeOK
  <2>4. WorkerCallsBack(w, f)'
    BY <1>2 DEF WorkerCallsBack, PoolIInv, PoolTypeOK
  <2>5. AtCallbacks(f)'
    BY <1>1, <2>4, AtCallbacksMeansPrimed
  <2>6. \A c \in Client : ~CallsBack(c, f)
    BY <1>1, AtCallbacksMeans DEF PoolIInv, CallbacksInv, CallbackInv
  <2>7. \A c \in Client : clientPc'[c] \in {"callbacks", "drained", "result"} => target'[c] \in Work
    BY DEF PoolIInv, CallbacksInv
  <2> QED BY <1>1, <2>1, <2>2, <2>3, <2>5, <2>6, <2>7, CallbacksBegin
<1> QED
  BY <1>3, <1>4, <1>5, <1>6, <1>7, <1>8 DEF PoolIInv

(* Callbacks are called: nothing of the calls but "ran" changes. *)
LEMMA CallbacksAside ==
  ASSUME PoolIInv, UNCHANGED <<callVars, parked, hooked, askVars, waiterVars>>,
         \A c \in Client : AsideC(c, {"wait", "unhook"})
  PROVE  NoSleeperOnDone' /\ WaitersInv' /\ \A g \in Work : Done(g)' <=> Done(g)
<1> USE DEF callVars, askVars, waiterVars
<1>1. NoSleeperOnDone' /\ \A g \in Work : Done(g)' <=> Done(g)
  BY DEF PoolIInv, NoSleeperOnDone, Done
<1>2. \A g \in Work : (Notified(g)' <=> Notified(g)) /\ (g \in Created => g \in Created')
  BY DEF Notified, Created
<1>3. WaitersInv'
  BY <1>2, WaitersKept DEF PoolIInv
<1> QED
  BY <1>1, <1>3

LEMMA WorkerCallsThem ==
  ASSUME PoolIInv, NEW w \in Worker, NEW f, f = item[w], NEW l,
         (l = "get_nowait" /\ workerPc[w] = "callbacks") \/ (l = "drain" /\ workerPc[w] = "drained"),
         InvokeCallbacks(f),
         workerPc' = [workerPc EXCEPT ![w] = l], item' = [item EXCEPT ![w] = NoWork],
         UNCHANGED <<callVars, parked, hooked, listed, clientPc, target, askVars, waiterVars,
                     workQueue, idleSemaphore, shutdownLock, poolFlags>>
  PROVE  PoolIInv'
<1> USE DEF callVars, askVars, waiterVars, poolFlags
<1>1. /\ f \in Work /\ workerPc[w] \in {"callbacks", "drained"} /\ state[f] = "FINISHED"
      /\ \A v \in Worker : item[v] = f => v = w
      /\ NoWork \notin Work
  BY FutureAssumption DEF PoolIInv, PlacesInv, ItemInv, StateInv, HasItem, FutureAssumption
<1>2. PoolTypeOK'
  <2>1. ran' \in [Work -> Nat]
    BY <1>1 DEF PoolIInv, PoolTypeOK, InvokeCallbacks
  <2> QED BY <2>1 DEF PoolIInv, PoolTypeOK
<1>3. NoSleeperOnDone' /\ WaitersInv' /\ \A g \in Work : Done(g)' <=> Done(g)
  BY CallbacksAside DEF AsideC
<1>4. PlacesInv'
  <2>1. QueueInOrder' /\ \A g \in Work : InQueue(g)' <=> InQueue(g)
    BY DEF PoolIInv, PlacesInv, QueueInOrder, InQueue
  <2>2. ItemInv'
    BY <1>1, <2>1 DEF PoolIInv, PoolTypeOK, PlacesInv, ItemInv, HasItem
  <2>3. StateInv'
    BY <1>1, <2>1 DEF PoolIInv, PoolTypeOK, PlacesInv, ItemInv, StateInv, HasItem
  <2> QED BY <2>1, <2>2, <2>3 DEF PlacesInv
<1>5. LockInv'
  <2>1. \A v \in Worker : AsideW(v, InDrain) \/ (workerPc[v] = "drained" /\ workerPc'[v] = "drain")
    BY <1>1 DEF AsideW, InDrain, PoolIInv, PoolTypeOK
  <2> QED BY <2>1 DEF PoolIInv, LockInv, AsideW, InDrain
<1>6. LeavingInv'
  <2>1. \A v \in Worker : AsideW(v, {"none", "exited"})
    BY <1>1 DEF AsideW, PoolIInv, PoolTypeOK
  <2>2. (NoneInQueue' <=> NoneInQueue) /\ \A g \in Work : InQueue(g)' <=> InQueue(g)
    BY DEF NoneInQueue, InQueue
  <2> QED BY <2>1, <2>2, LeavingKept DEF PoolIInv, AsideC
<1>7. ServedInv'
  <2>1. \A g \in Work : InQueue(g)' <=> InQueue(g)
    BY DEF InQueue
  <2>2. \A v \in Worker : workerPc[v] # "unborn" => workerPc'[v] # "unborn"
    BY DEF PoolIInv, PoolTypeOK
  <2> QED BY <2>1, <2>2, ServedKept DEF PoolIInv
<1>8. CallbacksInv'
  <2>1. WorkerCallsBack(w, f)
    BY <1>1 DEF WorkerCallsBack
  <2>2. AtCallbacks(f)
    BY <1>1, <2>1, AtCallbacksMeans
  <2>3. \A c \in Client : ~CallsBack(c, f)
    BY <1>1, <2>1 DEF PoolIInv, CallbacksInv, CallbackInv
  <2>4. \A c \in Client : \A g \in Work : CallsBack(c, g)' <=> CallsBack(c, g) /\ g # f
    BY <2>3 DEF CallsBack
  <2>5. \A v \in Worker : \A g \in Work :
          WorkerCallsBack(v, g)' <=> WorkerCallsBack(v, g) /\ g # f
    BY <1>1 DEF WorkerCallsBack, PoolIInv, PoolTypeOK
  <2>6. \A c \in Client : clientPc'[c] \in {"callbacks", "drained", "result"} => target'[c] \in Work
    BY DEF PoolIInv, CallbacksInv
  <2> QED BY <1>1, <1>3, <2>2, <2>4, <2>5, <2>6, CallbacksEnd
<1> QED
  BY <1>2, <1>3, <1>4, <1>5, <1>6, <1>7, <1>8 DEF PoolIInv

LEMMA WorkerCallbacksKeeps ==
  ASSUME PoolIInv, NEW w \in Worker, WorkerCallbacks(w)
  PROVE  PoolIInv'
<1>1. PICK f : f = item[w]
  OBVIOUS
<1>2. PICK l : l = "get_nowait"
  OBVIOUS
<1>3. /\ (l = "get_nowait" /\ workerPc[w] = "callbacks") \/ (l = "drain" /\ workerPc[w] = "drained")
      /\ InvokeCallbacks(f)
      /\ workerPc' = [workerPc EXCEPT ![w] = l] /\ item' = [item EXCEPT ![w] = NoWork]
      /\ UNCHANGED <<callVars, parked, hooked, listed, clientPc, target, askVars, waiterVars,
                     workQueue, idleSemaphore, shutdownLock, poolFlags>>
  BY <1>1, <1>2 DEF WorkerCallbacks, WorkerGoes, WorkerTakes
<1> QED
  BY <1>1, <1>3, WorkerCallsThem

LEMMA FailedCallbacksKeeps ==
  ASSUME PoolIInv, NEW w \in Worker, FailedCallbacks(w)
  PROVE  PoolIInv'
<1>1. PICK f : f = item[w]
  OBVIOUS
<1>2. PICK l : l = "drain"
  OBVIOUS
<1>3. /\ (l = "get_nowait" /\ workerPc[w] = "callbacks") \/ (l = "drain" /\ workerPc[w] = "drained")
      /\ InvokeCallbacks(f)
      /\ workerPc' = [workerPc EXCEPT ![w] = l] /\ item' = [item EXCEPT ![w] = NoWork]
      /\ UNCHANGED <<callVars, parked, hooked, listed, clientPc, target, askVars, waiterVars,
                     workQueue, idleSemaphore, shutdownLock, poolFlags>>
  BY <1>1, <1>2 DEF FailedCallbacks, WorkerGoes, WorkerTakes
<1> QED
  BY <1>1, <1>3, WorkerCallsThem

(* A client calls the callbacks. *)
LEMMA ClientCallsThem ==
  ASSUME PoolIInv, NEW c \in Client, NEW f, f = target[c], NEW l,
         (l = "idle" /\ clientPc[c] = "callbacks") \/ (l = "drain" /\ clientPc[c] = "drained"),
         InvokeCallbacks(f),
         clientPc' = [clientPc EXCEPT ![c] = l], target' = [target EXCEPT ![c] = NoWork],
         UNCHANGED <<callVars, parked, hooked, listed, askVars, waiterVars,
                     workQueue, idleSemaphore, shutdownLock, poolFlags, workers>>
  PROVE  PoolIInv'
<1> USE DEF callVars, askVars, waiterVars, poolFlags, workers
<1>1. f \in Work /\ clientPc[c] \in {"callbacks", "drained"}
  BY DEF PoolIInv, CallbacksInv
<1>2. PoolTypeOK'
  <2>1. ran' \in [Work -> Nat]
    BY <1>1 DEF PoolIInv, PoolTypeOK, InvokeCallbacks
  <2> QED BY <2>1 DEF PoolIInv, PoolTypeOK
<1>3. NoSleeperOnDone' /\ WaitersInv' /\ \A g \in Work : Done(g)' <=> Done(g)
  <2>1. \A d \in Client : AsideC(d, {"wait", "unhook"})
    BY <1>1 DEF AsideC, PoolIInv, PoolTypeOK
  <2> QED BY <2>1, CallbacksAside
<1>4. (NoneInQueue' <=> NoneInQueue) /\ \A g \in Work : InQueue(g)' <=> InQueue(g)
  BY DEF NoneInQueue, InQueue
<1>5. PlacesInv'
  <2>1. QueueInOrder'
    BY DEF PoolIInv, PlacesInv, QueueInOrder
  <2> QED BY <1>4, <2>1, PlacesKept DEF PoolIInv, AsideW
<1>6. LockInv'
  <2>1. \A d \in Client : d # c => clientPc'[d] = clientPc[d]
    BY DEF PoolIInv, PoolTypeOK
  <2>2. clientPc'[c] = l
    BY DEF PoolIInv, PoolTypeOK
  <2> QED BY <2>1, <2>2 DEF PoolIInv, LockInv
<1>7. LeavingInv'
  <2>1. \A d \in Client : d # c => clientPc'[d] = clientPc[d]
    BY DEF PoolIInv, PoolTypeOK
  <2>2. clientPc'[c] = l
    BY DEF PoolIInv, PoolTypeOK
  <2> QED BY <1>4, <2>1, <2>2 DEF PoolIInv, LeavingInv, Leaving
<1>8. ServedInv'
  <2>1. \A d \in Client : clientPc[d] = "adjust" => clientPc'[d] = "adjust"
    BY <1>1 DEF PoolIInv, PoolTypeOK
  <2> QED BY <1>4, <2>1, ServedKept DEF PoolIInv
<1>9. CallbacksInv'
  <2>1. CallsBack(c, f)
    BY <1>1 DEF CallsBack
  <2>2. AtCallbacks(f)
    BY <1>1, <2>1, AtCallbacksMeans
  <2>3. (\A d \in Client : CallsBack(d, f) => d = c) /\ (\A w \in Worker : ~WorkerCallsBack(w, f))
    BY <1>1, <2>1 DEF PoolIInv, CallbacksInv, CallbackInv
  <2>4. \A d \in Client : \A g \in Work : CallsBack(d, g)' <=> CallsBack(d, g) /\ g # f
    <3> SUFFICES ASSUME NEW d \in Client, NEW g \in Work
                 PROVE  CallsBack(d, g)' <=> CallsBack(d, g) /\ g # f
      OBVIOUS
    <3>1. CASE d = c
      BY <3>1, <1>1 DEF CallsBack, PoolIInv, PoolTypeOK
    <3>2. CASE d # c
      BY <3>2, <2>3 DEF CallsBack, PoolIInv, PoolTypeOK
    <3> QED BY <3>1, <3>2
  <2>5. \A w \in Worker : \A g \in Work : WorkerCallsBack(w, g)' <=> WorkerCallsBack(w, g) /\ g # f
    BY <2>3 DEF WorkerCallsBack
  <2>6. \A d \in Client : clientPc'[d] \in {"callbacks", "drained", "result"} => target'[d] \in Work
    BY <1>1 DEF PoolIInv, CallbacksInv, PoolTypeOK
  <2> QED BY <1>1, <1>3, <2>2, <2>4, <2>5, <2>6, CallbacksEnd
<1> QED
  BY <1>2, <1>3, <1>5, <1>6, <1>7, <1>8, <1>9 DEF PoolIInv

LEMMA ShutdownCallbacksKeeps ==
  ASSUME PoolIInv, NEW c \in Client, ShutdownCallbacks(c)
  PROVE  PoolIInv'
<1>1. PICK f : f = target[c]
  OBVIOUS
<1>2. PICK l : l = "drain"
  OBVIOUS
<1>3. /\ (l = "idle" /\ clientPc[c] = "callbacks") \/ (l = "drain" /\ clientPc[c] = "drained")
      /\ InvokeCallbacks(f)
      /\ clientPc' = [clientPc EXCEPT ![c] = l] /\ target' = [target EXCEPT ![c] = NoWork]
      /\ UNCHANGED <<callVars, parked, hooked, listed, askVars, waiterVars,
                     workQueue, idleSemaphore, shutdownLock, poolFlags, workers>>
  BY <1>1, <1>2 DEF ShutdownCallbacks, ClientGoes
<1> QED
  BY <1>1, <1>3, ClientCallsThem

LEMMA ClientCallbacksKeeps ==
  ASSUME PoolIInv, NEW c \in Client, ClientCallbacks(c),
         UNCHANGED <<workQueue, idleSemaphore, shutdownLock, poolFlags, workers>>
  PROVE  PoolIInv'
<1>1. PICK f : f = target[c]
  OBVIOUS
<1>2. PICK l : l = "idle"
  OBVIOUS
<1>3. /\ (l = "idle" /\ clientPc[c] = "callbacks") \/ (l = "drain" /\ clientPc[c] = "drained")
      /\ InvokeCallbacks(f)
      /\ clientPc' = [clientPc EXCEPT ![c] = l] /\ target' = [target EXCEPT ![c] = NoWork]
      /\ UNCHANGED <<callVars, parked, hooked, listed, askVars, waiterVars,
                     workQueue, idleSemaphore, shutdownLock, poolFlags, workers>>
  BY <1>1, <1>2 DEF ClientCallbacks, ClientGoes
<1> QED
  BY <1>1, <1>3, ClientCallsThem

(* A client cancels the pending future f, and is about to call its         *)
(* callbacks with the label l.                                             *)
LEMMA CancelledByClient ==
  ASSUME PoolIInv, NEW c \in Client, NEW f \in Work, state[f] = "PENDING",
         clientPc[c] \notin {"callbacks", "drained", "wait", "unhook"},
         Cancelled(f), NEW l \in {"callbacks", "drained"},
         clientPc' = [clientPc EXCEPT ![c] = l], target' = [target EXCEPT ![c] = f],
         UNCHANGED <<listed, ran, hooked, askVars, workers>>
  PROVE  NoSleeperOnDone' /\ CallbacksInv' /\ WaitersInv'
<1> USE DEF Cancelled, NotifyAll, askVars, waiterVars, workers
<1>1. /\ state' = [state EXCEPT ![f] = "CANCELLED"] /\ parked' = [parked EXCEPT ![f] = {}]
      /\ ~Done(f)
  BY DEF Done
<1>2. Done(f)' /\ \A g \in Work : g # f => (Done(g)' <=> Done(g))
  BY <1>1 DEF Done, PoolIInv, PoolTypeOK
<1>3. NoSleeperOnDone'
  BY <1>1 DEF PoolIInv, NoSleeperOnDone, Done, PoolTypeOK
<1>4. CallbacksInv'
  <2>1. /\ \A d \in Client : d # c => clientPc'[d] = clientPc[d] /\ target'[d] = target[d]
        /\ clientPc'[c] = l /\ target'[c] = f
    BY DEF PoolIInv, PoolTypeOK
  <2>2. \A d \in Client : \A g \in Work : g # f => (CallsBack(d, g)' <=> CallsBack(d, g))
    BY <2>1 DEF CallsBack
  <2>3. \A w \in Worker : \A g \in Work : WorkerCallsBack(w, g)' <=> WorkerCallsBack(w, g)
    BY DEF WorkerCallsBack
  <2>4. CallsBack(c, f)'
    BY <2>1 DEF CallsBack
  <2>5. AtCallbacks(f)'
    BY <2>4, AtCallbacksMeansPrimed
  <2>6. ~AtCallbacks(f)
    BY <1>1 DEF PoolIInv, CallbacksInv, CallbackInv
  <2>7. (\A d \in Client : ~CallsBack(d, f)) /\ \A w \in Worker : ~WorkerCallsBack(w, f)
    BY <2>6, AtCallbacksMeans
  <2>8. \A d \in Client : CallsBack(d, f)' => d = c
    BY <2>1, <2>7 DEF CallsBack
  <2>9. \A d \in Client : clientPc'[d] \in {"callbacks", "drained", "result"} => target'[d] \in Work
    BY <2>1 DEF PoolIInv, CallbacksInv
  <2> QED BY <1>1, <1>2, <2>2, <2>3, <2>5, <2>7, <2>8, <2>9, CallbacksBegin
<1>5. WaitersInv'
  <2>1. \A g \in Work : (Notified(g)' <=> Notified(g)) /\ (g \in Created => g \in Created')
    BY <1>1 DEF Notified, Created, PoolIInv, PoolTypeOK
  <2>2. \A g \in raised : state'[g] = state[g]
    BY <1>1 DEF PoolIInv, PoolTypeOK, WaitersInv
  <2>3. \A d \in Client : AsideC(d, {"wait", "unhook"})
    BY DEF AsideC, PoolIInv, PoolTypeOK
  <2> QED BY <2>1, <2>2, <2>3, WaitersKept DEF PoolIInv
<1> QED
  BY <1>3, <1>4, <1>5

LEMMA CancelKeeps ==
  ASSUME PoolIInv, NEW c \in Client, NEW f \in Work, Cancel(c, f),
         UNCHANGED <<workQueue, idleSemaphore, shutdownLock, poolFlags, workers>>
  PROVE  PoolIInv'
<1> USE DEF Cancel, ClientGoes, Cancelled, NotifyAll, Cancellable,
            callVars, askVars, waiterVars, poolFlags, workers
<1>1. PoolTypeOK'
  BY DEF PoolIInv, PoolTypeOK
<1>2. NoSleeperOnDone' /\ CallbacksInv' /\ WaitersInv'
  BY CancelledByClient
<1>3. (NoneInQueue' <=> NoneInQueue) /\ \A g \in Work : InQueue(g)' <=> InQueue(g)
  BY DEF NoneInQueue, InQueue
<1>4. PlacesInv'
  <2>1. QueueInOrder' /\ ItemInv'
    BY <1>3 DEF PoolIInv, PlacesInv, QueueInOrder, ItemInv
  <2>2. StateInv'
    BY <1>3 DEF PoolIInv, PoolTypeOK, PlacesInv, StateInv, ItemInv, HasItem
  <2> QED BY <2>1, <2>2 DEF PlacesInv
<1>5. LockInv'
  <2>1. \A d \in Client : AsideC(d, InPool)
    BY DEF AsideC, InPool, PoolIInv, PoolTypeOK
  <2> QED BY <2>1, LockKept DEF PoolIInv, AsideW
<1>6. LeavingInv'
  <2>1. \A d \in Client : AsideC(d, {"drain", "drained", "wakeup"})
    BY DEF AsideC, PoolIInv, PoolTypeOK
  <2> QED BY <1>3, <2>1, LeavingKept DEF PoolIInv, AsideW
<1>7. ServedInv'
  <2>1. \A d \in Client : clientPc[d] = "adjust" => clientPc'[d] = "adjust"
    BY DEF PoolIInv, PoolTypeOK
  <2> QED BY <1>3, <2>1, ServedKept DEF PoolIInv
<1> QED
  BY <1>1, <1>2, <1>4, <1>5, <1>6, <1>7 DEF PoolIInv

(* The first of the queue is dropped: it is with nobody, and done.         *)
LEMMA HeadIsDropped ==
  ASSUME PoolIInv, NEW h, h = Head(workQueue), workQueue # <<>>, workQueue' = Tail(workQueue),
         h \in Work => state'[h] \notin {"NEW", "PENDING", "RUNNING"},
         \A g \in Work : g # h => state'[g] = state[g],
         \A v \in Worker : item[v] \in Work =>
           item'[v] = item[v] /\ workerPc'[v] = workerPc[v],
         \A v \in Worker : item[v] \notin Work =>
           \/ workerPc'[v] \notin HasItem /\ item'[v] \notin Work
           \/ /\ workerPc'[v] = "drained" /\ item'[v] = h /\ h \in Work /\ state'[h] = "FINISHED"
              /\ \A u \in Worker : u # v => item'[u] = item[u]
  PROVE  PlacesInv'
<1>1. /\ QueueInOrder'
      /\ h = None => \A g \in Work : ~InQueue(g) /\ ~InQueue(g)'
      /\ h # None => /\ h \in Work /\ InQueue(h)
                     /\ \A g \in Work : InQueue(g)' <=> InQueue(g) /\ g # h
  BY HeadIsTaken DEF PoolIInv, PlacesInv
<1>2. \A g \in Work : InQueue(g)' <=> InQueue(g) /\ g # h
  BY <1>1
<1>3. h \in Work => InQueue(h) /\ \A v \in Worker : item[v] # h
  BY <1>1, ThreadPoolAssumption DEF PoolIInv, PlacesInv, ItemInv, ThreadPoolAssumption
<1>4. \A v \in Worker : item[v] \in Work <=> workerPc[v] \in HasItem
  BY DEF PoolIInv, PlacesInv, ItemInv
<1>5. ItemInv'
  <2>1. \A v \in Worker : item'[v] \in Work <=> workerPc'[v] \in HasItem
    BY <1>4 DEF HasItem
  <2>2. \A u, v \in Worker : item'[u] = item'[v] /\ item'[u] \in Work => u = v
    <3> SUFFICES ASSUME NEW u \in Worker, NEW v \in Worker, u # v, item'[u] = item'[v],
                        item'[u] \in Work
                 PROVE  FALSE
      OBVIOUS
    <3>1. CASE item[u] \in Work /\ item[v] \in Work
      BY <3>1 DEF PoolIInv, PlacesInv, ItemInv
    <3>2. CASE item[u] \notin Work
      BY <3>2, <1>3
    <3>3. CASE item[v] \notin Work
      BY <3>3, <1>3
    <3> QED BY <3>1, <3>2, <3>3
  <2>3. \A v \in Worker : item'[v] \in Work => ~InQueue(item[v])'
    <3> SUFFICES ASSUME NEW v \in Worker, NEW g \in Work, item'[v] = g, InQueue(item[v])'
                 PROVE  FALSE
      OBVIOUS
    <3>0. InQueue(g)'
      BY DEF InQueue
    <3>1. InQueue(g) /\ g # h
      BY <3>0, <1>2
    <3>2. CASE item[v] \in Work
      BY <3>1, <3>2 DEF PoolIInv, PlacesInv, ItemInv
    <3>3. CASE item[v] \notin Work
      BY <3>1, <3>3
    <3> QED BY <3>2, <3>3
  <2> QED BY <2>1, <2>2, <2>3 DEF ItemInv
<1>6. StateInv'
  <2>1. \A g \in Work : InQueue(g)' => state'[g] \in {"PENDING", "CANCELLED"}
    BY <1>2 DEF PoolIInv, PlacesInv, StateInv
  <2>2. ASSUME NEW g \in Work, state'[g] = "PENDING"
        PROVE  InQueue(g)' \/ \E v \in Worker : item'[v] = g
    <3>1. g # h /\ state[g] = "PENDING"
      BY <2>2
    <3>2. InQueue(g) \/ \E v \in Worker : item[v] = g
      BY <3>1 DEF PoolIInv, PlacesInv, StateInv
    <3> QED BY <3>1, <3>2, <1>2
  <2>3. ASSUME NEW v \in Worker
        PROVE  /\ workerPc'[v] = "run"  => state'[item'[v]] \in {"PENDING", "CANCELLED"}
               /\ workerPc'[v] = "call" => state'[item'[v]] = "RUNNING"
               /\ workerPc'[v] \in {"callbacks", "drained"} => state'[item'[v]] = "FINISHED"
    <3>1. CASE item[v] \in Work
      <4>1. state'[item[v]] = state[item[v]]
        BY <3>1, <1>3
      <4> QED BY <3>1, <4>1 DEF PoolIInv, PlacesInv, StateInv
    <3>2. CASE item[v] \notin Work
      BY <3>2 DEF HasItem
    <3> QED BY <3>1, <3>2
  <2> QED BY <2>1, <2>2, <2>3 DEF StateInv
<1> QED
  BY <1>1, <1>5, <1>6 DEF PlacesInv

(* The shorter queue and the rest of the pool.                             *)
LEMMA ShorterQueue ==
  ASSUME PoolIInv, workQueue # <<>>, workQueue' = Tail(workQueue),
         UNCHANGED <<idleSemaphore, poolFlags>>,
         \A c \in Client : clientPc[c] = "adjust" => clientPc'[c] = "adjust",
         \A c \in Client : AsideC(c, {"drain", "drained", "wakeup"})
                            \/ (clientPc[c] \in InDrain /\ clientPc'[c] \in InDrain),
         \A w \in Worker : AsideW(w, {"none", "exited", "unborn"})
  PROVE  workQueue' \in Seq(Work \cup {None}) /\ LeavingInv' /\ ServedInv'
<1> USE DEF poolFlags
<1>1. /\ workQueue' \in Seq(Work \cup {None})
      /\ NoneInQueue' => NoneInQueue
      /\ \A g \in Work : InQueue(g)' => InQueue(g)
  BY HeadIsTaken DEF PoolIInv, PlacesInv
<1>2. ServedInv'
  <2>1. \A w \in Worker : workerPc[w] # "unborn" => workerPc'[w] # "unborn"
    BY DEF AsideW
  <2> QED BY <1>1, <2>1, ServedKept DEF PoolIInv
<1>3. LeavingInv'
  <2>1. \A c \in Client : clientPc'[c] \in {"drain", "drained", "wakeup"} =>
          clientPc[c] \in {"drain", "drained", "wakeup"}
    BY DEF AsideC, InDrain
  <2>2. \A w \in Worker : workerPc'[w] \in {"none", "exited"} => workerPc[w] \in {"none", "exited"}
    BY DEF AsideW
  <2> QED BY <1>1, <2>1, <2>2 DEF PoolIInv, LeavingInv, Leaving
<1> QED
  BY <1>1, <1>2, <1>3

LEMMA ShutdownDrainsKeeps ==
  ASSUME PoolIInv, NEW c \in Client, ShutdownDrains(c)
  PROVE  PoolIInv'
<1> USE DEF callVars, askVars, waiterVars, poolFlags, workers
<1> PICK h : h = Head(workQueue)
  OBVIOUS
<1>1. clientPc[c] = "drain" /\ shutdownLock = c
  BY DEF ShutdownDrains, PoolIInv, LockInv
<1>2. CASE workQueue = <<>>
  <2>1. /\ clientPc' = [clientPc EXCEPT ![c] = "wakeup"]
        /\ UNCHANGED <<callVars, parked, hooked, listed, ran, target, askVars, waiterVars,
                       workQueue, idleSemaphore, shutdownLock, poolFlags, workers>>
    BY <1>2 DEF ShutdownDrains, ClientGoes
  <2>2. QueueInOrder' /\ (NoneInQueue' <=> NoneInQueue) /\ \A g \in Work : InQueue(g)' <=> InQueue(g)
    BY <2>1 DEF PoolIInv, PlacesInv, QueueInOrder, NoneInQueue, InQueue
  <2>3. PoolTypeOK'
    BY <2>1 DEF PoolIInv, PoolTypeOK
  <2>4. NoSleeperOnDone' /\ PlacesInv' /\ CallbacksInv' /\ WaitersInv'
    <3>1. \A d \in Client : AsideC(d, {"callbacks", "drained", "result", "wait", "unhook"})
      BY <2>1, <1>1 DEF AsideC, PoolIInv, PoolTypeOK
    <3>2. \A v \in Worker : AsideW(v, HasItem)
      BY <2>1 DEF AsideW
    <3> QED BY <2>1, <2>2, <3>1, <3>2, CallsAside
  <2>5. \A d \in Client : clientPc'[d] = clientPc[d] \/ (d = c /\ clientPc'[d] = "wakeup")
    BY <2>1 DEF PoolIInv, PoolTypeOK
  <2>6. LockInv'
    BY <2>1, <2>5, <1>1 DEF PoolIInv, LockInv
  <2>7. LeavingInv'
    BY <2>1, <2>2, <2>5, <1>1 DEF PoolIInv, LeavingInv, Leaving
  <2>8. ServedInv'
    <3>1. \A d \in Client : clientPc[d] = "adjust" => clientPc'[d] = "adjust"
      BY <2>5, <1>1 DEF PoolIInv, PoolTypeOK
    <3> QED BY <2>1, <2>2, <3>1, ServedKept DEF PoolIInv
  <2> QED BY <2>3, <2>4, <2>6, <2>7, <2>8 DEF PoolIInv
<1>3. ASSUME workQueue # <<>>, workQueue' = Tail(workQueue), h \notin Work \/ state[h] # "PENDING",
             UNCHANGED <<callVars, parked, hooked, listed, ran, clientPc, target, askVars,
                         waiterVars, idleSemaphore, shutdownLock, poolFlags, workers>>
      PROVE  PoolIInv'
  <2>1. h \in Work => state[h] = "CANCELLED"
    <3>1. h \in Work => InQueue(h)
      BY <1>3, HeadIsTaken, ThreadPoolAssumption DEF PoolIInv, PlacesInv, ThreadPoolAssumption
    <3> QED BY <3>1, <1>3 DEF PoolIInv, PlacesInv, StateInv
  <2>2. PlacesInv'
    <3>1. \A v \in Worker : item[v] \notin Work => workerPc[v] \notin HasItem
      BY DEF PoolIInv, PlacesInv, ItemInv
    <3>2. h \in Work => state'[h] \notin {"NEW", "PENDING", "RUNNING"}
      BY <1>3, <2>1
    <3> QED BY <1>3, <3>1, <3>2, HeadIsDropped
  <2>3. workQueue' \in Seq(Work \cup {None}) /\ LeavingInv' /\ ServedInv'
    BY <1>3, ShorterQueue DEF AsideC, AsideW
  <2>4. PoolTypeOK'
    BY <1>3, <2>3 DEF PoolIInv, PoolTypeOK
  <2>5. LockInv'
    BY <1>3 DEF PoolIInv, LockInv
  <2>6. NoSleeperOnDone' /\ WaitersInv' /\ \A g \in Work : Done(g)' <=> Done(g)
    BY <1>3, CallbacksAside DEF AsideC
  <2>7. CallbacksInv'
    BY <1>3, <2>6, CallbacksKept DEF AsideC, AsideW, PoolIInv, CallbacksInv
  <2> QED BY <2>2, <2>3, <2>4, <2>5, <2>6, <2>7 DEF PoolIInv
<1>4. ASSUME workQueue # <<>>, workQueue' = Tail(workQueue), h \in Work, state[h] = "PENDING",
             Cancelled(h), clientPc' = [clientPc EXCEPT ![c] = "drained"],
             target' = [target EXCEPT ![c] = h],
             UNCHANGED <<hooked, listed, ran, askVars, idleSemaphore, shutdownLock, poolFlags, workers>>
      PROVE  PoolIInv'
  <2>1. /\ state' = [state EXCEPT ![h] = "CANCELLED"] /\ parked' = [parked EXCEPT ![h] = {}]
        /\ UNCHANGED <<raised, finished, pendingCalls, event>>
    BY <1>4 DEF Cancelled, NotifyAll
  <2>2. \A d \in Client : d # c => clientPc'[d] = clientPc[d] /\ target'[d] = target[d]
    BY <1>4 DEF PoolIInv, PoolTypeOK
  <2>3. clientPc'[c] = "drained" /\ target'[c] = h
    BY <1>4 DEF PoolIInv, PoolTypeOK
  <2>4. NoSleeperOnDone' /\ CallbacksInv' /\ WaitersInv'
    <3>1. PICK l \in {"callbacks", "drained"} : l = "drained"
      OBVIOUS
    <3>2. clientPc' = [clientPc EXCEPT ![c] = l]
      BY <3>1, <1>4
    <3>3. clientPc[c] \notin {"callbacks", "drained", "wait", "unhook"}
      BY <1>1
    <3> QED BY <1>4, <3>2, <3>3, CancelledByClient
  <2>5. PlacesInv'
    <3>1. /\ state'[h] \notin {"NEW", "PENDING", "RUNNING"}
          /\ \A g \in Work : g # h => state'[g] = state[g]
      BY <2>1, <1>4 DEF PoolIInv, PoolTypeOK
    <3>2. \A v \in Worker : item[v] \notin Work => workerPc[v] \notin HasItem
      BY DEF PoolIInv, PlacesInv, ItemInv
    <3> QED BY <1>4, <3>1, <3>2, HeadIsDropped
  <2>6. workQueue' \in Seq(Work \cup {None}) /\ LeavingInv' /\ ServedInv'
    <3>1. \A d \in Client : /\ clientPc[d] = "adjust" => clientPc'[d] = "adjust"
                            /\ \/ AsideC(d, {"drain", "drained", "wakeup"})
                               \/ clientPc[d] \in InDrain /\ clientPc'[d] \in InDrain
      BY <2>2, <2>3, <1>1 DEF AsideC, InDrain
    <3> QED BY <1>4, <3>1, ShorterQueue DEF AsideW
  <2>7. PoolTypeOK'
    BY <1>4, <2>1, <2>6 DEF PoolIInv, PoolTypeOK
  <2>8. LockInv'
    BY <1>4, <2>2, <2>3, <1>1 DEF PoolIInv, LockInv
  <2> QED BY <2>4, <2>5, <2>6, <2>7, <2>8 DEF PoolIInv
<1>5. workQueue # <<>> => h = None \/ h \in Work
  BY QueueType, HeadTailProperties DEF PoolIInv
<1>6. CASE workQueue # <<>> /\ h = None
  <2>1. h \notin Work
    BY <1>6, ThreadPoolAssumption DEF ThreadPoolAssumption
  <2> QED BY <1>3, <1>6, <2>1 DEF ShutdownDrains
<1>7. CASE workQueue # <<>> /\ h \in Work /\ state[h] # "PENDING"
  <2>1. h # None
    BY <1>7, ThreadPoolAssumption DEF ThreadPoolAssumption
  <2> QED BY <1>3, <1>7, <2>1 DEF ShutdownDrains, Cancellable
<1>8. CASE workQueue # <<>> /\ h \in Work /\ state[h] = "PENDING"
  <2>1. h # None
    BY <1>8, ThreadPoolAssumption DEF ThreadPoolAssumption
  <2> QED BY <1>4, <1>8, <2>1 DEF ShutdownDrains, Cancellable, ClientGoes
<1> QED
  BY <1>2, <1>5, <1>6, <1>7, <1>8

LEMMA FailedDrainsKeeps ==
  ASSUME PoolIInv, NEW w \in Worker, FailedDrains(w)
  PROVE  PoolIInv'
<1> USE DEF callVars, askVars, waiterVars, poolFlags
<1> PICK h : h = Head(workQueue)
  OBVIOUS
<1>1. /\ workerPc[w] = "drain" /\ shutdownLock = w /\ item[w] \notin Work
      /\ \A v \in Worker : v # w => workerPc[v] \notin InDrain
      /\ \A c \in Client : clientPc[c] \notin InPool
      /\ \A v \in Worker : item[v] \notin Work => workerPc[v] \notin HasItem
  BY DEF FailedDrains, PoolIInv, LockInv, InDrain, InPool, PlacesInv, ItemInv, HasItem
<1>2. /\ UNCHANGED <<hooked, listed, ran, clientPc, target, askVars, idleSemaphore, poolFlags>>
      /\ \A c \in Client : AsideC(c, {"wait", "unhook"}) /\ AsideC(c, InCall) /\ AsideC(c, InPool)
      /\ \A c \in Client : AsideC(c, {"drain", "drained", "wakeup"})
  BY DEF FailedDrains, AsideC
<1>3. ASSUME workerPc' = [workerPc EXCEPT ![w] = "dead"], shutdownLock' = NoOne,
             UNCHANGED <<callVars, parked, waiterVars, item>>,
             \/ workQueue = <<>> /\ workQueue' = workQueue
             \/ /\ workQueue # <<>> /\ workQueue' = Tail(workQueue)
                /\ h \in Work => state[h] \notin {"NEW", "PENDING", "RUNNING"}
      PROVE  PoolIInv'
  <2>1. \A v \in Worker : /\ v # w => workerPc'[v] = workerPc[v]
                          /\ workerPc'[w] = "dead"
    BY <1>3 DEF PoolIInv, PoolTypeOK
  <2>2. \A v \in Worker : /\ AsideW(v, HasItem) /\ AsideW(v, {"none", "exited", "unborn"})
                          /\ AsideW(v, InCall)
    BY <2>1, <1>1 DEF AsideW, HasItem, InCall
  <2>3. PlacesInv'
    <3>1. CASE workQueue' = workQueue
      <4>1. QueueInOrder' /\ \A g \in Work : InQueue(g)' <=> InQueue(g)
        BY <3>1 DEF PoolIInv, PlacesInv, QueueInOrder, InQueue
      <4> QED BY <1>3, <2>2, <4>1, PlacesKept DEF PoolIInv
    <3>2. CASE workQueue # <<>> /\ workQueue' = Tail(workQueue)
      <4>1. \A v \in Worker : /\ item[v] \in Work => workerPc'[v] = workerPc[v]
                              /\ item[v] \notin Work => workerPc'[v] \notin HasItem
        BY <2>1, <1>1 DEF HasItem
      <4>2. h \in Work => state'[h] \notin {"NEW", "PENDING", "RUNNING"}
        BY <1>3, <3>2
      <4> QED BY <1>3, <3>2, <4>1, <4>2, HeadIsDropped
    <3> QED BY <1>3, <3>1, <3>2
  <2>4. workQueue' \in Seq(Work \cup {None}) /\ LeavingInv' /\ ServedInv'
    <3>1. CASE workQueue' = workQueue
      <4>1. (NoneInQueue' <=> NoneInQueue) /\ \A g \in Work : InQueue(g)' <=> InQueue(g)
        BY <3>1 DEF NoneInQueue, InQueue
      <4>2. LeavingInv'
        <5>1. \A v \in Worker : AsideW(v, {"none", "exited"})
          BY <2>2 DEF AsideW
        <5> QED BY <4>1, <5>1, <1>2, LeavingKept DEF PoolIInv
      <4>3. ServedInv'
        <5>1. \A v \in Worker : workerPc[v] # "unborn" => workerPc'[v] # "unborn"
          BY <2>2 DEF AsideW
        <5> QED BY <4>1, <5>1, <1>2, ServedKept DEF PoolIInv
      <4> QED BY <3>1, <4>2, <4>3, QueueType DEF PoolIInv
    <3>2. CASE workQueue # <<>> /\ workQueue' = Tail(workQueue)
      BY <3>2, <1>2, <2>2, ShorterQueue
    <3> QED BY <1>3, <3>1, <3>2
  <2>5. PoolTypeOK'
    BY <1>2, <1>3, <2>4 DEF PoolIInv, PoolTypeOK
  <2>6. LockInv'
    BY <2>1, <1>1, <1>2 DEF LockInv, InPool, InDrain
  <2>7. NoSleeperOnDone' /\ WaitersInv' /\ \A g \in Work : Done(g)' <=> Done(g)
    BY <1>2, <1>3, CallbacksAside
  <2>8. CallbacksInv'
    BY <1>2, <1>3, <2>2, <2>7, CallbacksKept DEF PoolIInv, CallbacksInv
  <2> QED BY <2>3, <2>4, <2>5, <2>6, <2>7, <2>8 DEF PoolIInv
<1>4. ASSUME workQueue # <<>>, workQueue' = Tail(workQueue), h = None,
             UNCHANGED <<callVars, parked, waiterVars, workerPc, item, shutdownLock>>
      PROVE  PoolIInv'
  <2>1. \A v \in Worker : /\ AsideW(v, {"none", "exited", "unborn"}) /\ AsideW(v, InDrain)
                          /\ AsideW(v, InCall)
    BY <1>4 DEF AsideW
  <2>2. h \notin Work
    BY <1>4, ThreadPoolAssumption DEF ThreadPoolAssumption
  <2>3. PlacesInv'
    BY <1>4, <2>2, <1>1, HeadIsDropped
  <2>4. workQueue' \in Seq(Work \cup {None}) /\ LeavingInv' /\ ServedInv'
    BY <1>2, <1>4, <2>1, ShorterQueue
  <2>5. PoolTypeOK'
    BY <1>2, <1>4, <2>4 DEF PoolIInv, PoolTypeOK
  <2>6. LockInv'
    BY <1>2, <1>4, <2>1, LockKept DEF PoolIInv
  <2>7. NoSleeperOnDone' /\ WaitersInv' /\ \A g \in Work : Done(g)' <=> Done(g)
    BY <1>2, <1>4, CallbacksAside
  <2>8. CallbacksInv'
    BY <1>2, <1>4, <2>1, <2>7, CallbacksKept DEF PoolIInv, CallbacksInv
  <2> QED BY <2>3, <2>4, <2>5, <2>6, <2>7, <2>8 DEF PoolIInv
<1>5. ASSUME workQueue # <<>>, workQueue' = Tail(workQueue), h \in Work, state[h] = "PENDING",
             SetOutcome(h, TRUE), workerPc' = [workerPc EXCEPT ![w] = "drained"],
             item' = [item EXCEPT ![w] = h], UNCHANGED shutdownLock
      PROVE  PoolIInv'
  <2>1. /\ state' = [state EXCEPT ![h] = "FINISHED"] /\ parked' = [parked EXCEPT ![h] = {}]
        /\ raised' = raised \cup {h} /\ TellWaiters(h, TRUE)
        /\ ~Done(h) /\ ~Notified(h)
    BY <1>5 DEF SetOutcome, NotifyAll, Done, Notified
  <2>2. /\ \A v \in Worker : v # w => workerPc'[v] = workerPc[v] /\ item'[v] = item[v]
        /\ workerPc'[w] = "drained" /\ item'[w] = h
    BY <1>5 DEF PoolIInv, PoolTypeOK
  <2>3. /\ finished' \in [Client -> SUBSET Work] /\ pendingCalls' \in [Client -> Nat]
        /\ event' \subseteq Client /\ WaitersInv'
    <3>1. PICK ex \in BOOLEAN : ex = TRUE
      OBVIOUS
    <3>2. TellWaiters(h, ex) /\ raised' = IF ex THEN raised \cup {h} ELSE raised
      BY <3>1, <2>1
    <3> QED BY <1>2, <1>5, <2>1, <3>2, WaitersAreTold
  <2>4. PlacesInv'
    <3>1. \A v \in Worker : item[v] \in Work => item'[v] = item[v] /\ workerPc'[v] = workerPc[v]
      BY <2>2, <1>1
    <3>2. state'[h] = "FINISHED" /\ \A g \in Work : g # h => state'[g] = state[g]
      BY <2>1, <1>5 DEF PoolIInv, PoolTypeOK
    <3>3. \A v \in Worker : item[v] \notin Work =>
            \/ workerPc'[v] \notin HasItem /\ item'[v] \notin Work
            \/ /\ workerPc'[v] = "drained" /\ item'[v] = h /\ h \in Work /\ state'[h] = "FINISHED"
               /\ \A u \in Worker : u # v => item'[u] = item[u]
      BY <2>2, <1>1, <1>5, <3>2
    <3> QED BY <1>5, <3>1, <3>2, <3>3, HeadIsDropped
  <2>5. workQueue' \in Seq(Work \cup {None}) /\ LeavingInv' /\ ServedInv'
    <3>1. \A v \in Worker : AsideW(v, {"none", "exited", "unborn"})
      BY <2>2, <1>1 DEF AsideW
    <3> QED BY <1>2, <1>5, <3>1, ShorterQueue
  <2>6. PoolTypeOK'
    BY <1>2, <1>5, <2>1, <2>3, <2>5 DEF PoolIInv, PoolTypeOK
  <2>7. LockInv'
    BY <1>1, <1>2, <1>5, <2>2 DEF PoolIInv, LockInv, InPool, InDrain
  <2>8. NoSleeperOnDone'
    BY <2>1, <1>5 DEF PoolIInv, NoSleeperOnDone, Done, PoolTypeOK
  <2>9. CallbacksInv'
    <3>1. Done(h)' /\ \A g \in Work : g # h => (Done(g)' <=> Done(g))
      BY <2>1, <1>5 DEF Done, PoolIInv, PoolTypeOK
    <3>2. \A c \in Client : \A g \in Work : CallsBack(c, g)' <=> CallsBack(c, g)
      BY <1>2 DEF CallsBack
    <3>3. \A v \in Worker : \A g \in Work : g # h => (WorkerCallsBack(v, g)' <=> WorkerCallsBack(v, g))
      BY <2>2, <1>1 DEF WorkerCallsBack
    <3>4. WorkerCallsBack(w, h)'
      BY <2>2 DEF WorkerCallsBack
    <3>5. AtCallbacks(h)'
      BY <1>5, <3>4, AtCallbacksMeansPrimed
    <3>6. \A c \in Client : ~CallsBack(c, h)
      BY <1>5, <2>1, AtCallbacksMeans DEF PoolIInv, CallbacksInv, CallbackInv
    <3>7. \A c \in Client : clientPc'[c] \in {"callbacks", "drained", "result"} => target'[c] \in Work
      BY <1>2 DEF PoolIInv, CallbacksInv
    <3> QED BY <1>2, <1>5, <2>1, <3>1, <3>2, <3>3, <3>5, <3>6, <3>7, CallbacksBegin
  <2> QED BY <2>3, <2>4, <2>5, <2>6, <2>7, <2>8, <2>9 DEF PoolIInv
<1>6. workQueue # <<>> => h = None \/ (h \in Work /\ h # None /\ state[h] \in {"PENDING", "CANCELLED"})
  <2> SUFFICES ASSUME workQueue # <<>>, h # None
               PROVE  h \in Work /\ state[h] \in {"PENDING", "CANCELLED"}
    OBVIOUS
  <2>1. /\ h = workQueue[1] /\ h \in Work \cup {None} /\ 1 \in 1 .. Len(workQueue)
    BY QueueType, HeadTailProperties, EmptySeq DEF PoolIInv
  <2>2. h \in Work /\ InQueue(h)
    BY <2>1 DEF InQueue
  <2> QED BY <2>2 DEF PoolIInv, PlacesInv, StateInv
<1>7. CASE workQueue = <<>>
  BY <1>3, <1>7 DEF FailedDrains, WorkerGoes
<1>8. CASE workQueue # <<>> /\ h = None
  BY <1>4, <1>8 DEF FailedDrains
<1>9. CASE workQueue # <<>> /\ h # None /\ Done(h)
  <2>1. state[h] \notin {"NEW", "PENDING", "RUNNING"}
    BY <1>9 DEF Done
  <2> QED BY <1>3, <1>9, <2>1 DEF FailedDrains, WorkerGoes
<1>10. CASE workQueue # <<>> /\ h # None /\ ~Done(h)
  <2>1. h \in Work /\ state[h] = "PENDING"
    BY <1>6, <1>10 DEF Done
  <2> QED BY <1>5, <1>10, <2>1 DEF FailedDrains, WorkerGoes, WorkerTakes
<1> QED
  BY <1>7, <1>8, <1>9, <1>10
-----------------------------------------------------------------------------
(***************************************************************************)
(* What clients do with the futures.                                       *)
(***************************************************************************)
PoolSleeps == UNCHANGED <<workQueue, idleSemaphore, shutdownLock, poolFlags, workers>>

(* A client that is not in submit or shutdown goes on, outside of both.    *)
LEMMA ClientAside ==
  ASSUME PoolIInv, PoolSleeps, UNCHANGED state, \A c \in Client : AsideC(c, InPool)
  PROVE  PlacesInv' /\ LockInv' /\ LeavingInv' /\ ServedInv'
<1> USE DEF PoolSleeps, poolFlags, workers
<1>1. (NoneInQueue' <=> NoneInQueue) /\ \A g \in Work : InQueue(g)' <=> InQueue(g)
  BY DEF NoneInQueue, InQueue
<1>2. PlacesInv'
  <2>1. QueueInOrder'
    BY DEF PoolIInv, PlacesInv, QueueInOrder
  <2> QED BY <1>1, <2>1, PlacesKept DEF PoolIInv, AsideW
<1>3. LockInv'
  BY LockKept DEF PoolIInv, AsideW
<1>4. LeavingInv'
  <2>1. \A c \in Client : AsideC(c, {"drain", "drained", "wakeup"})
    BY DEF AsideC, InPool
  <2> QED BY <1>1, <2>1, LeavingKept DEF PoolIInv, AsideW
<1>5. ServedInv'
  <2>1. \A c \in Client : clientPc[c] = "adjust" => clientPc'[c] = "adjust"
    BY DEF AsideC, InPool
  <2> QED BY <1>1, <2>1, ServedKept DEF PoolIInv
<1> QED
  BY <1>2, <1>3, <1>4, <1>5

(* No callback is about to be called, and no future changes.               *)
LEMMA CallbacksUntouched ==
  ASSUME PoolIInv, PoolSleeps, UNCHANGED <<state, listed, ran>>,
         \A c \in Client : AsideC(c, InCall) /\ (clientPc[c] \in InCall => target'[c] = target[c]),
         \A c \in Client : clientPc'[c] = "result" => target'[c] \in Work
  PROVE  CallbacksInv'
<1>1. \A g \in Work : Done(g)' <=> Done(g)
  BY DEF Done
<1>2. \A w \in Worker : AsideW(w, InCall) /\ (workerPc[w] \in InCall => item'[w] = item[w])
  BY DEF AsideW, PoolSleeps, workers
<1> QED
  BY <1>1, <1>2, CallbacksKept DEF PoolIInv

LEMMA AddDoneCallbackKeeps ==
  ASSUME PoolIInv, NEW f \in Work, AddDoneCallback(f), PoolSleeps
  PROVE  PoolIInv'
<1> USE DEF AddDoneCallback, callVars, askVars, waiterVars
<1>1. PoolTypeOK'
  <2>1. ran' \in [Work -> Nat] /\ listed' \in [Work -> BOOLEAN]
    <3>1. ran \in [Work -> Nat] /\ listed \in [Work -> BOOLEAN]
      BY DEF PoolIInv, PoolTypeOK
    <3>2. CASE Done(f)
      BY <3>1, <3>2
    <3>3. CASE ~Done(f)
      BY <3>1, <3>3
    <3> QED BY <3>2, <3>3
  <2> QED BY <2>1 DEF PoolIInv, PoolTypeOK, PoolSleeps, poolFlags, workers
<1>2. PlacesInv' /\ LockInv' /\ LeavingInv' /\ ServedInv'
  BY ClientAside DEF AsideC
<1>3. NoSleeperOnDone' /\ WaitersInv' /\ \A g \in Work : Done(g)' <=> Done(g)
  BY CallbacksAside DEF AsideC
<1>4. CallbacksInv'
  <2>1. /\ \A c \in Client : \A g \in Work : CallsBack(c, g)' <=> CallsBack(c, g)
        /\ \A w \in Worker : \A g \in Work : WorkerCallsBack(w, g)' <=> WorkerCallsBack(w, g)
    BY DEF CallsBack, WorkerCallsBack, PoolSleeps, workers
  <2>2. \A g \in Work : AtCallbacks(g)' <=> AtCallbacks(g)
    BY <2>1, AtCallbacksMeans, AtCallbacksMeansPrimed
  <2>3. ran \in [Work -> Nat] /\ listed \in [Work -> BOOLEAN]
    BY DEF PoolIInv, PoolTypeOK
  <2>4. ASSUME NEW g \in Work, g # f
        PROVE  CallbackInv(g)'
    <3>1. CallbackInv(g) /\ listed'[g] = listed[g] /\ ran'[g] = ran[g]
      BY <2>3, <2>4 DEF PoolIInv, CallbacksInv
    <3> QED BY <1>3, <2>1, <2>2, <3>1 DEF CallbackInv
  <2>5. CallbackInv(f) /\ ~listed[f] /\ ran[f] = 0
    BY DEF PoolIInv, CallbacksInv
  <2>6. CASE Done(f)
    <3>1. ran'[f] = 1 /\ ~listed'[f]
      BY <2>3, <2>5, <2>6
    <3> QED BY <1>3, <2>1, <2>2, <2>4, <2>5, <2>6, <3>1 DEF CallbackInv, CallbacksInv, PoolIInv
  <2>7. CASE ~Done(f)
    <3>1. ran'[f] = 0 /\ ~AtCallbacks(f)
      BY <2>5, <2>7 DEF CallbackInv
    <3>2. CallbackInv(f)'
      BY <1>3, <2>1, <2>2, <2>5, <2>7, <3>1 DEF CallbackInv
    <3> QED BY <2>4, <3>2 DEF CallbacksInv, PoolIInv
  <2> QED BY <2>6, <2>7
<1> QED
  BY <1>1, <1>2, <1>3, <1>4 DEF PoolIInv

LEMMA ResultKeeps ==
  ASSUME PoolIInv, NEW c \in Client, NEW f \in Work, Result(c, f), PoolSleeps
  PROVE  PoolIInv'
<1> USE DEF Result, ClientGoes, callVars, askVars, waiterVars
<1>1. PoolTypeOK'
  BY DEF PoolIInv, PoolTypeOK, PoolSleeps, poolFlags, workers
<1>2. NoSleeperOnDone'
  BY DEF PoolIInv, PoolTypeOK, NoSleeperOnDone, Done
<1>3. \A d \in Client : AsideC(d, InPool) /\ AsideC(d, {"wait", "unhook"}) /\ AsideC(d, InCall)
  BY DEF AsideC, InPool, InCall, PoolIInv, PoolTypeOK
<1>4. PlacesInv' /\ LockInv' /\ LeavingInv' /\ ServedInv'
  BY <1>3, ClientAside
<1>5. CallbacksInv'
  <2>1. \A d \in Client : /\ clientPc[d] \in InCall => target'[d] = target[d]
                          /\ clientPc'[d] = "result" => target'[d] \in Work
    BY DEF InCall, PoolIInv, PoolTypeOK, CallbacksInv
  <2> QED BY <1>3, <2>1, CallbacksUntouched
<1>6. WaitersInv'
  BY <1>3, WaitersKept DEF PoolIInv, Notified, Created
<1> QED
  BY <1>1, <1>2, <1>4, <1>5, <1>6 DEF PoolIInv

LEMMA ResultReturnsKeeps ==
  ASSUME PoolIInv, NEW c \in Client, ResultReturns(c), PoolSleeps
  PROVE  PoolIInv'
<1> USE DEF ResultReturns, ClientGoes, callVars, askVars, waiterVars
<1>1. PoolTypeOK'
  BY DEF PoolIInv, PoolTypeOK, PoolSleeps, poolFlags, workers
<1>2. NoSleeperOnDone'
  BY DEF PoolIInv, NoSleeperOnDone, Done
<1>3. \A d \in Client : AsideC(d, InPool) /\ AsideC(d, {"wait", "unhook"}) /\ AsideC(d, InCall)
  BY DEF AsideC, InPool, InCall, PoolIInv, PoolTypeOK
<1>4. PlacesInv' /\ LockInv' /\ LeavingInv' /\ ServedInv'
  BY <1>3, ClientAside
<1>5. CallbacksInv'
  <2>1. \A d \in Client : /\ clientPc[d] \in InCall => target'[d] = target[d]
                          /\ clientPc'[d] = "result" => target'[d] \in Work
    BY DEF InCall, PoolIInv, PoolTypeOK, CallbacksInv
  <2> QED BY <1>3, <2>1, CallbacksUntouched
<1>6. WaitersInv'
  BY <1>3, WaitersKept DEF PoolIInv, Notified, Created
<1> QED
  BY <1>1, <1>2, <1>4, <1>5, <1>6 DEF PoolIInv

(* A step of the client c in wait() or as_completed(): only its own        *)
(* bookkeeping changes.                                                    *)
LEMMA OnlyItsWait ==
  ASSUME PoolIInv, NEW c \in Client, PoolSleeps,
         clientPc[c] \in {"idle", "wait", "unhook"}, clientPc'[c] \in {"idle", "wait", "unhook"},
         \A d \in Client : d # c =>
           /\ clientPc'[d] = clientPc[d]
           /\ fs'[d] = fs[d] /\ mode'[d] = mode[d] /\ batch'[d] = batch[d]
           /\ finished'[d] = finished[d] /\ pendingCalls'[d] = pendingCalls[d]
           /\ d \in event' <=> d \in event
           /\ \A f \in Work : d \in hooked'[f] <=> d \in hooked[f],
         UNCHANGED <<callVars, parked, listed, ran, target>>,
         WaitInv(c)'
  PROVE  NoSleeperOnDone' /\ PlacesInv' /\ LockInv' /\ LeavingInv' /\ ServedInv'
         /\ CallbacksInv' /\ WaitersInv'
<1> USE DEF callVars
<1>1. \A d \in Client : AsideC(d, InPool) /\ AsideC(d, InCall)
  BY DEF AsideC, InPool, InCall
<1>2. NoSleeperOnDone'
  BY DEF PoolIInv, NoSleeperOnDone, Done
<1>3. PlacesInv' /\ LockInv' /\ LeavingInv' /\ ServedInv'
  BY <1>1, ClientAside
<1>4. CallbacksInv'
  <2>1. \A d \in Client : clientPc'[d] = "result" => target'[d] \in Work
    BY DEF PoolIInv, CallbacksInv
  <2> QED BY <1>1, <2>1, CallbacksUntouched
<1>5. WaitersInv'
  <2>1. ASSUME NEW d \in Client, d # c
        PROVE  WaitInv(d)'
    <3>1. WaitInv(d) /\ (Created' = Created) /\ \A f \in Work : Notified(f)' <=> Notified(f)
      BY DEF PoolIInv, WaitersInv, Created, Notified
    <3>2. fs[d] \subseteq Work /\ batch[d] \subseteq Work
      BY <3>1 DEF WaitInv, Created
    <3>3. Open(d)' = Open(d) /\ {f \in batch[d] : ~Notified(f)}' = {f \in batch[d] : ~Notified(f)}
      BY <2>1, <3>1, <3>2 DEF Open
    <3>4. CountRight(d)' <=> CountRight(d)
      BY <2>1, <3>3 DEF CountRight
    <3> QED BY <2>1, <3>1, <3>3, <3>4 DEF WaitInv
  <2>2. \A f \in raised' : state'[f] = "FINISHED"
    BY DEF PoolIInv, WaitersInv
  <2> QED BY <2>1, <2>2 DEF WaitersInv
<1> QED
  BY <1>2, <1>3, <1>4, <1>5

LEMMA WaitKeeps ==
  ASSUME PoolIInv, NEW c \in Client, NEW q \in SUBSET Work, NEW m \in Modes, Wait(c, q, m), PoolSleeps
  PROVE  PoolIInv'
<1> USE DEF Wait, ClientGoes, callVars
<1> DEFINE done == {f \in q : Notified(f)}
<1>1. /\ clientPc[c] = "idle" /\ q # {} /\ q \subseteq Created /\ ~AnswersAtOnce(q, m, done)
      /\ hooked' = [f \in Work |-> hooked[f] \cup (IF f \in q THEN {c} ELSE {})]
      /\ fs' = [fs EXCEPT ![c] = q] /\ mode' = [mode EXCEPT ![c] = m]
      /\ pendingCalls' = [pendingCalls EXCEPT ![c] =
           IF m \in {"FIRST_EXCEPTION", "ALL_COMPLETED"} THEN Cardinality(q \ done) ELSE 0]
      /\ batch' = IF m = "AS_COMPLETED" THEN [batch EXCEPT ![c] = done] ELSE batch
      /\ finished' = IF m = "AS_COMPLETED" THEN finished ELSE [finished EXCEPT ![c] = done]
      /\ clientPc' = [clientPc EXCEPT ![c] = IF m = "AS_COMPLETED" THEN "unhook" ELSE "wait"]
      /\ UNCHANGED <<callVars, parked, listed, ran, target, event>>
  OBVIOUS
<1> HIDE DEF Wait
<1>2. Cardinality(q \ done) \in Nat /\ done \subseteq Work
  BY WorkFinite
<1>3. PoolTypeOK'
  <2>1. pendingCalls' \in [Client -> Nat]
    BY <1>1, <1>2 DEF PoolIInv, PoolTypeOK
  <2>2. /\ fs' \in [Client -> SUBSET Work] /\ mode' \in [Client -> Modes]
        /\ batch' \in [Client -> SUBSET Work] /\ finished' \in [Client -> SUBSET Work]
        /\ hooked' \in [Work -> SUBSET Client]
    <3> HIDE DEF done
    <3> QED BY <1>1, <1>2 DEF PoolIInv, PoolTypeOK
  <2>3. clientPc' \in [Client -> {"idle", "callbacks", "result", "wait", "unhook", "adjust",
                                   "drain", "drained", "wakeup", "join"}]
    BY <1>1 DEF PoolIInv, PoolTypeOK
  <2> QED BY <1>1, <2>1, <2>2, <2>3 DEF PoolIInv, PoolTypeOK, PoolSleeps, poolFlags, workers
<1>4. \A d \in Client : d # c =>
        /\ clientPc'[d] = clientPc[d]
        /\ fs'[d] = fs[d] /\ mode'[d] = mode[d] /\ batch'[d] = batch[d]
        /\ finished'[d] = finished[d] /\ pendingCalls'[d] = pendingCalls[d]
        /\ d \in event' <=> d \in event
        /\ \A f \in Work : d \in hooked'[f] <=> d \in hooked[f]
  <2> HIDE DEF done
  <2> QED BY <1>1 DEF PoolIInv, PoolTypeOK
<1>5. /\ fs[c] = {} /\ batch[c] = {} /\ finished[c] = {} /\ c \notin event
      /\ \A f \in Work : c \notin hooked[f]
  BY <1>1 DEF PoolIInv, WaitersInv, WaitInv
<1>6. /\ fs'[c] = q /\ mode'[c] = m
      /\ \A f \in Work : c \in hooked'[f] <=> f \in q
      /\ pendingCalls'[c] = IF m \in {"FIRST_EXCEPTION", "ALL_COMPLETED"}
                            THEN Cardinality(q \ done) ELSE 0
      /\ m = "AS_COMPLETED" => batch'[c] = done /\ finished'[c] = {} /\ clientPc'[c] = "unhook"
      /\ m # "AS_COMPLETED" => batch'[c] = {} /\ finished'[c] = done /\ clientPc'[c] = "wait"
      /\ c \notin event'
  <2> HIDE DEF done
  <2> QED BY <1>1, <1>5 DEF PoolIInv, PoolTypeOK
<1>7. /\ \A f \in Work : Notified(f)' <=> Notified(f)
      /\ Created' = Created /\ raised' = raised
  BY <1>1 DEF Notified, Created
<1>8. Open(c)' = q \ done /\ done \subseteq q
  BY <1>6, <1>7 DEF Open
<1>9. \A f \in raised : Notified(f)
  BY DEF PoolIInv, WaitersInv, Notified
<1>10. WaitInv(c)'
  <2>1. CASE m = "AS_COMPLETED"
    <3> HIDE DEF done
    <3> QED BY <1>1, <1>6, <1>7, <1>8, <2>1 DEF WaitInv
  <2>2. CASE m = "FIRST_COMPLETED"
    <3>1. done = {}
      BY <1>1, <2>2 DEF AnswersAtOnce
    <3>2. CountRight(c)'
      <4> HIDE DEF done
      <4> QED BY <3>1, <1>6, <1>8, <2>2 DEF CountRight
    <3> HIDE DEF done
    <3> QED BY <3>2, <1>1, <1>6, <1>7, <1>8, <2>2 DEF WaitInv
  <2>3. CASE m = "ALL_COMPLETED"
    <3>1. q \ done # {}
      <4>1. done # q
        BY <1>1, <2>3 DEF AnswersAtOnce
      <4> HIDE DEF done
      <4> QED BY <4>1, <1>8
    <3>2. CountRight(c)'
      <4> HIDE DEF done
      <4> QED BY <3>1, <1>6, <1>8, <2>3 DEF CountRight
    <3> HIDE DEF done
    <3> QED BY <3>2, <1>1, <1>6, <1>7, <1>8, <2>3 DEF WaitInv
  <2>4. CASE m = "FIRST_EXCEPTION"
    <3>1. q \ done # {} /\ done \cap raised = {}
      <4>1. done # q /\ done \cap raised = {}
        BY <1>1, <2>4 DEF AnswersAtOnce
      <4> HIDE DEF done
      <4> QED BY <4>1, <1>8
    <3>2. q \cap raised = {}
      BY <3>1, <1>9
    <3>3. Cardinality(q \cap raised) = 0
      BY <3>2, FS_EmptySet
    <3>4. CountRight(c)'
      <4> HIDE DEF done
      <4>1. fs'[c] \cap raised' = {} /\ Cardinality(fs'[c] \cap raised') = 0
        BY <3>2, <3>3, <1>6, <1>7
      <4>2. pendingCalls'[c] = Cardinality(Open(c)') + Cardinality(fs'[c] \cap raised')
        BY <4>1, <1>2, <1>6, <1>8, <2>4
      <4> QED BY <3>1, <4>1, <4>2, <1>6, <1>8, <2>4 DEF CountRight
    <3> HIDE DEF done
    <3> QED BY <3>4, <1>1, <1>6, <1>7, <1>8, <2>4 DEF WaitInv
  <2> QED BY <2>1, <2>2, <2>3, <2>4 DEF Modes
<1>11. clientPc'[c] \in {"wait", "unhook"}
  BY <1>6
<1> QED
  BY <1>1, <1>3, <1>4, <1>10, <1>11, OnlyItsWait DEF PoolIInv

LEMMA EnoughCalls ==
  ASSUME NEW c \in Client, CountRight(c), Cardinality(Open(c)) \in Nat,
         Cardinality(fs[c] \cap raised) \in Nat, mode[c] \in {"ALL_COMPLETED", "FIRST_EXCEPTION"}
  PROVE  pendingCalls[c] >= Cardinality(Open(c))
<1>1. CASE mode[c] = "ALL_COMPLETED"
  BY <1>1 DEF CountRight
<1>2. CASE mode[c] = "FIRST_EXCEPTION"
  <2>1. pendingCalls[c] = Cardinality(Open(c)) + Cardinality(fs[c] \cap raised)
    BY <1>2 DEF CountRight
  <2> QED BY <2>1
<1> QED
  BY <1>1, <1>2

LEMMA WokenKeeps ==
  ASSUME PoolIInv, NEW c \in Client, Woken(c), PoolSleeps
  PROVE  PoolIInv'
<1> USE DEF Woken, ClientGoes, callVars
<1>1. PoolTypeOK'
  <2>1. /\ batch \in [Client -> SUBSET Work] /\ finished \in [Client -> SUBSET Work]
        /\ event \subseteq Client /\ fs \in [Client -> SUBSET Work]
        /\ clientPc' \in [Client -> {"idle", "callbacks", "result", "wait", "unhook", "adjust",
                                     "drain", "drained", "wakeup", "join"}]
    BY DEF PoolIInv, PoolTypeOK
  <2>2. CASE mode[c] = "AS_COMPLETED"
    <3>1. /\ batch' \in [Client -> SUBSET Work] /\ finished' \in [Client -> SUBSET Work]
          /\ event' \subseteq Client
      BY <2>1, <2>2
    <3> QED BY <2>1, <3>1 DEF PoolIInv, PoolTypeOK, PoolSleeps, poolFlags, workers
  <2>3. CASE mode[c] # "AS_COMPLETED"
    <3>1. /\ batch' \in [Client -> SUBSET Work] /\ finished' \in [Client -> SUBSET Work]
          /\ event' \subseteq Client
      BY <2>1, <2>3
    <3> QED BY <2>1, <3>1 DEF PoolIInv, PoolTypeOK, PoolSleeps, poolFlags, workers
  <2> QED BY <2>2, <2>3
<1>2. \A d \in Client : d # c =>
        /\ clientPc'[d] = clientPc[d]
        /\ fs'[d] = fs[d] /\ mode'[d] = mode[d] /\ batch'[d] = batch[d]
        /\ finished'[d] = finished[d] /\ pendingCalls'[d] = pendingCalls[d]
        /\ d \in event' <=> d \in event
        /\ \A f \in Work : d \in hooked'[f] <=> d \in hooked[f]
  BY DEF PoolIInv, PoolTypeOK
<1>3. /\ clientPc[c] = "wait" /\ clientPc'[c] = "unhook" /\ WaitInv(c) /\ CountRight(c)
      /\ fs'[c] = fs[c] /\ mode'[c] = mode[c] /\ pendingCalls'[c] = pendingCalls[c]
      /\ hooked' = hooked /\ fs[c] \subseteq Work /\ mode[c] \in Modes
  <2>1. clientPc[c] = "wait" /\ WaitInv(c)
    BY DEF PoolIInv, WaitersInv
  <2>2. CountRight(c)
    BY <2>1 DEF WaitInv
  <2> QED BY <2>1, <2>2 DEF PoolIInv, PoolTypeOK
<1>4. /\ \A f \in Work : Notified(f)' <=> Notified(f)
      /\ Created' = Created /\ Open(c)' = Open(c)
  BY <1>3 DEF Notified, Created, Open
<1>5. WaitInv(c)'
  <2>1. CASE mode[c] = "AS_COMPLETED"
    <3>1. batch'[c] = finished[c] /\ finished'[c] = {} /\ c \notin event'
      BY <2>1 DEF PoolIInv, PoolTypeOK
    <3>2. finished[c] = fs[c] \ Open(c)
      BY <1>3, <2>1 DEF CountRight
    <3> QED BY <3>1, <3>2, <1>3, <1>4, <2>1 DEF WaitInv
  <2>2. CASE mode[c] # "AS_COMPLETED"
    <3>1. batch'[c] = fs[c]
      BY <2>2 DEF PoolIInv, PoolTypeOK
    <3>2. {f \in batch[c] : ~Notified(f)}' = Open(c)
      BY <3>1, <1>3, <1>4 DEF Open
    <3>3. IsFiniteSet(Open(c)) /\ Cardinality(Open(c)) \in Nat /\ Cardinality(fs[c] \cap raised) \in Nat
      BY <1>3, WorkFinite DEF Open
    <3>4. mode[c] \in {"ALL_COMPLETED", "FIRST_EXCEPTION"} => pendingCalls[c] >= Cardinality(Open(c))
      BY <1>3, <3>3, EnoughCalls
    <3> QED BY <3>1, <3>2, <3>4, <1>3, <1>4, <2>2 DEF WaitInv
  <2> QED BY <2>1, <2>2
<1> QED
  BY <1>1, <1>2, <1>3, <1>5, OnlyItsWait DEF PoolIInv

LEMMA TimesOutKeeps ==
  ASSUME PoolIInv, NEW c \in Client, TimesOut(c), PoolSleeps
  PROVE  PoolIInv'
<1> USE DEF TimesOut, ClientGoes, callVars, waiterVars
<1>1. PoolTypeOK'
  BY DEF PoolIInv, PoolTypeOK, PoolSleeps, poolFlags, workers
<1>2. \A d \in Client : d # c =>
        /\ clientPc'[d] = clientPc[d]
        /\ fs'[d] = fs[d] /\ mode'[d] = mode[d] /\ batch'[d] = batch[d]
        /\ finished'[d] = finished[d] /\ pendingCalls'[d] = pendingCalls[d]
        /\ d \in event' <=> d \in event
        /\ \A f \in Work : d \in hooked'[f] <=> d \in hooked[f]
  BY DEF PoolIInv, PoolTypeOK
<1>3. /\ clientPc[c] = "wait" /\ clientPc'[c] = "unhook" /\ WaitInv(c) /\ CountRight(c)
      /\ fs'[c] = fs[c] /\ mode'[c] = mode[c] /\ pendingCalls'[c] = pendingCalls[c]
      /\ hooked' = hooked /\ fs[c] \subseteq Work /\ mode[c] \in Modes /\ batch'[c] = fs[c]
  BY ZenonT(60) DEF PoolIInv, PoolTypeOK, WaitersInv, WaitInv
<1>4. /\ \A f \in Work : Notified(f)' <=> Notified(f)
      /\ Created' = Created /\ Open(c)' = Open(c)
  BY <1>3 DEF Notified, Created, Open
<1>5. {f \in batch[c] : ~Notified(f)}' = Open(c)
  BY <1>3, <1>4 DEF Open
<1>6. IsFiniteSet(Open(c)) /\ Cardinality(Open(c)) \in Nat /\ Cardinality(fs[c] \cap raised) \in Nat
  BY <1>3, WorkFinite DEF Open
<1>7. mode[c] \in {"ALL_COMPLETED", "FIRST_EXCEPTION"} => pendingCalls[c] >= Cardinality(Open(c))
  BY <1>3, <1>6, EnoughCalls
<1>8. WaitInv(c)'
  BY <1>3, <1>4, <1>5, <1>7 DEF WaitInv
<1> QED
  BY <1>1, <1>2, <1>3, <1>8, OnlyItsWait DEF PoolIInv

LEMMA UnhookKeeps ==
  ASSUME PoolIInv, NEW c \in Client, NEW f \in Work, Unhook(c, f), PoolSleeps
  PROVE  PoolIInv'
<1> USE DEF Unhook, callVars, waiterVars
<1>1. PoolTypeOK'
  <2>1. /\ fs' \in [Client -> SUBSET Work] /\ batch' \in [Client -> SUBSET Work]
        /\ hooked' \in [Work -> SUBSET Client]
    BY DEF PoolIInv, PoolTypeOK
  <2> QED BY <2>1 DEF PoolIInv, PoolTypeOK, PoolSleeps, poolFlags, workers
<1>2. \A d \in Client : d # c =>
        /\ clientPc'[d] = clientPc[d]
        /\ fs'[d] = fs[d] /\ mode'[d] = mode[d] /\ batch'[d] = batch[d]
        /\ finished'[d] = finished[d] /\ pendingCalls'[d] = pendingCalls[d]
        /\ d \in event' <=> d \in event
        /\ \A g \in Work : d \in hooked'[g] <=> d \in hooked[g]
  BY DEF PoolIInv, PoolTypeOK
<1>0. WaitInv(c)
  BY DEF PoolIInv, WaitersInv
<1>3. /\ clientPc[c] = "unhook" /\ clientPc' = clientPc /\ WaitInv(c)
      /\ mode'[c] = mode[c] /\ pendingCalls'[c] = pendingCalls[c] /\ finished'[c] = finished[c]
      /\ c \in event' <=> c \in event
      /\ fs[c] \subseteq Work /\ mode[c] \in Modes /\ f \in batch[c] /\ batch'[c] = batch[c] \ {f}
      /\ \A g \in Work : c \in hooked'[g] <=> c \in hooked[g] /\ g # f
      /\ fs'[c] = IF mode[c] = "AS_COMPLETED" THEN fs[c] \ {f} ELSE fs[c]
  BY <1>0 DEF PoolIInv, PoolTypeOK
<1>4. /\ \A g \in Work : Notified(g)' <=> Notified(g)
      /\ Created' = Created
  BY DEF Notified, Created
<1>5. WaitInv(c)'
  <2>1. CASE mode[c] = "AS_COMPLETED"
    <3>1. Open(c)' = Open(c) \ {f}
      BY <1>3, <1>4, <2>1 DEF Open
    <3>2. \/ batch'[c] = fs'[c]
          \/ /\ batch'[c] \cap Open(c)' = {}
             /\ finished'[c] = (fs'[c] \ Open(c)') \ batch'[c]
             /\ c \in event' <=> finished'[c] # {}
      <4>1. CASE batch[c] = fs[c]
        BY <4>1, <1>3, <2>1
      <4>2. CASE /\ batch[c] \cap Open(c) = {}
                 /\ finished[c] = (fs[c] \ Open(c)) \ batch[c]
                 /\ c \in event <=> finished[c] # {}
        BY <4>2, <1>3, <2>1, <3>1
      <4> QED BY <4>1, <4>2, <1>3, <2>1 DEF WaitInv
    <3> QED BY <3>2, <1>3, <1>4, <2>1 DEF WaitInv
  <2>2. CASE mode[c] # "AS_COMPLETED"
    <3> DEFINE B == {g \in batch[c] : ~Notified(g)}
    <3>1. B' \subseteq B /\ B \subseteq Work
      BY <1>3, <1>4 DEF WaitInv
    <3>2. Cardinality(B') \in Nat /\ Cardinality(B) \in Nat /\ Cardinality(B') <= Cardinality(B)
      <4> HIDE DEF B
      <4>1. IsFiniteSet(B)
        BY <3>1, WorkFinite
      <4> QED BY <3>1, <4>1, FS_Subset, FS_CardinalityType
    <3>3. pendingCalls[c] \in Nat
      BY DEF PoolIInv, PoolTypeOK
    <3>4. mode[c] \in {"ALL_COMPLETED", "FIRST_EXCEPTION"} => pendingCalls[c] >= Cardinality(B)
      BY <1>3 DEF WaitInv
    <3>5. mode[c] \in {"ALL_COMPLETED", "FIRST_EXCEPTION"} => pendingCalls'[c] >= Cardinality(B')
      <4> HIDE DEF B
      <4> QED BY <1>3, <3>2, <3>3, <3>4
    <3> QED BY <3>5, <1>3, <1>4, <2>2 DEF WaitInv
  <2> QED BY <2>1, <2>2
<1> QED
  BY <1>1, <1>2, <1>3, <1>5, OnlyItsWait DEF PoolIInv

LEMMA WaitGoesOnKeeps ==
  ASSUME PoolIInv, NEW c \in Client, WaitGoesOn(c), PoolSleeps
  PROVE  PoolIInv'
<1> USE DEF WaitGoesOn, ClientGoes, callVars, waiterVars, askVars
<1>1. PoolTypeOK'
  BY DEF PoolIInv, PoolTypeOK, PoolSleeps, poolFlags, workers
<1>2. \A d \in Client : d # c => clientPc'[d] = clientPc[d]
  BY DEF PoolIInv, PoolTypeOK
<1>3. /\ clientPc[c] = "unhook" /\ clientPc'[c] = "wait" /\ WaitInv(c)
      /\ mode[c] = "AS_COMPLETED" /\ fs[c] # {} /\ batch[c] = {} /\ fs[c] \subseteq Work
  BY DEF PoolIInv, PoolTypeOK, WaitersInv
<1>4. /\ \A g \in Work : Notified(g)' <=> Notified(g)
      /\ Created' = Created /\ Open(c)' = Open(c) /\ Open(c) \subseteq fs[c]
  BY <1>3 DEF Notified, Created, Open
<1>5. finished[c] = fs[c] \ Open(c) /\ (c \in event <=> finished[c] # {})
  BY <1>3 DEF WaitInv
<1>6. CountRight(c)'
  <2>1. c \in event <=> Open(c) # fs[c]
    BY <1>4, <1>5
  <2> QED BY <2>1, <1>3, <1>4, <1>5 DEF CountRight
<1>7. WaitInv(c)'
  BY <1>3, <1>4, <1>6 DEF WaitInv
<1> QED
  BY <1>1, <1>2, <1>3, <1>7, OnlyItsWait DEF PoolIInv

LEMMA WaitReturnsKeeps ==
  ASSUME PoolIInv, NEW c \in Client, WaitReturns(c), PoolSleeps
  PROVE  PoolIInv'
<1> USE DEF WaitReturns, ClientGoes, callVars
<1>1. PoolTypeOK'
  <2>1. /\ fs' \in [Client -> SUBSET Work] /\ mode' \in [Client -> Modes]
        /\ finished' \in [Client -> SUBSET Work] /\ pendingCalls' \in [Client -> Nat]
        /\ event' \subseteq Client
    BY DEF PoolIInv, PoolTypeOK, Modes
  <2> QED BY <2>1 DEF PoolIInv, PoolTypeOK, PoolSleeps, poolFlags, workers
<1>2. \A d \in Client : d # c =>
        /\ clientPc'[d] = clientPc[d]
        /\ fs'[d] = fs[d] /\ mode'[d] = mode[d] /\ batch'[d] = batch[d]
        /\ finished'[d] = finished[d] /\ pendingCalls'[d] = pendingCalls[d]
        /\ d \in event' <=> d \in event
        /\ \A g \in Work : d \in hooked'[g] <=> d \in hooked[g]
  BY DEF PoolIInv, PoolTypeOK
<1>3. /\ clientPc[c] = "unhook" /\ clientPc'[c] = "idle" /\ WaitInv(c)
      /\ fs'[c] = {} /\ finished'[c] = {} /\ c \notin event' /\ batch'[c] = {} /\ batch[c] = {}
      /\ hooked' = hooked /\ (mode[c] = "AS_COMPLETED" => fs[c] = {})
  BY DEF PoolIInv, PoolTypeOK, WaitersInv
<1>4. WaitInv(c)'
  BY <1>3 DEF WaitInv
<1> QED
  BY <1>1, <1>2, <1>3, <1>4, OnlyItsWait DEF PoolIInv
-----------------------------------------------------------------------------
(***************************************************************************)
(* The theorems.                                                           *)
(***************************************************************************)
LEMMA PoolInitOK ==
  PoolInit => PoolIInv
<1> SUFFICES ASSUME PoolInit
             PROVE  PoolIInv
  OBVIOUS
<1> USE DEF PoolInit, FutureInit
<1>0. NoWork \notin Work /\ NoOne \notin Client \cup Worker
  BY FutureAssumption, ThreadPoolAssumption DEF FutureAssumption, ThreadPoolAssumption
<1>1. PoolTypeOK
  <2>1. state \in [Work -> {"NEW", "PENDING", "RUNNING", "CANCELLED",
                            "CANCELLED_AND_NOTIFIED", "FINISHED"}]
    OBVIOUS
  <2>2. /\ raised \subseteq Work
        /\ parked \in [Work -> SUBSET Client] /\ hooked \in [Work -> SUBSET Client]
    OBVIOUS
  <2>3. listed \in [Work -> BOOLEAN] /\ ran \in [Work -> Nat]
    OBVIOUS
  <2>4. clientPc \in [Client -> {"idle", "callbacks", "result", "wait", "unhook", "adjust",
                                 "drain", "drained", "wakeup", "join"}]
    OBVIOUS
  <2>5. target \in [Client -> Work \cup {NoWork}]
    OBVIOUS
  <2>6. fs \in [Client -> SUBSET Work] /\ mode \in [Client -> Modes]
    BY DEF Modes
  <2>7. finished \in [Client -> SUBSET Work] /\ batch \in [Client -> SUBSET Work]
    OBVIOUS
  <2>8. pendingCalls \in [Client -> Nat] /\ event \subseteq Client
    OBVIOUS
  <2>9. workQueue \in Seq(Work \cup {None})
    BY EmptySeq
  <2>10. idleSemaphore \in Nat /\ shutdownLock \in Client \cup Worker \cup {NoOne}
    OBVIOUS
  <2>11. <<shutdown, broken, collected, exiting>> \in BOOLEAN \X BOOLEAN \X BOOLEAN \X BOOLEAN
    OBVIOUS
  <2>12. mainPc \in {"running", "exit", "join", "gone"}
    OBVIOUS
  <2>13. workerPc \in [Worker -> {"unborn", "initializer", "failed", "drain", "drained",
                                  "get_nowait", "empty", "get", "run", "call", "callbacks",
                                  "none", "exited", "dead"}]
    OBVIOUS
  <2>14. item \in [Worker -> Work \cup {NoWork}]
    OBVIOUS
  <2> QED
    BY <2>1, <2>2, <2>3, <2>4, <2>5, <2>6, <2>7, <2>8, <2>9, <2>10, <2>11, <2>12,
       <2>13, <2>14 DEF PoolTypeOK
<1>2. NoSleeperOnDone
  BY DEF NoSleeperOnDone
<1>3. ~NoneInQueue /\ \A f : ~InQueue(f)
  BY DEF NoneInQueue, InQueue
<1>4. PlacesInv
  BY <1>0, <1>3 DEF PlacesInv, QueueInOrder, ItemInv, StateInv, HasItem
<1>5. LockInv /\ LeavingInv
  BY <1>3 DEF LockInv, LeavingInv
<1>6. ServedInv
  BY <1>3 DEF ServedInv
<1>7. CallbacksInv
  <2>1. \A f \in Work : ~Done(f) /\ ~AtCallbacks(f)
    BY DEF Done, AtCallbacks
  <2>2. \A f \in Work : CallbackInv(f)
    BY <2>1 DEF CallbackInv, CallsBack
  <2> QED BY <2>2 DEF CallbacksInv
<1>8. WaitersInv
  BY DEF WaitersInv, WaitInv
<1> QED
  BY <1>1, <1>2, <1>4, <1>5, <1>6, <1>7, <1>8 DEF PoolIInv

LEMMA FutureNextKeeps ==
  ASSUME PoolIInv, FutureNext, PoolSleeps
  PROVE  PoolIInv'
<1>1. Watched \subseteq Work /\ Asker \subseteq Client /\ WaitCalls \subseteq (SUBSET Work) \X Modes
  BY FutureAssumption DEF FutureAssumption
<1>2. CASE \E f \in Watched : AddDoneCallback(f)
  BY <1>1, <1>2, AddDoneCallbackKeeps
<1>3. CASE \E c \in Asker : \E f \in Work : Cancel(c, f) \/ Result(c, f) \/ Unhook(c, f)
  BY <1>1, <1>3, CancelKeeps, ResultKeeps, UnhookKeeps DEF PoolSleeps
<1>4. CASE \E c \in Asker : \E w \in WaitCalls : Wait(c, w[1], w[2])
  <2>1. PICK c \in Asker, w \in WaitCalls : Wait(c, w[1], w[2])
    BY <1>4
  <2>2. PICK q \in SUBSET Work, m \in Modes : q = w[1] /\ m = w[2]
    BY <1>1
  <2>3. Wait(c, q, m)
    BY <2>1, <2>2
  <2> QED BY <1>1, <2>3, WaitKeeps
<1>5. CASE \E c \in Asker : ClientCallbacks(c) \/ ResultReturns(c)
  BY <1>1, <1>5, ClientCallbacksKeeps, ResultReturnsKeeps DEF PoolSleeps
<1>6. CASE \E c \in Asker : Woken(c) \/ TimesOut(c) \/ WaitGoesOn(c) \/ WaitReturns(c)
  BY <1>1, <1>6, WokenKeeps, TimesOutKeeps, WaitGoesOnKeeps, WaitReturnsKeeps
<1> QED
  BY <1>2, <1>3, <1>4, <1>5, <1>6 DEF FutureNext

LEMMA WorkerStepKeeps ==
  ASSUME PoolIInv, NEW w \in Worker, WorkerStep(w)
  PROVE  PoolIInv'
<1>1. ASSUME NEW ex \in Raises, CallEnds(w, ex)
      PROVE  PoolIInv'
  BY <1>1, CallEndsKeeps, ThreadPoolAssumption DEF ThreadPoolAssumption
<1> QED
  BY <1>1, InitializerReturnsKeeps, InitializerRaisesKeeps, InitializerFailedKeeps,
     FailedDrainsKeeps, FailedCallbacksKeeps, FoundEmptyKeeps, BecomesIdleKeeps, TakeItemKeeps,
     RunItemKeeps, WorkerCallbacksKeeps, GotNoneKeeps DEF WorkerStep

LEMMA NextKeeps ==
  PoolIInv /\ [PoolNext]_poolVars => PoolIInv'
<1> SUFFICES ASSUME PoolIInv, [PoolNext]_poolVars
             PROVE  PoolIInv'
  OBVIOUS
<1>1. Owner \subseteq Client
  BY ThreadPoolAssumption DEF ThreadPoolAssumption
<1>2. CASE \E w \in Worker : WorkerStep(w)
  BY <1>2, WorkerStepKeeps
<1>3. ASSUME NEW c \in Owner,
             \/ ClientGoesOn(c) \/ ShutdownReturns(c)
             \/ \E f \in Work : Submit(c, f)
             \/ \E cancel \in Cancels : ShutdownBegins(c, cancel)
      PROVE  PoolIInv'
  BY <1>1, <1>3, AdjustThreadCountKeeps, ShutdownDrainsKeeps, ShutdownCallbacksKeeps,
     ShutdownWakesKeeps, ShutdownReturnsKeeps, SubmitKeeps, ShutdownBeginsKeeps DEF ClientGoesOn
<1>4. CASE ExecutorLost \/ PythonExits \/ PythonExitWakes \/ PythonExitJoins
  BY <1>4, ExecutorLostKeeps, PythonExitsKeeps, PythonExitWakesKeeps, PythonExitJoinsKeeps
<1>5. CASE FutureNext /\ UNCHANGED <<workQueue, idleSemaphore, shutdownLock, poolFlags, workers>>
  BY <1>5, FutureNextKeeps DEF PoolSleeps
<1>6. CASE UNCHANGED poolVars
  <2>1. PoolSleeps /\ UNCHANGED futureVars
    BY <1>6 DEF poolVars, PoolSleeps
  <2> USE DEF futureVars, callVars, askVars, waiterVars
  <2>2. PoolTypeOK'
    BY <2>1 DEF PoolIInv, PoolTypeOK, PoolSleeps, poolFlags, workers
  <2>3. NoSleeperOnDone' /\ WaitersInv'
    BY <2>1, CallbacksAside DEF AsideC
  <2>4. PlacesInv' /\ LockInv' /\ LeavingInv' /\ ServedInv'
    BY <2>1, ClientAside DEF AsideC
  <2>5. CallbacksInv'
    BY <2>1, CallbacksUntouched DEF AsideC, PoolIInv, CallbacksInv
  <2> QED BY <2>2, <2>3, <2>4, <2>5 DEF PoolIInv
<1> QED
  BY <1>2, <1>3, <1>4, <1>5, <1>6 DEF PoolNext

(* The inductive invariant holds in every state of a pool.                 *)
THEOREM PoolInvariance ==
  PoolSpec => []PoolIInv
<1> QED
  BY PoolInitOK, NextKeeps, PTL DEF PoolSpec

(* A pending future is in one place. *)
LEMMA OnePlace ==
  ASSUME PoolIInv, NEW f \in Work, state[f] = "PENDING"
  PROVE  Places(f) = 1
<1> DEFINE Q == {i \in DOMAIN workQueue : workQueue[i] = f}
           W == {w \in Worker : item[w] = f}
<1>1. DOMAIN workQueue = 1 .. Len(workQueue) /\ f # None
  BY QueueType, ThreadPoolAssumption DEF PoolIInv, ThreadPoolAssumption
<1>2. CASE InQueue(f)
  <2>1. PICK i \in 1 .. Len(workQueue) : workQueue[i] = f
    BY <1>2 DEF InQueue
  <2>2. Q = {i}
    BY <1>1, <2>1 DEF PoolIInv, PlacesInv, QueueInOrder
  <2>3. W = {}
    BY <1>2 DEF PoolIInv, PlacesInv, ItemInv
  <2>4. Q \cup W = {i}
    BY <2>2, <2>3
  <2> HIDE DEF Q, W
  <2>5. Cardinality(Q \cup W) = 1
    BY <2>4, FS_Singleton
  <2> QED BY <2>5 DEF Places, Q, W
<1>3. CASE ~InQueue(f)
  <2>1. PICK w \in Worker : item[w] = f
    BY <1>3 DEF PoolIInv, PlacesInv, StateInv
  <2>2. W = {w}
    BY <2>1 DEF PoolIInv, PlacesInv, ItemInv
  <2>3. Q = {}
    BY <1>1, <1>3 DEF InQueue
  <2>4. Q \cup W = {w}
    BY <2>2, <2>3
  <2> HIDE DEF Q, W
  <2>5. Cardinality(Q \cup W) = 1
    BY <2>4, FS_Singleton
  <2> QED BY <2>5 DEF Places, Q, W
<1> QED
  BY <1>2, <1>3

(* A thread is there for it. *)
LEMMA Served ==
  ASSUME PoolIInv, NEW f \in Work, state[f] = "PENDING"
  PROVE  Failed # {} \/ shutdownLock \in Client \/ Alive # {}
<1>1. CASE InQueue(f)
  <2>1. (\E c \in Client : clientPc[c] = "adjust") => shutdownLock \in Client
    BY DEF PoolIInv, LockInv
  <2>2. \A w \in Worker : workerPc[w] # "exited"
    BY <1>1 DEF PoolIInv, LeavingInv
  <2>3. ASSUME NEW w \in Started
        PROVE  w \in Failed \/ w \in Alive
    BY <2>2, <2>3 DEF Failed, Alive, Started
  <2> QED BY <1>1, <2>1, <2>3 DEF PoolIInv, ServedInv
<1>2. CASE ~InQueue(f)
  <2>1. PICK w \in Worker : item[w] = f
    BY <1>2 DEF PoolIInv, PlacesInv, StateInv
  <2>2. w \in Alive
    BY <2>1 DEF PoolIInv, PlacesInv, ItemInv, HasItem, Alive, Started
  <2> QED BY <2>2
<1> QED
  BY <1>1, <1>2

(* What the runs check of a pool at any time holds for any number of       *)
(* workers, clients and calls: no client sleeps in result() of a future    *)
(* that is done, no worker finds its item in a state in which a method of  *)
(* the future raises, and a pending call is in one place, where a thread   *)
(* will take it.                                                           *)
THEOREM PoolIsRight ==
  PoolSpec => []PoolInv
<1>1. PoolIInv => PoolInv
  <2> SUFFICES ASSUME PoolIInv
               PROVE  ItemUsable /\ PendingIsServed
    BY DEF PoolIInv, PoolInv
  <2>1. ItemUsable
    BY DEF PoolIInv, PlacesInv, StateInv, ItemUsable
  <2>2. PendingIsServed
    BY OnePlace, Served DEF PendingIsServed
  <2> QED BY <2>1, <2>2
<1> QED
  BY <1>1, PoolInvariance, PTL

(* A callback is called once, by whoever ends or cancels the call or adds  *)
(* the callback to a future that is done.                                  *)
THEOREM CallbacksAreCalledOnce ==
  PoolSpec => []CallbackOnce
<1>1. PoolIInv => CallbackOnce
  <2> SUFFICES ASSUME PoolIInv, NEW f \in Work
               PROVE  /\ ran[f] <= 1
                      /\ listed[f] /\ Done(f) /\ ~AtCallbacks(f) => ran[f] = 1
    BY DEF CallbackOnce
  <2>1. CallbackInv(f) /\ ran[f] \in Nat
    BY DEF PoolIInv, CallbacksInv, PoolTypeOK
  <2> QED BY <2>1 DEF CallbackInv
<1> QED
  BY <1>1, PoolInvariance, PTL

(* The count of a waiter, and its event, agree with the futures it waits   *)
(* for in each of the four ways of waiting.                                *)
THEOREM WaitersAreCounted ==
  PoolSpec => []WaitersCount
<1>1. PoolIInv => WaitersCount
  <2> SUFFICES ASSUME PoolIInv, NEW c \in Client, clientPc[c] = "wait"
               PROVE  CASE mode[c] = "ALL_COMPLETED"   -> /\ pendingCalls[c] = Cardinality(Open(c))
                                                          /\ c \in event <=> Open(c) = {}
                        [] mode[c] = "FIRST_EXCEPTION" -> c \in event <=> Open(c) = {}
                                                                     \/ fs[c] \cap raised # {}
                        [] mode[c] = "FIRST_COMPLETED" -> c \in event <=> Open(c) # fs[c]
                        [] mode[c] = "AS_COMPLETED"    -> /\ c \in event <=> Open(c) # fs[c]
                                                          /\ finished[c] = fs[c] \ Open(c)
    BY DEF WaitersCount, Open
  <2>1. CountRight(c) /\ mode[c] \in Modes
    BY DEF PoolIInv, WaitersInv, WaitInv, PoolTypeOK
  <2> QED BY <2>1 DEF CountRight, Modes
<1> QED
  BY <1>1, PoolInvariance, PTL
=============================================================================
