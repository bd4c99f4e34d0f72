-------------------------- MODULE ModuleLockProof --------------------------
(***************************************************************************)
(* Proofs about ModuleLock.tla, for any number of threads and locks, and   *)
(* wherever an acquire may be interrupted by another import; that circles  *)
(* are found, where it is not interrupted with an entry in _blocking_on.   *)
(***************************************************************************)
EXTENDS ModuleLock, SequenceTheorems, FiniteSetTheorems, TLAPS

Depth == \A t \in Thread : Len(stack[t]) <= MaxDepth

FiniteHolders == \A l \in Lock : IsFiniteSet(Holders(l))

(* A lock that a thread has found taken stays so while it searches: the    *)
(* owner needs self.lock for its release.                                  *)
Searching ==
  \A t \in Thread : \A i \in 1 .. Len(stack[t]) : stack[t][i].at = "search" =>
    count[stack[t][i].lock] > 0 /\ owner[stack[t][i].lock] # t

(* At most one thread is between wakeup.acquire() and wakeup.release(),    *)
(* and then no waiter is counted.                                          *)
OneWoken ==
  \A t, u \in Thread : \A i \in 1 .. Len(stack[t]), j \in 1 .. Len(stack[u]) :
    /\ stack[t][i].at = "woken" /\ stack[u][j].at = "woken"
    /\ stack[t][i].lock = stack[u][j].lock
    => t = u /\ i = j

WokenAlone ==
  \A t \in Thread : \A i \in 1 .. Len(stack[t]) : stack[t][i].at = "woken" =>
    wakeup[stack[t][i].lock] /\ waiters[stack[t][i].lock] = 0

WaitersTaken == \A l \in Lock : waiters[l] = 1 => wakeup[l]

(* No thread has itself among the candidates of its search: it would have  *)
(* ended.                                                                  *)
Clear(t, todo) == \A c \in 1 .. Len(todo) : \A j \in 1 .. Len(todo[c]) : todo[c][j] # t

NotSought ==
  \A t \in Thread : \A i \in 1 .. Len(stack[t]) :
    stack[t][i].at = "search" => Clear(t, stack[t][i].todo)

OwnerInv == Depth /\ FiniteHolders /\ Ownership
WakeInv  == Searching /\ OneWoken /\ WokenAlone /\ WaitersTaken /\ NoLostWakeup
IInv     == TypeOK /\ OwnerInv /\ WakeInv /\ NotSought
-----------------------------------------------------------------------------
(* Sequences and the stack.                                                *)

(* What Front does, and Append after it. *)
LEMMA ReplaceLast ==
  ASSUME NEW S, NEW s \in Seq(S), s # <<>>, NEW e \in S
  PROVE  /\ Front(s) \in Seq(S) /\ Len(Front(s)) = Len(s) - 1
         /\ \A i \in 1 .. Len(s) - 1 : Front(s)[i] = s[i]
         /\ Append(Front(s), e) \in Seq(S)
         /\ Len(Append(Front(s), e)) = Len(s)
         /\ \A i \in 1 .. Len(s) - 1 : Append(Front(s), e)[i] = s[i]
         /\ Append(Front(s), e)[Len(s)] = e
<1> DEFINE n == Len(s) - 1
<1>1. Len(s) \in Nat /\ Len(s) # 0
  BY EmptySeq
<1>2. n \in Nat /\ n + 1 = Len(s)
  BY <1>1
<1> HIDE DEF n
<1>3. \A i \in 1 .. n : s[i] \in S
  BY <1>1, <1>2, ElementOfSeq
<1>4. /\ SubSeq(s, 1, n) \in Seq(S)
      /\ Len(SubSeq(s, 1, n)) = IF 1 <= n THEN n - 1 + 1 ELSE 0
      /\ \A i \in 1 .. n - 1 + 1 : SubSeq(s, 1, n)[i] = s[1 + i - 1]
  BY <1>2, <1>3, SubSeqProperties
<1>5. Len(SubSeq(s, 1, n)) = n /\ \A i \in 1 .. n : SubSeq(s, 1, n)[i] = s[i]
  BY <1>2, <1>4
<1>6. Front(s) = SubSeq(s, 1, n)
  BY DEF Front, n
<1>7. /\ Append(Front(s), e) \in Seq(S)
      /\ Len(Append(Front(s), e)) = n + 1
      /\ \A i \in 1 .. n : Append(Front(s), e)[i] = s[i]
      /\ Append(Front(s), e)[n + 1] = e
  BY <1>4, <1>5, <1>6, AppendProperties
<1> QED
  BY <1>2, <1>4, <1>5, <1>6, <1>7 DEF n

(* The innermost frame is a frame. *)
LEMMA TopFrame ==
  ASSUME TypeOK, NEW t \in Thread, stack[t] # <<>>
  PROVE  /\ Len(stack[t]) \in Nat \ {0}
         /\ Top(t) = stack[t][Len(stack[t])] /\ Top(t) \in Frame
         /\ Top(t).lock \in Lock
<1>1. stack[t] \in Seq(Frame)
  BY DEF TypeOK
<1>2. Len(stack[t]) \in Nat \ {0}
  BY <1>1, EmptySeq
<1>3. stack[t][Len(stack[t])] \in Frame
  BY <1>1, <1>2, ElementOfSeq
<1> QED
  BY <1>2, <1>3 DEF Top, Last, Frame

(* The frames by index. *)
LEMMA StackIndex ==
  ASSUME TypeOK, NEW t \in Thread
  PROVE  /\ Len(stack[t]) \in Nat /\ DOMAIN stack[t] = 1 .. Len(stack[t])
         /\ \A i \in 1 .. Len(stack[t]) : stack[t][i] \in Frame /\ stack[t][i].lock \in Lock
<1>1. stack[t] \in Seq(Frame)
  BY DEF TypeOK
<1>2. ASSUME NEW i \in 1 .. Len(stack[t]) PROVE stack[t][i] \in Frame
  BY <1>1, ElementOfSeq
<1> QED
  BY <1>1, <1>2, LenProperties DEF Frame

(* A thread that goes on in its innermost import. *)
LEMMA GotoFrames ==
  ASSUME TypeOK, NEW t \in Thread, stack[t] # <<>>, NEW f \in Frame, Goto(t, f)
  PROVE  /\ stack' \in [Thread -> Seq(Frame)]
         /\ \A u \in Thread : /\ Len(stack'[u]) = Len(stack[u])
                              /\ \A i \in 1 .. Len(stack[u]) :
                                   u # t \/ i # Len(stack[t]) => stack'[u][i] = stack[u][i]
         /\ stack'[t][Len(stack[t])] = f
<1>1. stack' = [stack EXCEPT ![t] = Append(Front(stack[t]), f)] /\ stack \in [Thread -> Seq(Frame)]
  BY DEF Goto, TypeOK
<1>2. Len(stack[t]) \in Nat \ {0}
  BY TopFrame
<1>3. /\ stack'[t] \in Seq(Frame) /\ Len(stack'[t]) = Len(stack[t])
      /\ \A i \in 1 .. Len(stack[t]) - 1 : stack'[t][i] = stack[t][i]
      /\ stack'[t][Len(stack[t])] = f
  <2>1. stack'[t] = Append(Front(stack[t]), f) /\ stack[t] \in Seq(Frame)
    BY <1>1
  <2> QED
    BY <2>1, ReplaceLast
<1>4. \A u \in Thread \ {t} : stack'[u] = stack[u]
  BY <1>1
<1>5. \A i \in 1 .. Len(stack[t]) : i \in 1 .. Len(stack[t]) - 1 \/ i = Len(stack[t])
  BY <1>2
<1> QED
  BY <1>1, <1>3, <1>4, <1>5

LEMMA Relabel ==
  ASSUME TypeOK, NEW t \in Thread, stack[t] # <<>>,
         NEW f \in Frame, f.lock = Top(t).lock, Goto(t, f)
  PROVE  /\ stack' \in [Thread -> Seq(Frame)]
         /\ \A u \in Thread : /\ Len(stack'[u]) = Len(stack[u])
                              /\ \A i \in 1 .. Len(stack[u]) :
                                   /\ stack'[u][i].lock = stack[u][i].lock
                                   /\ u # t \/ i # Len(stack[t]) => stack'[u][i].at = stack[u][i].at
         /\ stack'[t][Len(stack[t])].at = f.at
<1>1. Top(t) = stack[t][Len(stack[t])]
  BY TopFrame
<1> QED
  BY <1>1, GotoFrames

(* A thread that comes out of its innermost import. *)
LEMMA Pop ==
  ASSUME TypeOK, NEW t \in Thread, stack[t] # <<>>, Return(t)
  PROVE  /\ stack' \in [Thread -> Seq(Frame)]
         /\ Len(stack'[t]) = Len(stack[t]) - 1
         /\ \A u \in Thread \ {t} : stack'[u] = stack[u]
         /\ \A i \in 1 .. Len(stack[t]) - 1 : stack'[t][i] = stack[t][i]
<1>1. stack' = [stack EXCEPT ![t] = Front(stack[t])] /\ stack \in [Thread -> Seq(Frame)]
  BY DEF Return, TypeOK
<1>2. Top(t) \in Frame
  BY TopFrame
<1> QED
  BY <1>1, <1>2, ReplaceLast

(* A thread that begins an import. *)
LEMMA Push ==
  ASSUME TypeOK, NEW t \in Thread, NEW f \in Frame,
         stack' = [stack EXCEPT ![t] = Append(@, f)]
  PROVE  /\ stack' \in [Thread -> Seq(Frame)]
         /\ Len(stack'[t]) = Len(stack[t]) + 1
         /\ \A u \in Thread \ {t} : stack'[u] = stack[u]
         /\ \A i \in 1 .. Len(stack[t]) : stack'[t][i] = stack[t][i]
         /\ stack'[t][Len(stack[t]) + 1] = f
<1>1. stack \in [Thread -> Seq(Frame)] /\ stack[t] \in Seq(Frame)
  BY DEF TypeOK
<1> QED
  BY <1>1, AppendProperties

(* A set of naturals has a least element. *)
LEMMA Least ==
  ASSUME NEW I, I \subseteq Nat, I # {}
  PROVE  Min(I) \in I /\ \A y \in I : Min(I) <= y
<1> DEFINE R == OpToRel(<, Nat)
<1>1. \A x, y \in Nat : <<y, x>> \notin R => x <= y
  BY DEF OpToRel
<1> HIDE DEF R
<1>2. PICK x \in I : \A y \in I : <<y, x>> \notin R
  BY NatLessThanWellFounded, WFMin DEF R
<1>3. \A y \in I : x <= y
  BY <1>1, <1>2
<1> QED
  BY <1>3 DEF Min

(* list.remove gives a list of the same kind. *)
LEMMA RemoveFirstType ==
  ASSUME NEW S, NEW s \in Seq(S), NEW e
  PROVE  RemoveFirst(s, e) \in Seq(S)
<1> DEFINE I == {i \in 1 .. Len(s) : s[i] = e}
<1>1. CASE I = {}
  BY <1>1 DEF RemoveFirst
<1>2. CASE I # {}
  <2>1. RemoveFirst(s, e) = RemoveAt(s, Min(I))
    BY <1>2 DEF RemoveFirst, SelectInSeq
  <2>2. Len(s) \in Nat /\ \A i \in 1 .. Len(s) : s[i] \in S
    BY LenProperties, ElementOfSeq
  <2>3. Min(I) \in I
    <3>1. I \subseteq Nat
      OBVIOUS
    <3> HIDE DEF I
    <3> QED
      BY <1>2, <3>1, Least
  <2> DEFINE m == Min(I)
  <2>4. m \in 1 .. Len(s)
    BY <2>3
  <2> HIDE DEF m
  <2>5. m - 1 \in Int /\ m + 1 \in Int /\ Len(s) \in Int
    BY <2>2, <2>4
  <2>6. (\A i \in 1 .. m - 1 : s[i] \in S) /\ \A i \in m + 1 .. Len(s) : s[i] \in S
    BY <2>2, <2>4
  <2>7. SubSeq(s, 1, m - 1) \in Seq(S) /\ SubSeq(s, m + 1, Len(s)) \in Seq(S)
    BY <2>5, <2>6, SubSeqProperties
  <2> QED
    BY <2>1, <2>7, ConcatProperties DEF RemoveAt, m
<1> QED
  BY <1>1, <1>2
-----------------------------------------------------------------------------
(* Types, and how an action moves the innermost frame.                     *)

LEMMA LabelledFrame ==
  ASSUME NEW f \in Frame, NEW a \in Label
  PROVE  /\ [f EXCEPT !.at = a] \in Frame
         /\ [f EXCEPT !.at = a].lock = f.lock /\ [f EXCEPT !.at = a].at = a
BY DEF Frame

(* One more list of candidates.                                            *)
LEMMA ClearAppend ==
  ASSUME NEW t, NEW S, NEW s \in Seq(Seq(S)), NEW x \in Seq(S), Clear(t, s),
         \A j \in 1 .. Len(x) : x[j] # t
  PROVE  Clear(t, Append(s, x))
<1>1. /\ Len(Append(s, x)) = Len(s) + 1 /\ Len(s) \in Nat
      /\ \A i \in 1 .. Len(s) : Append(s, x)[i] = s[i]
      /\ Append(s, x)[Len(s) + 1] = x
  BY AppendProperties, EmptySeq, LenProperties
<1>2. ASSUME NEW i \in 1 .. Len(s) + 1, NEW j \in 1 .. Len(Append(s, x)[i])
      PROVE  Append(s, x)[i][j] # t
  <2>1. CASE i = Len(s) + 1
    BY <1>1, <2>1
  <2>2. CASE i \in 1 .. Len(s)
    BY <1>1, <2>2 DEF Clear
  <2> QED
    BY <1>1, <2>1, <2>2
<1> QED
  BY <1>1, <1>2 DEF Clear

(* The lists that a turn of the search takes from those it had.            *)
LEMMA ClearLists ==
  ASSUME NEW t, NEW S, NEW todo \in Seq(Seq(S)), todo # <<>>, Clear(t, todo)
  PROVE  /\ Front(todo) \in Seq(Seq(S)) /\ Clear(t, Front(todo))
         /\ \A j \in 1 .. Len(Last(todo)) : Last(todo)[j] # t
<1>1. Len(todo) \in Nat /\ Len(todo) # 0
  BY EmptySeq
<1>2. Len(todo) \in 1 .. Len(todo)
  BY <1>1
<1>3. Last(todo) \in Seq(S)
  BY <1>2, ElementOfSeq DEF Last
<1>4. /\ Front(todo) \in Seq(Seq(S)) /\ Len(Front(todo)) = Len(todo) - 1
      /\ \A i \in 1 .. Len(todo) - 1 : Front(todo)[i] = todo[i]
  BY <1>3, ReplaceLast
<1> QED
  BY <1>1, <1>2, <1>4, SMTT(30) DEF Clear, Last

(* A turn of the search leaves a frame of the same lock, which searches on *)
(* without looking at t itself, or has failed because of another thread.   *)
Visited(t, f) ==
  /\ f.lock = Top(t).lock /\ Goto(t, f)
  /\ \/ f.at = "search" /\ (Clear(t, Top(t).todo) => Clear(t, f.todo))
     \/ /\ f.at = "failed" /\ f.seen = {}
        /\ Clear(t, Top(t).todo) => \E u \in Thread \ {t} : t \in ToSet(Edges(u))

LEMMA VisitFrame ==
  ASSUME TypeOK, NEW t \in Thread, Visit(t)
  PROVE  \E f \in Frame : Visited(t, f)
<1> DEFINE TN == Thread \cup {NoThread}
           f == Top(t)
           candidates == Last(f.todo)
           u == Head(candidates)
           rest == Append(Front(f.todo), Tail(candidates))
<1>1. stack[t] # <<>> /\ f.at = "search" /\ f.todo # <<>>
  BY DEF Visit, At
<1>2. f \in Frame /\ f.todo \in Seq(Seq(TN)) /\ f.seen \in SUBSET Thread
  BY <1>1, TopFrame DEF Frame
<1>3. candidates \in Seq(TN)
  <2>1. Len(f.todo) \in 1 .. Len(f.todo)
    BY <1>1, <1>2, EmptySeq
  <2> QED
    BY <1>2, <2>1, ElementOfSeq DEF Last
<1>4. Front(f.todo) \in Seq(Seq(TN))
  BY <1>1, <1>2, <1>3, ReplaceLast
<1>5. Clear(t, f.todo) =>
        /\ Clear(t, Front(f.todo))
        /\ \A j \in 1 .. Len(candidates) : candidates[j] # t
  BY <1>1, <1>2, ClearLists
<1>6. ASSUME Goto(t, [f EXCEPT !.todo = Front(@)])
      PROVE  \E g \in Frame : Visited(t, g)
  <2> DEFINE g == [f EXCEPT !.todo = Front(@)]
  <2>1. g \in Frame /\ g.lock = f.lock /\ g.at = "search" /\ g.todo = Front(f.todo)
    BY <1>1, <1>2, <1>4 DEF Frame
  <2> QED
    BY <1>5, <1>6, <2>1 DEF Visited
<1>7. CASE candidates = <<>>
  BY <1>6, <1>7 DEF Visit
<1>8. CASE candidates # <<>>
  <2>1. /\ u \in TN /\ Tail(candidates) \in Seq(TN)
        /\ Len(Tail(candidates)) = Len(candidates) - 1
        /\ \A j \in 1 .. Len(Tail(candidates)) : Tail(candidates)[j] = candidates[j + 1]
    BY <1>3, <1>8, HeadTailProperties
  <2>2. Len(candidates) \in Nat \ {0} /\ u = candidates[1]
    BY <1>3, <1>8, EmptySeq
  <2>3. rest \in Seq(Seq(TN))
    BY <1>4, <2>1, AppendProperties
  <2>4. Clear(t, f.todo) => u # t /\ Clear(t, rest)
    <3> SUFFICES ASSUME Clear(t, f.todo) PROVE u # t /\ Clear(t, rest)
      OBVIOUS
    <3>1. \A j \in 1 .. Len(Tail(candidates)) : j + 1 \in 1 .. Len(candidates)
      BY <2>1, <2>2
    <3>2. \A j \in 1 .. Len(Tail(candidates)) : Tail(candidates)[j] # t
      BY <1>5, <2>1, <3>1
    <3>3. 1 \in 1 .. Len(candidates)
      BY <2>2
    <3> QED
      BY <1>4, <1>5, <2>1, <2>2, <3>2, <3>3, ClearAppend
  <2>5. CASE u = NoThread \/ blocking_on[u] = <<>>
    <3> DEFINE g == [f EXCEPT !.todo = rest]
    <3>1. Goto(t, g)
      BY <1>8, <2>5 DEF Visit
    <3>2. g \in Frame /\ g.lock = f.lock /\ g.at = "search" /\ g.todo = rest
      BY <1>1, <1>2, <2>3 DEF Frame
    <3> QED
      BY <2>4, <3>1, <3>2 DEF Visited
  <2>6. CASE ~(u = NoThread \/ blocking_on[u] = <<>>) /\ u \in f.seen
    BY <1>6, <1>8, <2>6 DEF Visit, AfterSeen
  <2>7. CASE ~(u = NoThread \/ blocking_on[u] = <<>>) /\ u \notin f.seen /\ Reached(t, Edges(u))
    <3> DEFINE g == [f EXCEPT !.at = "failed", !.seen = {}, !.todo = <<>>]
    <3>1. Goto(t, g)
      BY <1>8, <2>7 DEF Visit, Failed
    <3>2. <<>> \in Seq(Seq(TN))
      BY EmptySeq
    <3>3. g \in Frame /\ g.lock = f.lock /\ g.at = "failed" /\ g.seen = {}
      BY <1>2, <3>2 DEF Frame, Label
    <3>4. u \in Thread /\ t \in ToSet(Edges(u))
      BY <2>1, <2>7 DEF Reached
    <3> HIDE DEF u, g
    <3> QED
      BY <2>4, <3>1, <3>3, <3>4 DEF Visited
  <2>8. CASE ~(u = NoThread \/ blocking_on[u] = <<>>) /\ u \notin f.seen /\ ~Reached(t, Edges(u))
    <3> DEFINE g == [f EXCEPT !.seen = @ \cup {u}, !.todo = Append(rest, Edges(u))]
    <3>1. u \in Thread
      BY <2>1, <2>8
    <3>2. Edges(u) \in Seq(TN) /\ \A j \in 1 .. Len(Edges(u)) : Edges(u)[j] # t
      <4>1. blocking_on[u] \in Seq(Lock) /\ owner \in [Lock -> TN]
        BY <3>1 DEF TypeOK
      <4>2. /\ Len(blocking_on[u]) \in Nat /\ DOMAIN blocking_on[u] = 1 .. Len(blocking_on[u])
            /\ \A i \in 1 .. Len(blocking_on[u]) : blocking_on[u][i] \in Lock
        BY <4>1, LenProperties, ElementOfSeq
      <4>3. \A i \in 1 .. Len(blocking_on[u]) : owner[blocking_on[u][i]] \in TN
        BY <4>1, <4>2
      <4>4. Edges(u) \in Seq(TN)
        BY <4>2, <4>3, SeqDef DEF Edges
      <4>5. DOMAIN Edges(u) = 1 .. Len(Edges(u))
        BY <4>4, LenProperties
      <4> QED
        BY <2>8, <4>4, <4>5 DEF Reached, ToSet
    <3>3. Append(rest, Edges(u)) \in Seq(Seq(TN))
      BY <2>3, <3>2, AppendProperties
    <3>4. Goto(t, g)
      BY <1>8, <2>8 DEF Visit
    <3>5. g \in Frame /\ g.lock = f.lock /\ g.at = "search" /\ g.todo = Append(rest, Edges(u))
      BY <1>1, <1>2, <3>1, <3>3 DEF Frame
    <3>6. Clear(t, rest) => Clear(t, Append(rest, Edges(u)))
      BY <2>3, <3>2, ClearAppend
    <3> QED
      BY <2>4, <3>4, <3>5, <3>6 DEF Visited
  <2> QED
    BY <2>5, <2>6, <2>7, <2>8
<1> QED
  BY <1>7, <1>8

(* The innermost frame of t goes from one label to another, with its lock. *)
Moved(t, from, to) ==
  /\ stack[t] # <<>> /\ Top(t).at = from
  /\ stack' \in [Thread -> Seq(Frame)]
  /\ \A u \in Thread : /\ Len(stack'[u]) = Len(stack[u])
                       /\ \A i \in 1 .. Len(stack[u]) :
                            /\ stack'[u][i].lock = stack[u][i].lock
                            /\ u # t \/ i # Len(stack[t]) => stack'[u][i].at = stack[u][i].at
  /\ stack'[t][Len(stack[t])].at \in to

LEMMA GotoMoves ==
  ASSUME TypeOK, NEW t \in Thread, NEW f \in Frame, NEW to,
         stack[t] # <<>>, f.lock = Top(t).lock, f.at \in to, Goto(t, f)
  PROVE  Moved(t, Top(t).at, to)
BY Relabel DEF Moved

LEMMA StepMoves ==
  ASSUME TypeOK, NEW t \in Thread, NEW from, NEW a \in Label, At(t, from), Step(t, a)
  PROVE  Moved(t, from, {a})
<1>1. stack[t] # <<>> /\ Top(t).at = from
  BY DEF At
<1>2. Top(t) \in Frame
  BY <1>1, TopFrame
<1> QED
  BY <1>1, <1>2, LabelledFrame, GotoMoves DEF Step

(* The labels that each action leads from and to. *)
LEMMA Moves ==
  ASSUME TypeOK, NEW t \in Thread
  PROVE  /\ Enter(t) => Moved(t, "enter", {"try"})
         /\ Leave(t) => Moved(t, "leave", {"held"})
         /\ Take(t) => Moved(t, "try", {"leave"})
         /\ Look(t) => Moved(t, "try", {"search"})
         /\ Visit(t) => Moved(t, "search", {"search", "failed"})
         /\ Queue(t) => Moved(t, "search", {"wait"})
         /\ Wake(t) => Moved(t, "wait", {"woken"})
         /\ Retry(t) => Moved(t, "woken", {"try"})
<1> {"try", "held", "leave", "woken"} \subseteq Label
  BY DEF Label
<1>1. Enter(t) => Moved(t, "enter", {"try"})
  BY StepMoves DEF Enter
<1>2. Leave(t) => Moved(t, "leave", {"held"})
  BY StepMoves DEF Leave
<1>3. Take(t) => Moved(t, "try", {"leave"})
  BY StepMoves DEF Take
<1>4. Wake(t) => Moved(t, "wait", {"woken"})
  BY StepMoves DEF Wake
<1>5. Retry(t) => Moved(t, "woken", {"try"})
  BY StepMoves DEF Retry
<1>6. ASSUME Look(t) PROVE Moved(t, "try", {"search"})
  <2> DEFINE f == [Top(t) EXCEPT !.at = "search", !.todo = <<<<owner[Top(t).lock]>>>>]
  <2>1. stack[t] # <<>> /\ Top(t).at = "try" /\ Goto(t, f)
    BY <1>6 DEF Look, At
  <2>2. Top(t) \in Frame /\ Top(t).lock \in Lock
    BY <2>1, TopFrame
  <2>3. owner[Top(t).lock] \in Thread \cup {NoThread}
    BY <2>2 DEF TypeOK
  <2>4. <<<<owner[Top(t).lock]>>>> \in Seq(Seq(Thread \cup {NoThread}))
    BY <2>3
  <2>5. f \in Frame /\ f.lock = Top(t).lock /\ f.at = "search"
    BY <2>2, <2>4 DEF Frame, Label
  <2> QED
    BY <2>1, <2>5, GotoMoves
<1>7. ASSUME Visit(t) PROVE Moved(t, "search", {"search", "failed"})
  <2>1. stack[t] # <<>> /\ Top(t).at = "search"
    BY <1>7 DEF Visit, At
  <2>2. PICK f \in Frame : Visited(t, f)
    BY <1>7, VisitFrame
  <2> QED
    BY <2>1, <2>2, GotoMoves DEF Visited
<1>8. ASSUME Queue(t) PROVE Moved(t, "search", {"wait"})
  <2> DEFINE f == [Top(t) EXCEPT !.at = "wait", !.seen = {}]
  <2>1. stack[t] # <<>> /\ Top(t).at = "search" /\ Goto(t, f)
    BY <1>8 DEF Queue, At
  <2>2. Top(t) \in Frame
    BY <2>1, TopFrame
  <2>3. f \in Frame /\ f.lock = Top(t).lock /\ f.at = "wait"
    BY <2>2 DEF Frame, Label
  <2> QED
    BY <2>1, <2>3, GotoMoves
<1> QED
  BY <1>1, <1>2, <1>3, <1>4, <1>5, <1>6, <1>7, <1>8
-----------------------------------------------------------------------------
LEMMA TypeInit == Init => TypeOK
<1> SUFFICES ASSUME Init PROVE TypeOK
  OBVIOUS
<1>1. blocking_on \in [Thread -> Seq(Lock)] /\ stack \in [Thread -> Seq(Frame)]
  BY EmptySeq DEF Init
<1> QED
  BY <1>1 DEF Init, TypeOK

(* Whoever holds a lock is its owner, and counted. *)
LEMMA HolderCounted ==
  ASSUME TypeOK, OwnerInv, NEW t \in Thread, NEW i \in 1 .. Len(stack[t]), NEW l \in Lock,
         Holds(t, i, l)
  PROVE  <<t, i>> \in Holders(l) /\ owner[l] = t /\ count[l] > 0
<1>1. Len(stack[t]) \in Nat /\ Len(stack[t]) <= MaxDepth /\ MaxDepth \in Nat
  BY StackIndex, ModuleLockAssumption DEF OwnerInv, Depth
<1>2. <<t, i>> \in Thread \X (1 .. MaxDepth) /\ i <= Len(stack[t])
  BY <1>1
<1>3. <<t, i>> \in Holders(l)
  BY <1>2 DEF Holders
<1>4. IsFiniteSet(Holders(l)) /\ Cardinality(Holders(l)) = count[l] /\ owner[l] = t
  BY <1>3 DEF OwnerInv, FiniteHolders, Ownership
<1>5. count[l] # 0 /\ count[l] \in Nat
  BY <1>3, <1>4, FS_EmptySet DEF TypeOK
<1> QED
  BY <1>3, <1>4, <1>5

LEMMA TypeStep == IInv /\ [Next]_vars => TypeOK'
<1> SUFFICES ASSUME IInv, [Next]_vars PROVE TypeOK'
  OBVIOUS
<1>a. TypeOK /\ OwnerInv /\ WaitersTaken
  BY DEF IInv, WakeInv
<1>0. \A t \in Thread : stack[t] # <<>> => Top(t).lock \in Lock
  BY <1>a, TopFrame
<1>1. ASSUME NEW t \in Thread, Enter(t) PROVE TypeOK'
  <2>1. stack' \in [Thread -> Seq(Frame)]
    BY <1>a, <1>1, Moves DEF Moved
  <2>2. blocking_on[t] \in Seq(Lock) /\ Top(t).lock \in Lock
    BY <1>a, <1>0, <1>1 DEF Enter, At, TypeOK
  <2>3. Append(blocking_on[t], Top(t).lock) \in Seq(Lock)
    BY <2>2, AppendProperties
  <2> QED
    BY <1>a, <1>1, <2>1, <2>3 DEF Enter, TypeOK
<1>2. ASSUME NEW t \in Thread, Leave(t) PROVE TypeOK'
  <2>1. stack' \in [Thread -> Seq(Frame)]
    BY <1>a, <1>2, Moves DEF Moved
  <2>2. RemoveFirst(blocking_on[t], Top(t).lock) \in Seq(Lock)
    BY <1>a, RemoveFirstType DEF TypeOK
  <2> QED
    BY <1>a, <1>2, <2>1, <2>2 DEF Leave, TypeOK
<1>3. ASSUME NEW t \in Thread, Fail(t) PROVE TypeOK'
  <2>1. stack' \in [Thread -> Seq(Frame)]
    BY <1>a, <1>3, Pop DEF Fail, At
  <2>2. RemoveFirst(blocking_on[t], Top(t).lock) \in Seq(Lock)
    BY <1>a, RemoveFirstType DEF TypeOK
  <2> QED
    BY <1>a, <1>3, <2>1, <2>2 DEF Fail, TypeOK
<1>4. ASSUME NEW t \in Thread, Take(t) PROVE TypeOK'
  <2>1. stack' \in [Thread -> Seq(Frame)]
    BY <1>a, <1>4, Moves DEF Moved
  <2> DEFINE l == Top(t).lock
  <2>2. l \in Lock /\ count[l] + 1 \in Nat
    BY <1>a, <1>0, <1>4 DEF Take, At, TypeOK
  <2>3. owner' = [owner EXCEPT ![l] = t] /\ count' = [count EXCEPT ![l] = count[l] + 1]
    BY <1>4 DEF Take
  <2> HIDE DEF l
  <2>4. owner' \in [Lock -> Thread \cup {NoThread}] /\ count' \in [Lock -> Nat]
    BY <1>a, <2>2, <2>3 DEF TypeOK
  <2> QED
    BY <1>a, <1>4, <2>1, <2>4 DEF Take, TypeOK
<1>5. ASSUME NEW t \in Thread, Look(t) PROVE TypeOK'
  BY <1>a, <1>5, Moves DEF Moved, Look, TypeOK
<1>6. ASSUME NEW t \in Thread, Visit(t) PROVE TypeOK'
  BY <1>a, <1>6, Moves DEF Moved, Visit, TypeOK
<1>7. ASSUME NEW t \in Thread, Queue(t) PROVE TypeOK'
  <2>1. stack' \in [Thread -> Seq(Frame)]
    BY <1>a, <1>7, Moves DEF Moved
  <2>2. Waiters(Top(t).lock) \in {0, 1}
    BY <1>a, <1>0, <1>7 DEF Queue, At, Waiters, WaitersTaken, TypeOK
  <2> QED
    BY <1>a, <1>7, <2>1, <2>2 DEF Queue, TypeOK
<1>8. ASSUME NEW t \in Thread, Wake(t) PROVE TypeOK'
  <2>1. stack' \in [Thread -> Seq(Frame)]
    BY <1>a, <1>8, Moves DEF Moved
  <2> QED
    BY <1>a, <1>8, <2>1 DEF Wake, TypeOK
<1>9. ASSUME NEW t \in Thread, Retry(t) PROVE TypeOK'
  <2>1. stack' \in [Thread -> Seq(Frame)]
    BY <1>a, <1>9, Moves DEF Moved
  <2> QED
    BY <1>a, <1>9, <2>1 DEF Retry, TypeOK
<1>10. ASSUME NEW t \in Thread, Release(t) PROVE TypeOK'
  <2> DEFINE l == Top(t).lock
             n == Len(stack[t])
  <2>1. stack' \in [Thread -> Seq(Frame)]
    BY <1>a, <1>10, Pop DEF Release, At
  <2>2. n \in 1 .. n /\ Holds(t, n, l) /\ l \in Lock
    BY <1>a, <1>10, TopFrame DEF Release, At, Holds
  <2>3. count[l] > 0
    BY <1>a, <2>2, HolderCounted
  <2>4. count' \in [Lock -> Nat]
    <3>1. count' = [count EXCEPT ![l] = count[l] - 1]
      BY <1>10 DEF Release
    <3> HIDE DEF l
    <3>2. count[l] - 1 \in Nat
      BY <1>a, <2>2, <2>3 DEF TypeOK
    <3> QED
      BY <1>a, <3>1, <3>2 DEF TypeOK
  <2>5. owner' \in [Lock -> Thread \cup {NoThread}]
    BY <1>a, <1>10, <2>2 DEF Release, OwnerAfter, TypeOK
  <2>6. waiters' \in [Lock -> {0, 1}]
    <3>1. waiters[l] \in {0, 1} /\ (Wakes(l) => waiters[l] > 0)
      BY <1>a, <2>2 DEF TypeOK, Wakes
    <3>2. (IF Wakes(l) THEN waiters[l] - 1 ELSE waiters[l]) \in {0, 1}
      BY <3>1
    <3> QED
      BY <1>a, <1>10, <3>2 DEF Release, TypeOK
  <2>7. wakeup' \in [Lock -> BOOLEAN]
    <3> DEFINE b == wakeup[l] /\ ~Wakes(l)
    <3>1. wakeup' = [wakeup EXCEPT ![l] = b]
      BY <1>10 DEF Release
    <3>2. b \in BOOLEAN
      OBVIOUS
    <3> HIDE DEF b
    <3> QED
      BY <1>a, <3>1, <3>2 DEF TypeOK
  <2> QED
    BY <1>a, <1>10, <2>1, <2>4, <2>5, <2>6, <2>7 DEF Release, TypeOK
<1>11. ASSUME NEW t \in Thread, NEW l \in Lock, Import(t, l) PROVE TypeOK'
  <2> DEFINE f == [lock |-> l, at |-> "enter", seen |-> {}, todo |-> <<>>]
  <2>1. <<>> \in Seq(Seq(Thread \cup {NoThread}))
    BY EmptySeq
  <2>2. f \in Frame
    BY <2>1 DEF Frame, Label
  <2>3. stack' \in [Thread -> Seq(Frame)]
    BY <1>a, <1>11, <2>2, Push DEF Import
  <2> QED
    BY <1>a, <1>11, <2>3 DEF Import, TypeOK
<1>12. CASE UNCHANGED vars
  BY <1>a, <1>12 DEF vars, TypeOK
<1> QED
  BY <1>1, <1>2, <1>3, <1>4, <1>5, <1>6, <1>7, <1>8, <1>9, <1>10, <1>11, <1>12 DEF Next
-----------------------------------------------------------------------------
(* The holders of the locks.                                               *)

LEMMA HolderIndex ==
  ASSUME TypeOK, Depth, NEW t \in Thread, NEW i \in 1 .. Len(stack[t])
  PROVE  i \in 1 .. MaxDepth
BY StackIndex, ModuleLockAssumption DEF Depth

LEMMA HolderPair ==
  ASSUME TypeOK, Depth, NEW l \in Lock, NEW t \in Thread, NEW i
  PROVE  <<t, i>> \in Holders(l) <=> i \in 1 .. Len(stack[t]) /\ Holds(t, i, l)
<1>1. Len(stack[t]) \in Nat
  BY StackIndex
<1>2. i \in 1 .. Len(stack[t]) => i \in 1 .. MaxDepth /\ i <= Len(stack[t])
  BY <1>1, HolderIndex
<1>3. i \in 1 .. MaxDepth /\ i <= Len(stack[t]) => i \in 1 .. Len(stack[t])
  BY <1>1, ModuleLockAssumption
<1> QED
  BY <1>2, <1>3 DEF Holders

(* Two sets of holders with the same pairs are equal. *)
LEMMA SameHolders ==
  ASSUME NEW l \in Lock, NEW X \in SUBSET (Thread \X (1 .. MaxDepth)),
         \A t \in Thread, i \in 1 .. MaxDepth : <<t, i>> \in X <=> <<t, i>> \in Holders(l)
  PROVE  X = Holders(l)
<1>1. Holders(l) \subseteq Thread \X (1 .. MaxDepth)
  BY DEF Holders
<1>2. \A h \in Thread \X (1 .. MaxDepth) :
        h[1] \in Thread /\ h[2] \in 1 .. MaxDepth /\ h = <<h[1], h[2]>>
  OBVIOUS
<1> QED
  BY <1>1, <1>2

(* The holders after a step that moves a frame. *)
LEMMA MovedHolders ==
  ASSUME TypeOK, Depth, NEW t \in Thread, NEW from, NEW to, Moved(t, from, to),
         stack' \in [Thread -> Seq(Frame)]
  PROVE  /\ Depth'
         /\ \A l \in Lock, u \in Thread, i \in 1 .. MaxDepth :
              u # t \/ i # Len(stack[t]) => (<<u, i>> \in Holders(l)' <=> <<u, i>> \in Holders(l))
         /\ \A l \in Lock : <<t, Len(stack[t])>> \in Holders(l)' <=>
              l = Top(t).lock /\ stack'[t][Len(stack[t])].at \in {"leave", "held"}
<1> DEFINE n == Len(stack[t])
<1>1. /\ stack[t] # <<>>
      /\ \A u \in Thread : /\ Len(stack'[u]) = Len(stack[u])
                           /\ \A i \in 1 .. Len(stack[u]) :
                                /\ stack'[u][i].lock = stack[u][i].lock
                                /\ u # t \/ i # n => stack'[u][i].at = stack[u][i].at
  BY DEF Moved
<1>2. Depth'
  BY <1>1 DEF Depth
<1>3. \A u \in Thread : Len(stack[u]) \in Nat
  BY StackIndex
<1>4. n \in 1 .. n /\ n \in 1 .. MaxDepth /\ Top(t) = stack[t][n]
  <2>1. n \in Nat \ {0} /\ Top(t) = stack[t][n]
    BY <1>1, TopFrame
  <2>2. n \in 1 .. n
    BY <2>1
  <2> QED
    BY <2>1, <2>2, HolderIndex
<1>5. ASSUME NEW l \in Lock, NEW u \in Thread, NEW i \in 1 .. MaxDepth
      PROVE  /\ <<u, i>> \in Holders(l) <=> i <= Len(stack[u]) /\ Holds(u, i, l)
             /\ <<u, i>> \in Holders(l)' <=> i <= Len(stack'[u]) /\ Holds(u, i, l)'
  BY DEF Holders
<1>6. ASSUME NEW l \in Lock, NEW u \in Thread, NEW i \in 1 .. MaxDepth, u # t \/ i # n
      PROVE  <<u, i>> \in Holders(l)' <=> <<u, i>> \in Holders(l)
  <2>1. i <= Len(stack[u]) => i \in 1 .. Len(stack[u])
    BY <1>3
  <2>2. Len(stack'[u]) = Len(stack[u])
    BY <1>1
  <2>3. i <= Len(stack[u]) => (Holds(u, i, l)' <=> Holds(u, i, l))
    BY <1>1, <1>6, <2>1 DEF Holds
  <2> QED
    BY <1>5, <2>2, <2>3
<1>7. ASSUME NEW l \in Lock
      PROVE  <<t, n>> \in Holders(l)' <=> l = Top(t).lock /\ stack'[t][n].at \in {"leave", "held"}
  <2>1. n <= Len(stack'[t]) /\ stack'[t][n].lock = Top(t).lock
    BY <1>1, <1>3, <1>4
  <2> QED
    BY <1>4, <1>5, <2>1 DEF Holds
<1> QED
  BY <1>2, <1>6, <1>7

(* The labels at which a frame holds its lock are left alone: nothing is   *)
(* disturbed.                                                              *)
LEMMA HoldersKept ==
  ASSUME TypeOK, OwnerInv, NEW t \in Thread, NEW from, NEW to, Moved(t, from, to),
         \A a \in to : a \in {"leave", "held"} <=> from \in {"leave", "held"},
         owner' = owner, count' = count
  PROVE  OwnerInv'
<1> DEFINE n == Len(stack[t])
<1>1. Depth /\ stack' \in [Thread -> Seq(Frame)]
  BY DEF OwnerInv, Moved
<1>2. /\ Depth'
      /\ \A l \in Lock, u \in Thread, i \in 1 .. MaxDepth :
           u # t \/ i # n => (<<u, i>> \in Holders(l)' <=> <<u, i>> \in Holders(l))
      /\ \A l \in Lock : <<t, n>> \in Holders(l)' <=>
           l = Top(t).lock /\ stack'[t][n].at \in {"leave", "held"}
  BY <1>1, MovedHolders
<1>3. stack[t] # <<>> /\ Top(t).at = from /\ stack'[t][n].at \in to
  BY DEF Moved
<1>4. n \in Nat \ {0} /\ Top(t) = stack[t][n]
  BY <1>3, TopFrame
<1>5. n \in 1 .. n
  BY <1>4
<1>6. ASSUME NEW l \in Lock PROVE <<t, n>> \in Holders(l) <=> <<t, n>> \in Holders(l)'
  <2>1. <<t, n>> \in Holders(l) <=> Holds(t, n, l)
    BY <1>1, <1>5, HolderPair
  <2>2. Holds(t, n, l) <=> l = Top(t).lock /\ from \in {"leave", "held"}
    BY <1>3, <1>4 DEF Holds
  <2>3. <<t, n>> \in Holders(l)' <=> l = Top(t).lock /\ stack'[t][n].at \in {"leave", "held"}
    BY <1>2
  <2> QED
    BY <1>3, <2>1, <2>2, <2>3
<1>7. ASSUME NEW l \in Lock PROVE Holders(l)' = Holders(l)
  <2>1. Holders(l)' \in SUBSET (Thread \X (1 .. MaxDepth))
    BY DEF Holders
  <2>2. \A u \in Thread, i \in 1 .. MaxDepth : <<u, i>> \in Holders(l)' <=> <<u, i>> \in Holders(l)
    BY <1>2, <1>6
  <2> QED
    BY <2>1, <2>2, SameHolders
<1> QED
  BY <1>2, <1>7 DEF OwnerInv, FiniteHolders, Ownership
-----------------------------------------------------------------------------
LEMMA TakeKeeps ==
  ASSUME TypeOK, OwnerInv, NEW t \in Thread, Take(t)
  PROVE  OwnerInv'
<1> DEFINE n == Len(stack[t])
           k == Top(t).lock
<1>1. Depth /\ Moved(t, "try", {"leave"})
  BY Moves DEF OwnerInv
<1>2. /\ stack[t] # <<>> /\ Top(t).at = "try"
      /\ stack'[t][n].at = "leave" /\ stack' \in [Thread -> Seq(Frame)]
  BY <1>1 DEF Moved
<1>3. /\ Depth'
      /\ \A l \in Lock, u \in Thread, i \in 1 .. MaxDepth :
           u # t \/ i # n => (<<u, i>> \in Holders(l)' <=> <<u, i>> \in Holders(l))
      /\ \A l \in Lock : <<t, n>> \in Holders(l)' <=>
           l = Top(t).lock /\ stack'[t][n].at \in {"leave", "held"}
  BY <1>1, <1>2, MovedHolders
<1>4. n \in Nat \ {0} /\ Top(t) = stack[t][n] /\ k \in Lock
  BY <1>2, TopFrame
<1>5. n \in 1 .. n /\ n \in 1 .. MaxDepth
  BY <1>1, <1>4, HolderIndex
<1>6. \A l \in Lock : <<t, n>> \notin Holders(l)
  BY <1>1, <1>2, <1>4, <1>5, HolderPair DEF Holds
<1>7. \A l \in Lock : Holders(l) \subseteq Thread \X (1 .. MaxDepth)
  BY DEF Holders
<1>8. ASSUME NEW l \in Lock
      PROVE  Holders(l)' = IF l = k THEN Holders(l) \cup {<<t, n>>} ELSE Holders(l)
  <2> DEFINE X == IF l = k THEN Holders(l) \cup {<<t, n>>} ELSE Holders(l)
  <2>1. Holders(l)' \subseteq Thread \X (1 .. MaxDepth) /\ X \subseteq Thread \X (1 .. MaxDepth)
    <3>1. Holders(l)' \subseteq Thread \X (1 .. MaxDepth)
      BY DEF Holders
    <3> QED
      BY <1>5, <1>7, <3>1
  <2>2. ASSUME NEW u \in Thread, NEW i \in 1 .. MaxDepth
        PROVE  <<u, i>> \in Holders(l)' <=> <<u, i>> \in X
    BY <1>2, <1>3, <1>6
  <2>3. \A h \in Thread \X (1 .. MaxDepth) :
          h[1] \in Thread /\ h[2] \in 1 .. MaxDepth /\ h = <<h[1], h[2]>>
    OBVIOUS
  <2> HIDE DEF X
  <2>4. Holders(l)' = X
    BY <2>1, <2>2, <2>3
  <2> QED
    BY <2>4 DEF X
<1>9. /\ Free(t, k) /\ owner' = [owner EXCEPT ![k] = t]
      /\ count' = [count EXCEPT ![k] = count[k] + 1]
  BY DEF Take
<1> HIDE DEF k, n
<1>10. ASSUME NEW l \in Lock
       PROVE  /\ IsFiniteSet(Holders(l)')
              /\ count'[l] = Cardinality(Holders(l)')
              /\ \A h \in Holders(l)' : h[1] = owner'[l]
  <2>1. /\ IsFiniteSet(Holders(l)) /\ count[l] = Cardinality(Holders(l)) /\ count[l] \in Nat
        /\ \A h \in Holders(l) : h[1] = owner[l]
    BY DEF OwnerInv, FiniteHolders, Ownership, TypeOK
  <2>2. CASE l # k
    <3>1. count'[l] = count[l] /\ owner'[l] = owner[l]
      BY <1>9, <2>2 DEF TypeOK
    <3> QED
      BY <1>8, <2>1, <2>2, <3>1
  <2>3. CASE l = k
    <3>1. Holders(l)' = Holders(l) \cup {<<t, n>>} /\ <<t, n>> \notin Holders(l)
      BY <1>6, <1>8, <2>3
    <3>2. count'[l] = count[l] + 1 /\ owner'[l] = t
      BY <1>9, <2>3 DEF TypeOK
    <3>3. IsFiniteSet(Holders(l)') /\ Cardinality(Holders(l)') = Cardinality(Holders(l)) + 1
      BY <2>1, <3>1, FS_AddElement
    <3>4. \A h \in Holders(l) : h[1] = t
      <4>1. CASE count[l] = 0
        <5>1. Holders(l) = {}
          BY <2>1, <4>1, FS_EmptySet
        <5> QED
          BY <5>1
      <4>2. CASE owner[l] = t
        BY <2>1, <4>2
      <4> QED
        BY <1>9, <2>3, <4>1, <4>2 DEF Free
    <3> QED
      BY <2>1, <3>1, <3>2, <3>3, <3>4
  <2> QED
    BY <2>2, <2>3
<1> QED
  BY <1>3, <1>10 DEF OwnerInv, FiniteHolders, Ownership
-----------------------------------------------------------------------------
LEMMA PopHolders ==
  ASSUME TypeOK, Depth, NEW t \in Thread, stack[t] # <<>>, Return(t)
  PROVE  Depth' /\ \A l \in Lock : Holders(l)' = Holders(l) \ {<<t, Len(stack[t])>>}
<1> DEFINE n == Len(stack[t])
<1>1. /\ stack' \in [Thread -> Seq(Frame)] /\ Len(stack'[t]) = n - 1
      /\ \A u \in Thread \ {t} : stack'[u] = stack[u]
      /\ \A i \in 1 .. n - 1 : stack'[t][i] = stack[t][i]
  BY Pop
<1>2. n \in Nat \ {0} /\ n <= MaxDepth /\ MaxDepth \in Nat
  BY TopFrame, ModuleLockAssumption DEF Depth
<1>3. Depth'
  BY <1>1, <1>2 DEF Depth
<1>4. ASSUME NEW l \in Lock PROVE Holders(l)' = Holders(l) \ {<<t, n>>}
  <2> DEFINE P == Thread \X (1 .. MaxDepth)
  <2>1. Holders(l)' \subseteq P /\ Holders(l) \subseteq P
    BY DEF Holders
  <2>2. ASSUME NEW u \in Thread, NEW i \in 1 .. MaxDepth
        PROVE  <<u, i>> \in Holders(l)' <=> <<u, i>> \in Holders(l) /\ <<u, i>> # <<t, n>>
    <3>1. /\ <<u, i>> \in Holders(l) <=> i <= Len(stack[u]) /\ Holds(u, i, l)
          /\ <<u, i>> \in Holders(l)' <=> i <= Len(stack'[u]) /\ Holds(u, i, l)'
      BY DEF Holders
    <3>2. CASE u # t
      BY <1>1, <3>1, <3>2 DEF Holds
    <3>3. CASE u = t
      <4>1. i <= Len(stack'[u]) <=> i <= n /\ i # n
        BY <1>1, <1>2, <3>3
      <4>2. i <= n /\ i # n => i \in 1 .. n - 1
        BY <1>2
      <4> HIDE DEF n
      <4>3. i <= n /\ i # n => (Holds(u, i, l)' <=> Holds(u, i, l))
        BY <1>1, <3>3, <4>2 DEF Holds
      <4> QED
        BY <3>1, <3>3, <4>1, <4>3 DEF n
    <3> QED
      BY <3>2, <3>3
  <2>3. \A h \in P : h[1] \in Thread /\ h[2] \in 1 .. MaxDepth /\ h = <<h[1], h[2]>>
    OBVIOUS
  <2> HIDE DEF P, n
  <2> QED
    BY <2>1, <2>2, <2>3
<1> QED
  BY <1>3, <1>4

LEMMA ReleaseKeeps ==
  ASSUME TypeOK, OwnerInv, NEW t \in Thread, Release(t)
  PROVE  OwnerInv'
<1> DEFINE n == Len(stack[t])
           k == Top(t).lock
<1>1. Depth /\ stack[t] # <<>> /\ Top(t).at = "held" /\ Return(t)
  BY DEF OwnerInv, Release, At
<1>2. Depth' /\ \A l \in Lock : Holders(l)' = Holders(l) \ {<<t, n>>}
  BY <1>1, PopHolders
<1>3. n \in Nat \ {0} /\ Top(t) = stack[t][n] /\ k \in Lock
  BY <1>1, TopFrame
<1>4. n \in 1 .. n
  BY <1>3
<1>5. <<t, n>> \in Holders(k) /\ owner[k] = t /\ count[k] > 0
  BY <1>1, <1>3, <1>4, HolderCounted DEF Holds
<1>6. \A l \in Lock \ {k} : <<t, n>> \notin Holders(l)
  BY <1>1, <1>3, <1>4, HolderPair DEF Holds
<1>7. /\ owner' = [owner EXCEPT ![k] = OwnerAfter(k)] /\ count' = [count EXCEPT ![k] = count[k] - 1]
  BY DEF Release
<1> HIDE DEF k, n
<1>8. ASSUME NEW l \in Lock
      PROVE  /\ IsFiniteSet(Holders(l)')
             /\ count'[l] = Cardinality(Holders(l)')
             /\ \A h \in Holders(l)' : h[1] = owner'[l]
  <2>1. /\ IsFiniteSet(Holders(l)) /\ count[l] = Cardinality(Holders(l)) /\ count[l] \in Nat
        /\ \A h \in Holders(l) : h[1] = owner[l]
    BY DEF OwnerInv, FiniteHolders, Ownership, TypeOK
  <2>2. CASE l # k
    <3>1. count'[l] = count[l] /\ owner'[l] = owner[l]
      BY <1>7, <2>2 DEF TypeOK
    <3>2. Holders(l)' = Holders(l)
      BY <1>2, <1>6, <2>2
    <3> QED
      BY <2>1, <3>1, <3>2
  <2>3. CASE l = k
    <3>1. Holders(l)' = Holders(l) \ {<<t, n>>} /\ <<t, n>> \in Holders(l)
      BY <1>2, <1>5, <2>3
    <3>2. count'[l] = count[l] - 1 /\ owner'[l] = OwnerAfter(l)
      BY <1>7, <2>3 DEF TypeOK
    <3>3. IsFiniteSet(Holders(l)') /\ Cardinality(Holders(l)') = Cardinality(Holders(l)) - 1
      BY <2>1, <3>1, FS_RemoveElement, ZenonT(60)
    <3>4. count[l] = 1 => Holders(l)' = {}
      BY <2>1, <3>3, FS_EmptySet
    <3>5. count[l] # 1 => owner'[l] = owner[l]
      BY <3>2 DEF OwnerAfter
    <3> QED
      BY <2>1, <3>1, <3>2, <3>3, <3>4, <3>5
  <2> QED
    BY <2>2, <2>3
<1> QED
  BY <1>2, <1>8 DEF OwnerInv, FiniteHolders, Ownership

LEMMA FailKeeps ==
  ASSUME TypeOK, OwnerInv, NEW t \in Thread, Fail(t)
  PROVE  OwnerInv'
<1>1. Depth /\ stack[t] # <<>> /\ Top(t).at = "failed" /\ Return(t) /\ UNCHANGED <<owner, count>>
  BY DEF OwnerInv, Fail, At
<1>2. Depth' /\ \A l \in Lock : Holders(l)' = Holders(l) \ {<<t, Len(stack[t])>>}
  BY <1>1, PopHolders
<1>3. Len(stack[t]) \in Nat \ {0} /\ Top(t) = stack[t][Len(stack[t])]
  BY <1>1, TopFrame
<1>4. \A l \in Lock : <<t, Len(stack[t])>> \notin Holders(l)
  BY <1>1, <1>3, HolderPair DEF Holds
<1> QED
  BY <1>1, <1>2, <1>4, ZenonT(60) DEF OwnerInv, FiniteHolders, Ownership

LEMMA EnteredFrame ==
  ASSUME NEW l \in Lock
  PROVE  [lock |-> l, at |-> "enter", seen |-> {}, todo |-> <<>>] \in Frame
<1>1. <<>> \in Seq(Seq(Thread \cup {NoThread}))
  BY EmptySeq
<1> QED
  BY <1>1 DEF Frame, Label

LEMMA ImportKeeps ==
  ASSUME TypeOK, OwnerInv, NEW t \in Thread, NEW k \in Lock, Import(t, k)
  PROVE  OwnerInv'
<1> DEFINE n == Len(stack[t])
           f == [lock |-> k, at |-> "enter", seen |-> {}, todo |-> <<>>]
<1>1. Depth /\ n < MaxDepth /\ UNCHANGED <<owner, count>> /\ n \in Nat
  BY StackIndex DEF OwnerInv, Import
<1>2. /\ stack' \in [Thread -> Seq(Frame)] /\ Len(stack'[t]) = n + 1
      /\ \A u \in Thread \ {t} : stack'[u] = stack[u]
      /\ \A i \in 1 .. n : stack'[t][i] = stack[t][i]
      /\ stack'[t][n + 1] = f
  BY EnteredFrame, Push DEF Import
<1>3. Depth'
  BY <1>1, <1>2, ModuleLockAssumption DEF Depth
<1>4. ASSUME NEW l \in Lock PROVE Holders(l)' = Holders(l)
  <2>1. Holders(l)' \in SUBSET (Thread \X (1 .. MaxDepth))
    BY DEF Holders
  <2>2. ASSUME NEW u \in Thread, NEW i \in 1 .. MaxDepth
        PROVE  <<u, i>> \in Holders(l)' <=> <<u, i>> \in Holders(l)
    <3>1. /\ <<u, i>> \in Holders(l) <=> i <= Len(stack[u]) /\ Holds(u, i, l)
          /\ <<u, i>> \in Holders(l)' <=> i <= Len(stack'[u]) /\ Holds(u, i, l)'
      BY DEF Holders
    <3>2. CASE u # t
      BY <1>2, <3>1, <3>2 DEF Holds
    <3>3. CASE u = t
      <4>1. i <= Len(stack'[u]) <=> i \in 1 .. n \/ i = n + 1
        BY <1>1, <1>2, <3>3
      <4>2. i \in 1 .. n => (Holds(u, i, l)' <=> Holds(u, i, l))
        BY <1>2, <3>3 DEF Holds
      <4>3. i = n + 1 => ~Holds(u, i, l)'
        BY <1>2, <3>3 DEF Holds
      <4>4. i \in 1 .. n <=> i <= Len(stack[u])
        BY <1>1, <3>3
      <4> QED
        BY <3>1, <4>1, <4>2, <4>3, <4>4
    <3> QED
      BY <3>2, <3>3
  <2> QED
    BY <2>1, <2>2, SameHolders
<1> QED
  BY <1>1, <1>3, <1>4 DEF OwnerInv, FiniteHolders, Ownership

LEMMA OwnerInit == Init => OwnerInv
<1> SUFFICES ASSUME Init PROVE OwnerInv
  OBVIOUS
<1>1. \A t \in Thread : Len(stack[t]) = 0
  BY DEF Init
<1>2. \A l \in Lock : Holders(l) = {} /\ count[l] = 0
  BY <1>1 DEF Init, Holders
<1>3. Depth
  BY <1>1, ModuleLockAssumption DEF Depth
<1>4. IsFiniteSet({}) /\ Cardinality({}) = 0
  BY FS_EmptySet
<1>5. FiniteHolders
  BY <1>2, <1>4 DEF FiniteHolders
<1>6. Ownership
  BY <1>2, <1>4 DEF Ownership
<1> QED
  BY <1>3, <1>5, <1>6 DEF OwnerInv

LEMMA OwnerStep == IInv /\ [Next]_vars => OwnerInv'
<1> SUFFICES ASSUME IInv, [Next]_vars PROVE OwnerInv'
  OBVIOUS
<1>0. TypeOK /\ OwnerInv
  BY DEF IInv
<1>1. ASSUME NEW t \in Thread, Enter(t) PROVE OwnerInv'
  <2>1. Moved(t, "enter", {"try"}) /\ owner' = owner /\ count' = count
    BY <1>0, <1>1, Moves DEF Enter
  <2> QED
    BY <1>0, <2>1, HoldersKept
<1>2. ASSUME NEW t \in Thread, Leave(t) PROVE OwnerInv'
  <2>1. Moved(t, "leave", {"held"}) /\ owner' = owner /\ count' = count
    BY <1>0, <1>2, Moves DEF Leave
  <2> QED
    BY <1>0, <2>1, HoldersKept
<1>3. ASSUME NEW t \in Thread, Fail(t) PROVE OwnerInv'
  BY <1>0, <1>3, FailKeeps
<1>4. ASSUME NEW t \in Thread, Take(t) PROVE OwnerInv'
  BY <1>0, <1>4, TakeKeeps
<1>5. ASSUME NEW t \in Thread, Look(t) PROVE OwnerInv'
  <2>1. Moved(t, "try", {"search"}) /\ owner' = owner /\ count' = count
    BY <1>0, <1>5, Moves DEF Look
  <2> QED
    BY <1>0, <2>1, HoldersKept
<1>6. ASSUME NEW t \in Thread, Visit(t) PROVE OwnerInv'
  <2>1. Moved(t, "search", {"search", "failed"}) /\ owner' = owner /\ count' = count
    BY <1>0, <1>6, Moves DEF Visit
  <2> QED
    BY <1>0, <2>1, HoldersKept
<1>7. ASSUME NEW t \in Thread, Queue(t) PROVE OwnerInv'
  <2>1. Moved(t, "search", {"wait"}) /\ owner' = owner /\ count' = count
    BY <1>0, <1>7, Moves DEF Queue
  <2> QED
    BY <1>0, <2>1, HoldersKept
<1>8. ASSUME NEW t \in Thread, Wake(t) PROVE OwnerInv'
  <2>1. Moved(t, "wait", {"woken"}) /\ owner' = owner /\ count' = count
    BY <1>0, <1>8, Moves DEF Wake
  <2> QED
    BY <1>0, <2>1, HoldersKept
<1>9. ASSUME NEW t \in Thread, Retry(t) PROVE OwnerInv'
  <2>1. Moved(t, "woken", {"try"}) /\ owner' = owner /\ count' = count
    BY <1>0, <1>9, Moves DEF Retry
  <2> QED
    BY <1>0, <2>1, HoldersKept
<1>10. ASSUME NEW t \in Thread, Release(t) PROVE OwnerInv'
  BY <1>0, <1>10, ReleaseKeeps
<1>11. ASSUME NEW t \in Thread, NEW l \in Lock, Import(t, l) PROVE OwnerInv'
  BY <1>0, <1>11, ImportKeeps
<1>12. CASE UNCHANGED vars
  BY <1>0, <1>12 DEF vars, OwnerInv, Depth, FiniteHolders, Ownership, Holders, Holds
<1> QED
  BY <1>1, <1>2, <1>3, <1>4, <1>5, <1>6, <1>7, <1>8, <1>9, <1>10, <1>11, <1>12 DEF Next
-----------------------------------------------------------------------------
(* The wake-ups.                                                           *)

(* A step that neither begins a search nor wakes a thread, and leaves the  *)
(* lock alone.                                                             *)
LEMMA WakeKept ==
  ASSUME WakeInv, NEW t \in Thread, NEW from, NEW to, Moved(t, from, to),
         Top(t) = stack[t][Len(stack[t])], Len(stack[t]) \in 1 .. Len(stack[t]),
         from # "woken", "woken" \notin to, "search" \in to => from = "search",
         UNCHANGED <<owner, count, waiters, wakeup>>
  PROVE  WakeInv'
<1> DEFINE n == Len(stack[t])
<1>1. /\ Top(t).at = from /\ stack'[t][n].at \in to
      /\ \A u \in Thread : /\ Len(stack'[u]) = Len(stack[u])
                           /\ \A i \in 1 .. Len(stack[u]) :
                                /\ stack'[u][i].lock = stack[u][i].lock
                                /\ u # t \/ i # n => stack'[u][i].at = stack[u][i].at
  BY DEF Moved
<1>2. ASSUME NEW u \in Thread, NEW i \in 1 .. Len(stack[u])
      PROVE  /\ stack'[u][i].at = "woken" <=> stack[u][i].at = "woken"
             /\ stack'[u][i].at = "search" => stack[u][i].at = "search"
  BY <1>1
<1>3. Searching'
  BY <1>1, <1>2 DEF WakeInv, Searching
<1>4. OneWoken'
  BY <1>1, <1>2 DEF WakeInv, OneWoken
<1>5. WokenAlone'
  BY <1>1, <1>2 DEF WakeInv, WokenAlone
<1>6. WaitersTaken'
  BY DEF WakeInv, WaitersTaken
<1>7. NoLostWakeup'
  BY <1>1, <1>2 DEF WakeInv, NoLostWakeup
<1> QED
  BY <1>3, <1>4, <1>5, <1>6, <1>7 DEF WakeInv

(* The innermost frame by its index. *)
LEMMA TopIndex ==
  ASSUME TypeOK, NEW t \in Thread, stack[t] # <<>>
  PROVE  /\ Top(t) = stack[t][Len(stack[t])] /\ Len(stack[t]) \in 1 .. Len(stack[t])
         /\ Top(t).lock \in Lock
<1>1. Len(stack[t]) \in Nat \ {0} /\ Top(t) = stack[t][Len(stack[t])] /\ Top(t).lock \in Lock
  BY TopFrame
<1> QED
  BY <1>1

(* Another thread's search keeps a thread out of self.lock. *)
LEMMA SearchKeepsOut ==
  ASSUME TypeOK, NEW t \in Thread, NEW l \in Lock, SelfLockFree(t, l),
         NEW u \in Thread \ {t}, NEW i \in 1 .. Len(stack[u]), stack[u][i].at = "search"
  PROVE  stack[u][i].lock # l
BY StackIndex DEF SelfLockFree

LEMMA LookWakes ==
  ASSUME TypeOK, WakeInv, NEW t \in Thread, Look(t)
  PROVE  WakeInv'
<1> DEFINE n == Len(stack[t])
           l == Top(t).lock
<1>1. /\ stack[t] # <<>> /\ Top(t).at = "try" /\ ~Free(t, l)
      /\ UNCHANGED <<owner, count, waiters, wakeup>>
  BY DEF Look, At
<1>2. Moved(t, "try", {"search"})
  BY Moves
<1>3. Top(t) = stack[t][n] /\ n \in 1 .. n /\ l \in Lock
  BY <1>1, TopIndex
<1>4. /\ stack'[t][n].at = "search"
      /\ \A u \in Thread : /\ Len(stack'[u]) = Len(stack[u])
                           /\ \A i \in 1 .. Len(stack[u]) :
                                /\ stack'[u][i].lock = stack[u][i].lock
                                /\ u # t \/ i # n => stack'[u][i].at = stack[u][i].at
  BY <1>2 DEF Moved
<1>5. count[l] > 0 /\ owner[l] # t
  BY <1>1, <1>3 DEF Free, TypeOK
<1>6. ASSUME NEW u \in Thread, NEW i \in 1 .. Len(stack[u])
      PROVE  stack'[u][i].at = "woken" <=> stack[u][i].at = "woken"
  BY <1>1, <1>3, <1>4
<1>7. Searching'
  BY <1>1, <1>3, <1>4, <1>5 DEF WakeInv, Searching
<1>8. OneWoken'
  BY <1>4, <1>6 DEF WakeInv, OneWoken
<1>9. WokenAlone'
  BY <1>1, <1>4, <1>6 DEF WakeInv, WokenAlone
<1>10. WaitersTaken'
  BY <1>1 DEF WakeInv, WaitersTaken
<1>11. NoLostWakeup'
  BY <1>1, <1>4, <1>6 DEF WakeInv, NoLostWakeup
<1> QED
  BY <1>7, <1>8, <1>9, <1>10, <1>11 DEF WakeInv

LEMMA TakeWakes ==
  ASSUME TypeOK, WakeInv, NEW t \in Thread, Take(t)
  PROVE  WakeInv'
<1> DEFINE n == Len(stack[t])
           k == Top(t).lock
<1>1. /\ stack[t] # <<>> /\ Top(t).at = "try" /\ Free(t, k) /\ SelfLockFree(t, k)
      /\ owner' = [owner EXCEPT ![k] = t] /\ count' = [count EXCEPT ![k] = count[k] + 1]
      /\ UNCHANGED <<waiters, wakeup>>
  BY DEF Take, At
<1>2. Moved(t, "try", {"leave"})
  BY Moves
<1>3. Top(t) = stack[t][n] /\ n \in 1 .. n /\ k \in Lock
  BY <1>1, TopIndex
<1>4. /\ stack'[t][n].at = "leave"
      /\ \A u \in Thread : /\ Len(stack'[u]) = Len(stack[u])
                           /\ \A i \in 1 .. Len(stack[u]) :
                                /\ stack'[u][i].lock = stack[u][i].lock
                                /\ u # t \/ i # n => stack'[u][i].at = stack[u][i].at
  BY <1>2 DEF Moved
<1>5. ASSUME NEW u \in Thread, NEW i \in 1 .. Len(stack[u])
      PROVE  /\ stack'[u][i].at = "woken" <=> stack[u][i].at = "woken"
             /\ stack'[u][i].at = "search" <=> stack[u][i].at = "search"
  BY <1>1, <1>3, <1>4
<1>6. \A l \in Lock : count[l] \in Nat /\ count'[l] \in Nat /\ (count[l] > 0 => count'[l] > 0)
  BY <1>1, <1>3 DEF TypeOK
<1>7. ASSUME NEW u \in Thread, NEW i \in 1 .. Len(stack[u]), stack[u][i].at = "search"
      PROVE  stack[u][i].lock # k
  <2>1. u = t => stack[u][i].lock # k
    BY <1>1, <1>7 DEF WakeInv, Searching, Free
  <2> QED
    BY <1>1, <1>3, <1>7, <2>1, SearchKeepsOut
<1>8. \A u \in Thread : \A i \in 1 .. Len(stack[u]) : stack[u][i].lock \in Lock
  BY StackIndex
<1> HIDE DEF k, n
<1>9. Searching'
  <2>1. \A l \in Lock \ {k} : owner'[l] = owner[l]
    BY <1>1 DEF TypeOK
  <2> QED
    BY <1>4, <1>5, <1>6, <1>7, <1>8, <2>1, SMTT(30) DEF WakeInv, Searching
<1>10. OneWoken'
  BY <1>4, <1>5 DEF WakeInv, OneWoken
<1>11. WokenAlone'
  BY <1>1, <1>4, <1>5 DEF WakeInv, WokenAlone
<1>12. WaitersTaken'
  BY <1>1 DEF WakeInv, WaitersTaken
<1>13. NoLostWakeup'
  BY <1>1, <1>4, <1>5, <1>6 DEF WakeInv, NoLostWakeup
<1> QED
  BY <1>9, <1>10, <1>11, <1>12, <1>13 DEF WakeInv
-----------------------------------------------------------------------------
LEMMA QueueWakes ==
  ASSUME TypeOK, WakeInv, NEW t \in Thread, Queue(t)
  PROVE  WakeInv'
<1> DEFINE n == Len(stack[t])
           k == Top(t).lock
<1>1. /\ stack[t] # <<>> /\ Top(t).at = "search" /\ UNCHANGED <<owner, count>>
      /\ wakeup' = [wakeup EXCEPT ![k] = TRUE] /\ waiters' = [waiters EXCEPT ![k] = Waiters(k)]
  BY DEF Queue, At
<1>2. Moved(t, "search", {"wait"})
  BY Moves
<1>3. Top(t) = stack[t][n] /\ n \in 1 .. n /\ k \in Lock
  BY <1>1, TopIndex
<1>4. /\ stack'[t][n].at = "wait"
      /\ \A u \in Thread : /\ Len(stack'[u]) = Len(stack[u])
                           /\ \A i \in 1 .. Len(stack[u]) :
                                /\ stack'[u][i].lock = stack[u][i].lock
                                /\ u # t \/ i # n => stack'[u][i].at = stack[u][i].at
  BY <1>2 DEF Moved
<1>5. ASSUME NEW u \in Thread, NEW i \in 1 .. Len(stack[u])
      PROVE  /\ stack'[u][i].at = "woken" <=> stack[u][i].at = "woken"
             /\ stack'[u][i].at = "search" => stack[u][i].at = "search"
  BY <1>1, <1>3, <1>4
<1>6. count[k] > 0
  BY <1>1, <1>3 DEF WakeInv, Searching
<1>7. \A u \in Thread : \A i \in 1 .. Len(stack[u]) : stack[u][i].lock \in Lock
  BY StackIndex
<1>8. /\ wakeup'[k] = TRUE
      /\ wakeup[k] => waiters'[k] = waiters[k]
      /\ ~wakeup[k] => waiters'[k] = 1
      /\ \A l \in Lock \ {k} : wakeup'[l] = wakeup[l] /\ waiters'[l] = waiters[l]
  <2>1. waiters'[k] = Waiters(k)
    BY <1>1, <1>3 DEF TypeOK
  <2>2. ~wakeup[k] => waiters[k] = 0
    BY <1>3 DEF WakeInv, WaitersTaken, TypeOK
  <2>3. /\ wakeup'[k] = TRUE
        /\ \A l \in Lock \ {k} : wakeup'[l] = wakeup[l] /\ waiters'[l] = waiters[l]
    BY <1>1, <1>3 DEF TypeOK
  <2> QED
    BY <2>1, <2>2, <2>3 DEF Waiters
<1> HIDE DEF k, n
<1>9. Searching'
  BY <1>1, <1>4, <1>5 DEF WakeInv, Searching
<1>10. OneWoken'
  BY <1>4, <1>5 DEF WakeInv, OneWoken
<1>11. WokenAlone'
  BY <1>4, <1>5, <1>7, <1>8, SMTT(30) DEF WakeInv, WokenAlone
<1>12. WaitersTaken'
  BY <1>8 DEF WakeInv, WaitersTaken
<1>13. NoLostWakeup'
  <2> SUFFICES ASSUME NEW l \in Lock, wakeup'[l]
               PROVE  \/ waiters'[l] = 1 /\ count[l] > 0
                      \/ \E u \in Thread : \E i \in 1 .. Len(stack'[u]) :
                           stack'[u][i].lock = l /\ stack'[u][i].at = "woken"
    BY <1>1 DEF NoLostWakeup
  <2>1. CASE l = k /\ ~wakeup[k]
    BY <1>6, <1>8, <2>1
  <2>2. CASE wakeup[l]
    BY <1>4, <1>5, <1>8, <2>2 DEF WakeInv, NoLostWakeup
  <2> QED
    BY <1>8, <2>1, <2>2
<1> QED
  BY <1>9, <1>10, <1>11, <1>12, <1>13 DEF WakeInv

LEMMA WakeWakes ==
  ASSUME TypeOK, WakeInv, NEW t \in Thread, Wake(t)
  PROVE  WakeInv'
<1> DEFINE n == Len(stack[t])
           k == Top(t).lock
<1>1. /\ stack[t] # <<>> /\ Top(t).at = "wait" /\ ~wakeup[k]
      /\ wakeup' = [wakeup EXCEPT ![k] = TRUE] /\ UNCHANGED <<owner, count, waiters>>
  BY DEF Wake, At
<1>2. Moved(t, "wait", {"woken"})
  BY Moves
<1>3. Top(t) = stack[t][n] /\ n \in 1 .. n /\ k \in Lock
  BY <1>1, TopIndex
<1>4. /\ stack'[t][n].at = "woken"
      /\ \A u \in Thread : /\ Len(stack'[u]) = Len(stack[u])
                           /\ \A i \in 1 .. Len(stack[u]) :
                                /\ stack'[u][i].lock = stack[u][i].lock
                                /\ u # t \/ i # n => stack'[u][i].at = stack[u][i].at
  BY <1>2 DEF Moved
<1>5. ASSUME NEW u \in Thread, NEW i \in 1 .. Len(stack[u]), stack[u][i].at = "woken"
      PROVE  stack[u][i].lock # k
  BY <1>1, <1>5 DEF WakeInv, WokenAlone
<1>6. ASSUME NEW u \in Thread, NEW i \in 1 .. Len(stack[u])
      PROVE  /\ stack'[u][i].at = "woken" <=> (u = t /\ i = n) \/ stack[u][i].at = "woken"
             /\ stack'[u][i].at = "search" => stack[u][i].at = "search"
  BY <1>1, <1>3, <1>4
<1>7. \A u \in Thread : \A i \in 1 .. Len(stack[u]) : stack[u][i].lock \in Lock
  BY StackIndex
<1>8. /\ wakeup'[k] = TRUE /\ waiters[k] = 0
      /\ \A l \in Lock \ {k} : wakeup'[l] = wakeup[l]
  BY <1>1, <1>3 DEF WakeInv, WaitersTaken, TypeOK
<1>9. stack[t][n].lock = k
  BY <1>3
<1> HIDE DEF k, n
<1>10. Searching'
  BY <1>1, <1>4, <1>6 DEF WakeInv, Searching
<1>11. OneWoken'
  <2> SUFFICES ASSUME NEW u \in Thread, NEW v \in Thread,
                      NEW i \in 1 .. Len(stack[u]), NEW j \in 1 .. Len(stack[v]),
                      stack'[u][i].at = "woken", stack'[v][j].at = "woken",
                      stack[u][i].lock = stack[v][j].lock
               PROVE  u = v /\ i = j
    BY <1>4 DEF OneWoken
  <2>1. CASE u = t /\ i = n
    BY <1>5, <1>6, <1>9, <2>1
  <2>2. CASE v = t /\ j = n
    BY <1>5, <1>6, <1>9, <2>2
  <2>3. CASE stack[u][i].at = "woken" /\ stack[v][j].at = "woken"
    BY <2>3 DEF WakeInv, OneWoken
  <2> QED
    BY <1>6, <2>1, <2>2, <2>3
<1>12. WokenAlone'
  <2> SUFFICES ASSUME NEW u \in Thread, NEW i \in 1 .. Len(stack[u]), stack'[u][i].at = "woken"
               PROVE  wakeup'[stack[u][i].lock] /\ waiters[stack[u][i].lock] = 0
    BY <1>1, <1>4 DEF WokenAlone
  <2>1. CASE u = t /\ i = n
    BY <1>8, <1>9, <2>1
  <2>2. CASE stack[u][i].at = "woken"
    BY <1>5, <1>7, <1>8, <2>2 DEF WakeInv, WokenAlone
  <2> QED
    BY <1>6, <2>1, <2>2
<1>13. WaitersTaken'
  BY <1>1, <1>8 DEF WakeInv, WaitersTaken
<1>14. NoLostWakeup'
  <2> SUFFICES ASSUME NEW l \in Lock, wakeup'[l]
               PROVE  \/ waiters[l] = 1 /\ count[l] > 0
                      \/ \E u \in Thread : \E i \in 1 .. Len(stack[u]) :
                           stack[u][i].lock = l /\ stack'[u][i].at = "woken"
    BY <1>1, <1>4 DEF NoLostWakeup
  <2>1. CASE l = k
    BY <1>3, <1>4, <1>9, <2>1 DEF n
  <2>2. CASE l # k
    BY <1>6, <1>8, <2>2 DEF WakeInv, NoLostWakeup
  <2> QED
    BY <2>1, <2>2
<1> QED
  BY <1>10, <1>11, <1>12, <1>13, <1>14 DEF WakeInv

LEMMA RetryWakes ==
  ASSUME TypeOK, WakeInv, NEW t \in Thread, Retry(t)
  PROVE  WakeInv'
<1> DEFINE n == Len(stack[t])
           k == Top(t).lock
<1>1. /\ stack[t] # <<>> /\ Top(t).at = "woken"
      /\ wakeup' = [wakeup EXCEPT ![k] = FALSE] /\ UNCHANGED <<owner, count, waiters>>
  BY DEF Retry, At
<1>2. Moved(t, "woken", {"try"})
  BY Moves
<1>3. Top(t) = stack[t][n] /\ n \in 1 .. n /\ k \in Lock
  BY <1>1, TopIndex
<1>4. /\ stack'[t][n].at = "try"
      /\ \A u \in Thread : /\ Len(stack'[u]) = Len(stack[u])
                           /\ \A i \in 1 .. Len(stack[u]) :
                                /\ stack'[u][i].lock = stack[u][i].lock
                                /\ u # t \/ i # n => stack'[u][i].at = stack[u][i].at
  BY <1>2 DEF Moved
<1>5. ASSUME NEW u \in Thread, NEW i \in 1 .. Len(stack[u])
      PROVE  /\ stack'[u][i].at = "woken" <=> (u # t \/ i # n) /\ stack[u][i].at = "woken"
             /\ stack'[u][i].at = "search" => stack[u][i].at = "search"
  BY <1>1, <1>3, <1>4
<1>6. \A u \in Thread : \A i \in 1 .. Len(stack[u]) : stack[u][i].lock \in Lock
  BY StackIndex
<1>7. waiters[k] = 0
  BY <1>1, <1>3 DEF WakeInv, WokenAlone
<1>8. wakeup'[k] = FALSE /\ \A l \in Lock \ {k} : wakeup'[l] = wakeup[l]
  BY <1>1, <1>3 DEF TypeOK
<1>9. ASSUME NEW u \in Thread, NEW i \in 1 .. Len(stack[u]), stack[u][i].at = "woken",
             stack[u][i].lock = k
      PROVE  u = t /\ i = n
  BY <1>1, <1>3, <1>9 DEF WakeInv, OneWoken
<1>10. stack[t][n].lock = k
  BY <1>3
<1> HIDE DEF k, n
<1>11. Searching'
  BY <1>1, <1>4, <1>5 DEF WakeInv, Searching
<1>12. OneWoken'
  BY <1>4, <1>5 DEF WakeInv, OneWoken
<1>13. WokenAlone'
  BY <1>1, <1>4, <1>5, <1>6, <1>8, <1>9 DEF WakeInv, WokenAlone
<1>14. WaitersTaken'
  BY <1>1, <1>7, <1>8 DEF WakeInv, WaitersTaken
<1>15. NoLostWakeup'
  <2> SUFFICES ASSUME NEW l \in Lock, wakeup'[l]
               PROVE  \/ waiters[l] = 1 /\ count[l] > 0
                      \/ \E u \in Thread : \E i \in 1 .. Len(stack'[u]) :
                           stack'[u][i].lock = l /\ stack'[u][i].at = "woken"
    BY <1>1 DEF NoLostWakeup
  <2>1. l # k /\ wakeup[l]
    BY <1>8
  <2> QED
    BY <1>4, <1>5, <1>10, <2>1, SMTT(30) DEF WakeInv, NoLostWakeup
<1> QED
  BY <1>11, <1>12, <1>13, <1>14, <1>15 DEF WakeInv
-----------------------------------------------------------------------------
(* A frame that leaves the stack, neither searching nor woken, disturbs    *)
(* nothing if the lock is left alone.                                      *)
LEMMA FailWakes ==
  ASSUME TypeOK, WakeInv, NEW t \in Thread, Fail(t)
  PROVE  WakeInv'
<1> DEFINE n == Len(stack[t])
<1>1. /\ stack[t] # <<>> /\ Top(t).at = "failed" /\ Return(t)
      /\ UNCHANGED <<owner, count, waiters, wakeup>>
  BY DEF Fail, At
<1>2. Top(t) = stack[t][n] /\ n \in Nat \ {0}
  BY <1>1, TopFrame
<1>3. /\ Len(stack'[t]) = n - 1 /\ \A u \in Thread \ {t} : stack'[u] = stack[u]
      /\ \A i \in 1 .. n - 1 : stack'[t][i] = stack[t][i]
  BY <1>1, Pop
<1>4. ASSUME NEW u \in Thread, NEW i \in 1 .. Len(stack'[u])
      PROVE  i \in 1 .. Len(stack[u]) /\ stack'[u][i] = stack[u][i]
  BY <1>2, <1>3
<1>5. ASSUME NEW u \in Thread, NEW i \in 1 .. Len(stack[u]), stack[u][i].at = "woken"
      PROVE  i \in 1 .. Len(stack'[u])
  BY <1>1, <1>2, <1>3, <1>5
<1>6. Searching' /\ WokenAlone'
  <2>1. Searching'
    BY <1>1, <1>4 DEF WakeInv, Searching
  <2>2. WokenAlone'
    BY <1>1, <1>4 DEF WakeInv, WokenAlone
  <2> QED
    BY <2>1, <2>2
<1>7. OneWoken'
  <2> SUFFICES ASSUME NEW u \in Thread, NEW v \in Thread,
                      NEW i \in 1 .. Len(stack'[u]), NEW j \in 1 .. Len(stack'[v]),
                      stack'[u][i].at = "woken", stack'[v][j].at = "woken",
                      stack'[u][i].lock = stack'[v][j].lock
               PROVE  u = v /\ i = j
    BY DEF OneWoken
  <2>1. /\ i \in 1 .. Len(stack[u]) /\ stack'[u][i] = stack[u][i]
        /\ j \in 1 .. Len(stack[v]) /\ stack'[v][j] = stack[v][j]
    BY <1>4
  <2> QED
    BY <2>1 DEF WakeInv, OneWoken
<1>8. WaitersTaken'
  BY <1>1 DEF WakeInv, WaitersTaken
<1>9. NoLostWakeup'
  BY <1>1, <1>4, <1>5 DEF WakeInv, NoLostWakeup
<1> QED
  BY <1>6, <1>7, <1>8, <1>9 DEF WakeInv

LEMMA ReleaseWakes ==
  ASSUME TypeOK, OwnerInv, WakeInv, NEW t \in Thread, Release(t)
  PROVE  WakeInv'
<1> DEFINE n == Len(stack[t])
           k == Top(t).lock
<1>1. /\ stack[t] # <<>> /\ Top(t).at = "held" /\ SelfLockFree(t, k) /\ Return(t)
      /\ count' = [count EXCEPT ![k] = count[k] - 1]
      /\ owner' = [owner EXCEPT ![k] = OwnerAfter(k)]
      /\ waiters' = [waiters EXCEPT ![k] = IF Wakes(k) THEN waiters[k] - 1 ELSE waiters[k]]
      /\ wakeup' = [wakeup EXCEPT ![k] = wakeup[k] /\ ~Wakes(k)]
  BY DEF Release, At
<1>2. Top(t) = stack[t][n] /\ n \in Nat \ {0} /\ k \in Lock
  BY <1>1, TopFrame
<1>3. /\ Len(stack'[t]) = n - 1 /\ \A u \in Thread \ {t} : stack'[u] = stack[u]
      /\ \A i \in 1 .. n - 1 : stack'[t][i] = stack[t][i]
  BY <1>1, Pop
<1>4. ASSUME NEW u \in Thread, NEW i \in 1 .. Len(stack'[u])
      PROVE  i \in 1 .. Len(stack[u]) /\ stack'[u][i] = stack[u][i]
  BY <1>2, <1>3
<1>5. ASSUME NEW u \in Thread, NEW i \in 1 .. Len(stack[u]), stack[u][i].at = "woken"
      PROVE  i \in 1 .. Len(stack'[u])
  BY <1>1, <1>2, <1>3, <1>5
<1>6. owner[k] = t /\ count[k] > 0
  <2>1. n \in 1 .. n /\ Holds(t, n, k)
    BY <1>1, <1>2 DEF Holds
  <2> QED
    BY <1>2, <2>1, HolderCounted
<1>7. ASSUME NEW u \in Thread, NEW i \in 1 .. Len(stack[u]), stack[u][i].at = "search"
      PROVE  stack[u][i].lock # k
  <2>1. u = t => stack[u][i].lock # k
    BY <1>6, <1>7 DEF WakeInv, Searching
  <2> QED
    BY <1>1, <1>2, <1>7, <2>1, SearchKeepsOut
<1>8. \A u \in Thread : \A i \in 1 .. Len(stack[u]) : stack[u][i].lock \in Lock
  BY StackIndex
<1>9. \A l \in Lock \ {k} : /\ owner'[l] = owner[l] /\ count'[l] = count[l]
                            /\ waiters'[l] = waiters[l] /\ wakeup'[l] = wakeup[l]
  BY <1>1 DEF TypeOK
<1>10. waiters[k] \in {0, 1} /\ count[k] \in Nat /\ count'[k] = count[k] - 1
  BY <1>1, <1>2 DEF TypeOK
<1>11. waiters'[k] = IF Wakes(k) THEN waiters[k] - 1 ELSE waiters[k]
  BY <1>1, <1>2 DEF TypeOK
<1>12. Wakes(k) <=> count[k] = 1 /\ waiters[k] = 1
  BY <1>10 DEF Wakes
<1>13. wakeup'[k] <=> wakeup[k] /\ ~Wakes(k)
  <2> DEFINE b == wakeup[k] /\ ~Wakes(k)
  <2>1. wakeup' = [wakeup EXCEPT ![k] = b]
    BY <1>1
  <2> HIDE DEF b
  <2>2. wakeup'[k] = b
    BY <1>2, <2>1 DEF TypeOK
  <2> QED
    BY <2>2 DEF b
<1> HIDE DEF k, n
<1>14. Searching'
  BY <1>4, <1>7, <1>8, <1>9 DEF WakeInv, Searching
<1>15. OneWoken'
  <2> SUFFICES ASSUME NEW u \in Thread, NEW v \in Thread,
                      NEW i \in 1 .. Len(stack'[u]), NEW j \in 1 .. Len(stack'[v]),
                      stack'[u][i].at = "woken", stack'[v][j].at = "woken",
                      stack'[u][i].lock = stack'[v][j].lock
               PROVE  u = v /\ i = j
    BY DEF OneWoken
  <2>1. /\ i \in 1 .. Len(stack[u]) /\ stack'[u][i] = stack[u][i]
        /\ j \in 1 .. Len(stack[v]) /\ stack'[v][j] = stack[v][j]
    BY <1>4
  <2> QED
    BY <2>1 DEF WakeInv, OneWoken
<1>16. WokenAlone'
  <2> SUFFICES ASSUME NEW u \in Thread, NEW i \in 1 .. Len(stack'[u]), stack'[u][i].at = "woken"
               PROVE  wakeup'[stack'[u][i].lock] /\ waiters'[stack'[u][i].lock] = 0
    BY DEF WokenAlone
  <2>1. /\ i \in 1 .. Len(stack[u]) /\ stack'[u][i] = stack[u][i]
        /\ stack[u][i].lock \in Lock
        /\ wakeup[stack[u][i].lock] /\ waiters[stack[u][i].lock] = 0
    BY <1>4, <1>8 DEF WakeInv, WokenAlone
  <2>2. CASE stack[u][i].lock = k
    BY <1>11, <1>12, <1>13, <2>1, <2>2
  <2>3. CASE stack[u][i].lock # k
    BY <1>9, <2>1, <2>3
  <2> QED
    BY <2>2, <2>3
<1>17. WaitersTaken'
  <2> SUFFICES ASSUME NEW l \in Lock, waiters'[l] = 1 PROVE wakeup'[l]
    BY DEF WaitersTaken
  <2>1. CASE l = k
    BY <1>2, <1>10, <1>11, <1>12, <1>13, <2>1 DEF WakeInv, WaitersTaken
  <2>2. CASE l # k
    BY <1>9, <2>2 DEF WakeInv, WaitersTaken
  <2> QED
    BY <2>1, <2>2
<1>18. NoLostWakeup'
  <2> SUFFICES ASSUME NEW l \in Lock, wakeup'[l]
               PROVE  \/ waiters'[l] = 1 /\ count'[l] > 0
                      \/ \E u \in Thread : \E i \in 1 .. Len(stack'[u]) :
                           stack'[u][i].lock = l /\ stack'[u][i].at = "woken"
    BY DEF NoLostWakeup
  <2>1. wakeup[l]
    BY <1>9, <1>13
  <2>2. CASE waiters[l] = 1 /\ count[l] > 0
    <3>1. CASE l = k
      BY <1>10, <1>11, <1>12, <1>13, <2>2, <3>1
    <3>2. CASE l # k
      BY <1>9, <2>2, <3>2
    <3> QED
      BY <3>1, <3>2
  <2>3. ASSUME NEW u \in Thread, NEW i \in 1 .. Len(stack[u]),
               stack[u][i].lock = l, stack[u][i].at = "woken"
        PROVE  \E v \in Thread : \E j \in 1 .. Len(stack'[v]) :
                 stack'[v][j].lock = l /\ stack'[v][j].at = "woken"
    BY <1>4, <1>5, <2>3
  <2> QED
    BY <2>1, <2>2, <2>3 DEF WakeInv, NoLostWakeup
<1> QED
  BY <1>14, <1>15, <1>16, <1>17, <1>18 DEF WakeInv

LEMMA ImportWakes ==
  ASSUME TypeOK, WakeInv, NEW t \in Thread, NEW k \in Lock, Import(t, k)
  PROVE  WakeInv'
<1> DEFINE n == Len(stack[t])
           f == [lock |-> k, at |-> "enter", seen |-> {}, todo |-> <<>>]
<1>1. UNCHANGED <<owner, count, waiters, wakeup>> /\ n \in Nat
  BY StackIndex DEF Import
<1>2. /\ Len(stack'[t]) = n + 1
      /\ \A u \in Thread \ {t} : stack'[u] = stack[u]
      /\ \A i \in 1 .. n : stack'[t][i] = stack[t][i]
      /\ stack'[t][n + 1] = f
  BY EnteredFrame, Push DEF Import
<1>3. ASSUME NEW u \in Thread, NEW i \in 1 .. Len(stack'[u]), stack'[u][i].at # "enter"
      PROVE  i \in 1 .. Len(stack[u]) /\ stack'[u][i] = stack[u][i]
  BY <1>1, <1>2, <1>3
<1>4. ASSUME NEW u \in Thread, NEW i \in 1 .. Len(stack[u])
      PROVE  i \in 1 .. Len(stack'[u]) /\ stack'[u][i] = stack[u][i]
  BY <1>1, <1>2
<1>5. Searching' /\ WokenAlone'
  BY <1>1, <1>3, SMTT(30) DEF WakeInv, Searching, WokenAlone
<1>6. OneWoken'
  <2> SUFFICES ASSUME NEW u \in Thread, NEW v \in Thread,
                      NEW i \in 1 .. Len(stack'[u]), NEW j \in 1 .. Len(stack'[v]),
                      stack'[u][i].at = "woken", stack'[v][j].at = "woken",
                      stack'[u][i].lock = stack'[v][j].lock
               PROVE  u = v /\ i = j
    BY DEF OneWoken
  <2>1. /\ i \in 1 .. Len(stack[u]) /\ stack'[u][i] = stack[u][i]
        /\ j \in 1 .. Len(stack[v]) /\ stack'[v][j] = stack[v][j]
    BY <1>3
  <2> QED
    BY <2>1 DEF WakeInv, OneWoken
<1>7. WaitersTaken'
  BY <1>1 DEF WakeInv, WaitersTaken
<1>8. NoLostWakeup'
  BY <1>1, <1>4 DEF WakeInv, NoLostWakeup
<1> QED
  BY <1>5, <1>6, <1>7, <1>8 DEF WakeInv

LEMMA WakeInit == Init => WakeInv
<1> SUFFICES ASSUME Init PROVE WakeInv
  OBVIOUS
<1>1. \A t \in Thread : 1 .. Len(stack[t]) = {}
  BY DEF Init
<1>2. \A l \in Lock : wakeup[l] = FALSE /\ waiters[l] = 0
  BY DEF Init
<1> QED
  BY <1>1, <1>2 DEF WakeInv, Searching, OneWoken, WokenAlone, WaitersTaken, NoLostWakeup

LEMMA WakeStep == IInv /\ [Next]_vars => WakeInv'
<1> SUFFICES ASSUME IInv, [Next]_vars PROVE WakeInv'
  OBVIOUS
<1>0. TypeOK /\ OwnerInv /\ WakeInv
  BY DEF IInv
<1>1. ASSUME NEW t \in Thread, Enter(t) PROVE WakeInv'
  <2>1. /\ Moved(t, "enter", {"try"}) /\ stack[t] # <<>>
        /\ UNCHANGED <<owner, count, waiters, wakeup>>
    BY <1>0, <1>1, Moves DEF Enter, At
  <2> QED
    BY <1>0, <2>1, TopIndex, WakeKept
<1>2. ASSUME NEW t \in Thread, Leave(t) PROVE WakeInv'
  <2>1. /\ Moved(t, "leave", {"held"}) /\ stack[t] # <<>>
        /\ UNCHANGED <<owner, count, waiters, wakeup>>
    BY <1>0, <1>2, Moves DEF Leave, At
  <2> QED
    BY <1>0, <2>1, TopIndex, WakeKept
<1>3. ASSUME NEW t \in Thread, Fail(t) PROVE WakeInv'
  BY <1>0, <1>3, FailWakes
<1>4. ASSUME NEW t \in Thread, Take(t) PROVE WakeInv'
  BY <1>0, <1>4, TakeWakes
<1>5. ASSUME NEW t \in Thread, Look(t) PROVE WakeInv'
  BY <1>0, <1>5, LookWakes
<1>6. ASSUME NEW t \in Thread, Visit(t) PROVE WakeInv'
  <2>1. /\ Moved(t, "search", {"search", "failed"}) /\ stack[t] # <<>>
        /\ UNCHANGED <<owner, count, waiters, wakeup>>
    BY <1>0, <1>6, Moves DEF Visit, At
  <2> QED
    BY <1>0, <2>1, TopIndex, WakeKept
<1>7. ASSUME NEW t \in Thread, Queue(t) PROVE WakeInv'
  BY <1>0, <1>7, QueueWakes
<1>8. ASSUME NEW t \in Thread, Wake(t) PROVE WakeInv'
  BY <1>0, <1>8, WakeWakes
<1>9. ASSUME NEW t \in Thread, Retry(t) PROVE WakeInv'
  BY <1>0, <1>9, RetryWakes
<1>10. ASSUME NEW t \in Thread, Release(t) PROVE WakeInv'
  BY <1>0, <1>10, ReleaseWakes
<1>11. ASSUME NEW t \in Thread, NEW l \in Lock, Import(t, l) PROVE WakeInv'
  BY <1>0, <1>11, ImportWakes
<1>12. CASE UNCHANGED vars
  BY <1>0, <1>12 DEF vars, WakeInv, Searching, OneWoken, WokenAlone, WaitersTaken, NoLostWakeup
<1> QED
  BY <1>1, <1>2, <1>3, <1>4, <1>5, <1>6, <1>7, <1>8, <1>9, <1>10, <1>11, <1>12 DEF Next
-----------------------------------------------------------------------------
(* The searches.                                                           *)

LEMMA SoughtGoto ==
  ASSUME TypeOK, NotSought, NEW t \in Thread, stack[t] # <<>>, NEW f \in Frame, Goto(t, f),
         f.at = "search" => Clear(t, f.todo)
  PROVE  NotSought'
<1> DEFINE n == Len(stack[t])
<1>1. /\ \A u \in Thread : /\ Len(stack'[u]) = Len(stack[u])
                           /\ \A i \in 1 .. Len(stack[u]) :
                                u # t \/ i # n => stack'[u][i] = stack[u][i]
      /\ stack'[t][n] = f
  BY GotoFrames
<1>2. ASSUME NEW u \in Thread, NEW i \in 1 .. Len(stack'[u]), stack'[u][i].at = "search"
      PROVE  Clear(u, stack'[u][i].todo)
  <2>1. i \in 1 .. Len(stack[u])
    BY <1>1
  <2>2. CASE u = t /\ i = n
    BY <1>1, <1>2, <2>2
  <2>3. CASE u # t \/ i # n
    <3>1. stack'[u][i] = stack[u][i]
      BY <1>1, <2>1, <2>3
    <3> QED
      BY <1>2, <2>1, <3>1 DEF NotSought
  <2> QED
    BY <2>2, <2>3
<1> QED
  BY <1>2 DEF NotSought, Clear

LEMMA SoughtStep ==
  ASSUME TypeOK, NotSought, NEW t \in Thread, NEW from, At(t, from),
         NEW a \in Label \ {"search"}, Step(t, a)
  PROVE  NotSought'
<1>1. stack[t] # <<>>
  BY DEF At
<1>2. Top(t) \in Frame
  BY <1>1, TopFrame
<1> QED
  BY <1>1, <1>2, LabelledFrame, SoughtGoto DEF Step

LEMMA SoughtReturn ==
  ASSUME TypeOK, NotSought, NEW t \in Thread, stack[t] # <<>>, Return(t)
  PROVE  NotSought'
<1>1. Len(stack[t]) \in Nat \ {0}
  BY TopFrame
<1>2. /\ Len(stack'[t]) = Len(stack[t]) - 1 /\ \A u \in Thread \ {t} : stack'[u] = stack[u]
      /\ \A i \in 1 .. Len(stack[t]) - 1 : stack'[t][i] = stack[t][i]
  BY Pop
<1>3. ASSUME NEW u \in Thread, NEW i \in 1 .. Len(stack'[u])
      PROVE  i \in 1 .. Len(stack[u]) /\ stack'[u][i] = stack[u][i]
  BY <1>1, <1>2
<1>4. ASSUME NEW u \in Thread, NEW i \in 1 .. Len(stack'[u]), stack'[u][i].at = "search"
      PROVE  Clear(u, stack'[u][i].todo)
  BY <1>3, <1>4 DEF NotSought
<1> QED
  BY <1>4 DEF NotSought, Clear

(* An import begins. *)
LEMMA Imported ==
  ASSUME TypeOK, NEW t \in Thread, NEW l \in Lock, Import(t, l)
  PROVE  /\ Len(stack'[t]) = Len(stack[t]) + 1
         /\ \A u \in Thread \ {t} : stack'[u] = stack[u]
         /\ \A i \in 1 .. Len(stack[t]) : stack'[t][i] = stack[t][i]
         /\ stack'[t][Len(stack[t]) + 1].at = "enter"
<1> DEFINE f == [lock |-> l, at |-> "enter", seen |-> {}, todo |-> <<>>]
<1>1. /\ Len(stack'[t]) = Len(stack[t]) + 1
      /\ \A u \in Thread \ {t} : stack'[u] = stack[u]
      /\ \A i \in 1 .. Len(stack[t]) : stack'[t][i] = stack[t][i]
      /\ stack'[t][Len(stack[t]) + 1] = f
  BY EnteredFrame, Push DEF Import
<1> QED
  BY <1>1

LEMMA SoughtInitStep == (Init => NotSought) /\ (IInv /\ [Next]_vars => NotSought')
<1>1. ASSUME Init PROVE NotSought
  <2>1. \A t \in Thread : 1 .. Len(stack[t]) = {}
    BY <1>1 DEF Init
  <2> QED
    BY <2>1 DEF NotSought
<1>2. ASSUME IInv, [Next]_vars PROVE NotSought'
  <2>0. TypeOK /\ NotSought
    BY <1>2 DEF IInv
  <2>a. {"try", "held", "leave", "woken"} \subseteq Label \ {"search"}
    BY DEF Label
  <2>1. ASSUME NEW t \in Thread, Enter(t) \/ Leave(t) \/ Take(t) \/ Wake(t) \/ Retry(t)
        PROVE  NotSought'
    <3>1. PICK from \in Label, a \in Label \ {"search"} : At(t, from) /\ Step(t, a)
      BY <2>1, <2>a DEF Enter, Leave, Take, Wake, Retry, Label
    <3> QED
      BY <2>0, <3>1, SoughtStep
  <2>2. ASSUME NEW t \in Thread, Look(t) PROVE NotSought'
    <3> DEFINE l == Top(t).lock
               f == [Top(t) EXCEPT !.at = "search", !.todo = <<<<owner[l]>>>>]
    <3>1. stack[t] # <<>> /\ Goto(t, f) /\ ~Free(t, l)
      BY <2>2 DEF Look, At
    <3>2. Top(t) \in Frame /\ l \in Lock
      BY <2>0, <3>1, TopFrame
    <3>3. owner[l] \in Thread \cup {NoThread} /\ owner[l] # t
      BY <2>0, <3>1, <3>2 DEF TypeOK, Free
    <3>4. <<<<owner[l]>>>> \in Seq(Seq(Thread \cup {NoThread}))
      BY <3>3
    <3>5. f \in Frame /\ f.todo = <<<<owner[l]>>>>
      BY <3>2, <3>4 DEF Frame, Label
    <3>6. Clear(t, <<<<owner[l]>>>>)
      BY <3>3 DEF Clear
    <3> HIDE DEF f
    <3> QED
      BY <2>0, <3>1, <3>5, <3>6, SoughtGoto
  <2>3. ASSUME NEW t \in Thread, Visit(t) PROVE NotSought'
    <3>1. PICK f \in Frame : Visited(t, f)
      BY <2>0, <2>3, VisitFrame
    <3>2. stack[t] # <<>> /\ Top(t).at = "search"
      BY <2>3 DEF Visit, At
    <3>3. Clear(t, Top(t).todo)
      BY <2>0, <3>2, TopIndex DEF NotSought
    <3> QED
      BY <2>0, <3>1, <3>2, <3>3, SoughtGoto DEF Visited
  <2>4. ASSUME NEW t \in Thread, Queue(t) PROVE NotSought'
    <3> DEFINE f == [Top(t) EXCEPT !.at = "wait", !.seen = {}]
    <3>1. stack[t] # <<>> /\ Goto(t, f)
      BY <2>4 DEF Queue, At
    <3>2. Top(t) \in Frame
      BY <2>0, <3>1, TopFrame
    <3>3. f \in Frame /\ f.at = "wait"
      BY <3>2 DEF Frame, Label
    <3> HIDE DEF f
    <3> QED
      BY <2>0, <3>1, <3>3, SoughtGoto
  <2>5. ASSUME NEW t \in Thread, Fail(t) \/ Release(t) PROVE NotSought'
    BY <2>0, <2>5, SoughtReturn DEF Fail, Release, At
  <2>6. ASSUME NEW t \in Thread, NEW l \in Lock, Import(t, l) PROVE NotSought'
    <3>1. Len(stack[t]) \in Nat
      BY <2>0, StackIndex
    <3>2. /\ Len(stack'[t]) = Len(stack[t]) + 1
          /\ \A u \in Thread \ {t} : stack'[u] = stack[u]
          /\ \A i \in 1 .. Len(stack[t]) : stack'[t][i] = stack[t][i]
          /\ stack'[t][Len(stack[t]) + 1].at = "enter"
      BY <2>0, <2>6, Imported
    <3>3. ASSUME NEW u \in Thread, NEW i \in 1 .. Len(stack'[u]), stack'[u][i].at = "search"
          PROVE  i \in 1 .. Len(stack[u]) /\ stack'[u][i] = stack[u][i]
      BY <3>1, <3>2, <3>3
    <3>4. ASSUME NEW u \in Thread, NEW i \in 1 .. Len(stack'[u]), stack'[u][i].at = "search"
          PROVE  Clear(u, stack'[u][i].todo)
      BY <2>0, <3>3, <3>4 DEF NotSought
    <3> QED
      BY <3>4 DEF NotSought, Clear
  <2>7. CASE UNCHANGED vars
    <3>1. stack' = stack
      BY <2>7 DEF vars
    <3>2. ASSUME NEW u \in Thread, NEW i \in 1 .. Len(stack'[u]), stack'[u][i].at = "search"
          PROVE  Clear(u, stack'[u][i].todo)
      BY <2>0, <3>1, <3>2 DEF NotSought
    <3> QED
      BY <3>2 DEF NotSought, Clear
  <2> QED
    BY <1>2, <2>1, <2>2, <2>3, <2>4, <2>5, <2>6, <2>7 DEF Next
<1> QED
  BY <1>1, <1>2

(* A step at which t gives up is a turn of its search that met t.          *)
LEMMA AlarmStep ==
  ASSUME IInv, [Next]_vars, NEW t \in Thread, At(t, "search"), At(t, "failed")'
  PROVE  \E u \in Thread \ {t} : t \in ToSet(Edges(u))
<1>0. TypeOK /\ NotSought
  BY DEF IInv
<1>1. stack[t] # <<>> /\ Top(t).at = "search"
  BY DEF At
<1>2. stack'[t] # <<>> /\ stack'[t][Len(stack'[t])].at = "failed"
  BY DEF At, Top, Last
<1>3. stack'[t] # stack[t]
  BY <1>1, <1>2 DEF Top, Last
<1>4. ASSUME NEW f \in Frame, Goto(t, f) PROVE f.at = "failed"
  BY <1>0, <1>1, <1>2, <1>4, GotoFrames
<1>5. ASSUME NEW v \in Thread, NEW l \in Lock, Import(v, l) PROVE FALSE
  <2>1. CASE v = t
    <3>1. Len(stack'[t]) = Len(stack[t]) + 1 /\ stack'[t][Len(stack[t]) + 1].at = "enter"
      BY <1>0, <1>5, <2>1, Imported
    <3> QED
      BY <1>2, <3>1
  <2>2. CASE v # t
    BY <1>0, <1>3, <1>5, <2>2 DEF Import, TypeOK
  <2> QED
    BY <2>1, <2>2
<1>6. ASSUME NEW v \in Thread \ {t}, NEW f, Goto(v, f) \/ Return(v) PROVE FALSE
  BY <1>0, <1>3, <1>6 DEF Goto, Return, TypeOK
<1>7. PICK v \in Thread :
        \/ Enter(v) \/ Leave(v) \/ Fail(v) \/ Take(v) \/ Look(v) \/ Visit(v) \/ Queue(v)
        \/ Wake(v) \/ Retry(v) \/ Release(v)
  <2>1. ~UNCHANGED vars
    BY <1>3 DEF vars
  <2> QED
    BY <1>5, <2>1 DEF Next
<1>8. v = t
  <2>1. ASSUME v # t PROVE FALSE
    <3>1. CASE Fail(v) \/ Release(v)
      BY <1>6, <2>1, <3>1 DEF Fail, Release
    <3>2. CASE Enter(v) \/ Leave(v) \/ Take(v) \/ Wake(v) \/ Retry(v)
      BY <1>6, <2>1, <3>2 DEF Enter, Leave, Take, Wake, Retry, Step
    <3>3. CASE Look(v) \/ Queue(v)
      BY <1>6, <2>1, <3>3 DEF Look, Queue
    <3>4. CASE Visit(v)
      <4>1. PICK f \in Frame : Visited(v, f)
        BY <1>0, <3>4, VisitFrame
      <4> QED
        BY <1>6, <2>1, <4>1 DEF Visited
    <3> QED
      BY <1>7, <3>1, <3>2, <3>3, <3>4
  <2> QED
    BY <2>1
<1>9. Visit(t) \/ Queue(t)
  BY <1>1, <1>7, <1>8 DEF Enter, Leave, Fail, Take, Look, Wake, Retry, Release, At
<1>10. ~Queue(t)
  <2> SUFFICES ASSUME Queue(t) PROVE FALSE
    OBVIOUS
  <2> DEFINE f == [Top(t) EXCEPT !.at = "wait", !.seen = {}]
  <2>1. Goto(t, f) /\ Top(t) \in Frame
    BY <1>0, <1>1, TopFrame DEF Queue
  <2>2. f \in Frame /\ f.at = "wait"
    BY <2>1 DEF Frame, Label
  <2> HIDE DEF f
  <2> QED
    BY <1>4, <2>1, <2>2
<1>11. PICK f \in Frame : Visited(t, f)
  BY <1>0, <1>9, <1>10, VisitFrame
<1>12. f.at = "failed"
  BY <1>4, <1>11 DEF Visited
<1>13. Clear(t, Top(t).todo)
  BY <1>0, <1>1, TopIndex DEF NotSought
<1> QED
  BY <1>11, <1>12, <1>13 DEF Visited
-----------------------------------------------------------------------------
(* The inductive invariant holds of every reachable state. *)
THEOREM Invariance == Spec => []IInv
<1>1. Init => IInv
  BY TypeInit, OwnerInit, WakeInit, SoughtInitStep DEF IInv
<1>2. IInv /\ [Next]_vars => IInv'
  BY TypeStep, OwnerStep, WakeStep, SoughtInitStep DEF IInv
<1> QED
  BY <1>1, <1>2, PTL DEF Spec

(* The variables keep their types; in particular, at most one waiter is    *)
(* ever counted.                                                           *)
THEOREM TypeCorrect == Spec => []TypeOK
<1>1. IInv => TypeOK
  BY DEF IInv
<1> QED
  BY <1>1, Invariance, PTL

(* A module is imported by one thread at a time, and count says how often  *)
(* its owner has the lock.                                                 *)
THEOREM OneImporter == Spec => []Ownership
<1>1. IInv => Ownership
  BY DEF IInv, OwnerInv
<1> QED
  BY <1>1, Invariance, PTL

(* Whoever blocks on wakeup has somebody who will release it.              *)
THEOREM WakeupsKept == Spec => []NoLostWakeup
<1>1. IInv => NoLostWakeup
  BY DEF IInv, WakeInv
<1> QED
  BY <1>1, Invariance, PTL

(* A _DeadlockError goes only to a thread that has a module lock another   *)
(* thread is acquiring.                                                    *)
THEOREM AlarmJustified == Spec => AlarmNeedsLock
<1>1. IInv /\ [Next]_vars =>
        [\A t \in Thread : At(t, "search") /\ At(t, "failed")' =>
           \E u \in Thread \ {t} : t \in ToSet(Edges(u))]_vars
  BY AlarmStep
<1> QED
  BY <1>1, Invariance, PTL DEF Spec, AlarmNeedsLock
-----------------------------------------------------------------------------
(***************************************************************************)
(* Circles.  Where no import begins while its thread has an entry in       *)
(* _blocking_on, each thread has one edge at most, and a search is a walk. *)
(***************************************************************************)
Busy == {"try", "search", "wait", "woken", "leave", "failed"}

(* What a thread is acquiring is the lock of its innermost frame.          *)
Entry(t) ==
  /\ \A i \in 1 .. Len(stack[t]) :
       /\ i # Len(stack[t]) => stack[t][i].at \in {"held", "enter"}
       /\ stack[t][i].at # "search" => stack[t][i].seen = {}
  /\ blocking_on[t] = IF stack[t] # <<>> /\ Top(t).at \in Busy THEN <<Top(t).lock>> ELSE <<>>

OneEntry == \A t \in Thread : Entry(t)

Active == {t \in Thread : stack[t] # <<>>}

Blocked(t) == stack[t] # <<>> /\ Top(t).at \in {"try", "search", "wait", "woken"}
Awaited(t) == owner[Top(t).lock]

(* Nobody in S gets on without another of S.  A circle is a least such set. *)
Leads(S)  == \A t \in S : Blocked(t) /\ Awaited(t) \in S \ {t}
Circle(S) == S # {} /\ Leads(S) /\ \A T \in (SUBSET S) \ {{}} : Leads(T) => T = S

(* The search of t has gone along the circle, and not yet all the way.     *)
OnTrack(t, S) ==
  /\ Top(t).at = "search" /\ Top(t).todo # <<>>
  /\ \E v \in S : /\ Last(Top(t).todo) = <<v>>
                  /\ v \notin Top(t).seen /\ t \notin Top(t).seen
                  /\ \A x \in (Top(t).seen \cap S) \cup {t} : Awaited(x) \in Top(t).seen \cup {v}

(* One thread of each circle is still to find it.                          *)
Unfinished(t, S) == Top(t).at \in {"try", "woken"} \/ OnTrack(t, S)

CirclesInv == \A S \in SUBSET Thread : Circle(S) => \E t \in S : Unfinished(t, S)

CInv == OneEntry /\ IsFiniteSet(Active) /\ CirclesInv

LEMMA GotoTop ==
  ASSUME TypeOK, NEW t \in Thread, stack[t] # <<>>, NEW f \in Frame, Goto(t, f)
  PROVE  /\ Len(stack'[t]) = Len(stack[t]) /\ stack'[t] # <<>> /\ Top(t)' = f
         /\ \A i \in 1 .. Len(stack[t]) : i # Len(stack[t]) => stack'[t][i] = stack[t][i]
         /\ stack'[t][Len(stack[t])] = f
         /\ \A u \in Thread \ {t} : stack'[u] = stack[u]
<1>1. /\ stack' \in [Thread -> Seq(Frame)] /\ Len(stack'[t]) = Len(stack[t])
      /\ \A i \in 1 .. Len(stack[t]) : i # Len(stack[t]) => stack'[t][i] = stack[t][i]
      /\ stack'[t][Len(stack[t])] = f
  BY GotoFrames
<1>2. \A u \in Thread \ {t} : stack'[u] = stack[u]
  BY DEF Goto, TypeOK
<1>3. Len(stack[t]) \in Nat \ {0}
  BY TopFrame
<1>4. stack'[t] # <<>>
  BY <1>1, <1>3, EmptySeq
<1> QED
  BY <1>1, <1>2, <1>4 DEF Top, Last

(* The one entry is kept.                                                  *)
LEMMA EntryGoto ==
  ASSUME TypeOK, OneEntry, NEW t \in Thread, stack[t] # <<>>, NEW f \in Frame, Goto(t, f),
         f.at # "search" => f.seen = {},
         blocking_on'[t] = IF f.at \in Busy THEN <<f.lock>> ELSE <<>>,
         \A u \in Thread \ {t} : blocking_on'[u] = blocking_on[u]
  PROVE  OneEntry' /\ Active' = Active
<1>1. /\ Len(stack'[t]) = Len(stack[t]) /\ stack'[t] # <<>> /\ Top(t)' = f
      /\ \A i \in 1 .. Len(stack[t]) : i # Len(stack[t]) => stack'[t][i] = stack[t][i]
      /\ stack'[t][Len(stack[t])] = f
      /\ \A u \in Thread \ {t} : stack'[u] = stack[u]
  BY GotoTop
<1>2. Active' = Active
  BY <1>1 DEF Active
<1>3. ASSUME NEW u \in Thread
      PROVE  Entry(u)'
  <2>1. CASE u = t
    <3>1. ASSUME NEW i \in 1 .. Len(stack'[u])
          PROVE  /\ i # Len(stack'[u]) => stack'[u][i].at \in {"held", "enter"}
                 /\ stack'[u][i].at # "search" => stack'[u][i].seen = {}
      <4>1. CASE i = Len(stack[t])
        BY <1>1, <2>1, <4>1
      <4>2. CASE i # Len(stack[t])
        <5>1. i \in 1 .. Len(stack[t]) /\ stack'[u][i] = stack[t][i]
          BY <1>1, <2>1, <4>2
        <5> QED BY <2>1, <4>2, <5>1 DEF OneEntry, Entry
      <4> QED BY <4>1, <4>2
    <3> QED BY <1>1, <2>1, <3>1 DEF Entry
  <2>2. CASE u # t
    <3>1. stack'[u] = stack[u] /\ Top(u)' = Top(u) /\ blocking_on'[u] = blocking_on[u]
      BY <1>1, <2>2 DEF Top, Last
    <3> QED BY <3>1 DEF OneEntry, Entry
  <2> QED BY <2>1, <2>2
<1> QED
  BY <1>2, <1>3 DEF OneEntry

LEMMA EntryReturn ==
  ASSUME TypeOK, OneEntry, NEW t \in Thread, stack[t] # <<>>, Return(t),
         blocking_on'[t] = <<>>, \A u \in Thread \ {t} : blocking_on'[u] = blocking_on[u]
  PROVE  OneEntry' /\ Active' \subseteq Active /\ ~Blocked(t)'
<1>1. /\ stack' \in [Thread -> Seq(Frame)] /\ Len(stack'[t]) = Len(stack[t]) - 1
      /\ \A u \in Thread \ {t} : stack'[u] = stack[u]
      /\ \A i \in 1 .. Len(stack[t]) - 1 : stack'[t][i] = stack[t][i]
  BY Pop
<1>2. Len(stack[t]) \in Nat \ {0}
  BY TopFrame
<1>3. \A i \in 1 .. Len(stack'[t]) : /\ i \in 1 .. Len(stack[t]) /\ i # Len(stack[t])
                                     /\ stack'[t][i] = stack[t][i]
  BY <1>1, <1>2
<1>4. \A i \in 1 .. Len(stack'[t]) : stack'[t][i].at \in {"held", "enter"}
  BY <1>3 DEF OneEntry, Entry
<1>5. stack'[t] # <<>> => Top(t)'.at \in {"held", "enter"}
  <2>1. stack'[t] # <<>> => Len(stack'[t]) \in 1 .. Len(stack'[t])
    BY <1>1, <1>2, EmptySeq
  <2> QED BY <1>4, <2>1 DEF Top, Last
<1>6. ASSUME NEW u \in Thread
      PROVE  Entry(u)'
  <2>1. CASE u = t
    <3>1. \A i \in 1 .. Len(stack'[u]) : stack'[u][i].at # "search" => stack'[u][i].seen = {}
      BY <1>3, <2>1 DEF OneEntry, Entry
    <3>2. ~(stack'[u] # <<>> /\ Top(u)'.at \in Busy)
      BY <1>5, <2>1 DEF Busy
    <3> QED BY <1>4, <2>1, <3>1, <3>2 DEF Entry
  <2>2. CASE u # t
    <3>1. stack'[u] = stack[u] /\ Top(u)' = Top(u) /\ blocking_on'[u] = blocking_on[u]
      BY <1>1, <2>2 DEF Top, Last
    <3> QED BY <3>1 DEF OneEntry, Entry
  <2> QED BY <2>1, <2>2
<1>7. OneEntry'
  BY <1>6 DEF OneEntry
<1>8. Active' \subseteq Active
  BY <1>1 DEF Active
<1> QED
  BY <1>5, <1>7, <1>8 DEF Blocked

LEMMA EntryImport ==
  ASSUME TypeOK, OneEntry, Interrupts \subseteq {"enter", "held"},
         NEW t \in Thread, NEW l \in Lock, Import(t, l)
  PROVE  /\ OneEntry' /\ Active' \subseteq Active \cup {t} /\ ~Blocked(t)'
         /\ \A u \in Thread \ {t} : stack'[u] = stack[u]
<1> DEFINE f == [lock |-> l, at |-> "enter", seen |-> {}, todo |-> <<>>]
<1>1. /\ Len(stack'[t]) = Len(stack[t]) + 1 /\ Len(stack[t]) \in Nat
      /\ \A u \in Thread \ {t} : stack'[u] = stack[u]
      /\ \A i \in 1 .. Len(stack[t]) : stack'[t][i] = stack[t][i]
      /\ stack'[t][Len(stack[t]) + 1] = f
  BY EnteredFrame, Push, StackIndex DEF Import
<1>2. /\ stack[t] # <<>> => Top(t).at \in {"held", "enter"}
      /\ UNCHANGED blocking_on
  BY DEF Import
<1>3. Top(t)' = f
  BY <1>1 DEF Top, Last
<1>4. blocking_on'[t] = <<>>
  BY <1>2 DEF OneEntry, Entry, Busy
<1>5. \A i \in 1 .. Len(stack[t]) :
        /\ stack'[t][i].at \in {"held", "enter"}
        /\ stack'[t][i].at # "search" => stack'[t][i].seen = {}
  <2>1. \A i \in 1 .. Len(stack[t]) : i = Len(stack[t]) => stack[t][i].at \in {"held", "enter"}
    <3>1. 1 .. Len(stack[t]) # {} => stack[t] # <<>>
      BY EmptySeq
    <3> QED BY <1>2, <3>1 DEF Top, Last
  <2> QED BY <1>1, <2>1 DEF OneEntry, Entry
<1>6. ASSUME NEW u \in Thread
      PROVE  Entry(u)'
  <2>1. CASE u = t
    <3>1. \A i \in 1 .. Len(stack'[u]) : i \in 1 .. Len(stack[t]) \/ i = Len(stack[t]) + 1
      BY <1>1, <2>1
    <3>2. \A i \in 1 .. Len(stack'[u]) :
            /\ i # Len(stack'[u]) => stack'[u][i].at \in {"held", "enter"}
            /\ stack'[u][i].at # "search" => stack'[u][i].seen = {}
      BY <1>1, <1>5, <2>1, <3>1
    <3>3. Top(u)'.at \notin Busy
      BY <1>3, <2>1 DEF Busy
    <3> QED BY <1>4, <2>1, <3>2, <3>3 DEF Entry
  <2>2. CASE u # t
    <3>1. stack'[u] = stack[u] /\ Top(u)' = Top(u) /\ blocking_on'[u] = blocking_on[u]
      BY <1>1, <1>2, <2>2 DEF Top, Last
    <3> QED BY <3>1 DEF OneEntry, Entry
  <2> QED BY <2>1, <2>2
<1>7. OneEntry'
  BY <1>6 DEF OneEntry
<1>8. Active' \subseteq Active \cup {t} /\ ~Blocked(t)'
  BY <1>1, <1>3 DEF Active, Blocked
<1> QED
  BY <1>1, <1>7, <1>8

(* A circle that there was before is followed on.                          *)
LEMMA CircleKept ==
  ASSUME NEW S \in SUBSET Thread, Circle(S)',
         \A x \in S : Blocked(x) /\ Awaited(x)' = Awaited(x)
  PROVE  Circle(S)
<1>1. S # {} /\ Leads(S)' /\ \A T \in (SUBSET S) \ {{}} : Leads(T)' => T = S
  BY DEF Circle
<1>2. \A x \in S : Blocked(x)'
  BY <1>1 DEF Leads
<1>3. ASSUME NEW T \in SUBSET S PROVE Leads(T)' <=> Leads(T)
  BY <1>2 DEF Leads
<1> QED
  BY <1>1, <1>3 DEF Circle

(* A step of p leaves somebody to find the circle S.                       *)
Found(S) == \E t \in S : Unfinished(t, S)

LEMMA StillFound ==
  ASSUME CirclesInv, NEW S \in SUBSET Thread, Circle(S)', NEW p \in Thread,
         \A u \in Thread \ {p} : stack'[u] = stack[u],
         \A x \in S : Blocked(x) /\ Awaited(x)' = Awaited(x),
         p \in S /\ Circle(S) /\ Unfinished(p, S) => Unfinished(p, S)'
  PROVE  Found(S)'
<1>1. Circle(S)
  BY CircleKept
<1>2. PICK u \in S : Unfinished(u, S)
  BY <1>1 DEF CirclesInv
<1>3. CASE u = p
  BY <1>1, <1>2, <1>3 DEF Found
<1>4. CASE u # p
  <2>1. stack'[u] = stack[u] /\ Top(u)' = Top(u)
    BY <1>4 DEF Top, Last
  <2>2. OnTrack(u, S) => OnTrack(u, S)'
    BY <2>1 DEF OnTrack
  <2> QED BY <1>2, <2>1, <2>2 DEF Unfinished, Found
<1> QED
  BY <1>3, <1>4

(* A step after which p waits for nobody.                                  *)
LEMMA OutsideStep ==
  ASSUME TypeOK, CirclesInv, NEW p \in Thread, ~Blocked(p)',
         \A u \in Thread \ {p} : stack'[u] = stack[u],
         \A l \in Lock : owner'[l] \in {owner[l], NoThread, p}
  PROVE  CirclesInv'
<1> SUFFICES ASSUME NEW S \in SUBSET Thread, Circle(S)' PROVE Found(S)'
  BY DEF CirclesInv, Found
<1>1. \A x \in S : Blocked(x)' /\ Awaited(x)' \in S
  BY DEF Circle, Leads
<1>2. p \notin S
  BY <1>1
<1>3. ASSUME NEW x \in S PROVE Blocked(x) /\ Awaited(x)' = Awaited(x)
  <2>1. stack'[x] = stack[x] /\ Top(x)' = Top(x)
    BY <1>2 DEF Top, Last
  <2>2. Blocked(x)
    BY <1>1, <2>1 DEF Blocked
  <2>3. Top(x).lock \in Lock
    BY <2>2, TopFrame DEF Blocked
  <2>4. Awaited(x)' = owner'[Top(x).lock]
    BY <2>1 DEF Awaited
  <2>5. Awaited(x)' # p /\ Awaited(x)' # NoThread
    BY <1>1, <1>2, ModuleLockAssumption
  <2> QED BY <2>2, <2>3, <2>4, <2>5 DEF Awaited
<1> QED
  BY <1>2, <1>3, StillFound

(* A step of the acquire of p.                                             *)
LEMMA InsideStep ==
  ASSUME CirclesInv, NEW p \in Thread, UNCHANGED owner,
         \A u \in Thread \ {p} : stack'[u] = stack[u],
         \A S \in SUBSET Thread : p \in S /\ Circle(S)' =>
           \/ Unfinished(p, S)'
           \/ /\ Blocked(p) /\ Awaited(p)' = Awaited(p)
              /\ Circle(S) /\ Unfinished(p, S) => Unfinished(p, S)'
  PROVE  CirclesInv'
<1> SUFFICES ASSUME NEW S \in SUBSET Thread, Circle(S)' PROVE Found(S)'
  BY DEF CirclesInv, Found
<1>1. \A x \in S : Blocked(x)'
  BY DEF Circle, Leads
<1>2. ASSUME NEW x \in S \ {p} PROVE Blocked(x) /\ Awaited(x)' = Awaited(x)
  <2>1. stack'[x] = stack[x] /\ Top(x)' = Top(x)
    BY <1>2 DEF Top, Last
  <2> QED BY <1>1, <2>1 DEF Blocked, Awaited
<1>3. CASE p \notin S
  BY <1>2, <1>3, StillFound
<1>4. CASE p \in S /\ Unfinished(p, S)'
  BY <1>4 DEF Found
<1>5. CASE p \in S /\ ~Unfinished(p, S)'
  <2>1. Blocked(p) /\ Awaited(p)' = Awaited(p)
    BY <1>5
  <2>2. Circle(S) /\ Unfinished(p, S) => Unfinished(p, S)'
    BY <1>5
  <2>3. \A x \in S : Blocked(x) /\ Awaited(x)' = Awaited(x)
    BY <1>2, <2>1
  <2> QED BY <2>2, <2>3, StillFound
<1> QED
  BY <1>3, <1>4, <1>5

LEMMA AppendLast ==
  ASSUME NEW A, NEW s \in Seq(A), NEW e \in A
  PROVE  Append(s, e) \in Seq(A) /\ Append(s, e) # <<>> /\ Last(Append(s, e)) = e
<1>1. /\ Append(s, e) \in Seq(A) /\ Append(s, e) # <<>>
      /\ Len(Append(s, e)) = Len(s) + 1 /\ Append(s, e)[Len(s) + 1] = e
  BY AppendProperties
<1> QED
  BY <1>1 DEF Last

(* A turn of a search that is on track goes on along the circle, or has    *)
(* found it: a thread seen before would make a smaller circle.             *)
LEMMA VisitOnTrack ==
  ASSUME TypeOK, OneEntry, NotSought, NEW t \in Thread, Visit(t),
         NEW S \in SUBSET Thread, t \in S, Circle(S), OnTrack(t, S),
         NEW g \in Frame, Goto(t, g), g.at = "search"
  PROVE  /\ g.todo # <<>>
         /\ \E w \in S : /\ Last(g.todo) = <<w>> /\ w \notin g.seen /\ t \notin g.seen
                         /\ \A x \in (g.seen \cap S) \cup {t} : Awaited(x) \in g.seen \cup {w}
<1> DEFINE f == Top(t)
           TN == Thread \cup {NoThread}
<1>1. stack[t] # <<>> /\ f.at = "search" /\ f.todo # <<>>
  BY DEF Visit, At
<1>2. f \in Frame /\ f.todo \in Seq(Seq(TN)) /\ f.seen \in SUBSET Thread
  BY <1>1, TopFrame DEF Frame
<1>3. PICK v \in S : /\ Last(f.todo) = <<v>> /\ v \notin f.seen /\ t \notin f.seen
                     /\ \A x \in (f.seen \cap S) \cup {t} : Awaited(x) \in f.seen \cup {v}
  BY DEF OnTrack
<1>4. v # t
  <2>1. Clear(t, f.todo)
    BY <1>1, TopIndex DEF NotSought
  <2>2. \A j \in 1 .. Len(Last(f.todo)) : Last(f.todo)[j] # t
    BY <1>1, <1>2, <2>1, ClearLists
  <2> QED BY <1>3, <2>2
<1>5. Leads(S) /\ \A T \in (SUBSET S) \ {{}} : Leads(T) => T = S
  BY DEF Circle
<1> DEFINE w == Awaited(v)
<1>6. Blocked(v) /\ w \in S \ {v} /\ v \in Thread /\ v # NoThread
  BY <1>5, ModuleLockAssumption DEF Leads
<1>7. blocking_on[v] = <<Top(v).lock>>
  BY <1>6 DEF OneEntry, Entry, Blocked, Busy
<1>8. Edges(v) = <<w>>
  <2>1. DOMAIN blocking_on[v] = 1 .. 1 /\ blocking_on[v][1] = Top(v).lock
    BY <1>7
  <2>2. Edges(v) = [i \in 1 .. 1 |-> w]
    BY <2>1 DEF Edges, Awaited
  <2> QED BY <2>2
<1>9. Head(Last(f.todo)) = v /\ Tail(Last(f.todo)) = <<>> /\ Last(f.todo) # <<>>
  BY <1>3
<1> DEFINE rest == Append(Front(f.todo), <<>>)
           next == [f EXCEPT !.seen = @ \cup {v}, !.todo = Append(rest, <<w>>)]
<1>10. IF Reached(t, <<w>>) THEN Goto(t, Failed(f)) ELSE Goto(t, next)
  <2>1. blocking_on[v] # <<>>
    BY <1>7
  <2> QED BY <1>3, <1>6, <1>8, <1>9, <2>1 DEF Visit
<1>11. rest \in Seq(Seq(TN)) /\ w \in TN
  <2>1. Last(f.todo) \in Seq(TN)
    <3>1. Len(f.todo) \in 1 .. Len(f.todo)
      BY <1>1, <1>2, EmptySeq
    <3> QED BY <1>2, <3>1, ElementOfSeq DEF Last
  <2>2. Front(f.todo) \in Seq(Seq(TN))
    BY <1>1, <1>2, <2>1, ReplaceLast
  <2>3. <<>> \in Seq(TN)
    BY EmptySeq
  <2>4. rest \in Seq(Seq(TN))
    BY <2>2, <2>3, AppendProperties
  <2> QED BY <1>6, <2>4
<1>a. <<w>> \in Seq(TN)
  <2> HIDE DEF w
  <2> QED BY <1>11
<1>b. \A e \in Seq(TN) : /\ Append(rest, e) \in Seq(Seq(TN)) /\ Append(rest, e) # <<>>
                        /\ Last(Append(rest, e)) = e
  <2> HIDE DEF rest, TN
  <2> QED BY <1>11, AppendLast
<1> HIDE DEF f, w, rest
<1>c. /\ Append(rest, <<w>>) \in Seq(Seq(TN)) /\ Append(rest, <<w>>) # <<>>
      /\ Last(Append(rest, <<w>>)) = <<w>>
  <2> DEFINE e == <<w>>
  <2>1. e \in Seq(TN)
    BY <1>a
  <2> HIDE DEF e, TN
  <2>2. /\ Append(rest, e) \in Seq(Seq(TN)) /\ Append(rest, e) # <<>>
        /\ Last(Append(rest, e)) = e
    BY <1>b, <2>1
  <2> QED BY <2>2 DEF e
<1>12. next \in Frame
  <2>1. f.seen \cup {v} \in SUBSET Thread
    BY <1>2, <1>6
  <2> QED BY <1>2, <1>c, <2>1 DEF Frame
<1>13. ~Reached(t, <<w>>) /\ g = next
  <2>1. Failed(f) \in Frame /\ Failed(f).at = "failed"
    <3>1. <<>> \in Seq(Seq(TN))
      BY EmptySeq
    <3> QED BY <1>2, <3>1 DEF Frame, Failed, Label
  <2>2. Top(t)' = g
    BY <1>1, GotoTop
  <2>3. ~Reached(t, <<w>>)
    <3> SUFFICES ASSUME Goto(t, Failed(f)) PROVE FALSE
      BY <1>10
    <3>1. Top(t)' = Failed(f)
      BY <1>1, <2>1, GotoTop
    <3> QED BY <2>1, <2>2, <3>1
  <2>4. Top(t)' = next
    BY <1>1, <1>10, <1>12, <2>3, GotoTop
  <2> QED BY <2>2, <2>3, <2>4
<1>14. w # t
  <2>1. w \in ToSet(<<w>>)
    BY DEF ToSet
  <2> QED BY <1>13, <2>1 DEF Reached
<1>15. w \notin f.seen
  <2> SUFFICES ASSUME w \in f.seen PROVE FALSE
    OBVIOUS
  <2> DEFINE T == (f.seen \cap S) \cup {v}
  <2>1. \A x \in T : Blocked(x) /\ Awaited(x) \in T \ {x}
    BY <1>3, <1>5, <1>6 DEF Leads, w
  <2>2. T \in (SUBSET S) \ {{}} /\ Leads(T)
    BY <2>1 DEF Leads
  <2>3. T = S
    BY <1>5, <2>2
  <2> QED BY <1>3, <1>4, <2>3
<1>16. next.seen = f.seen \cup {v} /\ next.todo = Append(rest, <<w>>)
  BY <1>2 DEF Frame
<1>18. /\ w \in S /\ w \notin f.seen \cup {v} /\ t \notin f.seen \cup {v}
       /\ \A x \in ((f.seen \cup {v}) \cap S) \cup {t} : Awaited(x) \in (f.seen \cup {v}) \cup {w}
  BY <1>3, <1>4, <1>6, <1>15 DEF w
<1> QED
  BY <1>13, <1>16, <1>c, <1>18

(* The entry of a thread is its only one. *)
LEMMA RemoveOnly ==
  ASSUME NEW e
  PROVE  RemoveFirst(<<e>>, e) = <<>>
<1> DEFINE s == <<e>>
           I == {i \in 1 .. Len(s) : s[i] = e}
<1>1. s \in Seq({e}) /\ Len(s) = 1 /\ s[1] = e
  OBVIOUS
<1>2. I = {1}
  BY <1>1
<1>3. Min(I) = 1
  BY <1>2, Least
<1>4. RemoveFirst(s, e) = SubSeq(s, 1, 0) \o SubSeq(s, 2, 1)
  <2>1. RemoveFirst(s, e) = RemoveAt(s, Min(I))
    BY <1>2 DEF RemoveFirst, SelectInSeq
  <2> HIDE DEF I, s
  <2> QED BY <1>1, <1>3, <2>1 DEF RemoveAt
<1>5. SubSeq(s, 1, 0) = <<>> /\ SubSeq(s, 2, 1) = <<>>
  OBVIOUS
<1>6. <<>> \o <<>> = <<>>
  OBVIOUS
<1> QED
  BY <1>4, <1>5, <1>6

(* A step that begins or ends no search. *)
LEMMA EntryStep ==
  ASSUME TypeOK, OneEntry, NEW t \in Thread, NEW a \in Label \ {"search"},
         stack[t] # <<>>, Top(t).at # "search", Step(t, a),
         blocking_on'[t] = IF a \in Busy THEN <<Top(t).lock>> ELSE <<>>,
         \A u \in Thread \ {t} : blocking_on'[u] = blocking_on[u]
  PROVE  /\ OneEntry' /\ Active' = Active /\ Top(t)'.at = a
         /\ \A u \in Thread \ {t} : stack'[u] = stack[u]
<1> DEFINE f == [Top(t) EXCEPT !.at = a]
<1>1. Top(t) \in Frame /\ Len(stack[t]) \in 1 .. Len(stack[t])
      /\ Top(t) = stack[t][Len(stack[t])]
  BY TopFrame
<1>2. f \in Frame /\ f.lock = Top(t).lock /\ f.at = a /\ f.seen = Top(t).seen
  BY <1>1 DEF Frame
<1>3. f.seen = {}
  BY <1>1, <1>2 DEF OneEntry, Entry
<1>4. Goto(t, f)
  BY DEF Step
<1> HIDE DEF f
<1>5. OneEntry' /\ Active' = Active
  BY <1>2, <1>3, <1>4, EntryGoto
<1>6. Top(t)' = f /\ \A u \in Thread \ {t} : stack'[u] = stack[u]
  BY <1>2, <1>4, GotoTop
<1> QED
  BY <1>2, <1>5, <1>6

LEMMA EnterCircles ==
  ASSUME TypeOK, CInv, NEW t \in Thread, Enter(t)
  PROVE  CInv'
<1>0. OneEntry /\ IsFiniteSet(Active) /\ CirclesInv
  BY DEF CInv
<1>1. /\ stack[t] # <<>> /\ Top(t).at = "enter" /\ Step(t, "try") /\ UNCHANGED owner
      /\ blocking_on' = [blocking_on EXCEPT ![t] = Append(@, Top(t).lock)]
  BY DEF Enter, At
<1>2. blocking_on[t] = <<>>
  BY <1>0, <1>1 DEF OneEntry, Entry, Busy
<1>3. /\ blocking_on'[t] = <<Top(t).lock>>
      /\ \A u \in Thread \ {t} : blocking_on'[u] = blocking_on[u]
  BY <1>1, <1>2 DEF TypeOK
<1>4. "try" \in Label \ {"search"} /\ "try" \in Busy
  BY DEF Label, Busy
<1>5. /\ OneEntry' /\ Active' = Active /\ Top(t)'.at = "try"
      /\ \A u \in Thread \ {t} : stack'[u] = stack[u]
  BY <1>0, <1>1, <1>3, <1>4, EntryStep
<1>6. CirclesInv'
  BY <1>0, <1>1, <1>5, InsideStep DEF Unfinished
<1> QED
  BY <1>0, <1>5, <1>6 DEF CInv

LEMMA LeaveCircles ==
  ASSUME TypeOK, CInv, NEW t \in Thread, Leave(t)
  PROVE  CInv'
<1>0. OneEntry /\ IsFiniteSet(Active) /\ CirclesInv
  BY DEF CInv
<1>1. /\ stack[t] # <<>> /\ Top(t).at = "leave" /\ Step(t, "held") /\ UNCHANGED owner
      /\ blocking_on' = [blocking_on EXCEPT ![t] = RemoveFirst(@, Top(t).lock)]
  BY DEF Leave, At
<1>2. blocking_on[t] = <<Top(t).lock>>
  BY <1>0, <1>1 DEF OneEntry, Entry, Busy
<1>3. /\ blocking_on'[t] = <<>>
      /\ \A u \in Thread \ {t} : blocking_on'[u] = blocking_on[u]
  BY <1>1, <1>2, RemoveOnly DEF TypeOK
<1>4. "held" \in Label \ {"search"} /\ "held" \notin Busy
  BY DEF Label, Busy
<1>5. /\ OneEntry' /\ Active' = Active /\ Top(t)'.at = "held"
      /\ \A u \in Thread \ {t} : stack'[u] = stack[u]
  BY <1>0, <1>1, <1>3, <1>4, EntryStep
<1>6. CirclesInv'
  BY <1>0, <1>1, <1>5, OutsideStep DEF Blocked
<1> QED
  BY <1>0, <1>5, <1>6 DEF CInv

LEMMA FailCircles ==
  ASSUME TypeOK, CInv, NEW t \in Thread, Fail(t)
  PROVE  CInv'
<1>0. OneEntry /\ IsFiniteSet(Active) /\ CirclesInv
  BY DEF CInv
<1>1. /\ stack[t] # <<>> /\ Top(t).at = "failed" /\ Return(t) /\ UNCHANGED owner
      /\ blocking_on' = [blocking_on EXCEPT ![t] = RemoveFirst(@, Top(t).lock)]
  BY DEF Fail, At
<1>2. blocking_on[t] = <<Top(t).lock>>
  BY <1>0, <1>1 DEF OneEntry, Entry, Busy
<1>3. /\ blocking_on'[t] = <<>>
      /\ \A u \in Thread \ {t} : blocking_on'[u] = blocking_on[u]
  BY <1>1, <1>2, RemoveOnly DEF TypeOK
<1>4. OneEntry' /\ Active' \subseteq Active /\ ~Blocked(t)'
  BY <1>0, <1>1, <1>3, EntryReturn
<1>5. \A u \in Thread \ {t} : stack'[u] = stack[u]
  BY <1>1, Pop
<1>6. CirclesInv'
  BY <1>0, <1>1, <1>4, <1>5, OutsideStep
<1> QED
  BY <1>0, <1>4, <1>6, FS_Subset DEF CInv

LEMMA TakeCircles ==
  ASSUME TypeOK, CInv, NEW t \in Thread, Take(t)
  PROVE  CInv'
<1>0. OneEntry /\ IsFiniteSet(Active) /\ CirclesInv
  BY DEF CInv
<1>1. /\ stack[t] # <<>> /\ Top(t).at = "try" /\ Step(t, "leave") /\ UNCHANGED blocking_on
      /\ owner' = [owner EXCEPT ![Top(t).lock] = t]
  BY DEF Take, At
<1>2. blocking_on'[t] = <<Top(t).lock>>
  BY <1>0, <1>1 DEF OneEntry, Entry, Busy
<1>3. "leave" \in Label \ {"search"} /\ "leave" \in Busy
  BY DEF Label, Busy
<1>4. /\ OneEntry' /\ Active' = Active /\ Top(t)'.at = "leave"
      /\ \A u \in Thread \ {t} : stack'[u] = stack[u]
  BY <1>0, <1>1, <1>2, <1>3, EntryStep
<1>5. \A l \in Lock : owner'[l] \in {owner[l], NoThread, t}
  BY <1>1 DEF TypeOK
<1>6. CirclesInv'
  BY <1>0, <1>4, <1>5, OutsideStep DEF Blocked
<1> QED
  BY <1>0, <1>4, <1>6 DEF CInv

(* A search begins at the owner.                                           *)
LEMMA LookCircles ==
  ASSUME TypeOK, CInv, NEW t \in Thread, Look(t)
  PROVE  CInv'
<1>0. OneEntry /\ IsFiniteSet(Active) /\ CirclesInv
  BY DEF CInv
<1> DEFINE l == Top(t).lock
           v == owner[l]
           f == [Top(t) EXCEPT !.at = "search", !.todo = <<<<v>>>>]
<1>1. stack[t] # <<>> /\ Top(t).at = "try" /\ Goto(t, f) /\ UNCHANGED <<owner, blocking_on>>
  BY DEF Look, At
<1>2. /\ Top(t) \in Frame /\ l \in Lock /\ Len(stack[t]) \in 1 .. Len(stack[t])
      /\ Top(t) = stack[t][Len(stack[t])]
  BY <1>1, TopFrame
<1>3. v \in Thread \cup {NoThread}
  BY <1>2 DEF TypeOK
<1>4. <<<<v>>>> \in Seq(Seq(Thread \cup {NoThread}))
  BY <1>3
<1>5. Top(t).seen = {} /\ blocking_on[t] = <<l>>
  BY <1>0, <1>1, <1>2 DEF OneEntry, Entry, Busy
<1>6. f \in Frame /\ f.lock = l /\ f.at = "search" /\ f.seen = {} /\ f.todo = <<<<v>>>>
  BY <1>2, <1>4, <1>5 DEF Frame, Label
<1> HIDE DEF f
<1>7. OneEntry' /\ Active' = Active
  BY <1>0, <1>1, <1>5, <1>6, EntryGoto DEF Busy
<1>8. Top(t)' = f /\ \A u \in Thread \ {t} : stack'[u] = stack[u]
  BY <1>1, <1>6, GotoTop
<1>9. Awaited(t)' = v
  BY <1>1, <1>6, <1>8 DEF Awaited
<1>10. ASSUME NEW S \in SUBSET Thread, t \in S, Circle(S)'
       PROVE  Unfinished(t, S)'
  <2>1. v \in S
    BY <1>9, <1>10 DEF Circle, Leads
  <2>2. Top(t)'.at = "search" /\ Top(t)'.todo = <<<<v>>>> /\ Top(t)'.seen = {}
    BY <1>6, <1>8
  <2>3. Top(t)'.todo # <<>> /\ Last(Top(t)'.todo) = <<v>>
    BY <2>2 DEF Last
  <2> HIDE DEF v, l
  <2>4. \A x \in (Top(t)'.seen \cap S) \cup {t} : Awaited(x)' \in Top(t)'.seen \cup {v}
    BY <1>9, <2>2
  <2> QED
    BY <2>1, <2>2, <2>3, <2>4 DEF Unfinished, OnTrack
<1>11. CirclesInv'
  BY <1>0, <1>1, <1>8, <1>10, InsideStep
<1> QED
  BY <1>0, <1>7, <1>11 DEF CInv

LEMMA VisitCircles ==
  ASSUME TypeOK, CInv, NotSought, NEW t \in Thread, Visit(t)
  PROVE  CInv'
<1>0. OneEntry /\ IsFiniteSet(Active) /\ CirclesInv
  BY DEF CInv
<1>1. stack[t] # <<>> /\ Top(t).at = "search" /\ UNCHANGED <<owner, blocking_on>>
  BY DEF Visit, At
<1>2. PICK f \in Frame : Visited(t, f)
  BY VisitFrame
<1>3. /\ f.lock = Top(t).lock /\ Goto(t, f)
      /\ f.at = "search" \/ (f.at = "failed" /\ f.seen = {})
  BY <1>2 DEF Visited
<1>4. blocking_on[t] = <<Top(t).lock>>
  BY <1>0, <1>1 DEF OneEntry, Entry, Busy
<1>5. OneEntry' /\ Active' = Active
  BY <1>0, <1>1, <1>3, <1>4, EntryGoto DEF Busy
<1>6. Top(t)' = f /\ \A u \in Thread \ {t} : stack'[u] = stack[u] /\ Top(u)' = Top(u)
  <2>1. Top(t)' = f /\ \A u \in Thread \ {t} : stack'[u] = stack[u]
    BY <1>1, <1>3, GotoTop
  <2> QED BY <2>1 DEF Top
<1>7. CASE f.at = "failed"
  <2>1. ~Blocked(t)'
    BY <1>6, <1>7 DEF Blocked
  <2>2. CirclesInv'
    BY <1>0, <1>1, <1>6, <2>1, OutsideStep
  <2> QED BY <1>0, <1>5, <2>2 DEF CInv
<1>8. CASE f.at = "search"
  <2>1. Blocked(t) /\ \A x \in Thread : Awaited(x)' = Awaited(x)
    BY <1>1, <1>3, <1>6 DEF Blocked, Awaited
  <2>2. ASSUME NEW S \in SUBSET Thread, t \in S, Circle(S), Unfinished(t, S)
        PROVE  Unfinished(t, S)'
    <3>1. OnTrack(t, S)
      BY <1>1, <2>2 DEF Unfinished
    <3>2. /\ f.todo # <<>>
          /\ \E w \in S : /\ Last(f.todo) = <<w>> /\ w \notin f.seen /\ t \notin f.seen
                          /\ \A x \in (f.seen \cap S) \cup {t} : Awaited(x) \in f.seen \cup {w}
      BY <1>0, <1>3, <1>8, <2>2, <3>1, VisitOnTrack
    <3>3. PICK w \in S : /\ Last(f.todo) = <<w>> /\ w \notin f.seen /\ t \notin f.seen
                         /\ \A x \in (f.seen \cap S) \cup {t} : Awaited(x) \in f.seen \cup {w}
      BY <3>2
    <3>4. \A x \in (f.seen \cap S) \cup {t} : Awaited(x)' \in f.seen \cup {w}
      BY <2>1, <3>3
    <3> QED BY <1>6, <1>8, <3>2, <3>3, <3>4 DEF Unfinished, OnTrack
  <2>3. CirclesInv'
    BY <1>0, <1>1, <1>6, <2>1, <2>2, InsideStep
  <2> QED BY <1>0, <1>5, <2>3 DEF CInv
<1> QED
  BY <1>3, <1>7, <1>8

(* A search that is at its end was on track of no circle.                  *)
LEMMA QueueCircles ==
  ASSUME TypeOK, CInv, NEW t \in Thread, Queue(t)
  PROVE  CInv'
<1>0. OneEntry /\ IsFiniteSet(Active) /\ CirclesInv
  BY DEF CInv
<1> DEFINE f == [Top(t) EXCEPT !.at = "wait", !.seen = {}]
<1>1. /\ stack[t] # <<>> /\ Top(t).at = "search" /\ Top(t).todo = <<>> /\ Goto(t, f)
      /\ UNCHANGED <<owner, blocking_on>>
  BY DEF Queue, At
<1>2. Top(t) \in Frame
  BY <1>1, TopFrame
<1>3. f \in Frame /\ f.lock = Top(t).lock /\ f.at = "wait" /\ f.seen = {}
  BY <1>2 DEF Frame, Label
<1> HIDE DEF f
<1>4. blocking_on[t] = <<Top(t).lock>>
  BY <1>0, <1>1 DEF OneEntry, Entry, Busy
<1>5. OneEntry' /\ Active' = Active
  BY <1>0, <1>1, <1>3, <1>4, EntryGoto DEF Busy
<1>6. Top(t)' = f /\ \A u \in Thread \ {t} : stack'[u] = stack[u]
  BY <1>1, <1>3, GotoTop
<1>7. Blocked(t) /\ Awaited(t)' = Awaited(t)
  BY <1>1, <1>3, <1>6 DEF Blocked, Awaited
<1>8. \A S \in SUBSET Thread : ~Unfinished(t, S)
  BY <1>1 DEF Unfinished, OnTrack
<1>9. CirclesInv'
  BY <1>0, <1>1, <1>6, <1>7, <1>8, InsideStep
<1> QED
  BY <1>0, <1>5, <1>9 DEF CInv

(* Whoever is woken looks again.                                           *)
LEMMA WakeCircles ==
  ASSUME TypeOK, CInv, NEW t \in Thread, Wake(t) \/ Retry(t)
  PROVE  CInv'
<1>0. OneEntry /\ IsFiniteSet(Active) /\ CirclesInv
  BY DEF CInv
<1>1. PICK a \in {"woken", "try"} :
        /\ stack[t] # <<>> /\ Top(t).at \in {"wait", "woken"} /\ Step(t, a)
        /\ UNCHANGED <<owner, blocking_on>>
  BY DEF Wake, Retry, At
<1>2. blocking_on'[t] = <<Top(t).lock>>
  BY <1>0, <1>1 DEF OneEntry, Entry, Busy
<1>3. a \in Label \ {"search"} /\ a \in Busy
  BY DEF Label, Busy
<1>4. /\ OneEntry' /\ Active' = Active /\ Top(t)'.at = a
      /\ \A u \in Thread \ {t} : stack'[u] = stack[u]
  BY <1>0, <1>1, <1>2, <1>3, EntryStep
<1>5. CirclesInv'
  BY <1>0, <1>1, <1>4, InsideStep DEF Unfinished
<1> QED
  BY <1>0, <1>4, <1>5 DEF CInv

LEMMA ReleaseCircles ==
  ASSUME TypeOK, CInv, NEW t \in Thread, Release(t)
  PROVE  CInv'
<1>0. OneEntry /\ IsFiniteSet(Active) /\ CirclesInv
  BY DEF CInv
<1>1. /\ stack[t] # <<>> /\ Top(t).at = "held" /\ Return(t) /\ UNCHANGED blocking_on
      /\ owner' = [owner EXCEPT ![Top(t).lock] = OwnerAfter(Top(t).lock)]
  BY DEF Release, At
<1>2. blocking_on'[t] = <<>>
  BY <1>0, <1>1 DEF OneEntry, Entry, Busy
<1>3. OneEntry' /\ Active' \subseteq Active /\ ~Blocked(t)'
  BY <1>0, <1>1, <1>2, EntryReturn
<1>4. \A u \in Thread \ {t} : stack'[u] = stack[u]
  BY <1>1, Pop
<1>5. \A l \in Lock : owner'[l] \in {owner[l], NoThread, t}
  BY <1>1 DEF TypeOK, OwnerAfter
<1>6. CirclesInv'
  BY <1>0, <1>3, <1>4, <1>5, OutsideStep
<1> QED
  BY <1>0, <1>3, <1>6, FS_Subset DEF CInv

LEMMA ImportCircles ==
  ASSUME TypeOK, CInv, Interrupts \subseteq {"enter", "held"},
         NEW t \in Thread, NEW l \in Lock, Import(t, l)
  PROVE  CInv'
<1>0. OneEntry /\ IsFiniteSet(Active) /\ CirclesInv
  BY DEF CInv
<1>1. /\ OneEntry' /\ Active' \subseteq Active \cup {t} /\ ~Blocked(t)'
      /\ \A u \in Thread \ {t} : stack'[u] = stack[u]
  BY <1>0, EntryImport
<1>2. IsFiniteSet(Active \cup {t})
  BY <1>0, FS_AddElement
<1>3. IsFiniteSet(Active')
  BY <1>1, <1>2, FS_Subset
<1>4. UNCHANGED owner
  BY DEF Import
<1>5. CirclesInv'
  BY <1>0, <1>1, <1>4, OutsideStep
<1> QED
  BY <1>1, <1>3, <1>5 DEF CInv

LEMMA CirclesInit == Init => CInv
<1> SUFFICES ASSUME Init PROVE CInv
  OBVIOUS
<1>1. \A t \in Thread : stack[t] = <<>> /\ blocking_on[t] = <<>> /\ 1 .. Len(stack[t]) = {}
  BY DEF Init
<1>2. OneEntry
  BY <1>1 DEF OneEntry, Entry
<1>3. Active = {}
  BY <1>1 DEF Active
<1>4. CirclesInv
  BY <1>1 DEF CirclesInv, Circle, Leads, Blocked
<1> QED
  BY <1>2, <1>3, <1>4, FS_EmptySet DEF CInv

LEMMA CirclesStep ==
  ASSUME Interrupts \subseteq {"enter", "held"}, IInv, CInv, [Next]_vars
  PROVE  CInv'
<1>0. TypeOK /\ NotSought
  BY DEF IInv
<1>1. ASSUME NEW t \in Thread, Enter(t) PROVE CInv'
  BY <1>0, <1>1, EnterCircles
<1>2. ASSUME NEW t \in Thread, Leave(t) PROVE CInv'
  BY <1>0, <1>2, LeaveCircles
<1>3. ASSUME NEW t \in Thread, Fail(t) PROVE CInv'
  BY <1>0, <1>3, FailCircles
<1>4. ASSUME NEW t \in Thread, Take(t) PROVE CInv'
  BY <1>0, <1>4, TakeCircles
<1>5. ASSUME NEW t \in Thread, Look(t) PROVE CInv'
  BY <1>0, <1>5, LookCircles
<1>6. ASSUME NEW t \in Thread, Visit(t) PROVE CInv'
  BY <1>0, <1>6, VisitCircles
<1>7. ASSUME NEW t \in Thread, Queue(t) PROVE CInv'
  BY <1>0, <1>7, QueueCircles
<1>8. ASSUME NEW t \in Thread, Wake(t) \/ Retry(t) PROVE CInv'
  BY <1>0, <1>8, WakeCircles
<1>9. ASSUME NEW t \in Thread, Release(t) PROVE CInv'
  BY <1>0, <1>9, ReleaseCircles
<1>10. ASSUME NEW t \in Thread, NEW l \in Lock, Import(t, l) PROVE CInv'
  BY <1>0, <1>10, ImportCircles
<1>11. CASE UNCHANGED vars
  <2> USE <1>11 DEF vars
  <2>1. OneEntry' /\ Active' = Active
    <3>1. \A t \in Thread : Entry(t)' = Entry(t)
      BY DEF Entry, Top
    <3> QED BY <3>1 DEF CInv, OneEntry, Active
  <2>2. \A t \in Thread : Top(t)' = Top(t) /\ Blocked(t)' = Blocked(t) /\ Awaited(t)' = Awaited(t)
    BY DEF Blocked, Awaited, Top
  <2>3. \A S \in SUBSET Thread : Leads(S)' = Leads(S)
    BY <2>2 DEF Leads
  <2>4. ASSUME NEW S \in SUBSET Thread
        PROVE  Circle(S)' = Circle(S) /\ \A t \in S : Unfinished(t, S)' = Unfinished(t, S)
    <3>1. Circle(S)' = Circle(S)
      BY <2>3 DEF Circle
    <3>2. \A t \in S : OnTrack(t, S)' = OnTrack(t, S)
      BY <2>2 DEF OnTrack
    <3> QED BY <2>2, <3>1, <3>2 DEF Unfinished
  <2>5. CirclesInv'
    BY <2>4 DEF CInv, CirclesInv
  <2> QED BY <2>1, <2>5 DEF CInv
<1> QED
  BY <1>1, <1>2, <1>3, <1>4, <1>5, <1>6, <1>7, <1>8, <1>9, <1>10, <1>11 DEF Next

(* Among threads that wait for each other there is a circle.               *)
LEMMA LeastCircle ==
  ASSUME NEW S, IsFiniteSet(S), S # {}, Leads(S)
  PROVE  \E T \in SUBSET S : Circle(T)
<1> DEFINE L == {T \in (SUBSET S) \ {{}} : Leads(T)}
           I == {Cardinality(T) : T \in L}
<1>1. \A T \in L : IsFiniteSet(T) /\ Cardinality(T) \in Nat
  BY FS_Subset, FS_CardinalityType
<1>2. I \subseteq Nat /\ I # {}
  BY <1>1
<1>3. PICK T \in L : \A U \in L : Cardinality(T) <= Cardinality(U)
  <2>1. Min(I) \in I /\ \A y \in I : Min(I) <= y
    <3> HIDE DEF I
    <3> QED BY <1>2, Least
  <2> QED BY <2>1
<1>4. ASSUME NEW U \in (SUBSET T) \ {{}}, Leads(U)
      PROVE  U = T
  <2>1. U \in L
    BY <1>4
  <2>2. /\ Cardinality(T) <= Cardinality(U) /\ Cardinality(U) <= Cardinality(T)
        /\ Cardinality(T) \in Nat /\ Cardinality(U) \in Nat
    BY <1>1, <1>3, <1>4, <2>1, FS_Subset
  <2>3. Cardinality(T) = Cardinality(U)
    BY <2>2
  <2> QED BY <1>1, <1>4, <2>3, FS_Subset
<1>5. Circle(T)
  BY <1>3, <1>4 DEF Circle
<1> QED
  BY <1>5

(* Threads that are stuck on each other would have a circle among them     *)
(* that nobody is still to find.                                           *)
LEMMA NoCircleStuck ==
  ASSUME TypeOK, CInv
  PROVE  NoDeadlock
<1>0. OneEntry /\ IsFiniteSet(Active) /\ CirclesInv
  BY DEF CInv
<1> SUFFICES ASSUME NEW S \in (SUBSET Thread) \ {{}}, \A t \in S : \E u \in S : StuckOn(t, u)
             PROVE  FALSE
  BY DEF NoDeadlock
<1>1. \A t \in S : stack[t] # <<>> /\ Top(t).at \in {"wait", "try", "held"}
  BY DEF StuckOn
<1>2. ASSUME NEW u \in S, NEW i \in DOMAIN stack[u], stack[u][i].at = "search"
      PROVE  FALSE
  <2>1. i \in 1 .. Len(stack[u])
    BY <1>2, StackIndex
  <2>2. i = Len(stack[u])
    BY <1>0, <1>2, <2>1 DEF OneEntry, Entry
  <2>3. Top(u).at = "search"
    BY <1>2, <2>2 DEF Top, Last
  <2> QED BY <1>1, <2>3
<1>3. \A t \in S : Top(t).at = "wait" /\ Awaited(t) \in S \ {t}
  BY <1>2 DEF StuckOn, Awaited
<1>4. Leads(S)
  BY <1>1, <1>3 DEF Leads, Blocked
<1>5. IsFiniteSet(S)
  <2>1. S \subseteq Active
    BY <1>1 DEF Active
  <2> QED BY <1>0, <2>1, FS_Subset
<1>6. PICK T \in SUBSET S : Circle(T)
  BY <1>4, <1>5, LeastCircle
<1>7. PICK t \in T : Unfinished(t, T)
  BY <1>0, <1>6 DEF CirclesInv
<1> QED
  BY <1>3, <1>7 DEF Unfinished, OnTrack

(* Threads never wait for each other in a circle, however many there are,  *)
(* if nothing interrupts an acquire with another import while the thread   *)
(* has an entry in _blocking_on.                                           *)
THEOREM CirclesAreFound ==
  ASSUME Interrupts \subseteq {"enter", "held"}
  PROVE  Spec => []NoDeadlock
<1>1. Init => CInv
  BY CirclesInit
<1>2. IInv /\ CInv /\ [Next]_vars => CInv'
  BY CirclesStep
<1>3. IInv /\ CInv => NoDeadlock
  BY NoCircleStuck DEF IInv
<1> QED
  BY <1>1, <1>2, <1>3, Invariance, PTL DEF Spec
=============================================================================
