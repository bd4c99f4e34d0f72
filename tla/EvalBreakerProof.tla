------------------------- MODULE EvalBreakerProof -------------------------
(***************************************************************************)
(* Type correctness of EvalBreaker and its safety invariants, for any      *)
(* threads, callers and calls, and queues of any size.                     *)
(***************************************************************************)
EXTENDS MCEvalBreakerCases, FiniteSetTheorems, SequenceTheorems, TLAPS

(* The ring of a queue: its type, how many calls it holds, which slots.    *)
Ring == [calls : [Slot -> Call \cup {NoCall}], first : Slot, last : Slot]

Size(p) == (p.last + NPENDINGCALLS - p.first) % NPENDINGCALLS

Held(p) == {i \in Slot : p.calls[i] # NoCall}

(* Between first and last, around the end of the array.                    *)
Between(p, i) ==
  IF p.first <= p.last THEN p.first <= i /\ i < p.last ELSE p.first <= i \/ i < p.last

(* The slots from first to last hold calls of queue q, the others none.    *)
RingInv(p, q) ==
  /\ \A i \in Slot : p.calls[i] # NoCall <=> Between(p, i)
  /\ \A i \in Slot : p.calls[i] # NoCall => QueueOf(p.calls[i]) = q
  /\ Cardinality(Held(p)) = Size(p)
-----------------------------------------------------------------------------
(* % NPENDINGCALLS in the range where the ring uses it: at most one turn.  *)
LEMMA Wrap ==
  ASSUME NEW i \in 0 .. 2 * NPENDINGCALLS - 1
  PROVE  /\ i % NPENDINGCALLS = IF i < NPENDINGCALLS THEN i ELSE i - NPENDINGCALLS
         /\ i % NPENDINGCALLS \in Slot
<1>1. i % NPENDINGCALLS = IF i < NPENDINGCALLS THEN i ELSE i - NPENDINGCALLS
  BY EvalBreakerAssumption
<1> QED
  BY <1>1, EvalBreakerAssumption DEF Slot

LEMMA AfterValue ==
  ASSUME NEW i \in Slot
  PROVE  After(i) \in Slot /\ After(i) = IF i + 1 = NPENDINGCALLS THEN 0 ELSE i + 1
<1>1. i + 1 \in 0 .. 2 * NPENDINGCALLS - 1
  BY EvalBreakerAssumption DEF Slot
<1> QED
  BY <1>1, Wrap, EvalBreakerAssumption DEF Slot, After

LEMMA RingEnds ==
  ASSUME NEW p \in Ring
  PROVE  /\ NPENDINGCALLS \in Nat /\ NPENDINGCALLS > 0
         /\ p.first \in Nat /\ p.first < NPENDINGCALLS
         /\ p.last \in Nat /\ p.last < NPENDINGCALLS
<1>1. p.first \in Slot /\ p.last \in Slot
  BY DEF Ring
<1> QED
  BY <1>1, EvalBreakerAssumption DEF Slot

LEMMA SizeValue ==
  ASSUME NEW p \in Ring
  PROVE  /\ Size(p) = IF p.first <= p.last THEN p.last - p.first
                      ELSE p.last + NPENDINGCALLS - p.first
         /\ Size(p) \in 0 .. NPENDINGCALLS - 1
<1> DEFINE x == p.last + NPENDINGCALLS - p.first
<1>1. x \in 0 .. 2 * NPENDINGCALLS - 1
  BY RingEnds
<1>2. Size(p) = IF x < NPENDINGCALLS THEN x ELSE x - NPENDINGCALLS
  BY <1>1, Wrap DEF Size
<1> QED
  BY <1>2, RingEnds

LEMMA IndexValue ==
  ASSUME NEW p \in Ring, NEW k \in 1 .. NPENDINGCALLS
  PROVE  /\ (p.first + k - 1) % NPENDINGCALLS
              = IF p.first + k - 1 < NPENDINGCALLS THEN p.first + k - 1
                ELSE p.first + k - 1 - NPENDINGCALLS
         /\ (p.first + k - 1) % NPENDINGCALLS \in Slot
<1>1. p.first + k - 1 \in 0 .. 2 * NPENDINGCALLS - 1
  BY RingEnds
<1>2. PICK x \in 0 .. 2 * NPENDINGCALLS - 1 : x = p.first + k - 1
  BY <1>1
<1>3. /\ x % NPENDINGCALLS = IF x < NPENDINGCALLS THEN x ELSE x - NPENDINGCALLS
      /\ x % NPENDINGCALLS \in Slot
  BY Wrap
<1> QED
  BY <1>2, <1>3, RingEnds

(* Content is a sequence of calls, as long as Size tells.                  *)
LEMMA ContentType ==
  ASSUME NEW p \in Ring, NEW q, RingInv(p, q)
  PROVE  /\ Content(p) \in Seq(Call)
         /\ Len(Content(p)) = Size(p)
         /\ \A k \in 1 .. Size(p) : Content(p)[k] = p.calls[(p.first + k - 1) % NPENDINGCALLS]
<1>1. ASSUME NEW k \in 1 .. Size(p)
      PROVE  p.calls[(p.first + k - 1) % NPENDINGCALLS] \in Call
  <2>1. k \in 1 .. NPENDINGCALLS
    BY SizeValue, EvalBreakerAssumption
  <2> DEFINE i == (p.first + k - 1) % NPENDINGCALLS
  <2>3. i = IF p.first + k - 1 < NPENDINGCALLS THEN p.first + k - 1
            ELSE p.first + k - 1 - NPENDINGCALLS
    BY <2>1, IndexValue
  <2>4. Size(p) = IF p.first <= p.last THEN p.last - p.first
                  ELSE p.last + NPENDINGCALLS - p.first
    BY SizeValue
  <2> HIDE DEF i
  <2>5. Between(p, i)
    BY <2>3, <2>4, RingEnds DEF Between
  <2>2. Between(p, (p.first + k - 1) % NPENDINGCALLS)
    BY <2>5 DEF i
  <2> QED
    BY <2>1, <2>2, IndexValue DEF RingInv, Ring
<1>2. Content(p) = [k \in 1 .. Size(p) |-> p.calls[(p.first + k - 1) % NPENDINGCALLS]]
  BY DEF Content, Size
<1>3. Size(p) \in Nat
  BY SizeValue, EvalBreakerAssumption
<1>4. Content(p) \in [1 .. Size(p) -> Call]
  BY <1>1, <1>2, Zenon
<1> QED
  BY <1>2, <1>3, <1>4

LEMMA HeldFinite ==
  ASSUME NEW p \in Ring
  PROVE  IsFiniteSet(Held(p))
<1>1. IsFiniteSet(Slot)
  BY FS_Interval, EvalBreakerAssumption DEF Slot
<1> QED
  BY <1>1, FS_Subset DEF Held

(* A push appends to the content, and a pop takes its head.                *)
LEMMA PushedRing ==
  ASSUME NEW p \in Ring, NEW c \in Call, RingInv(p, QueueOf(c)), ~Full(p)
  PROVE  /\ Pushed(p, c) \in Ring
         /\ RingInv(Pushed(p, c), QueueOf(c))
         /\ Size(Pushed(p, c)) = Size(p) + 1
         /\ Content(Pushed(p, c)) = Append(Content(p), c)
<1> DEFINE r == Pushed(p, c)
<1>1. /\ r \in Ring /\ r.first = p.first /\ r.last = After(p.last)
      /\ r.calls = [p.calls EXCEPT ![p.last] = c]
  BY AfterValue DEF Pushed, Ring
<1>2. c # NoCall
  BY EvalBreakerAssumption
<1>a. /\ r.last = IF p.last + 1 = NPENDINGCALLS THEN 0 ELSE p.last + 1
      /\ r.last # p.first
  BY <1>1, AfterValue DEF Full, Ring
<1> HIDE DEF r
<1>3. Size(r) = Size(p) + 1
  <2>1. /\ Size(p) = IF p.first <= p.last THEN p.last - p.first
                     ELSE p.last + NPENDINGCALLS - p.first
        /\ Size(r) = IF r.first <= r.last THEN r.last - r.first
                     ELSE r.last + NPENDINGCALLS - r.first
    BY <1>1, SizeValue
  <2> QED
    BY <2>1, <1>1, <1>a, RingEnds
<1>4. p.last \in Slot /\ ~Between(p, p.last)
  BY DEF Between, Ring, Slot
<1>5. \A i \in Slot : Between(r, i) <=> Between(p, i) \/ i = p.last
  BY <1>1, <1>a, RingEnds DEF Between, Slot
<1>6. Held(r) = Held(p) \cup {p.last} /\ p.last \notin Held(p)
  BY <1>1, <1>2, <1>4 DEF Held, RingInv, Ring
<1>7. RingInv(r, QueueOf(c))
  <2>1. Cardinality(Held(r)) = Cardinality(Held(p)) + 1
    BY <1>6, HeldFinite, FS_AddElement
  <2>2. \A i \in Slot : r.calls[i] = IF i = p.last THEN c ELSE p.calls[i]
    BY <1>1 DEF Ring
  <2>3. \A i \in Slot : r.calls[i] # NoCall <=> Between(r, i)
    BY <2>2, <1>2, <1>5 DEF RingInv
  <2>4. \A i \in Slot : r.calls[i] # NoCall => QueueOf(r.calls[i]) = QueueOf(c)
    BY <2>2 DEF RingInv
  <2> QED
    BY <2>1, <2>3, <2>4, <1>3 DEF RingInv
<1>8. Content(r) = Append(Content(p), c)
  <2>1. /\ Content(r) \in Seq(Call) /\ Len(Content(r)) = Size(p) + 1
        /\ Content(p) \in Seq(Call) /\ Len(Content(p)) = Size(p) /\ Size(p) \in Nat
    BY <1>1, <1>3, <1>7, ContentType, SizeValue
  <2>2. /\ Append(Content(p), c) \in Seq(Call)
        /\ Len(Append(Content(p), c)) = Size(p) + 1
        /\ \A k \in 1 .. Size(p) : Append(Content(p), c)[k] = Content(p)[k]
        /\ Append(Content(p), c)[Size(p) + 1] = c
    BY <2>1, AppendProperties
  <2>3. ASSUME NEW k \in 1 .. Size(p) + 1
        PROVE  Content(r)[k] = Append(Content(p), c)[k]
    <3>1. k \in 1 .. NPENDINGCALLS
      BY <1>1, <1>3, SizeValue, EvalBreakerAssumption
    <3>2. Content(r)[k] = r.calls[(p.first + k - 1) % NPENDINGCALLS]
      BY <1>1, <1>3, <1>7, ContentType
    <3>3. CASE k = Size(p) + 1
      <4>1. (p.first + k - 1) % NPENDINGCALLS = p.last
        <5>1. (p.first + k - 1) % NPENDINGCALLS
                = IF p.first + k - 1 < NPENDINGCALLS THEN p.first + k - 1
                  ELSE p.first + k - 1 - NPENDINGCALLS
          BY <3>1, IndexValue
        <5>2. Size(p) = IF p.first <= p.last THEN p.last - p.first
                        ELSE p.last + NPENDINGCALLS - p.first
          BY SizeValue
        <5> QED
          BY <3>3, <5>1, <5>2, RingEnds
      <4> QED
        BY <3>2, <3>3, <4>1, <2>2, <1>1 DEF Ring
    <3>4. CASE k # Size(p) + 1
      <4>1. k \in 1 .. Size(p)
        BY <3>4, <2>1
      <4>2. (p.first + k - 1) % NPENDINGCALLS # p.last
        <5>1. (p.first + k - 1) % NPENDINGCALLS
                = IF p.first + k - 1 < NPENDINGCALLS THEN p.first + k - 1
                  ELSE p.first + k - 1 - NPENDINGCALLS
          BY <3>1, IndexValue
        <5>2. Size(p) = IF p.first <= p.last THEN p.last - p.first
                        ELSE p.last + NPENDINGCALLS - p.first
          BY SizeValue
        <5> QED
          BY <4>1, <5>1, <5>2, RingEnds
      <4>3. Content(p)[k] = p.calls[(p.first + k - 1) % NPENDINGCALLS]
        BY <4>1, ContentType
      <4> QED
        BY <3>1, <3>2, <4>1, <4>2, <4>3, <2>2, <1>1, IndexValue DEF Ring
    <3> QED
      BY <3>3, <3>4
  <2> QED
    BY <2>1, <2>2, <2>3, SeqEqual
<1> QED
  BY <1>1, <1>3, <1>7, <1>8 DEF r

LEMMA PoppedRing ==
  ASSUME NEW p \in Ring, NEW q, RingInv(p, q), ~Empty(p)
  PROVE  /\ p.calls[p.first] \in Call /\ QueueOf(p.calls[p.first]) = q
         /\ Popped(p) \in Ring
         /\ RingInv(Popped(p), q)
         /\ Size(p) = Size(Popped(p)) + 1
         /\ Content(p) = <<p.calls[p.first]>> \o Content(Popped(p))
<1> DEFINE r == Popped(p)
           c == p.calls[p.first]
<1>1. /\ r \in Ring /\ r.last = p.last /\ r.first = After(p.first)
      /\ r.calls = [p.calls EXCEPT ![p.first] = NoCall]
  BY AfterValue DEF Popped, Ring
<1>2. Between(p, p.first) /\ p.first \in Slot
  BY DEF Between, Empty, Ring, Slot
<1>3. c \in Call /\ QueueOf(c) = q
  BY <1>2 DEF RingInv, Ring
<1>a. /\ r.first = IF p.first + 1 = NPENDINGCALLS THEN 0 ELSE p.first + 1
      /\ p.first # p.last
  BY <1>1, AfterValue DEF Empty, Ring
<1> HIDE DEF r
<1>4. Size(p) = Size(r) + 1
  <2>1. /\ Size(p) = IF p.first <= p.last THEN p.last - p.first
                     ELSE p.last + NPENDINGCALLS - p.first
        /\ Size(r) = IF r.first <= r.last THEN r.last - r.first
                     ELSE r.last + NPENDINGCALLS - r.first
    BY <1>1, SizeValue
  <2> QED
    BY <2>1, <1>1, <1>a, RingEnds
<1>5. \A i \in Slot : Between(r, i) <=> Between(p, i) /\ i # p.first
  BY <1>1, <1>a, RingEnds DEF Between, Slot
<1>6. Held(r) = Held(p) \ {p.first} /\ p.first \in Held(p)
  BY <1>1, <1>2 DEF Held, RingInv, Ring
<1>7. RingInv(r, q)
  <2>1. Cardinality(Held(r)) = Cardinality(Held(p)) - 1
    BY <1>6, HeldFinite, FS_RemoveElement
  <2>2. \A i \in Slot : r.calls[i] = IF i = p.first THEN NoCall ELSE p.calls[i]
    BY <1>1 DEF Ring
  <2>3. \A i \in Slot : r.calls[i] # NoCall <=> Between(r, i)
    BY <2>2, <1>5 DEF RingInv
  <2>4. \A i \in Slot : r.calls[i] # NoCall => QueueOf(r.calls[i]) = q
    BY <2>2 DEF RingInv
  <2>5. Size(r) \in Int /\ Size(p) \in Int
    BY <1>1, SizeValue
  <2> QED
    BY <2>1, <2>3, <2>4, <2>5, <1>4 DEF RingInv
<1>8. Content(p) = <<c>> \o Content(r)
  <2>1. /\ Content(r) \in Seq(Call) /\ Len(Content(r)) = Size(r)
        /\ Content(p) \in Seq(Call) /\ Len(Content(p)) = Size(r) + 1 /\ Size(r) \in Nat
    BY <1>1, <1>4, <1>7, ContentType, SizeValue
  <2>2. <<c>> \in Seq(Call) /\ Len(<<c>>) = 1 /\ <<c>>[1] = c
    BY <1>3
  <2>3. /\ <<c>> \o Content(r) \in Seq(Call)
        /\ Len(<<c>> \o Content(r)) = Size(r) + 1
        /\ \A k \in 1 .. Size(r) + 1 :
             (<<c>> \o Content(r))[k] = IF k <= 1 THEN <<c>>[k] ELSE Content(r)[k - 1]
    <3> DEFINE s == <<c>>  z == Content(r)
    <3>1. s \in Seq(Call) /\ z \in Seq(Call) /\ Len(s) = 1 /\ Len(z) = Size(r)
      BY <2>1, <2>2
    <3> HIDE DEF s, z
    <3>2. /\ s \o z \in Seq(Call) /\ Len(s \o z) = Len(s) + Len(z)
          /\ \A k \in 1 .. Len(s) + Len(z) :
               (s \o z)[k] = IF k <= Len(s) THEN s[k] ELSE z[k - Len(s)]
      BY <3>1, ConcatProperties, Zenon
    <3>3. 1 + Size(r) = Size(r) + 1
      BY <2>1
    <3> QED
      BY <3>1, <3>2, <3>3, Zenon DEF s, z
  <2>4. ASSUME NEW k \in 1 .. Size(r) + 1
        PROVE  Content(p)[k] = (<<c>> \o Content(r))[k]
    <3>1. k \in 1 .. NPENDINGCALLS /\ k \in 1 .. Size(p)
      BY <1>1, <1>4, SizeValue, EvalBreakerAssumption
    <3>2. Content(p)[k] = p.calls[(p.first + k - 1) % NPENDINGCALLS]
      BY <3>1, ContentType
    <3>3. CASE k = 1
      <4>1. (p.first + k - 1) % NPENDINGCALLS = p.first
        <5>1. (p.first + k - 1) % NPENDINGCALLS
                = IF p.first + k - 1 < NPENDINGCALLS THEN p.first + k - 1
                  ELSE p.first + k - 1 - NPENDINGCALLS
          BY <3>1, IndexValue
        <5> QED
          BY <3>3, <5>1, RingEnds
      <4> QED
        BY <3>2, <3>3, <4>1, <2>2, <2>3
    <3>4. CASE k # 1
      <4>1. k - 1 \in 1 .. Size(r) /\ k - 1 \in 1 .. NPENDINGCALLS
        BY <3>1, <3>4, <2>1, EvalBreakerAssumption
      <4>2. /\ (r.first + (k - 1) - 1) % NPENDINGCALLS = (p.first + k - 1) % NPENDINGCALLS
            /\ (p.first + k - 1) % NPENDINGCALLS # p.first
            /\ (p.first + k - 1) % NPENDINGCALLS \in Slot
        <5>1. /\ (p.first + k - 1) % NPENDINGCALLS
                   = IF p.first + k - 1 < NPENDINGCALLS THEN p.first + k - 1
                     ELSE p.first + k - 1 - NPENDINGCALLS
              /\ (p.first + k - 1) % NPENDINGCALLS \in Slot
          BY <3>1, IndexValue
        <5>2. (r.first + (k - 1) - 1) % NPENDINGCALLS
                = IF r.first + (k - 1) - 1 < NPENDINGCALLS THEN r.first + (k - 1) - 1
                  ELSE r.first + (k - 1) - 1 - NPENDINGCALLS
          BY <4>1, <1>1, IndexValue
        <5>3. k \in Nat /\ k > 1
          BY <3>1, <3>4
        <5> QED
          BY <5>1, <5>2, <5>3, <3>1, <1>a, RingEnds
      <4>3. Content(r)[k - 1] = r.calls[(p.first + k - 1) % NPENDINGCALLS]
        BY <4>1, <4>2, <1>1, <1>7, ContentType, ZenonT(60)
      <4>4. (<<c>> \o Content(r))[k] = Content(r)[k - 1]
        BY <2>3, <3>4
      <4> QED
        BY <3>2, <4>2, <4>3, <4>4, <1>1 DEF Ring
    <3> QED
      BY <3>3, <3>4
  <2> QED
    BY <2>1, <2>3, <2>4, SeqEqual
<1> QED
  BY <1>1, <1>3, <1>4, <1>7, <1>8 DEF r
-----------------------------------------------------------------------------
(***************************************************************************)
(* What the safety proofs rest on.                                         *)
(***************************************************************************)

(* Where a thread is that takes the next call from a queue, that waits for *)
(* the GIL or has just taken it, and that looks at the signals.            *)
Popping(t)   == pc[t] = "pop" \/ (pc[t] \in {"load", "store"} /\ ret[t] = "pop")
Returning(t) == \/ pc[t] \in {"want", "taken", "yield"}
                \/ pc[t] \in {"load", "store"} /\ ret[t] \in {"want", "taken"}
Looking(t)   == \/ pc[t] \in {"tripped", "scan", "resignal"}
                \/ pc[t] \in {"load", "store"} /\ ret[t] = "tripped"

(* What a thread's own variables say of each other.                        *)
ThreadInv(t) ==
  /\ pc[t] \in ThreadLabel /\ ret[t] # "idle"
  /\ pc[t] = "signal" => ret[t] \in {"run", "finished"}
  /\ running[t] # NoCall =>
       /\ count[t] < NPENDINGCALLS
       /\ ~Popping(t) /\ pc[t] \notin {"unmain", "uninterp", "interrupted"}
       /\ Returning(t) => back[t] # "interrupted"
       /\ running[t] \in MainThreadOnly => t = Main
  /\ Popping(t) /\ queue[t] = "mainthread" => t = Main
  /\ Looking(t) => t = Main

AgentInv(a) == pc[a] \in AgentLabel /\ ret[a] = "idle"

PlacesInv == (\A t \in Thread : ThreadInv(t)) /\ (\A a \in Agent : AgentInv(a))

BusyInv ==
  /\ \A t, u \in Thread : Handling(t) /\ Handling(u) => t = u
  /\ busy <=> \E t \in Thread : Handling(t)

HistoryInv ==
  /\ accepted \in [Queue -> Seq(Call)] /\ executed \in [Queue -> Seq(Call)]
  /\ \A q \in Queue : /\ RingInv(pending[q], q)
                      /\ accepted[q] = executed[q] \o Content(pending[q])

(* A call in the interpreter's queue is signalled, or is about to be, or   *)
(* its turn comes before the thread that makes the calls has counted to    *)
(* NPENDINGCALLS.                                                          *)
Announced ==
  calls_to_do["interp"] \/ \E a \in Actor : pc[a] = "signal" /\ queue[a] = "interp"
InTurn(t) ==
  \/ pc[t] \in {"unmain", "uninterp"}
  \/ Popping(t) /\ queue[t] = "interp" /\ Size(pending["interp"]) + count[t] < NPENDINGCALLS
  \/ /\ running[t] # NoCall /\ QueueOf(running[t]) = "interp"
     /\ Size(pending["interp"]) + count[t] + 1 < NPENDINGCALLS
InterpInv == ~Empty(pending["interp"]) => Announced \/ \E t \in Thread : InTurn(t)

(* A signal that is set again while the handlers run is announced again.   *)
TrippedInv ==
  /\ tripped => is_tripped \/ pc[Main] = "scan" \/ \E a \in Agent : pc[a] = "trip"
  /\ is_tripped => signals_pending \/ Delivering \/ (Looking(Main) /\ pc[Main] # "scan")

IInv == TypeOK /\ PlacesInv /\ BusyInv /\ HistoryInv /\ InterpInv /\ TrippedInv
-----------------------------------------------------------------------------
(* The variables of the other actors stay as they are.                     *)
Moves(a) ==
  /\ \A b \in Actor \ {a} : pc'[b] = pc[b] /\ ret'[b] = ret[b] /\ queue'[b] = queue[b]
  /\ \A t \in Thread \ {a} : count'[t] = count[t] /\ running'[t] = running[t] /\ back'[t] = back[t]

LocalInv(a) == (a \in Thread => ThreadInv(a)) /\ (a \in Agent => AgentInv(a))

(* A step that has to do with no call and no signal.                       *)
CallsAside(a) ==
  /\ UNCHANGED <<pending, accepted, executed, busy>>
  /\ calls_to_do["interp"] => calls_to_do'["interp"]
  /\ pc[a] # "signal"
  /\ a \in Thread => (Handling(a)' <=> Handling(a)) /\ (InTurn(a) => InTurn(a)')
SignalsAside(a) ==
  /\ UNCHANGED <<is_tripped, tripped>>
  /\ signals_pending => signals_pending'
  /\ a = Main => pc[a] # "scan" /\ (Looking(a) => Looking(a)' /\ pc'[a] # "scan")
  /\ a \in Agent => pc[a] \notin {"trip", "received"}

LEMMA PlacesKept ==
  ASSUME PlacesInv, NEW a \in Actor, Moves(a), LocalInv(a)'
  PROVE  PlacesInv'
<1>1. ASSUME NEW t \in Thread, t # a PROVE ThreadInv(t)'
  <2>1. ThreadInv(t) /\ t \in Actor
    BY DEF PlacesInv, Actor
  <2>2. /\ pc'[t] = pc[t] /\ ret'[t] = ret[t] /\ queue'[t] = queue[t]
        /\ count'[t] = count[t] /\ running'[t] = running[t] /\ back'[t] = back[t]
    BY <1>1, <2>1 DEF Moves
  <2> QED
    BY <2>1, <2>2 DEF ThreadInv, Popping, Returning, Looking
<1>2. ASSUME NEW b \in Agent, b # a PROVE AgentInv(b)'
  BY <1>2 DEF PlacesInv, AgentInv, Moves, Actor
<1> QED
  BY <1>1, <1>2 DEF PlacesInv, LocalInv

(* Nobody else begins or stops to make calls.                              *)
LEMMA OthersHandle ==
  ASSUME NEW a \in Actor, Moves(a), NEW t \in Thread, t # a
  PROVE  Handling(t)' <=> Handling(t)
BY DEF Moves, Handling, Actor

LEMMA BusyKept ==
  ASSUME BusyInv, NEW a \in Actor, Moves(a), busy' = busy,
         a \in Thread => (Handling(a)' <=> Handling(a))
  PROVE  BusyInv'
<1>1. \A t \in Thread : Handling(t)' <=> Handling(t)
  BY OthersHandle
<1> QED
  BY <1>1 DEF BusyInv

LEMMA HistoryKept ==
  ASSUME HistoryInv, UNCHANGED <<pending, accepted, executed>>
  PROVE  HistoryInv'
BY DEF HistoryInv, RingInv, Between, Held, Size, Content

LEMMA OthersInTurn ==
  ASSUME NEW a \in Actor, Moves(a), NEW t \in Thread, t # a, InTurn(t),
         pending'["interp"] = pending["interp"]
  PROVE  InTurn(t)'
<1>1. /\ pc'[t] = pc[t] /\ ret'[t] = ret[t] /\ queue'[t] = queue[t]
      /\ count'[t] = count[t] /\ running'[t] = running[t]
  BY DEF Moves, Actor
<1> QED
  BY <1>1 DEF InTurn, Popping

LEMMA InterpKept ==
  ASSUME InterpInv, NEW a \in Actor, Moves(a), pending'["interp"] = pending["interp"],
         calls_to_do["interp"] => calls_to_do'["interp"],
         pc[a] = "signal" /\ queue[a] = "interp" => Announced',
         a \in Thread => (InTurn(a) => InTurn(a)')
  PROVE  InterpInv'
<1> SUFFICES ASSUME ~Empty(pending["interp"])
             PROVE  Announced' \/ \E t \in Thread : InTurn(t)'
  BY DEF InterpInv
<1>1. Announced \/ \E t \in Thread : InTurn(t)
  BY DEF InterpInv
<1>2. CASE Announced
  BY <1>2 DEF Announced, Moves
<1>3. ASSUME NEW t \in Thread, InTurn(t) PROVE InTurn(t)'
  BY <1>3, OthersInTurn
<1> QED
  BY <1>1, <1>2, <1>3

LEMMA TrippedKept ==
  ASSUME TrippedInv, NEW a \in Actor, Moves(a), SignalsAside(a)
  PROVE  TrippedInv'
<1>0. Main \in Actor /\ Agent \subseteq Actor
  BY EvalBreakerAssumption DEF Actor
<1>1. tripped' => is_tripped' \/ pc'[Main] = "scan" \/ \E b \in Agent : pc'[b] = "trip"
  BY <1>0 DEF TrippedInv, SignalsAside, Moves
<1>2. Delivering => Delivering'
  BY <1>0 DEF SignalsAside, Moves, Delivering
<1>3. Looking(Main) /\ pc[Main] # "scan" => Looking(Main)' /\ pc'[Main] # "scan"
  BY <1>0 DEF SignalsAside, Moves, Looking
<1> QED
  BY <1>1, <1>2, <1>3 DEF TrippedInv, SignalsAside

(* Such a step keeps the invariant.                                        *)
LEMMA AsideOK ==
  ASSUME IInv, NEW a \in Actor, TypeOK', Moves(a), LocalInv(a)', CallsAside(a), SignalsAside(a)
  PROVE  IInv'
<1>1. PlacesInv'
  BY PlacesKept DEF IInv
<1>2. BusyInv'
  BY BusyKept DEF IInv, CallsAside
<1>3. HistoryInv'
  BY HistoryKept DEF IInv, CallsAside
<1>4. InterpInv'
  BY InterpKept DEF IInv, CallsAside
<1>5. TrippedInv'
  BY TrippedKept DEF IInv
<1> QED
  BY <1>1, <1>2, <1>3, <1>4, <1>5 DEF IInv
-----------------------------------------------------------------------------
(* The actions that have to do with no call and no signal, or only lead to *)
(* or from the place where a call is made.                                 *)

LEMMA AfterTypes ==
  ASSUME NEW t \in Thread
  PROVE  AfterCalls(t) \in {"gc", "run", "finished"} /\ AfterError(t) \in {"run", "finished"}
BY DEF AfterCalls, AfterError

LEMMA UnsignalMainOK ==
  ASSUME IInv, NEW t \in Thread, UnsignalMain(t)
  PROVE  IInv'
<1>0. TypeOK /\ t \in Actor /\ LocalInv(t) /\ (t \in Agent => t \notin Thread)
  BY EvalBreakerAssumption DEF IInv, PlacesInv, LocalInv, Actor
<1> USE <1>0 DEF At, Goto, Compute, gil, flags, sigs, rings, frames, UnsignalMain
<1>1. TypeOK'
  BY EvalBreakerAssumption DEF TypeOK, Actor, Queue, ThreadLabel, AgentLabel, LocalInv, ThreadInv
<1>2. Moves(t)
  BY DEF TypeOK, Moves, Actor
<1>3. LocalInv(t)'
  BY EvalBreakerAssumption DEF TypeOK, Actor, LocalInv, ThreadInv, AgentInv, Popping, Returning,
     Looking, ThreadLabel, AgentLabel
<1>4. CallsAside(t) /\ SignalsAside(t)
  BY EvalBreakerAssumption DEF TypeOK, Actor, LocalInv, ThreadInv, AgentInv, CallsAside,
     SignalsAside, Handling, InTurn, Popping, Looking
<1> HIDE DEF UnsignalMain
<1> QED
  BY <1>1, <1>2, <1>3, <1>4, AsideOK

LEMMA CallReturnsOK ==
  ASSUME IInv, NEW t \in Thread, CallReturns(t)
  PROVE  IInv'
<1>0. TypeOK /\ t \in Actor /\ LocalInv(t) /\ (t \in Agent => t \notin Thread)
  BY EvalBreakerAssumption DEF IInv, PlacesInv, LocalInv, Actor
<1> USE <1>0 DEF At, Goto, Compute, gil, flags, sigs, rings, frames, CallReturns, QueueOf
<1>1. TypeOK'
  BY EvalBreakerAssumption DEF TypeOK, Actor, Queue, ThreadLabel, AgentLabel, LocalInv, ThreadInv
<1>2. Moves(t)
  BY DEF TypeOK, Moves, Actor
<1>3. LocalInv(t)'
  BY EvalBreakerAssumption DEF TypeOK, Actor, LocalInv, ThreadInv, AgentInv, Popping, Returning,
     Looking, ThreadLabel, AgentLabel
<1>4. CallsAside(t) /\ SignalsAside(t)
  <2>1. InTurn(t) => InTurn(t)'
    <3>1. pending["interp"] \in Ring /\ count[t] \in Nat
      BY DEF TypeOK, Ring, Queue
    <3>2. Size(pending["interp"]) \in Nat /\ NPENDINGCALLS \in Nat
      BY <3>1, SizeValue, EvalBreakerAssumption
    <3>3. /\ pc'[t] = "pop" /\ queue'[t] = QueueOf(running[t]) /\ count'[t] = count[t] + 1
          /\ pending' = pending
      BY DEF TypeOK
    <3>4. ~Popping(t) /\ pc[t] \notin {"unmain", "uninterp"}
      BY DEF LocalInv, ThreadInv
    <3>5. CASE /\ running[t] # NoCall /\ QueueOf(running[t]) = "interp"
               /\ Size(pending["interp"]) + count[t] + 1 < NPENDINGCALLS
      <4>1. Size(pending'["interp"]) + count'[t] < NPENDINGCALLS
        BY <3>1, <3>2, <3>3, <3>5
      <4> QED
        BY <3>3, <3>5, <4>1 DEF InTurn, Popping
    <3> HIDE DEF CallReturns
    <3> QED
      BY <3>4, <3>5 DEF InTurn
  <2>2. Handling(t)' <=> Handling(t)
    BY EvalBreakerAssumption DEF TypeOK, Handling
  <2> QED
    BY <2>1, <2>2 DEF TypeOK, CallsAside, SignalsAside, Looking, LocalInv, ThreadInv
<1> HIDE DEF CallReturns
<1> QED
  BY <1>1, <1>2, <1>3, <1>4, AsideOK

LEMMA CheckBreakerOK ==
  ASSUME IInv, NEW t \in Thread, CheckBreaker(t)
  PROVE  IInv'
<1>0. TypeOK /\ t \in Actor /\ LocalInv(t) /\ (t \in Agent => t \notin Thread)
  BY EvalBreakerAssumption DEF IInv, PlacesInv, LocalInv, Actor
<1> USE <1>0 DEF At, Goto, Compute, gil, flags, sigs, rings, frames, CheckBreaker
<1>1. TypeOK'
  BY EvalBreakerAssumption DEF TypeOK, Actor, Queue, ThreadLabel, AgentLabel, LocalInv, ThreadInv
<1>2. Moves(t)
  BY DEF TypeOK, Moves, Actor
<1>3. LocalInv(t)'
  BY EvalBreakerAssumption DEF TypeOK, Actor, LocalInv, ThreadInv, AgentInv, Popping, Returning,
     Looking, ThreadLabel, AgentLabel
<1>4. CallsAside(t) /\ SignalsAside(t)
  BY EvalBreakerAssumption DEF TypeOK, Actor, LocalInv, ThreadInv, AgentInv, CallsAside,
     SignalsAside, Handling, InTurn, Popping, Looking
<1> HIDE DEF CheckBreaker
<1> QED
  BY <1>1, <1>2, <1>3, <1>4, AsideOK

LEMMA MakePendingCallsOK ==
  ASSUME IInv, NEW t \in Thread, MakePendingCalls(t)
  PROVE  IInv'
<1>0. TypeOK /\ t \in Actor /\ LocalInv(t) /\ (t \in Agent => t \notin Thread)
  BY EvalBreakerAssumption DEF IInv, PlacesInv, LocalInv, Actor
<1> USE <1>0 DEF At, Goto, Compute, gil, flags, sigs, rings, frames, MakePendingCalls
<1>1. TypeOK'
  BY EvalBreakerAssumption DEF TypeOK, Actor, Queue, ThreadLabel, AgentLabel, LocalInv, ThreadInv
<1>2. Moves(t)
  BY DEF TypeOK, Moves, Actor
<1>3. LocalInv(t)'
  BY EvalBreakerAssumption DEF TypeOK, Actor, LocalInv, ThreadInv, AgentInv, Popping, Returning,
     Looking, ThreadLabel, AgentLabel
<1>4. CallsAside(t) /\ SignalsAside(t)
  BY EvalBreakerAssumption DEF TypeOK, Actor, LocalInv, ThreadInv, AgentInv, CallsAside,
     SignalsAside, Handling, InTurn, Popping, Looking
<1> HIDE DEF MakePendingCalls
<1> QED
  BY <1>1, <1>2, <1>3, <1>4, AsideOK

LEMMA MaybeCallsOK ==
  ASSUME IInv, NEW t \in Thread, MaybeCalls(t)
  PROVE  IInv'
<1>0. TypeOK /\ t \in Actor /\ LocalInv(t) /\ (t \in Agent => t \notin Thread)
  BY EvalBreakerAssumption DEF IInv, PlacesInv, LocalInv, Actor
<1> USE <1>0 DEF At, Goto, Compute, gil, flags, sigs, rings, frames, MaybeCalls
<1>1. TypeOK'
  BY EvalBreakerAssumption DEF TypeOK, Actor, Queue, ThreadLabel, AgentLabel, LocalInv, ThreadInv
<1>2. Moves(t)
  BY DEF TypeOK, Moves, Actor
<1>3. LocalInv(t)'
  BY EvalBreakerAssumption DEF TypeOK, Actor, LocalInv, ThreadInv, AgentInv, Popping, Returning,
     Looking, ThreadLabel, AgentLabel
<1>4. CallsAside(t) /\ SignalsAside(t)
  BY EvalBreakerAssumption DEF TypeOK, Actor, LocalInv, ThreadInv, AgentInv, CallsAside,
     SignalsAside, Handling, InTurn, Popping, Looking
<1> HIDE DEF MaybeCalls
<1> QED
  BY <1>1, <1>2, <1>3, <1>4, AsideOK

LEMMA ScheduleGCOK ==
  ASSUME IInv, NEW t \in Thread, ScheduleGC(t)
  PROVE  IInv'
<1>0. TypeOK /\ t \in Actor /\ LocalInv(t) /\ (t \in Agent => t \notin Thread)
  BY EvalBreakerAssumption DEF IInv, PlacesInv, LocalInv, Actor
<1> USE <1>0 DEF At, Goto, Compute, gil, flags, sigs, rings, frames, ScheduleGC
<1>1. TypeOK'
  BY EvalBreakerAssumption DEF TypeOK, Actor, Queue, ThreadLabel, AgentLabel, LocalInv, ThreadInv
<1>2. Moves(t)
  BY DEF TypeOK, Moves, Actor
<1>3. LocalInv(t)'
  BY EvalBreakerAssumption DEF TypeOK, Actor, LocalInv, ThreadInv, AgentInv, Popping, Returning,
     Looking, ThreadLabel, AgentLabel
<1>4. CallsAside(t) /\ SignalsAside(t)
  BY EvalBreakerAssumption DEF TypeOK, Actor, LocalInv, ThreadInv, AgentInv, CallsAside,
     SignalsAside, Handling, InTurn, Popping, Looking
<1> HIDE DEF ScheduleGC
<1> QED
  BY <1>1, <1>2, <1>3, <1>4, AsideOK

LEMMA RunGCOK ==
  ASSUME IInv, NEW t \in Thread, RunGC(t)
  PROVE  IInv'
<1>0. TypeOK /\ t \in Actor /\ LocalInv(t) /\ (t \in Agent => t \notin Thread)
  BY EvalBreakerAssumption DEF IInv, PlacesInv, LocalInv, Actor
<1> USE <1>0 DEF At, Goto, Compute, gil, flags, sigs, rings, frames, RunGC
<1>1. TypeOK'
  <2>1. /\ pc' \in [Actor -> ThreadLabel \cup AgentLabel]
        /\ ret' \in [Actor -> {"run", "idle", "want", "taken", "tripped", "pop", "drop", "finished"}]
    BY DEF TypeOK, ThreadLabel
  <2>2. {eval_breaker', gil_drop_request', signals_pending', gc_scheduled', async_flag', busy',
         is_tripped', tripped'} \subseteq BOOLEAN
    BY DEF TypeOK
  <2> QED
    BY <2>1, <2>2 DEF TypeOK, Queue
<1>2. Moves(t)
  BY DEF TypeOK, Moves, Actor
<1>3. LocalInv(t)'
  BY EvalBreakerAssumption DEF TypeOK, Actor, LocalInv, ThreadInv, AgentInv, Popping, Returning,
     Looking, ThreadLabel, AgentLabel
<1>4. CallsAside(t) /\ SignalsAside(t)
  BY EvalBreakerAssumption DEF TypeOK, Actor, LocalInv, ThreadInv, AgentInv, CallsAside,
     SignalsAside, Handling, InTurn, Popping, Looking
<1> HIDE DEF RunGC
<1> QED
  BY <1>1, <1>2, <1>3, <1>4, AsideOK

LEMMA RaiseAsyncExcOK ==
  ASSUME IInv, NEW t \in Thread, RaiseAsyncExc(t)
  PROVE  IInv'
<1>0. TypeOK /\ t \in Actor /\ LocalInv(t) /\ (t \in Agent => t \notin Thread)
  BY EvalBreakerAssumption DEF IInv, PlacesInv, LocalInv, Actor
<1> USE <1>0 DEF At, Goto, Compute, gil, flags, sigs, rings, frames, RaiseAsyncExc
<1>1. TypeOK'
  BY EvalBreakerAssumption DEF TypeOK, Actor, Queue, ThreadLabel, AgentLabel, LocalInv, ThreadInv
<1>2. Moves(t)
  BY DEF TypeOK, Moves, Actor
<1>3. LocalInv(t)'
  BY EvalBreakerAssumption DEF TypeOK, Actor, LocalInv, ThreadInv, AgentInv, Popping, Returning,
     Looking, ThreadLabel, AgentLabel
<1>4. CallsAside(t) /\ SignalsAside(t)
  BY EvalBreakerAssumption DEF TypeOK, Actor, LocalInv, ThreadInv, AgentInv, CallsAside,
     SignalsAside, Handling, InTurn, Popping, Looking
<1> HIDE DEF RaiseAsyncExc
<1> QED
  BY <1>1, <1>2, <1>3, <1>4, AsideOK

LEMMA TakeGilOK ==
  ASSUME IInv, NEW t \in Thread, TakeGil(t)
  PROVE  IInv'
<1>0. TypeOK /\ t \in Actor /\ LocalInv(t) /\ (t \in Agent => t \notin Thread)
  BY EvalBreakerAssumption DEF IInv, PlacesInv, LocalInv, Actor
<1> USE <1>0 DEF At, Goto, Compute, gil, flags, sigs, rings, frames, TakeGil, Gil!Acquire
<1>1. TypeOK'
  BY EvalBreakerAssumption DEF TypeOK, Actor, Queue, ThreadLabel, AgentLabel, LocalInv, ThreadInv
<1>2. Moves(t)
  BY DEF TypeOK, Moves, Actor
<1>3. LocalInv(t)'
  BY EvalBreakerAssumption DEF TypeOK, Actor, LocalInv, ThreadInv, AgentInv, Popping, Returning,
     Looking, ThreadLabel, AgentLabel
<1>4. CallsAside(t) /\ SignalsAside(t)
  BY EvalBreakerAssumption DEF TypeOK, Actor, LocalInv, ThreadInv, AgentInv, CallsAside,
     SignalsAside, Handling, InTurn, Popping, Looking
<1> HIDE DEF TakeGil
<1> QED
  BY <1>1, <1>2, <1>3, <1>4, AsideOK

LEMMA GilTakenOK ==
  ASSUME IInv, NEW t \in Thread, GilTaken(t)
  PROVE  IInv'
<1>0. TypeOK /\ t \in Actor /\ LocalInv(t) /\ (t \in Agent => t \notin Thread)
  BY EvalBreakerAssumption DEF IInv, PlacesInv, LocalInv, Actor
<1> USE <1>0 DEF At, Goto, Compute, gil, flags, sigs, rings, frames, GilTaken
<1>1. TypeOK'
  BY EvalBreakerAssumption DEF TypeOK, Actor, Queue, ThreadLabel, AgentLabel, LocalInv, ThreadInv
<1>2. Moves(t)
  BY DEF TypeOK, Moves, Actor
<1>3. LocalInv(t)'
  BY EvalBreakerAssumption DEF TypeOK, Actor, LocalInv, ThreadInv, AgentInv, Popping, Returning,
     Looking, ThreadLabel, AgentLabel
<1>4. CallsAside(t) /\ SignalsAside(t)
  BY EvalBreakerAssumption DEF TypeOK, Actor, LocalInv, ThreadInv, AgentInv, CallsAside,
     SignalsAside, Handling, InTurn, Popping, Looking
<1> HIDE DEF GilTaken
<1> QED
  BY <1>1, <1>2, <1>3, <1>4, AsideOK

LEMMA RequestDropOK ==
  ASSUME IInv, NEW t \in Thread, RequestDrop(t)
  PROVE  IInv'
<1>0. TypeOK /\ t \in Actor /\ LocalInv(t) /\ (t \in Agent => t \notin Thread)
  BY EvalBreakerAssumption DEF IInv, PlacesInv, LocalInv, Actor
<1> USE <1>0 DEF At, Goto, Compute, gil, flags, sigs, rings, frames, RequestDrop
<1>1. TypeOK'
  BY EvalBreakerAssumption DEF TypeOK, Actor, Queue, ThreadLabel, AgentLabel, LocalInv, ThreadInv
<1>2. Moves(t)
  BY DEF TypeOK, Moves, Actor
<1>3. LocalInv(t)'
  BY EvalBreakerAssumption DEF TypeOK, Actor, LocalInv, ThreadInv, AgentInv, Popping, Returning,
     Looking, ThreadLabel, AgentLabel
<1>4. CallsAside(t) /\ SignalsAside(t)
  BY EvalBreakerAssumption DEF TypeOK, Actor, LocalInv, ThreadInv, AgentInv, CallsAside,
     SignalsAside, Handling, InTurn, Popping, Looking
<1> HIDE DEF RequestDrop
<1> QED
  BY <1>1, <1>2, <1>3, <1>4, AsideOK

LEMMA DropGilOK ==
  ASSUME IInv, NEW t \in Thread, DropGil(t)
  PROVE  IInv'
<1>0. TypeOK /\ t \in Actor /\ LocalInv(t) /\ (t \in Agent => t \notin Thread)
  BY EvalBreakerAssumption DEF IInv, PlacesInv, LocalInv, Actor
<1> USE <1>0 DEF At, Goto, Compute, gil, flags, sigs, rings, frames, DropGil, Gil!Release
<1>1. TypeOK'
  BY EvalBreakerAssumption DEF TypeOK, Actor, Queue, ThreadLabel, AgentLabel, LocalInv, ThreadInv
<1>2. Moves(t)
  BY DEF TypeOK, Moves, Actor
<1>3. LocalInv(t)'
  BY EvalBreakerAssumption DEF TypeOK, Actor, LocalInv, ThreadInv, AgentInv, Popping, Returning,
     Looking, ThreadLabel, AgentLabel
<1>4. CallsAside(t) /\ SignalsAside(t)
  BY EvalBreakerAssumption DEF TypeOK, Actor, LocalInv, ThreadInv, AgentInv, CallsAside,
     SignalsAside, Handling, InTurn, Popping, Looking
<1> HIDE DEF DropGil
<1> QED
  BY <1>1, <1>2, <1>3, <1>4, AsideOK

LEMMA YieldGilOK ==
  ASSUME IInv, NEW t \in Thread, YieldGil(t)
  PROVE  IInv'
<1>0. TypeOK /\ t \in Actor /\ LocalInv(t) /\ (t \in Agent => t \notin Thread)
  BY EvalBreakerAssumption DEF IInv, PlacesInv, LocalInv, Actor
<1> USE <1>0 DEF At, Goto, Compute, gil, flags, sigs, rings, frames, YieldGil, Gil!Yield
<1>1. TypeOK'
  <2>1. /\ pc' \in [Actor -> ThreadLabel \cup AgentLabel]
        /\ ret' \in [Actor -> {"run", "idle", "want", "taken", "tripped", "pop", "drop", "finished"}]
    BY DEF TypeOK, ThreadLabel
  <2>2. {eval_breaker', gil_drop_request', signals_pending', gc_scheduled', async_flag', busy',
         is_tripped', tripped'} \subseteq BOOLEAN
    BY DEF TypeOK
  <2> QED
    BY <2>1, <2>2 DEF TypeOK, Queue
<1>2. Moves(t)
  BY DEF TypeOK, Moves, Actor
<1>3. LocalInv(t)'
  BY EvalBreakerAssumption DEF TypeOK, Actor, LocalInv, ThreadInv, AgentInv, Popping, Returning,
     Looking, ThreadLabel, AgentLabel
<1>4. CallsAside(t) /\ SignalsAside(t)
  BY EvalBreakerAssumption DEF TypeOK, Actor, LocalInv, ThreadInv, AgentInv, CallsAside,
     SignalsAside, Handling, InTurn, Popping, Looking
<1> HIDE DEF YieldGil
<1> QED
  BY <1>1, <1>2, <1>3, <1>4, AsideOK

LEMMA SaveThreadOK ==
  ASSUME IInv, NEW t \in Thread, SaveThread(t)
  PROVE  IInv'
<1>0. TypeOK /\ t \in Actor /\ LocalInv(t) /\ (t \in Agent => t \notin Thread)
  BY EvalBreakerAssumption DEF IInv, PlacesInv, LocalInv, Actor
<1> USE <1>0 DEF At, Goto, Compute, gil, flags, sigs, rings, frames, SaveThread, Gil!Release
<1>1. TypeOK'
  BY EvalBreakerAssumption DEF TypeOK, Actor, Queue, ThreadLabel, AgentLabel, LocalInv, ThreadInv
<1>2. Moves(t)
  BY DEF TypeOK, Moves, Actor
<1>3. LocalInv(t)'
  BY EvalBreakerAssumption DEF TypeOK, Actor, LocalInv, ThreadInv, AgentInv, Popping, Returning,
     Looking, ThreadLabel, AgentLabel
<1>4. CallsAside(t) /\ SignalsAside(t)
  BY EvalBreakerAssumption DEF TypeOK, Actor, LocalInv, ThreadInv, AgentInv, CallsAside,
     SignalsAside, Handling, InTurn, Popping, Looking
<1> HIDE DEF SaveThread
<1> QED
  BY <1>1, <1>2, <1>3, <1>4, AsideOK

LEMMA RestoreThreadOK ==
  ASSUME IInv, NEW t \in Thread, RestoreThread(t)
  PROVE  IInv'
<1>0. TypeOK /\ t \in Actor /\ LocalInv(t) /\ (t \in Agent => t \notin Thread)
  BY EvalBreakerAssumption DEF IInv, PlacesInv, LocalInv, Actor
<1> USE <1>0 DEF At, Goto, Compute, gil, flags, sigs, rings, frames, RestoreThread
<1>1. TypeOK'
  BY EvalBreakerAssumption DEF TypeOK, Actor, Queue, ThreadLabel, AgentLabel, LocalInv, ThreadInv
<1>2. Moves(t)
  BY DEF TypeOK, Moves, Actor
<1>3. LocalInv(t)'
  BY EvalBreakerAssumption DEF TypeOK, Actor, LocalInv, ThreadInv, AgentInv, Popping, Returning,
     Looking, ThreadLabel, AgentLabel
<1>4. CallsAside(t) /\ SignalsAside(t)
  BY EvalBreakerAssumption DEF TypeOK, Actor, LocalInv, ThreadInv, AgentInv, CallsAside,
     SignalsAside, Handling, InTurn, Popping, Looking
<1> HIDE DEF RestoreThread
<1> QED
  BY <1>1, <1>2, <1>3, <1>4, AsideOK

LEMMA LoadFlagsOK ==
  ASSUME IInv, NEW t \in Actor, LoadFlags(t)
  PROVE  IInv'
<1>0. TypeOK /\ t \in Actor /\ LocalInv(t) /\ (t \in Agent => t \notin Thread)
  BY EvalBreakerAssumption DEF IInv, PlacesInv, LocalInv, Actor
<1> USE <1>0 DEF At, Goto, Compute, gil, flags, sigs, rings, frames, LoadFlags
<1>1. TypeOK'
  BY EvalBreakerAssumption DEF TypeOK, Actor, Queue, ThreadLabel, AgentLabel, LocalInv, ThreadInv
<1>2. Moves(t)
  BY DEF TypeOK, Moves, Actor
<1>3. LocalInv(t)'
  BY EvalBreakerAssumption DEF TypeOK, Actor, LocalInv, ThreadInv, AgentInv, Popping, Returning,
     Looking, ThreadLabel, AgentLabel
<1>4. CallsAside(t) /\ SignalsAside(t)
  BY EvalBreakerAssumption DEF TypeOK, Actor, LocalInv, ThreadInv, AgentInv, CallsAside,
     SignalsAside, Handling, InTurn, Popping, Looking
<1> HIDE DEF LoadFlags
<1> QED
  BY <1>1, <1>2, <1>3, <1>4, AsideOK

LEMMA StoreBreakerOK ==
  ASSUME IInv, NEW t \in Actor, StoreBreaker(t)
  PROVE  IInv'
<1>0. TypeOK /\ t \in Actor /\ LocalInv(t) /\ (t \in Agent => t \notin Thread)
  BY EvalBreakerAssumption DEF IInv, PlacesInv, LocalInv, Actor
<1> USE <1>0 DEF At, Goto, Compute, gil, flags, sigs, rings, frames, StoreBreaker
<1>1. TypeOK'
  BY EvalBreakerAssumption DEF TypeOK, Actor, Queue, ThreadLabel, AgentLabel, LocalInv, ThreadInv
<1>2. Moves(t)
  BY DEF TypeOK, Moves, Actor
<1>3. LocalInv(t)'
  BY EvalBreakerAssumption DEF TypeOK, Actor, LocalInv, ThreadInv, AgentInv, Popping, Returning,
     Looking, ThreadLabel, AgentLabel
<1>4. CallsAside(t) /\ SignalsAside(t)
  BY EvalBreakerAssumption DEF TypeOK, Actor, LocalInv, ThreadInv, AgentInv, CallsAside,
     SignalsAside, Handling, InTurn, Popping, Looking
<1> HIDE DEF StoreBreaker
<1> QED
  BY <1>1, <1>2, <1>3, <1>4, AsideOK

LEMMA SetAsyncExcOK ==
  ASSUME IInv, NEW t \in Thread, NEW u \in Thread, SetAsyncExc(t, u)
  PROVE  IInv'
<1>0. TypeOK /\ t \in Actor /\ LocalInv(t) /\ (t \in Agent => t \notin Thread)
  BY EvalBreakerAssumption DEF IInv, PlacesInv, LocalInv, Actor
<1> USE <1>0 DEF At, Goto, Compute, gil, flags, sigs, rings, frames, SetAsyncExc
<1>1. TypeOK'
  BY EvalBreakerAssumption DEF TypeOK, Actor, Queue, ThreadLabel, AgentLabel, LocalInv, ThreadInv
<1>2. Moves(t)
  BY DEF TypeOK, Moves, Actor
<1>3. LocalInv(t)'
  BY EvalBreakerAssumption DEF TypeOK, Actor, LocalInv, ThreadInv, AgentInv, Popping, Returning,
     Looking, ThreadLabel, AgentLabel
<1>4. CallsAside(t) /\ SignalsAside(t)
  BY EvalBreakerAssumption DEF TypeOK, Actor, LocalInv, ThreadInv, AgentInv, CallsAside,
     SignalsAside, Handling, InTurn, Popping, Looking
<1> HIDE DEF SetAsyncExc
<1> QED
  BY <1>1, <1>2, <1>3, <1>4, AsideOK
-----------------------------------------------------------------------------
(* The queues *)

LEMMA AppendOfConcat ==
  ASSUME NEW s \in Seq(Call), NEW z \in Seq(Call), NEW c \in Call
  PROVE  Append(s \o z, c) = s \o Append(z, c)
<1>1. Append(s \o z, c) = (s \o z) \o <<c>>
  BY ConcatProperties, AppendIsConcat
<1>2. Append(z, c) = z \o <<c>>
  BY AppendIsConcat
<1>3. <<c>> \in Seq(Call)
  OBVIOUS
<1> QED
  BY <1>1, <1>2, <1>3, ConcatAssociative

LEMMA BusyEnters ==
  ASSUME BusyInv, NEW t \in Thread, Moves(t), ~busy, busy' = TRUE, Handling(t)'
  PROVE  BusyInv'
<1>1. \A u \in Thread : u # t => ~Handling(u)'
  BY OthersHandle DEF BusyInv, Actor
<1> QED
  BY <1>1 DEF BusyInv

LEMMA BusyLeaves ==
  ASSUME BusyInv, NEW t \in Thread, Moves(t), Handling(t), busy' = FALSE, ~Handling(t)'
  PROVE  BusyInv'
<1>1. \A u \in Thread : u # t => ~Handling(u)'
  BY OthersHandle DEF BusyInv, Actor
<1> QED
  BY <1>1 DEF BusyInv

LEMMA SignalCallsOK ==
  ASSUME IInv, NEW t \in Actor, SignalCalls(t)
  PROVE  IInv'
<1>0. TypeOK /\ t \in Actor /\ LocalInv(t) /\ (t \in Agent => t \notin Thread)
  BY EvalBreakerAssumption DEF IInv, PlacesInv, LocalInv, Actor
<1> USE <1>0 DEF At, Goto, Compute, gil, flags, sigs, rings, frames, SignalCalls
<1>1. TypeOK'
  BY EvalBreakerAssumption DEF TypeOK, Actor, Queue, ThreadLabel, AgentLabel, LocalInv, ThreadInv
<1>2. Moves(t)
  BY DEF TypeOK, Moves, Actor
<1>3. LocalInv(t)'
  BY EvalBreakerAssumption DEF TypeOK, Actor, LocalInv, ThreadInv, AgentInv, Popping, Returning,
     Looking, ThreadLabel, AgentLabel
<1>4. PlacesInv'
  BY <1>2, <1>3, PlacesKept DEF IInv
<1>5. BusyInv'
  <2>1. t \in Thread => (Handling(t)' <=> Handling(t))
    BY EvalBreakerAssumption DEF TypeOK, Handling, LocalInv, ThreadInv
  <2> QED
    BY <1>2, <2>1, BusyKept DEF IInv
<1>6. HistoryInv'
  BY HistoryKept DEF IInv
<1>7. InterpInv'
  <2>1. pc[t] = "signal" /\ queue[t] = "interp" => Announced'
    BY DEF TypeOK, Announced, Queue
  <2>2. t \in Thread => (InTurn(t) => InTurn(t)')
    BY DEF TypeOK, InTurn, Popping, LocalInv, ThreadInv
  <2>3. calls_to_do["interp"] => calls_to_do'["interp"]
    BY DEF TypeOK, Queue
  <2> QED
    BY <1>2, <2>1, <2>2, <2>3, InterpKept DEF IInv
<1>8. TrippedInv'
  <2>1. SignalsAside(t)
    BY EvalBreakerAssumption DEF TypeOK, Actor, LocalInv, ThreadInv, AgentInv, SignalsAside, Looking
  <2> QED
    BY <1>2, <2>1, TrippedKept DEF IInv
<1> HIDE DEF SignalCalls
<1> QED
  BY <1>1, <1>4, <1>5, <1>6, <1>7, <1>8 DEF IInv

LEMMA AddPendingCallOK ==
  ASSUME IInv, NEW t \in Actor, NEW c \in Call, AddPendingCall(t, c)
  PROVE  IInv'
<1>0. TypeOK /\ t \in Actor /\ LocalInv(t) /\ (t \in Agent => t \notin Thread)
  BY EvalBreakerAssumption DEF IInv, PlacesInv, LocalInv, Actor
<1> USE <1>0 DEF At, Goto, Compute, gil, flags, sigs, rings, frames, AddPendingCall
<1>a. QueueOf(c) \in Queue /\ pending \in [Queue -> Ring] /\ RingInv(pending[QueueOf(c)], QueueOf(c))
  BY DEF TypeOK, Ring, QueueOf, Queue, IInv, HistoryInv
<1>b. pending' \in [Queue -> Ring]
  <2>1. CASE Full(pending[QueueOf(c)])
    BY <1>a, <2>1
  <2>2. CASE ~Full(pending[QueueOf(c)])
    <3>1. pending' = [pending EXCEPT ![QueueOf(c)] = Pushed(pending[QueueOf(c)], c)]
      BY <2>2
    <3>2. Pushed(pending[QueueOf(c)], c) \in Ring
      BY <1>a, <2>2, PushedRing
    <3> QED
      BY <1>a, <3>1, <3>2, Zenon
  <2> QED
    BY <2>1, <2>2
<1>1. TypeOK'
  <2>1. /\ pc' \in [Actor -> ThreadLabel \cup AgentLabel] /\ queue' \in [Actor -> Queue]
        /\ ret' \in [Actor -> {"run", "idle", "want", "taken", "tripped", "pop", "drop", "finished"}]
    BY <1>a DEF TypeOK, ThreadLabel
  <2> QED
    BY <1>b, <2>1 DEF TypeOK, Ring
<1>2. Moves(t)
  BY DEF TypeOK, Moves, Actor
<1>3. LocalInv(t)'
  BY EvalBreakerAssumption DEF TypeOK, Actor, LocalInv, ThreadInv, AgentInv, Popping, Returning,
     Looking, ThreadLabel, AgentLabel
<1>4. PlacesInv'
  BY <1>2, <1>3, PlacesKept DEF IInv
<1>5. BusyInv'
  <2>1. t \in Thread => (Handling(t)' <=> Handling(t))
    BY EvalBreakerAssumption DEF TypeOK, Handling, LocalInv, ThreadInv
  <2> QED
    BY <1>2, <2>1, BusyKept DEF IInv
<1>6. HistoryInv'
  <2>1. CASE Full(pending[QueueOf(c)])
    BY <2>1, HistoryKept DEF IInv
  <2>2. CASE ~Full(pending[QueueOf(c)])
    <3> DEFINE q == QueueOf(c)
    <3>1. /\ pending' = [pending EXCEPT ![q] = Pushed(pending[q], c)]
          /\ accepted' = [accepted EXCEPT ![q] = Append(accepted[q], c)]
          /\ executed' = executed
      BY <2>2
    <3>2. /\ RingInv(Pushed(pending[q], c), q)
          /\ Content(Pushed(pending[q], c)) = Append(Content(pending[q]), c)
      BY <1>a, <2>2, PushedRing
    <3>3. /\ accepted[q] \in Seq(Call) /\ executed[q] \in Seq(Call)
          /\ accepted[q] = executed[q] \o Content(pending[q])
          /\ Content(pending[q]) \in Seq(Call)
      BY <1>a, ContentType DEF IInv, HistoryInv
    <3>4. Append(accepted[q], c) = executed[q] \o Append(Content(pending[q]), c)
      <4>1. Append(executed[q] \o Content(pending[q]), c) = executed[q] \o Append(Content(pending[q]), c)
        BY <3>3, AppendOfConcat, Zenon
      <4> QED
        BY <3>3, <4>1
    <3>5. Append(accepted[q], c) \in Seq(Call)
      BY <3>3
    <3>6. accepted' \in [Queue -> Seq(Call)] /\ executed' \in [Queue -> Seq(Call)]
      BY <3>1, <3>5, Zenon DEF IInv, HistoryInv
    <3>7. ASSUME NEW r \in Queue
          PROVE  /\ RingInv(pending'[r], r)
                 /\ accepted'[r] = executed'[r] \o Content(pending'[r])
      <4>1. CASE r = q
        <5>1. pending'[r] = Pushed(pending[q], c) /\ accepted'[r] = Append(accepted[q], c)
          BY <1>a, <3>1, <4>1 DEF IInv, HistoryInv
        <5> QED
          BY <3>1, <3>2, <3>4, <4>1, <5>1
      <4>2. CASE r # q
        <5>1. pending'[r] = pending[r] /\ accepted'[r] = accepted[r]
          BY <1>a, <3>1, <4>2 DEF IInv, HistoryInv
        <5> QED
          BY <3>1, <5>1 DEF IInv, HistoryInv
      <4> QED
        BY <4>1, <4>2
    <3> QED
      BY <3>6, <3>7, Zenon DEF HistoryInv
  <2> QED
    BY <2>1, <2>2
<1>7. InterpInv'
  <2>1. CASE QueueOf(c) = "interp"
    BY <2>1 DEF InterpInv, Announced, TypeOK
  <2>2. CASE QueueOf(c) # "interp"
    <3>1. pending'["interp"] = pending["interp"]
      BY <2>2, <1>a DEF TypeOK, Queue
    <3>2. t \in Thread => (InTurn(t) => InTurn(t)')
      BY <3>1 DEF TypeOK, InTurn, Popping
    <3> QED
      BY <1>2, <3>1, <3>2, InterpKept DEF IInv
  <2> QED
    BY <2>1, <2>2
<1>8. TrippedInv'
  <2>1. SignalsAside(t)
    BY EvalBreakerAssumption DEF TypeOK, Actor, LocalInv, ThreadInv, AgentInv, SignalsAside, Looking
  <2> QED
    BY <1>2, <2>1, TrippedKept DEF IInv
<1> HIDE DEF AddPendingCall
<1> QED
  BY <1>1, <1>4, <1>5, <1>6, <1>7, <1>8 DEF IInv

LEMMA ConcatOfAppend ==
  ASSUME NEW s \in Seq(Call), NEW z \in Seq(Call), NEW c \in Call
  PROVE  s \o (<<c>> \o z) = Append(s, c) \o z
<1>1. Append(s, c) = s \o <<c>>
  BY AppendIsConcat
<1>2. <<c>> \in Seq(Call)
  OBVIOUS
<1> QED
  BY <1>1, <1>2, ConcatAssociative

LEMMA FinishPendingCallsOK ==
  ASSUME IInv, NEW t \in {Main}, FinishPendingCalls
  PROVE  IInv'
<1>0. TypeOK /\ t \in Actor /\ LocalInv(t) /\ (t \in Agent => t \notin Thread)
  BY EvalBreakerAssumption DEF IInv, PlacesInv, LocalInv, Actor
<1> USE <1>0 DEF At, Goto, Compute, gil, flags, sigs, rings, frames, FinishPendingCalls
<1>1. TypeOK'
  BY EvalBreakerAssumption DEF TypeOK, Actor, Queue, ThreadLabel, AgentLabel, LocalInv, ThreadInv
<1>2. Moves(t)
  BY EvalBreakerAssumption DEF TypeOK, Moves, Actor
<1>3. LocalInv(t)'
  BY EvalBreakerAssumption DEF TypeOK, Actor, LocalInv, ThreadInv, AgentInv, Popping, Returning,
     Looking, ThreadLabel, AgentLabel
<1>4. CallsAside(t) /\ SignalsAside(t)
  BY EvalBreakerAssumption DEF TypeOK, Actor, LocalInv, ThreadInv, AgentInv, CallsAside,
     SignalsAside, Handling, InTurn, Popping, Looking
<1> HIDE DEF FinishPendingCalls
<1> QED
  BY <1>1, <1>2, <1>3, <1>4, AsideOK

LEMMA EnterCallsOK ==
  ASSUME IInv, NEW t \in Thread, EnterCalls(t)
  PROVE  IInv'
<1>0. TypeOK /\ t \in Actor /\ LocalInv(t) /\ (t \in Agent => t \notin Thread)
  BY EvalBreakerAssumption DEF IInv, PlacesInv, LocalInv, Actor
<1> USE <1>0 DEF At, Goto, Compute, gil, flags, sigs, rings, frames, EnterCalls, Busy
<1>a. /\ pc[t] = "enter" /\ busy' = TRUE
      /\ \E l \in {"gc", "run", "finished", "unmain", "uninterp"} :
           /\ pc' = [pc EXCEPT ![t] = l]
           /\ busy <=> l \notin {"unmain", "uninterp"}
  BY AfterTypes DEF TypeOK
<1>b. running[t] # NoCall => busy
  BY DEF IInv, BusyInv, Handling
<1>c. UNCHANGED <<ret, running, queue, count, back, calls_to_do, pending, accepted, executed,
                  is_tripped, tripped, signals_pending>>
  OBVIOUS
<1>1. TypeOK'
  <2>1. pc' \in [Actor -> ThreadLabel \cup AgentLabel]
    BY <1>a DEF TypeOK, ThreadLabel
  <2>2. {eval_breaker', gil_drop_request', signals_pending', gc_scheduled', async_flag', busy',
         is_tripped', tripped'} \subseteq BOOLEAN
    BY <1>a DEF TypeOK
  <2> QED
    BY <2>1, <2>2 DEF TypeOK
<1>2. Moves(t)
  BY DEF TypeOK, Moves, Actor
<1>3. LocalInv(t)'
  BY <1>a, <1>b, <1>c DEF TypeOK, Actor, LocalInv, ThreadInv, Popping, Returning, Looking,
     ThreadLabel
<1>4. PlacesInv'
  BY <1>2, <1>3, PlacesKept DEF IInv
<1>5. BusyInv'
  <2>1. CASE busy
    <3>1. Handling(t)' <=> Handling(t)
      BY <1>a, <1>c, <2>1 DEF TypeOK, Handling, Actor
    <3> QED
      BY <1>2, <1>a, <2>1, <3>1, BusyKept DEF IInv, TypeOK
  <2>2. CASE ~busy
    <3>1. Handling(t)'
      BY <1>a, <2>2 DEF TypeOK, Handling, Actor
    <3> QED
      BY <1>2, <1>a, <2>2, <3>1, BusyEnters DEF IInv
  <2> QED
    BY <2>1, <2>2
<1>6. HistoryInv'
  BY HistoryKept DEF IInv
<1>7. InterpInv'
  <2>1. pc[t] = "signal" /\ queue[t] = "interp" => Announced'
    BY DEF TypeOK, Announced, Queue
  <2>2. t \in Thread => (InTurn(t) => InTurn(t)')
    BY <1>a, <1>c DEF TypeOK, InTurn, Popping, LocalInv, ThreadInv
  <2>3. calls_to_do["interp"] => calls_to_do'["interp"]
    BY DEF TypeOK, Queue
  <2> QED
    BY <1>2, <2>1, <2>2, <2>3, InterpKept DEF IInv
<1>8. TrippedInv'
  <2>1. SignalsAside(t)
    BY EvalBreakerAssumption DEF TypeOK, Actor, LocalInv, ThreadInv, AgentInv, SignalsAside, Looking
  <2> QED
    BY <1>2, <2>1, TrippedKept DEF IInv
<1> HIDE DEF EnterCalls
<1> QED
  BY <1>1, <1>4, <1>5, <1>6, <1>7, <1>8 DEF IInv

LEMMA UnsignalInterpOK ==
  ASSUME IInv, NEW t \in Thread, UnsignalInterp(t)
  PROVE  IInv'
<1>0. TypeOK /\ t \in Actor /\ LocalInv(t) /\ (t \in Agent => t \notin Thread)
  BY EvalBreakerAssumption DEF IInv, PlacesInv, LocalInv, Actor
<1> USE <1>0 DEF At, Goto, Compute, gil, flags, sigs, rings, frames, UnsignalInterp
<1>1. TypeOK'
  BY EvalBreakerAssumption DEF TypeOK, Actor, Queue, ThreadLabel, AgentLabel, LocalInv, ThreadInv
<1>2. Moves(t)
  BY DEF TypeOK, Moves, Actor
<1>3. LocalInv(t)'
  BY EvalBreakerAssumption DEF TypeOK, Actor, LocalInv, ThreadInv, AgentInv, Popping, Returning,
     Looking, ThreadLabel, AgentLabel
<1>4. PlacesInv'
  BY <1>2, <1>3, PlacesKept DEF IInv
<1>5. BusyInv'
  <2>1. t \in Thread => (Handling(t)' <=> Handling(t))
    BY EvalBreakerAssumption DEF TypeOK, Handling, LocalInv, ThreadInv
  <2> QED
    BY <1>2, <2>1, BusyKept DEF IInv
<1>6. HistoryInv'
  BY HistoryKept DEF IInv
<1>7. InterpInv'
  <2>1. pending["interp"] \in Ring
    BY DEF TypeOK, Ring, Queue
  <2>2. Size(pending["interp"]) + 0 < NPENDINGCALLS
    BY <2>1, SizeValue, RingEnds
  <2>3. Popping(t)' /\ queue'[t] = "interp" /\ count'[t] = 0 /\ pending' = pending
    BY DEF TypeOK, Popping
  <2>4. InTurn(t)'
    BY <2>2, <2>3 DEF InTurn
  <2> QED
    BY <2>4 DEF InterpInv
<1>8. TrippedInv'
  <2>1. SignalsAside(t)
    BY EvalBreakerAssumption DEF TypeOK, Actor, LocalInv, ThreadInv, AgentInv, SignalsAside, Looking
  <2> QED
    BY <1>2, <2>1, TrippedKept DEF IInv
<1> HIDE DEF UnsignalInterp
<1> QED
  BY <1>1, <1>4, <1>5, <1>6, <1>7, <1>8 DEF IInv

LEMMA PopCallOK ==
  ASSUME IInv, NEW t \in Thread, PopCall(t)
  PROVE  IInv'
<1>0. TypeOK /\ t \in Actor /\ LocalInv(t) /\ (t \in Agent => t \notin Thread)
  BY EvalBreakerAssumption DEF IInv, PlacesInv, LocalInv, Actor
<1> USE <1>0 DEF At, Goto, Compute, gil, flags, sigs, rings, frames, PopCall
<1> DEFINE q == queue[t]
           c == pending[q].calls[pending[q].first]
<1>a. q \in Queue /\ pending \in [Queue -> Ring] /\ RingInv(pending[q], q) /\ ~Empty(pending[q])
  BY DEF TypeOK, Ring, IInv, HistoryInv, Actor
<1>b. /\ c \in Call /\ QueueOf(c) = q
      /\ Popped(pending[q]) \in Ring /\ RingInv(Popped(pending[q]), q)
      /\ Size(pending[q]) = Size(Popped(pending[q])) + 1
      /\ Content(pending[q]) = <<c>> \o Content(Popped(pending[q]))
  BY <1>a, PoppedRing
<1>c. /\ pending' = [pending EXCEPT ![q] = Popped(pending[q])]
      /\ executed' = [executed EXCEPT ![q] = Append(executed[q], c)] /\ accepted' = accepted
      /\ running' = [running EXCEPT ![t] = c]
      /\ pc[t] = "pop" /\ count[t] < NPENDINGCALLS /\ pc' = [pc EXCEPT ![t] = "run"]
      /\ UNCHANGED <<ret, queue, count, back, busy, calls_to_do>>
  OBVIOUS
<1>d. pending' \in [Queue -> Ring]
  BY <1>a, <1>b, <1>c, Zenon
<1> HIDE DEF q, c
<1>1. TypeOK'
  BY <1>b, <1>c, <1>d DEF TypeOK, Ring, ThreadLabel, Actor
<1>2. Moves(t)
  BY <1>c DEF TypeOK, Moves, Actor
<1>3. LocalInv(t)'
  <2>1. c \in MainThreadOnly => t = Main
    BY <1>b, <1>c DEF q, QueueOf, LocalInv, ThreadInv, Popping
  <2> QED
    BY <1>c, <2>1 DEF TypeOK, Actor, LocalInv, ThreadInv, Popping, Returning, Looking, ThreadLabel
<1>4. PlacesInv'
  BY <1>2, <1>3, PlacesKept DEF IInv
<1>5. BusyInv'
  <2>1. Handling(t)' <=> Handling(t)
    BY <1>b, <1>c, EvalBreakerAssumption DEF TypeOK, Handling
  <2> QED
    BY <1>2, <1>c, <2>1, BusyKept DEF IInv
<1>6. HistoryInv'
  <2>1. /\ accepted[q] \in Seq(Call) /\ executed[q] \in Seq(Call)
        /\ accepted[q] = executed[q] \o Content(pending[q])
        /\ Content(Popped(pending[q])) \in Seq(Call)
    BY <1>a, <1>b, ContentType DEF IInv, HistoryInv
  <2>2. accepted[q] = Append(executed[q], c) \o Content(Popped(pending[q]))
    <3>1. executed[q] \o (<<c>> \o Content(Popped(pending[q])))
            = Append(executed[q], c) \o Content(Popped(pending[q]))
      BY <1>b, <2>1, ConcatOfAppend, Zenon
    <3> QED
      BY <1>b, <2>1, <3>1
  <2>3. Append(executed[q], c) \in Seq(Call)
    BY <1>b, <2>1
  <2>4. accepted' \in [Queue -> Seq(Call)] /\ executed' \in [Queue -> Seq(Call)]
    BY <1>c, <2>3, ZenonT(60) DEF IInv, HistoryInv
  <2>5. ASSUME NEW r \in Queue
        PROVE  /\ RingInv(pending'[r], r)
               /\ accepted'[r] = executed'[r] \o Content(pending'[r])
    <3>1. CASE r = q
      <4>1. pending'[r] = Popped(pending[q]) /\ executed'[r] = Append(executed[q], c)
        BY <1>a, <1>c, <3>1 DEF IInv, HistoryInv
      <4> QED
        BY <1>b, <1>c, <2>2, <3>1, <4>1
    <3>2. CASE r # q
      <4>1. pending'[r] = pending[r] /\ executed'[r] = executed[r]
        BY <1>a, <1>c, <3>2 DEF IInv, HistoryInv
      <4> QED
        BY <1>c, <4>1 DEF IInv, HistoryInv
    <3> QED
      BY <3>1, <3>2
  <2> QED
    BY <2>4, <2>5, Zenon DEF HistoryInv
<1>7. InterpInv'
  <2>1. CASE q = "interp"
    <3>1. CASE Announced
      BY <1>c, <1>2, <3>1 DEF InterpInv, Announced, Moves
    <3>2. ASSUME NEW u \in Thread, InTurn(u) PROVE InTurn(t)'
      <4>1. Handling(u) /\ Handling(t)
        BY <1>c, <3>2 DEF InTurn, Handling, Popping
      <4>2. u = t
        BY <4>1 DEF IInv, BusyInv
      <4>3. Size(pending[q]) + count[t] < NPENDINGCALLS
        BY <1>c, <2>1, <3>2, <4>2 DEF InTurn, Popping, LocalInv, ThreadInv
      <4>4. /\ running'[t] = c /\ c # NoCall /\ count'[t] = count[t]
            /\ pending'[q] = Popped(pending[q])
        BY <1>a, <1>b, <1>c, EvalBreakerAssumption DEF TypeOK
      <4>5. Size(pending'[q]) + count'[t] + 1 < NPENDINGCALLS
        <5>1. Size(Popped(pending[q])) \in Nat /\ count[t] \in Nat /\ NPENDINGCALLS \in Nat
          BY <1>b, SizeValue, RingEnds DEF TypeOK
        <5> QED
          BY <1>b, <4>3, <4>4, <5>1
      <4> QED
        BY <1>b, <2>1, <4>4, <4>5 DEF InTurn
    <3> QED
      BY <1>a, <2>1, <3>1, <3>2 DEF IInv, InterpInv
  <2>2. CASE q # "interp"
    <3>1. pending'["interp"] = pending["interp"]
      BY <1>a, <1>c, <2>2 DEF Queue
    <3>2. ~InTurn(t) /\ pc[t] # "signal"
      BY <1>c, <2>2 DEF InTurn, Popping, LocalInv, ThreadInv, q
    <3> QED
      BY <1>2, <1>c, <3>1, <3>2, InterpKept DEF IInv
  <2> QED
    BY <2>1, <2>2
<1>8. TrippedInv'
  <2>1. SignalsAside(t)
    BY <1>c DEF TypeOK, Actor, LocalInv, ThreadInv, SignalsAside, Looking
  <2> QED
    BY <1>2, <2>1, TrippedKept DEF IInv
<1> HIDE DEF PopCall
<1> QED
  BY <1>1, <1>4, <1>5, <1>6, <1>7, <1>8 DEF IInv
-----------------------------------------------------------------------------
(* The end of the calls, and the signals *)

LEMMA EndOfCallsOK ==
  ASSUME IInv, NEW t \in Thread, EndOfCalls(t)
  PROVE  IInv'
<1>0. TypeOK /\ t \in Actor /\ LocalInv(t) /\ (t \in Agent => t \notin Thread)
  BY EvalBreakerAssumption DEF IInv, PlacesInv, LocalInv, Actor
<1> USE <1>0 DEF At, Goto, Compute, gil, flags, sigs, rings, frames, EndOfCalls
<1>a. /\ pc[t] = "pop" /\ running[t] = NoCall
      /\ count[t] = NPENDINGCALLS \/ Empty(pending[queue[t]])
      /\ UNCHANGED <<pending, accepted, executed, running, ret, back, calls_to_do, is_tripped,
                     tripped, signals_pending>>
  BY DEF LocalInv, ThreadInv, Popping
<1>b. \/ /\ MainQueueNext(t) /\ queue' = [queue EXCEPT ![t] = "mainthread"]
         /\ count' = [count EXCEPT ![t] = 0] /\ UNCHANGED <<busy, pc>>
      \/ \E l \in {"gc", "run", "finished"} :
           busy' = FALSE /\ pc' = [pc EXCEPT ![t] = l] /\ UNCHANGED <<queue, count>>
  BY AfterTypes
<1>1. TypeOK'
  <2>1. /\ pc' \in [Actor -> ThreadLabel \cup AgentLabel] /\ queue' \in [Actor -> Queue]
        /\ count' \in [Thread -> 0 .. NPENDINGCALLS]
    BY <1>b, EvalBreakerAssumption DEF TypeOK, ThreadLabel, Queue
  <2>2. {eval_breaker', gil_drop_request', signals_pending', gc_scheduled', async_flag', busy',
         is_tripped', tripped'} \subseteq BOOLEAN
    BY <1>b DEF TypeOK
  <2> QED
    BY <2>1, <2>2 DEF TypeOK
<1>2. Moves(t)
  BY <1>a, <1>b DEF TypeOK, Moves, Actor
<1>3. LocalInv(t)'
  <2>1. MainQueueNext(t) => t = Main
    BY EvalBreakerAssumption DEF MainQueueNext, OnMain
  <2> QED
    BY <1>a, <1>b, <2>1 DEF TypeOK, Actor, LocalInv, ThreadInv, Popping, Returning, Looking,
       ThreadLabel
<1>4. PlacesInv'
  BY <1>2, <1>3, PlacesKept DEF IInv
<1>5. BusyInv'
  <2>1. CASE UNCHANGED <<busy, pc>>
    <3>1. Handling(t)' <=> Handling(t)
      BY <1>a, <2>1 DEF Handling
    <3> QED
      BY <1>2, <2>1, <3>1, BusyKept DEF IInv
  <2>2. ASSUME NEW l \in {"gc", "run", "finished"}, busy' = FALSE, pc' = [pc EXCEPT ![t] = l]
        PROVE  BusyInv'
    <3>1. Handling(t) /\ ~Handling(t)'
      BY <1>a, <2>2 DEF TypeOK, Handling
    <3> QED
      BY <1>2, <2>2, <3>1, BusyLeaves DEF IInv
  <2> QED
    BY <1>b, <2>1, <2>2
<1>6. HistoryInv'
  BY HistoryKept DEF IInv
<1>7. InterpInv'
  <2>1. InTurn(t) => Empty(pending["interp"])
    <3>1. pending["interp"] \in Ring
      BY DEF TypeOK, Ring, Queue
    <3>2. Size(pending["interp"]) \in Nat /\ NPENDINGCALLS \in Nat
      BY <3>1, SizeValue, RingEnds
    <3>3. CASE count[t] = NPENDINGCALLS
      BY <1>a, <3>2, <3>3 DEF InTurn, Popping
    <3>4. CASE Empty(pending[queue[t]])
      BY <1>a, <3>4 DEF InTurn, Popping
    <3> QED
      BY <1>a, <3>3, <3>4
  <2>2. CASE Empty(pending["interp"])
    BY <1>a, <2>2 DEF InterpInv
  <2>3. CASE ~Empty(pending["interp"])
    BY <1>2, <1>a, <2>1, <2>3, InterpKept DEF IInv
  <2> QED
    BY <2>2, <2>3
<1>8. TrippedInv'
  <2>1. SignalsAside(t)
    BY <1>a, <1>b DEF TypeOK, Actor, LocalInv, ThreadInv, SignalsAside, Looking
  <2> QED
    BY <1>2, <2>1, TrippedKept DEF IInv
<1> HIDE DEF EndOfCalls
<1> QED
  BY <1>1, <1>4, <1>5, <1>6, <1>7, <1>8 DEF IInv

LEMMA CallFailsOK ==
  ASSUME IInv, NEW t \in Thread, CallFails(t)
  PROVE  IInv'
<1>0. TypeOK /\ t \in Actor /\ LocalInv(t) /\ (t \in Agent => t \notin Thread)
  BY EvalBreakerAssumption DEF IInv, PlacesInv, LocalInv, Actor
<1> USE <1>0 DEF At, Goto, Compute, gil, flags, sigs, rings, frames, CallFails, FailedQueue
<1>1. TypeOK'
  <2>1. {eval_breaker', gil_drop_request', signals_pending', gc_scheduled', async_flag', busy',
         is_tripped', tripped'} \subseteq BOOLEAN
    BY DEF TypeOK
  <2> QED
    BY <2>1 DEF TypeOK, ThreadLabel, Actor, Queue, QueueOf
<1>2. Moves(t)
  BY DEF TypeOK, Moves, Actor
<1>3. LocalInv(t)'
  BY EvalBreakerAssumption DEF TypeOK, Actor, LocalInv, ThreadInv, AgentInv, Popping, Returning,
     Looking, ThreadLabel, AgentLabel
<1>4. PlacesInv'
  BY <1>2, <1>3, PlacesKept DEF IInv
<1>5. BusyInv'
  <2>1. Handling(t) /\ ~Handling(t)'
    BY DEF TypeOK, Handling
  <2> QED
    BY <1>2, <2>1, BusyLeaves DEF IInv
<1>6. HistoryInv'
  BY HistoryKept DEF IInv
<1>7. InterpInv'
  <2>1. CASE InTurn(t)
    <3>1. pc'[t] = "signal" /\ queue'[t] = "interp"
      BY <2>1 DEF TypeOK, InTurn, Popping
    <3> QED
      BY <3>1 DEF InterpInv, Announced
  <2>2. CASE ~InTurn(t)
    BY <1>2, <2>2, InterpKept DEF IInv
  <2> QED
    BY <2>1, <2>2
<1>8. TrippedInv'
  <2>1. SignalsAside(t)
    BY EvalBreakerAssumption DEF TypeOK, Actor, LocalInv, ThreadInv, AgentInv, SignalsAside, Looking
  <2> QED
    BY <1>2, <2>1, TrippedKept DEF IInv
<1> HIDE DEF CallFails
<1> QED
  BY <1>1, <1>4, <1>5, <1>6, <1>7, <1>8 DEF IInv

LEMMA TripSignalOK ==
  ASSUME IInv, NEW t \in Agent, TripSignal(t)
  PROVE  IInv'
<1>0. TypeOK /\ t \in Actor /\ LocalInv(t) /\ (t \in Agent => t \notin Thread)
  BY EvalBreakerAssumption DEF IInv, PlacesInv, LocalInv, Actor
<1> USE <1>0 DEF At, Goto, Compute, gil, flags, sigs, rings, frames, TripSignal
<1>1. TypeOK'
  BY EvalBreakerAssumption DEF TypeOK, Actor, Queue, ThreadLabel, AgentLabel, LocalInv, ThreadInv
<1>2. Moves(t)
  BY DEF TypeOK, Moves, Actor
<1>3. LocalInv(t)'
  BY EvalBreakerAssumption DEF TypeOK, Actor, LocalInv, ThreadInv, AgentInv, Popping, Returning,
     Looking, ThreadLabel, AgentLabel
<1>4. PlacesInv'
  BY <1>2, <1>3, PlacesKept DEF IInv
<1>5. BusyInv'
  BY <1>0, <1>2, BusyKept DEF IInv
<1>6. HistoryInv'
  BY HistoryKept DEF IInv
<1>7. InterpInv'
  <2>1. pc[t] # "signal" /\ t \notin Thread
    BY <1>0
  <2> QED
    BY <1>2, <2>1, InterpKept DEF IInv
<1>8. TrippedInv'
  <2>1. pc'[t] = "trip" /\ t # Main
    BY EvalBreakerAssumption DEF TypeOK
  <2>2. Delivering => Delivering'
    BY DEF TypeOK, Delivering
  <2>3. Looking(Main)' <=> Looking(Main)
    BY <1>2, <2>1, EvalBreakerAssumption DEF Looking, Moves, Actor
  <2>4. pc'[Main] = pc[Main]
    BY <1>2, <2>1, EvalBreakerAssumption DEF Moves, Actor
  <2> QED
    BY <2>1, <2>2, <2>3, <2>4 DEF IInv, TrippedInv
<1> HIDE DEF TripSignal
<1> QED
  BY <1>1, <1>4, <1>5, <1>6, <1>7, <1>8 DEF IInv

LEMMA SetIsTrippedOK ==
  ASSUME IInv, NEW t \in Agent, SetIsTripped(t)
  PROVE  IInv'
<1>0. TypeOK /\ t \in Actor /\ LocalInv(t) /\ (t \in Agent => t \notin Thread)
  BY EvalBreakerAssumption DEF IInv, PlacesInv, LocalInv, Actor
<1> USE <1>0 DEF At, Goto, Compute, gil, flags, sigs, rings, frames, SetIsTripped
<1>1. TypeOK'
  BY EvalBreakerAssumption DEF TypeOK, Actor, Queue, ThreadLabel, AgentLabel, LocalInv, ThreadInv
<1>2. Moves(t)
  BY DEF TypeOK, Moves, Actor
<1>3. LocalInv(t)'
  BY EvalBreakerAssumption DEF TypeOK, Actor, LocalInv, ThreadInv, AgentInv, Popping, Returning,
     Looking, ThreadLabel, AgentLabel
<1>4. PlacesInv'
  BY <1>2, <1>3, PlacesKept DEF IInv
<1>5. BusyInv'
  BY <1>0, <1>2, BusyKept DEF IInv
<1>6. HistoryInv'
  BY HistoryKept DEF IInv
<1>7. InterpInv'
  <2>1. pc[t] # "signal" /\ t \notin Thread
    BY <1>0
  <2> QED
    BY <1>2, <2>1, InterpKept DEF IInv
<1>8. TrippedInv'
  <2>1. pc'[t] = "received"
    BY DEF TypeOK
  <2> QED
    BY <2>1 DEF TrippedInv, Delivering
<1> HIDE DEF SetIsTripped
<1> QED
  BY <1>1, <1>4, <1>5, <1>6, <1>7, <1>8 DEF IInv

LEMMA SignalReceivedOK ==
  ASSUME IInv, NEW t \in Agent, SignalReceived(t)
  PROVE  IInv'
<1>0. TypeOK /\ t \in Actor /\ LocalInv(t) /\ (t \in Agent => t \notin Thread)
  BY EvalBreakerAssumption DEF IInv, PlacesInv, LocalInv, Actor
<1> USE <1>0 DEF At, Goto, Compute, gil, flags, sigs, rings, frames, SignalReceived
<1>1. TypeOK'
  BY EvalBreakerAssumption DEF TypeOK, Actor, Queue, ThreadLabel, AgentLabel, LocalInv, ThreadInv
<1>2. Moves(t)
  BY DEF TypeOK, Moves, Actor
<1>3. LocalInv(t)'
  BY EvalBreakerAssumption DEF TypeOK, Actor, LocalInv, ThreadInv, AgentInv, Popping, Returning,
     Looking, ThreadLabel, AgentLabel
<1>4. PlacesInv'
  BY <1>2, <1>3, PlacesKept DEF IInv
<1>5. BusyInv'
  BY <1>0, <1>2, BusyKept DEF IInv
<1>6. HistoryInv'
  BY HistoryKept DEF IInv
<1>7. InterpInv'
  <2>1. pc[t] # "signal" /\ t \notin Thread
    BY <1>0
  <2> QED
    BY <1>2, <2>1, InterpKept DEF IInv
<1>8. TrippedInv'
  <2>1. t # Main /\ pc'[Main] = pc[Main]
    BY <1>2, EvalBreakerAssumption DEF Moves, Actor
  <2>2. \A b \in Agent : pc[b] = "trip" => pc'[b] = "trip"
    BY DEF TypeOK
  <2> QED
    BY <2>1, <2>2 DEF IInv, TrippedInv
<1> HIDE DEF SignalReceived
<1> QED
  BY <1>1, <1>4, <1>5, <1>6, <1>7, <1>8 DEF IInv

LEMMA HandleSignalsOK ==
  ASSUME IInv, NEW t \in Thread, HandleSignals(t)
  PROVE  IInv'
<1>0. TypeOK /\ t \in Actor /\ LocalInv(t) /\ (t \in Agent => t \notin Thread)
  BY EvalBreakerAssumption DEF IInv, PlacesInv, LocalInv, Actor
<1> USE <1>0 DEF At, Goto, Compute, gil, flags, sigs, rings, frames, HandleSignals
<1>a. \/ /\ t = Main /\ signals_pending' = FALSE
         /\ pc' = [pc EXCEPT ![t] = "load"] /\ ret' = [ret EXCEPT ![t] = "tripped"]
      \/ pc' = [pc EXCEPT ![t] = "calls"] /\ UNCHANGED <<signals_pending, ret>>
  BY EvalBreakerAssumption DEF OnMain
<1>b. pc[t] = "signals" /\ UNCHANGED <<queue, count, running, why, back, is_tripped, tripped, calls_to_do>>
  OBVIOUS
<1>1. TypeOK'
  <2>1. {eval_breaker', gil_drop_request', signals_pending', gc_scheduled', async_flag', busy',
         is_tripped', tripped'} \subseteq BOOLEAN
    BY <1>a DEF TypeOK
  <2>2. /\ pc' \in [Actor -> ThreadLabel \cup AgentLabel]
        /\ ret' \in [Actor -> {"run", "idle", "want", "taken", "tripped", "pop", "drop", "finished"}]
    BY <1>a DEF TypeOK, ThreadLabel
  <2> QED
    BY <2>1, <2>2 DEF TypeOK
<1>2. Moves(t)
  BY <1>a, <1>b DEF TypeOK, Moves, Actor
<1>3. LocalInv(t)'
  BY <1>a, <1>b DEF TypeOK, Actor, LocalInv, ThreadInv, Popping, Returning, Looking, ThreadLabel
<1>4. PlacesInv'
  BY <1>2, <1>3, PlacesKept DEF IInv
<1>5. BusyInv'
  <2>1. Handling(t)' <=> Handling(t)
    BY <1>a, <1>b DEF TypeOK, Handling
  <2> QED
    BY <1>2, <2>1, BusyKept DEF IInv
<1>6. HistoryInv'
  BY HistoryKept DEF IInv
<1>7. InterpInv'
  <2>1. InTurn(t) => InTurn(t)'
    BY <1>a, <1>b DEF TypeOK, InTurn, Popping
  <2> QED
    BY <1>2, <1>b, <2>1, InterpKept DEF IInv
<1>8. TrippedInv'
  <2>1. CASE pc' = [pc EXCEPT ![t] = "calls"] /\ UNCHANGED <<signals_pending, ret>>
    <3>1. SignalsAside(t)
      BY <1>a, <1>b, <2>1, EvalBreakerAssumption DEF TypeOK, Actor, SignalsAside, Looking
    <3> QED
      BY <1>2, <3>1, TrippedKept DEF IInv
  <2>2. CASE t = Main /\ pc' = [pc EXCEPT ![t] = "load"] /\ ret' = [ret EXCEPT ![t] = "tripped"]
    <3>1. Looking(Main)' /\ pc'[Main] # "scan" /\ pc[Main] # "scan"
      BY <1>b, <2>2 DEF TypeOK, Looking
    <3>2. \A b \in Agent : pc[b] = "trip" => pc'[b] = "trip"
      BY <1>0, <2>2 DEF TypeOK
    <3> QED
      BY <1>b, <3>1, <3>2 DEF IInv, TrippedInv
  <2> QED
    BY <1>a, <2>1, <2>2
<1> HIDE DEF HandleSignals
<1> QED
  BY <1>1, <1>4, <1>5, <1>6, <1>7, <1>8 DEF IInv

LEMMA CheckSignalsOK ==
  ASSUME IInv, NEW t \in Thread, CheckSignals(t)
  PROVE  IInv'
<1>0. TypeOK /\ t \in Actor /\ LocalInv(t) /\ (t \in Agent => t \notin Thread)
  BY EvalBreakerAssumption DEF IInv, PlacesInv, LocalInv, Actor
<1> USE <1>0 DEF At, Goto, Compute, gil, flags, sigs, rings, frames, CheckSignals
<1>1. TypeOK'
  BY AfterTypes, EvalBreakerAssumption DEF TypeOK, Actor, Queue, ThreadLabel, AgentLabel,
     LocalInv, ThreadInv
<1>2. Moves(t)
  BY DEF TypeOK, Moves, Actor
<1>3. LocalInv(t)'
  BY AfterTypes, EvalBreakerAssumption DEF TypeOK, Actor, LocalInv, ThreadInv, AgentInv, Popping,
     Returning, Looking, ThreadLabel, AgentLabel
<1>4. PlacesInv'
  BY <1>2, <1>3, PlacesKept DEF IInv
<1>5. BusyInv'
  <2>1. Handling(t)' <=> Handling(t)
    BY AfterTypes DEF TypeOK, Handling
  <2> QED
    BY <1>2, <2>1, BusyKept DEF IInv
<1>6. HistoryInv'
  BY HistoryKept DEF IInv
<1>7. InterpInv'
  <2>1. InTurn(t) => InTurn(t)'
    BY AfterTypes DEF TypeOK, InTurn, Popping
  <2> QED
    BY <1>2, <2>1, InterpKept DEF IInv
<1>8. TrippedInv'
  <2>1. t = Main /\ is_tripped' = FALSE /\ tripped' = tripped /\ pc[Main] = "tripped"
    BY DEF LocalInv, ThreadInv, Looking
  <2>2. is_tripped => pc'[Main] = "scan"
    BY <2>1 DEF TypeOK
  <2>3. \A b \in Agent : pc[b] = "trip" => pc'[b] = "trip"
    BY <1>0 DEF TypeOK
  <2> QED
    BY <2>1, <2>2, <2>3 DEF IInv, TrippedInv
<1> HIDE DEF CheckSignals
<1> QED
  BY <1>1, <1>4, <1>5, <1>6, <1>7, <1>8 DEF IInv

LEMMA RunHandlersOK ==
  ASSUME IInv, NEW t \in Thread, RunHandlers(t)
  PROVE  IInv'
<1>0. TypeOK /\ t \in Actor /\ LocalInv(t) /\ (t \in Agent => t \notin Thread)
  BY EvalBreakerAssumption DEF IInv, PlacesInv, LocalInv, Actor
<1> USE <1>0 DEF At, Goto, Compute, gil, flags, sigs, rings, frames, RunHandlers
<1>1. TypeOK'
  BY AfterTypes, EvalBreakerAssumption, ZenonT(60) DEF TypeOK, Actor, Queue, ThreadLabel, AgentLabel,
     LocalInv, ThreadInv
<1>2. Moves(t)
  BY DEF TypeOK, Moves, Actor
<1>3. LocalInv(t)'
  BY AfterTypes, EvalBreakerAssumption DEF TypeOK, Actor, LocalInv, ThreadInv, AgentInv, Popping,
     Returning, Looking, ThreadLabel, AgentLabel
<1>4. PlacesInv'
  BY <1>2, <1>3, PlacesKept DEF IInv
<1>5. BusyInv'
  <2>1. Handling(t)' <=> Handling(t)
    BY AfterTypes DEF TypeOK, Handling
  <2> QED
    BY <1>2, <2>1, BusyKept DEF IInv
<1>6. HistoryInv'
  BY HistoryKept DEF IInv
<1>7. InterpInv'
  <2>1. InTurn(t) => InTurn(t)'
    BY AfterTypes DEF TypeOK, InTurn, Popping
  <2> QED
    BY <1>2, <2>1, InterpKept DEF IInv
<1>8. TrippedInv'
  <2>1. t = Main /\ tripped' = FALSE /\ pc[Main] = "scan" /\ signals_pending' = signals_pending
    BY DEF LocalInv, ThreadInv, Looking
  <2>2. Delivering => Delivering'
    BY <1>0, <1>2 DEF Moves, Delivering, Actor
  <2>3. CASE is_tripped' = is_tripped
    BY <2>1, <2>2, <2>3 DEF IInv, TrippedInv
  <2>4. CASE pc'[t] = "resignal"
    BY <2>1, <2>4 DEF TrippedInv, Looking
  <2>5. is_tripped' = is_tripped \/ pc'[t] = "resignal"
    BY DEF TypeOK
  <2> QED
    BY <2>3, <2>4, <2>5
<1> HIDE DEF RunHandlers
<1> QED
  BY <1>1, <1>4, <1>5, <1>6, <1>7, <1>8 DEF IInv

LEMMA ResignalOK ==
  ASSUME IInv, NEW t \in Thread, Resignal(t)
  PROVE  IInv'
<1>0. TypeOK /\ t \in Actor /\ LocalInv(t) /\ (t \in Agent => t \notin Thread)
  BY EvalBreakerAssumption DEF IInv, PlacesInv, LocalInv, Actor
<1> USE <1>0 DEF At, Goto, Compute, gil, flags, sigs, rings, frames, Resignal
<1>1. TypeOK'
  BY AfterTypes, EvalBreakerAssumption DEF TypeOK, Actor, Queue, ThreadLabel, AgentLabel,
     LocalInv, ThreadInv
<1>2. Moves(t)
  BY DEF TypeOK, Moves, Actor
<1>3. LocalInv(t)'
  BY AfterTypes, EvalBreakerAssumption DEF TypeOK, Actor, LocalInv, ThreadInv, AgentInv, Popping,
     Returning, Looking, ThreadLabel, AgentLabel
<1>4. PlacesInv'
  BY <1>2, <1>3, PlacesKept DEF IInv
<1>5. BusyInv'
  <2>1. Handling(t)' <=> Handling(t)
    BY AfterTypes DEF TypeOK, Handling
  <2> QED
    BY <1>2, <2>1, BusyKept DEF IInv
<1>6. HistoryInv'
  BY HistoryKept DEF IInv
<1>7. InterpInv'
  <2>1. InTurn(t) => InTurn(t)'
    BY AfterTypes DEF TypeOK, InTurn, Popping
  <2> QED
    BY <1>2, <2>1, InterpKept DEF IInv
<1>8. TrippedInv'
  <2>1. t = Main /\ pc[Main] = "resignal" /\ signals_pending' = TRUE
    BY DEF LocalInv, ThreadInv, Looking
  <2>2. \A b \in Agent : pc[b] = "trip" => pc'[b] = "trip"
    BY <1>0 DEF TypeOK
  <2> QED
    BY <2>1, <2>2 DEF IInv, TrippedInv
<1> HIDE DEF Resignal
<1> QED
  BY <1>1, <1>4, <1>5, <1>6, <1>7, <1>8 DEF IInv
-----------------------------------------------------------------------------
LEMMA InitOK == Init => IInv
<1> SUFFICES ASSUME Init PROVE IInv
  OBVIOUS
<1> USE EvalBreakerAssumption DEF Init, Actor, Queue
<1>1. TypeOK
  <2>1. pending \in [Queue -> [calls : [Slot -> Call \cup {NoCall}], first : Slot, last : Slot]]
    BY DEF Slot
  <2>2. {eval_breaker, gil_drop_request, signals_pending, gc_scheduled, async_flag, busy, is_tripped,
         tripped} \subseteq BOOLEAN
    OBVIOUS
  <2>3. /\ pc \in [Actor -> ThreadLabel \cup AgentLabel]
        /\ ret \in [Actor -> {"run", "idle", "want", "taken", "tripped", "pop", "drop", "finished"}]
        /\ seen \in [Actor -> BOOLEAN] /\ queue \in [Actor -> Queue]
    BY DEF ThreadLabel, AgentLabel
  <2>4. count \in [Thread -> 0 .. NPENDINGCALLS]
    OBVIOUS
  <2> QED
    BY <2>1, <2>2, <2>3, <2>4 DEF TypeOK
<1>2. PlacesInv
  BY DEF PlacesInv, ThreadInv, AgentInv, Popping, Returning, Looking, ThreadLabel, AgentLabel
<1>3. BusyInv
  BY DEF BusyInv, Handling
<1>4. HistoryInv
  <2> DEFINE p == [calls |-> [i \in Slot |-> NoCall], first |-> 0, last |-> 0]
  <2>1. \A q \in Queue : pending[q] = p /\ accepted[q] = <<>> /\ executed[q] = <<>>
    OBVIOUS
  <2>2. p \in Ring /\ p.first = 0 /\ p.last = 0 /\ \A i \in Slot : p.calls[i] = NoCall
    BY DEF Ring, Slot
  <2> HIDE DEF p
  <2>3. Size(p) = 0
    BY <2>2, SizeValue
  <2>4. Cardinality(Held(p)) = 0
    <3>1. Held(p) = {}
      BY <2>2 DEF Held
    <3> QED
      BY <3>1, FS_EmptySet
  <2>5. \A q \in Queue : RingInv(p, q)
    BY <2>2, <2>3, <2>4 DEF RingInv, Between, Slot
  <2>6. <<>> = <<>> \o Content(p)
    <3>1. Content(p) \in Seq(Call) /\ Len(Content(p)) = 0
      BY <2>2, <2>3, <2>5, ContentType
    <3> QED
      BY <3>1, EmptySeq, ConcatEmptySeq
  <2>7. accepted \in [Queue -> Seq(Call)] /\ executed \in [Queue -> Seq(Call)]
    OBVIOUS
  <2> HIDE DEF Init
  <2> QED
    BY <2>1, <2>5, <2>6, <2>7, Zenon DEF HistoryInv
<1>5. InterpInv
  BY DEF InterpInv, Empty
<1>6. TrippedInv
  BY DEF TrippedInv
<1> QED
  BY <1>1, <1>2, <1>3, <1>4, <1>5, <1>6 DEF IInv

LEMMA ThreadStepOK ==
  ASSUME IInv, NEW t \in Thread, Step(t)
  PROVE  IInv'
<1>1. t \in Actor
  BY DEF Actor
<1>2. CASE LoadFlags(t) \/ StoreBreaker(t) \/ SignalCalls(t)
  BY <1>1, <1>2, LoadFlagsOK, StoreBreakerOK, SignalCallsOK
<1>3. CASE \/ EnterCalls(t) \/ UnsignalMain(t) \/ UnsignalInterp(t)
           \/ PopCall(t) \/ EndOfCalls(t) \/ CallReturns(t)
  BY <1>3, EnterCallsOK, UnsignalMainOK, UnsignalInterpOK, PopCallOK, EndOfCallsOK, CallReturnsOK
<1>4. CASE HandleSignals(t) \/ CheckSignals(t) \/ RunHandlers(t) \/ Resignal(t)
  BY <1>4, HandleSignalsOK, CheckSignalsOK, RunHandlersOK, ResignalOK
<1>5. CASE \/ CheckBreaker(t) \/ MakePendingCalls(t) \/ MaybeCalls(t) \/ RunGC(t)
           \/ RaiseAsyncExc(t)
  BY <1>5, CheckBreakerOK, MakePendingCallsOK, MaybeCallsOK, RunGCOK, RaiseAsyncExcOK
<1>6. CASE DropGil(t) \/ YieldGil(t) \/ GilTaken(t) \/ RequestDrop(t)
  BY <1>6, DropGilOK, YieldGilOK, GilTakenOK, RequestDropOK
<1> QED
  BY <1>2, <1>3, <1>4, <1>5, <1>6 DEF Step

LEMMA AgentStepOK ==
  ASSUME IInv, NEW a \in Agent, AgentStep(a)
  PROVE  IInv'
BY SetIsTrippedOK, SignalReceivedOK, SignalCallsOK, LoadFlagsOK, StoreBreakerOK DEF AgentStep, Actor

LEMMA StutterOK ==
  ASSUME IInv, UNCHANGED vars
  PROVE  IInv'
<1> USE DEF vars, gil, flags, sigs, rings, frames
<1>1. TypeOK'
  BY DEF IInv, TypeOK
<1>2. PlacesInv' /\ BusyInv'
  BY DEF IInv, PlacesInv, ThreadInv, AgentInv, Popping, Returning, Looking, BusyInv, Handling
<1>3. HistoryInv'
  BY HistoryKept DEF IInv
<1>4. InterpInv' /\ TrippedInv'
  BY DEF IInv, InterpInv, Announced, InTurn, Popping, TrippedInv, Delivering, Looking
<1> QED
  BY <1>1, <1>2, <1>3, <1>4 DEF IInv

LEMMA StepOK == IInv /\ [Next]_vars => IInv'
<1> SUFFICES ASSUME IInv, [Next]_vars PROVE IInv'
  OBVIOUS
<1>1. CASE FinishPendingCalls
  BY <1>1, FinishPendingCallsOK, EvalBreakerAssumption
<1>2. ASSUME NEW t \in Thread,
             \/ Step(t) \/ TakeGil(t) \/ CallFails(t) \/ ScheduleGC(t)
             \/ SaveThread(t) \/ RestoreThread(t)
             \/ \E c \in Call : AddPendingCall(t, c)
             \/ \E u \in Thread : SetAsyncExc(t, u)
      PROVE  IInv'
  <2>1. CASE Step(t) \/ TakeGil(t) \/ CallFails(t)
    BY <2>1, ThreadStepOK, TakeGilOK, CallFailsOK
  <2>2. CASE ScheduleGC(t) \/ SaveThread(t) \/ RestoreThread(t)
    BY <2>2, ScheduleGCOK, SaveThreadOK, RestoreThreadOK
  <2>3. CASE \E c \in Call : AddPendingCall(t, c)
    BY <2>3, AddPendingCallOK DEF Actor
  <2>4. CASE \E u \in Thread : SetAsyncExc(t, u)
    BY <2>4, SetAsyncExcOK
  <2> QED
    BY <1>2, <2>1, <2>2, <2>3, <2>4
<1>3. ASSUME NEW a \in Agent,
             \/ AgentStep(a) \/ TripSignal(a)
             \/ \E c \in Call : AddPendingCall(a, c)
      PROVE  IInv'
  BY <1>3, AgentStepOK, TripSignalOK, AddPendingCallOK DEF Actor
<1>4. CASE UNCHANGED vars
  BY <1>4, StutterOK
<1> QED
  BY <1>1, <1>2, <1>3, <1>4 DEF Next

(* The inductive invariant holds in every reachable state.                 *)
THEOREM Invariance == Spec => []IInv
<1>1. Init => IInv
  BY InitOK
<1>2. IInv /\ [Next]_vars => IInv'
  BY StepOK
<1> QED
  BY <1>1, <1>2, PTL DEF Spec

(* Every variable keeps its type: a thread that makes calls never counts   *)
(* beyond NPENDINGCALLS, and the ends of a ring stay within its array.     *)
THEOREM TypesAreKept == Spec => []TypeOK
<1>1. IInv => TypeOK
  BY DEF IInv
<1> QED
  BY <1>1, Invariance, PTL

(* _push_pending_call, _pop_pending_call and make_pending_calls: whatever  *)
(* was accepted is called once, in the order of arrival, or still in the   *)
(* ring; by one thread at a time, the main one for main-thread calls.      *)
THEOREM CallsAreMadeInOrder == Spec => []CallsInv
<1>1. ASSUME IInv PROVE CallsInOrder
  <2> SUFFICES ASSUME NEW q \in Queue
               PROVE  /\ accepted[q] = executed[q] \o Content(pending[q])
                      /\ Cardinality({i \in Slot : pending[q].calls[i] # NoCall})
                           = Len(Content(pending[q]))
    BY DEF CallsInOrder
  <2>1. pending[q] \in Ring
    BY <1>1 DEF IInv, TypeOK, Ring
  <2>2. RingInv(pending[q], q) /\ accepted[q] = executed[q] \o Content(pending[q])
    BY <1>1 DEF IInv, HistoryInv
  <2>3. Len(Content(pending[q])) = Size(pending[q])
    BY <2>1, <2>2, ContentType
  <2> QED
    BY <2>2, <2>3 DEF RingInv, Held
<1>2. ASSUME IInv PROVE OneCaller
  <2>1. \A t \in Thread : running[t] \in MainThreadOnly => t = Main
    BY <1>2, EvalBreakerAssumption DEF IInv, PlacesInv, ThreadInv
  <2> QED
    BY <1>2, <2>1 DEF IInv, BusyInv, OneCaller
<1>3. IInv => CallsInv
  BY <1>1, <1>2 DEF CallsInv
<1> QED
  BY <1>3, Invariance, PTL

(* SIGNAL_PENDING_CALLS and UNSIGNAL_PENDING_CALLS: a call in the queue of *)
(* the interpreter is never left without calls_to_do, though both are      *)
(* done outside of pending->lock and a full round stops at NPENDINGCALLS.  *)
THEOREM QueuedCallsAreSignalled == Spec => []InterpSignalled
<1>1. IInv => InterpSignalled
  BY DEF IInv, InterpInv, InterpSignalled, Announced, InTurn, Popping, Attended, Handling
<1> QED
  BY <1>1, Invariance, PTL

(* trip_signal against handle_signals and _PyErr_CheckSignalsTstate: a     *)
(* signal that arrives at any point between their stores is not lost.      *)
THEOREM SignalsAreKept == Spec => []SignalKept
<1>1. IInv => SignalKept
  BY DEF IInv, TrippedInv, SignalKept, Looking, Noticing
<1> QED
  BY <1>1, Invariance, PTL
-----------------------------------------------------------------------------
(***************************************************************************)
(* eval_breaker, where no agent announces work.                            *)
(***************************************************************************)

(* A thread that has the GIL.                                              *)
Runs(t) == pc[t] \notin {"out", "want", "yield"} /\ ~Yielding(t)

(* The part of TypeOK that does not depend on what calls there are.        *)
FlagTypes ==
  /\ holder \in Thread \cup {NoThread}
  /\ {eval_breaker, gil_drop_request, signals_pending, gc_scheduled, async_flag} \subseteq BOOLEAN
  /\ calls_to_do \in [Queue -> BOOLEAN] /\ async_exc \in [Thread -> BOOLEAN]
  /\ pc \in [Actor -> ThreadLabel \cup AgentLabel]
  /\ ret \in [Actor -> {"run", "idle", "want", "taken", "tripped", "pop", "drop", "finished"}]
  /\ back \in [Thread -> {"run", "async", "interrupted"}]
  /\ seen \in [Actor -> BOOLEAN] /\ queue \in [Actor -> Queue]

InPlace(t) ==
  /\ pc[t] \in ThreadLabel /\ ret[t] # "idle"
  /\ pc[t] = "signal" => ret[t] \in {"run", "finished"}

(* One thread runs, the holder of the GIL, and none while another yields.  *)
GilInv ==
  /\ \A t \in Thread : Runs(t) <=> holder = t
  /\ \A t \in Thread : Yielding(t) => holder = NoThread
  /\ \A t \in Thread : InPlace(t)

(* What is announced to the holder is in eval_breaker, or in what it has   *)
(* loaded, or yet to be loaded; and its asynchronous exception is in the   *)
(* shared flag.                                                            *)
CoveredAt(t) ==
  /\ pc[t] \notin {"load", "store"} => (Work(t) => eval_breaker)
  /\ pc[t] = "store" => (Work(t) => seen[t])
  /\ pc[t] = "taken" \/ (pc[t] \in {"load", "store"} /\ ret[t] = "taken")
       \/ (async_exc[t] => async_flag)

HolderInv == FlagTypes /\ GilInv /\ \A t \in Thread : Runs(t) => CoveredAt(t)

(* A step of the holder, which keeps the GIL or lets it go.                *)
LEMMA OthersDoNotRun ==
  ASSUME HolderInv, NEW t \in Thread, FlagTypes',
         \A u \in Thread \ {t} : pc'[u] = pc[u] /\ ret'[u] = ret[u],
         holder = t,
         \/ holder' = t /\ Runs(t)' /\ CoveredAt(t)'
         \/ holder' = NoThread /\ pc'[t] \in {"out", "want", "yield"},
         InPlace(t)'
  PROVE  HolderInv'
<1>1. \A u \in Thread \ {t} : ~Runs(u) /\ ~Yielding(u)
  BY EvalBreakerAssumption DEF HolderInv, GilInv
<1>2. \A u \in Thread \ {t} : ~Runs(u)' /\ ~Yielding(u)'
  BY <1>1 DEF Runs, Yielding
<1>3. Runs(t)' => ~Yielding(t)'
  BY DEF Runs
<1>6. \A u \in Thread : InPlace(u)'
  BY DEF HolderInv, GilInv, InPlace
<1>4. CASE holder' = t /\ Runs(t)' /\ CoveredAt(t)'
  BY <1>2, <1>3, <1>4, <1>6 DEF HolderInv, GilInv
<1>5. CASE holder' = NoThread /\ pc'[t] \in {"out", "want", "yield"}
  <2>1. ~Runs(t)' /\ ~Yielding(t)'
    BY <1>5 DEF Runs, Yielding
  <2> QED
    BY <1>2, <1>5, <1>6, <2>1, EvalBreakerAssumption DEF HolderInv, GilInv
<1> QED
  BY <1>4, <1>5

LEMMA SignalCallsCovers ==
  ASSUME HolderInv, NEW t \in Thread, SignalCalls(t)
  PROVE  HolderInv'
<1>0. FlagTypes /\ GilInv /\ t \in Actor /\ Main \in Actor
  BY EvalBreakerAssumption DEF HolderInv, Actor
<1> USE <1>0 DEF At, Goto, Compute, gil, flags, sigs, rings, frames, SignalCalls
<1>1. InPlace(t) /\ Runs(t) /\ holder = t /\ CoveredAt(t)
  BY DEF HolderInv, GilInv, InPlace, Runs, Yielding
<1>2. FlagTypes'
  BY EvalBreakerAssumption, SMTT(30)
     DEF FlagTypes, Actor, Queue, ThreadLabel, AgentLabel
<1>3. \A u \in Thread \ {t} : pc'[u] = pc[u] /\ ret'[u] = ret[u]
  BY DEF FlagTypes, Actor
<1>4. \/ holder' = t /\ Runs(t)' /\ CoveredAt(t)'
      \/ holder' = NoThread /\ pc'[t] \in {"out", "want", "yield"}
  BY <1>1, EvalBreakerAssumption DEF FlagTypes, InPlace, Runs, Yielding, CoveredAt, Work, Queue
<1>5. InPlace(t)'
  BY <1>1, EvalBreakerAssumption DEF FlagTypes, InPlace, ThreadLabel
<1> HIDE DEF SignalCalls
<1> QED
  BY <1>1, <1>2, <1>3, <1>4, <1>5, OthersDoNotRun

LEMMA EnterCallsCovers ==
  ASSUME HolderInv, NEW t \in Thread, EnterCalls(t)
  PROVE  HolderInv'
<1>0. FlagTypes /\ GilInv /\ t \in Actor /\ Main \in Actor
  BY EvalBreakerAssumption DEF HolderInv, Actor
<1> USE <1>0 DEF At, Goto, Compute, gil, flags, sigs, rings, frames, EnterCalls
<1>1. InPlace(t) /\ Runs(t) /\ holder = t /\ CoveredAt(t)
  BY DEF HolderInv, GilInv, InPlace, Runs, Yielding
<1>2. FlagTypes'
  BY AfterTypes, EvalBreakerAssumption, SMTT(30)
     DEF FlagTypes, Actor, Queue, ThreadLabel, AgentLabel
<1>3. \A u \in Thread \ {t} : pc'[u] = pc[u] /\ ret'[u] = ret[u]
  BY DEF FlagTypes, Actor
<1>4. \/ holder' = t /\ Runs(t)' /\ CoveredAt(t)'
      \/ holder' = NoThread /\ pc'[t] \in {"out", "want", "yield"}
  BY <1>1, AfterTypes, EvalBreakerAssumption DEF FlagTypes, InPlace, Runs, Yielding, CoveredAt,
     Work, Queue
<1>5. InPlace(t)'
  BY <1>1, AfterTypes, EvalBreakerAssumption DEF FlagTypes, InPlace, ThreadLabel
<1> HIDE DEF EnterCalls
<1> QED
  BY <1>1, <1>2, <1>3, <1>4, <1>5, OthersDoNotRun

LEMMA UnsignalMainCovers ==
  ASSUME HolderInv, NEW t \in Thread, UnsignalMain(t)
  PROVE  HolderInv'
<1>0. FlagTypes /\ GilInv /\ t \in Actor /\ Main \in Actor
  BY EvalBreakerAssumption DEF HolderInv, Actor
<1> USE <1>0 DEF At, Goto, Compute, gil, flags, sigs, rings, frames, UnsignalMain
<1>1. InPlace(t) /\ Runs(t) /\ holder = t /\ CoveredAt(t)
  BY DEF HolderInv, GilInv, InPlace, Runs, Yielding
<1>2. FlagTypes'
  BY EvalBreakerAssumption, SMTT(30)
     DEF FlagTypes, Actor, Queue, ThreadLabel, AgentLabel
<1>3. \A u \in Thread \ {t} : pc'[u] = pc[u] /\ ret'[u] = ret[u]
  BY DEF FlagTypes, Actor
<1>4. \/ holder' = t /\ Runs(t)' /\ CoveredAt(t)'
      \/ holder' = NoThread /\ pc'[t] \in {"out", "want", "yield"}
  BY <1>1, EvalBreakerAssumption DEF FlagTypes, InPlace, Runs, Yielding, CoveredAt, Work, Queue
<1>5. InPlace(t)'
  BY <1>1, EvalBreakerAssumption DEF FlagTypes, InPlace, ThreadLabel
<1> HIDE DEF UnsignalMain
<1> QED
  BY <1>1, <1>2, <1>3, <1>4, <1>5, OthersDoNotRun

LEMMA UnsignalInterpCovers ==
  ASSUME HolderInv, NEW t \in Thread, UnsignalInterp(t)
  PROVE  HolderInv'
<1>0. FlagTypes /\ GilInv /\ t \in Actor /\ Main \in Actor
  BY EvalBreakerAssumption DEF HolderInv, Actor
<1> USE <1>0 DEF At, Goto, Compute, gil, flags, sigs, rings, frames, UnsignalInterp
<1>1. InPlace(t) /\ Runs(t) /\ holder = t /\ CoveredAt(t)
  BY DEF HolderInv, GilInv, InPlace, Runs, Yielding
<1>2. FlagTypes'
  BY EvalBreakerAssumption, SMTT(30)
     DEF FlagTypes, Actor, Queue, ThreadLabel, AgentLabel
<1>3. \A u \in Thread \ {t} : pc'[u] = pc[u] /\ ret'[u] = ret[u]
  BY DEF FlagTypes, Actor
<1>4. \/ holder' = t /\ Runs(t)' /\ CoveredAt(t)'
      \/ holder' = NoThread /\ pc'[t] \in {"out", "want", "yield"}
  BY <1>1, EvalBreakerAssumption DEF FlagTypes, InPlace, Runs, Yielding, CoveredAt, Work, Queue
<1>5. InPlace(t)'
  BY <1>1, EvalBreakerAssumption DEF FlagTypes, InPlace, ThreadLabel
<1> HIDE DEF UnsignalInterp
<1> QED
  BY <1>1, <1>2, <1>3, <1>4, <1>5, OthersDoNotRun

LEMMA PopCallCovers ==
  ASSUME HolderInv, NEW t \in Thread, PopCall(t)
  PROVE  HolderInv'
<1>0. FlagTypes /\ GilInv /\ t \in Actor /\ Main \in Actor
  BY EvalBreakerAssumption DEF HolderInv, Actor
<1> USE <1>0 DEF At, Goto, Compute, gil, flags, sigs, rings, frames, PopCall
<1>1. InPlace(t) /\ Runs(t) /\ holder = t /\ CoveredAt(t)
  BY DEF HolderInv, GilInv, InPlace, Runs, Yielding
<1>2. FlagTypes'
  BY EvalBreakerAssumption, SMTT(30)
     DEF FlagTypes, Actor, Queue, ThreadLabel, AgentLabel
<1>3. \A u \in Thread \ {t} : pc'[u] = pc[u] /\ ret'[u] = ret[u]
  BY DEF FlagTypes, Actor
<1>4. \/ holder' = t /\ Runs(t)' /\ CoveredAt(t)'
      \/ holder' = NoThread /\ pc'[t] \in {"out", "want", "yield"}
  BY <1>1, EvalBreakerAssumption DEF FlagTypes, InPlace, Runs, Yielding, CoveredAt, Work, Queue
<1>5. InPlace(t)'
  BY <1>1, EvalBreakerAssumption DEF FlagTypes, InPlace, ThreadLabel
<1> HIDE DEF PopCall
<1> QED
  BY <1>1, <1>2, <1>3, <1>4, <1>5, OthersDoNotRun

LEMMA EndOfCallsCovers ==
  ASSUME HolderInv, NEW t \in Thread, EndOfCalls(t)
  PROVE  HolderInv'
<1>0. FlagTypes /\ GilInv /\ t \in Actor /\ Main \in Actor
  BY EvalBreakerAssumption DEF HolderInv, Actor
<1> USE <1>0 DEF At, Goto, Compute, gil, flags, sigs, rings, frames, EndOfCalls
<1>1. InPlace(t) /\ Runs(t) /\ holder = t /\ CoveredAt(t)
  BY DEF HolderInv, GilInv, InPlace, Runs, Yielding
<1>2. FlagTypes'
  BY AfterTypes, EvalBreakerAssumption, SMTT(30)
     DEF FlagTypes, Actor, Queue, ThreadLabel, AgentLabel
<1>3. \A u \in Thread \ {t} : pc'[u] = pc[u] /\ ret'[u] = ret[u]
  BY DEF FlagTypes, Actor
<1>4. \/ holder' = t /\ Runs(t)' /\ CoveredAt(t)'
      \/ holder' = NoThread /\ pc'[t] \in {"out", "want", "yield"}
  BY <1>1, AfterTypes, EvalBreakerAssumption DEF FlagTypes, InPlace, Runs, Yielding, CoveredAt,
     Work, Queue
<1>5. InPlace(t)'
  BY <1>1, AfterTypes, EvalBreakerAssumption DEF FlagTypes, InPlace, ThreadLabel
<1> HIDE DEF EndOfCalls
<1> QED
  BY <1>1, <1>2, <1>3, <1>4, <1>5, OthersDoNotRun

LEMMA CallReturnsCovers ==
  ASSUME HolderInv, NEW t \in Thread, CallReturns(t)
  PROVE  HolderInv'
<1>0. FlagTypes /\ GilInv /\ t \in Actor /\ Main \in Actor
  BY EvalBreakerAssumption DEF HolderInv, Actor
<1> USE <1>0 DEF At, Goto, Compute, gil, flags, sigs, rings, frames, CallReturns, QueueOf
<1>1. InPlace(t) /\ Runs(t) /\ holder = t /\ CoveredAt(t)
  BY DEF HolderInv, GilInv, InPlace, Runs, Yielding
<1>2. FlagTypes'
  BY EvalBreakerAssumption, SMTT(30)
     DEF FlagTypes, Actor, Queue, ThreadLabel, AgentLabel
<1>3. \A u \in Thread \ {t} : pc'[u] = pc[u] /\ ret'[u] = ret[u]
  BY DEF FlagTypes, Actor
<1>4. \/ holder' = t /\ Runs(t)' /\ CoveredAt(t)'
      \/ holder' = NoThread /\ pc'[t] \in {"out", "want", "yield"}
  BY <1>1, EvalBreakerAssumption DEF FlagTypes, InPlace, Runs, Yielding, CoveredAt, Work, Queue
<1>5. InPlace(t)'
  BY <1>1, EvalBreakerAssumption DEF FlagTypes, InPlace, ThreadLabel
<1> HIDE DEF CallReturns
<1> QED
  BY <1>1, <1>2, <1>3, <1>4, <1>5, OthersDoNotRun

LEMMA HandleSignalsCovers ==
  ASSUME HolderInv, NEW t \in Thread, HandleSignals(t)
  PROVE  HolderInv'
<1>0. FlagTypes /\ GilInv /\ t \in Actor /\ Main \in Actor
  BY EvalBreakerAssumption DEF HolderInv, Actor
<1> USE <1>0 DEF At, Goto, Compute, gil, flags, sigs, rings, frames, HandleSignals
<1>1. InPlace(t) /\ Runs(t) /\ holder = t /\ CoveredAt(t)
  BY DEF HolderInv, GilInv, InPlace, Runs, Yielding
<1>2. FlagTypes'
  <2>1. pc' \in [Actor -> ThreadLabel \cup AgentLabel]
    BY EvalBreakerAssumption, SMTT(30) DEF FlagTypes, Actor, ThreadLabel, AgentLabel
  <2>2. ret' \in [Actor -> {"run", "idle", "want", "taken", "tripped", "pop", "drop", "finished"}]
    BY EvalBreakerAssumption, SMTT(30) DEF FlagTypes, Actor
  <2>3. back' \in [Thread -> {"run", "async", "interrupted"}] /\ queue' \in [Actor -> Queue]
    BY EvalBreakerAssumption, SMTT(30) DEF FlagTypes, Actor, Queue
  <2>4. /\ holder' \in Thread \cup {NoThread} /\ seen' \in [Actor -> BOOLEAN]
        /\ {eval_breaker, gil_drop_request, signals_pending, gc_scheduled, async_flag}' \subseteq BOOLEAN
        /\ calls_to_do' \in [Queue -> BOOLEAN] /\ async_exc' \in [Thread -> BOOLEAN]
    BY EvalBreakerAssumption, Zenon DEF FlagTypes, Actor, Queue
  <2> QED BY <2>1, <2>2, <2>3, <2>4 DEF FlagTypes
<1>3. \A u \in Thread \ {t} : pc'[u] = pc[u] /\ ret'[u] = ret[u]
  BY DEF FlagTypes, Actor
<1>4. \/ holder' = t /\ Runs(t)' /\ CoveredAt(t)'
      \/ holder' = NoThread /\ pc'[t] \in {"out", "want", "yield"}
  BY <1>1, EvalBreakerAssumption DEF FlagTypes, InPlace, Runs, Yielding, CoveredAt, Work, Queue
<1>5. InPlace(t)'
  BY <1>1, EvalBreakerAssumption DEF FlagTypes, InPlace, ThreadLabel
<1> HIDE DEF HandleSignals
<1> QED
  BY <1>1, <1>2, <1>3, <1>4, <1>5, OthersDoNotRun

LEMMA CheckSignalsCovers ==
  ASSUME HolderInv, NEW t \in Thread, CheckSignals(t)
  PROVE  HolderInv'
<1>0. FlagTypes /\ GilInv /\ t \in Actor /\ Main \in Actor
  BY EvalBreakerAssumption DEF HolderInv, Actor
<1> USE <1>0 DEF At, Goto, Compute, gil, flags, sigs, rings, frames, CheckSignals
<1>1. InPlace(t) /\ Runs(t) /\ holder = t /\ CoveredAt(t)
  BY DEF HolderInv, GilInv, InPlace, Runs, Yielding
<1>2. FlagTypes'
  BY EvalBreakerAssumption, SMTT(30)
     DEF FlagTypes, Actor, Queue, ThreadLabel, AgentLabel
<1>3. \A u \in Thread \ {t} : pc'[u] = pc[u] /\ ret'[u] = ret[u]
  BY DEF FlagTypes, Actor
<1>4. \/ holder' = t /\ Runs(t)' /\ CoveredAt(t)'
      \/ holder' = NoThread /\ pc'[t] \in {"out", "want", "yield"}
  BY <1>1, EvalBreakerAssumption DEF FlagTypes, InPlace, Runs, Yielding, CoveredAt, Work, Queue
<1>5. InPlace(t)'
  BY <1>1, EvalBreakerAssumption DEF FlagTypes, InPlace, ThreadLabel
<1> HIDE DEF CheckSignals
<1> QED
  BY <1>1, <1>2, <1>3, <1>4, <1>5, OthersDoNotRun

LEMMA RunHandlersCovers ==
  ASSUME HolderInv, NEW t \in Thread, RunHandlers(t)
  PROVE  HolderInv'
<1>0. FlagTypes /\ GilInv /\ t \in Actor /\ Main \in Actor
  BY EvalBreakerAssumption DEF HolderInv, Actor
<1> USE <1>0 DEF At, Goto, Compute, gil, flags, sigs, rings, frames, RunHandlers
<1>1. InPlace(t) /\ Runs(t) /\ holder = t /\ CoveredAt(t)
  BY DEF HolderInv, GilInv, InPlace, Runs, Yielding
<1>2. FlagTypes'
  BY EvalBreakerAssumption, SMTT(30)
     DEF FlagTypes, Actor, Queue, ThreadLabel, AgentLabel
<1>3. \A u \in Thread \ {t} : pc'[u] = pc[u] /\ ret'[u] = ret[u]
  BY DEF FlagTypes, Actor
<1>4. \/ holder' = t /\ Runs(t)' /\ CoveredAt(t)'
      \/ holder' = NoThread /\ pc'[t] \in {"out", "want", "yield"}
  BY <1>1, EvalBreakerAssumption DEF FlagTypes, InPlace, Runs, Yielding, CoveredAt, Work, Queue
<1>5. InPlace(t)'
  BY <1>1, EvalBreakerAssumption DEF FlagTypes, InPlace, ThreadLabel
<1> HIDE DEF RunHandlers
<1> QED
  BY <1>1, <1>2, <1>3, <1>4, <1>5, OthersDoNotRun

LEMMA ResignalCovers ==
  ASSUME HolderInv, NEW t \in Thread, Resignal(t)
  PROVE  HolderInv'
<1>0. FlagTypes /\ GilInv /\ t \in Actor /\ Main \in Actor
  BY EvalBreakerAssumption DEF HolderInv, Actor
<1> USE <1>0 DEF At, Goto, Compute, gil, flags, sigs, rings, frames, Resignal
<1>1. InPlace(t) /\ Runs(t) /\ holder = t /\ CoveredAt(t)
  BY DEF HolderInv, GilInv, InPlace, Runs, Yielding
<1>2. FlagTypes'
  BY AfterTypes, EvalBreakerAssumption, SMTT(30)
     DEF FlagTypes, Actor, Queue, ThreadLabel, AgentLabel
<1>3. \A u \in Thread \ {t} : pc'[u] = pc[u] /\ ret'[u] = ret[u]
  BY DEF FlagTypes, Actor
<1>4. \/ holder' = t /\ Runs(t)' /\ CoveredAt(t)'
      \/ holder' = NoThread /\ pc'[t] \in {"out", "want", "yield"}
  BY <1>1, AfterTypes, EvalBreakerAssumption DEF FlagTypes, InPlace, Runs, Yielding, CoveredAt,
     Work, Queue
<1>5. InPlace(t)'
  BY <1>1, AfterTypes, EvalBreakerAssumption DEF FlagTypes, InPlace, ThreadLabel
<1> HIDE DEF Resignal
<1> QED
  BY <1>1, <1>2, <1>3, <1>4, <1>5, OthersDoNotRun

LEMMA CheckBreakerCovers ==
  ASSUME HolderInv, NEW t \in Thread, CheckBreaker(t)
  PROVE  HolderInv'
<1>0. FlagTypes /\ GilInv /\ t \in Actor /\ Main \in Actor
  BY EvalBreakerAssumption DEF HolderInv, Actor
<1> USE <1>0 DEF At, Goto, Compute, gil, flags, sigs, rings, frames, CheckBreaker
<1>1. InPlace(t) /\ Runs(t) /\ holder = t /\ CoveredAt(t)
  BY DEF HolderInv, GilInv, InPlace, Runs, Yielding
<1>2. FlagTypes'
  BY EvalBreakerAssumption, SMTT(30)
     DEF FlagTypes, Actor, Queue, ThreadLabel, AgentLabel
<1>3. \A u \in Thread \ {t} : pc'[u] = pc[u] /\ ret'[u] = ret[u]
  BY DEF FlagTypes, Actor
<1>4. \/ holder' = t /\ Runs(t)' /\ CoveredAt(t)'
      \/ holder' = NoThread /\ pc'[t] \in {"out", "want", "yield"}
  BY <1>1, EvalBreakerAssumption DEF FlagTypes, InPlace, Runs, Yielding, CoveredAt, Work, Queue
<1>5. InPlace(t)'
  BY <1>1, EvalBreakerAssumption DEF FlagTypes, InPlace, ThreadLabel
<1> HIDE DEF CheckBreaker
<1> QED
  BY <1>1, <1>2, <1>3, <1>4, <1>5, OthersDoNotRun

LEMMA MakePendingCallsCovers ==
  ASSUME HolderInv, NEW t \in Thread, MakePendingCalls(t)
  PROVE  HolderInv'
<1>0. FlagTypes /\ GilInv /\ t \in Actor /\ Main \in Actor
  BY EvalBreakerAssumption DEF HolderInv, Actor
<1> USE <1>0 DEF At, Goto, Compute, gil, flags, sigs, rings, frames, MakePendingCalls
<1>1. InPlace(t) /\ Runs(t) /\ holder = t /\ CoveredAt(t)
  BY DEF HolderInv, GilInv, InPlace, Runs, Yielding
<1>2. FlagTypes'
  BY EvalBreakerAssumption, SMTT(30)
     DEF FlagTypes, Actor, Queue, ThreadLabel, AgentLabel
<1>3. \A u \in Thread \ {t} : pc'[u] = pc[u] /\ ret'[u] = ret[u]
  BY DEF FlagTypes, Actor
<1>4. \/ holder' = t /\ Runs(t)' /\ CoveredAt(t)'
      \/ holder' = NoThread /\ pc'[t] \in {"out", "want", "yield"}
  BY <1>1, EvalBreakerAssumption DEF FlagTypes, InPlace, Runs, Yielding, CoveredAt, Work, Queue
<1>5. InPlace(t)'
  BY <1>1, EvalBreakerAssumption DEF FlagTypes, InPlace, ThreadLabel
<1> HIDE DEF MakePendingCalls
<1> QED
  BY <1>1, <1>2, <1>3, <1>4, <1>5, OthersDoNotRun

LEMMA MaybeCallsCovers ==
  ASSUME HolderInv, NEW t \in Thread, MaybeCalls(t)
  PROVE  HolderInv'
<1>0. FlagTypes /\ GilInv /\ t \in Actor /\ Main \in Actor
  BY EvalBreakerAssumption DEF HolderInv, Actor
<1> USE <1>0 DEF At, Goto, Compute, gil, flags, sigs, rings, frames, MaybeCalls
<1>1. InPlace(t) /\ Runs(t) /\ holder = t /\ CoveredAt(t)
  BY DEF HolderInv, GilInv, InPlace, Runs, Yielding
<1>2. FlagTypes'
  BY EvalBreakerAssumption, SMTT(30)
     DEF FlagTypes, Actor, Queue, ThreadLabel, AgentLabel
<1>3. \A u \in Thread \ {t} : pc'[u] = pc[u] /\ ret'[u] = ret[u]
  BY DEF FlagTypes, Actor
<1>4. \/ holder' = t /\ Runs(t)' /\ CoveredAt(t)'
      \/ holder' = NoThread /\ pc'[t] \in {"out", "want", "yield"}
  BY <1>1, EvalBreakerAssumption DEF FlagTypes, InPlace, Runs, Yielding, CoveredAt, Work, Queue
<1>5. InPlace(t)'
  BY <1>1, EvalBreakerAssumption DEF FlagTypes, InPlace, ThreadLabel
<1> HIDE DEF MaybeCalls
<1> QED
  BY <1>1, <1>2, <1>3, <1>4, <1>5, OthersDoNotRun

LEMMA RunGCCovers ==
  ASSUME HolderInv, NEW t \in Thread, RunGC(t)
  PROVE  HolderInv'
<1>0. FlagTypes /\ GilInv /\ t \in Actor /\ Main \in Actor
  BY EvalBreakerAssumption DEF HolderInv, Actor
<1> USE <1>0 DEF At, Goto, Compute, gil, flags, sigs, rings, frames, RunGC
<1>1. InPlace(t) /\ Runs(t) /\ holder = t /\ CoveredAt(t)
  BY DEF HolderInv, GilInv, InPlace, Runs, Yielding
<1>2. FlagTypes'
  <2>1. pc' \in [Actor -> ThreadLabel \cup AgentLabel]
    BY EvalBreakerAssumption, SMTT(30) DEF FlagTypes, Actor, ThreadLabel, AgentLabel
  <2>2. ret' \in [Actor -> {"run", "idle", "want", "taken", "tripped", "pop", "drop", "finished"}]
    BY EvalBreakerAssumption, SMTT(30) DEF FlagTypes, Actor
  <2>3. back' \in [Thread -> {"run", "async", "interrupted"}] /\ queue' \in [Actor -> Queue]
    BY EvalBreakerAssumption, SMTT(30) DEF FlagTypes, Actor, Queue
  <2>4. /\ holder' \in Thread \cup {NoThread} /\ seen' \in [Actor -> BOOLEAN]
        /\ {eval_breaker, gil_drop_request, signals_pending, gc_scheduled, async_flag}' \subseteq BOOLEAN
        /\ calls_to_do' \in [Queue -> BOOLEAN] /\ async_exc' \in [Thread -> BOOLEAN]
    BY EvalBreakerAssumption, Zenon DEF FlagTypes, Actor, Queue
  <2> QED BY <2>1, <2>2, <2>3, <2>4 DEF FlagTypes
<1>3. \A u \in Thread \ {t} : pc'[u] = pc[u] /\ ret'[u] = ret[u]
  BY DEF FlagTypes, Actor
<1>4. \/ holder' = t /\ Runs(t)' /\ CoveredAt(t)'
      \/ holder' = NoThread /\ pc'[t] \in {"out", "want", "yield"}
  BY <1>1, EvalBreakerAssumption DEF FlagTypes, InPlace, Runs, Yielding, CoveredAt, Work, Queue
<1>5. InPlace(t)'
  BY <1>1, EvalBreakerAssumption DEF FlagTypes, InPlace, ThreadLabel
<1> HIDE DEF RunGC
<1> QED
  BY <1>1, <1>2, <1>3, <1>4, <1>5, OthersDoNotRun

LEMMA RaiseAsyncExcCovers ==
  ASSUME HolderInv, NEW t \in Thread, RaiseAsyncExc(t)
  PROVE  HolderInv'
<1>0. FlagTypes /\ GilInv /\ t \in Actor /\ Main \in Actor
  BY EvalBreakerAssumption DEF HolderInv, Actor
<1> USE <1>0 DEF At, Goto, Compute, gil, flags, sigs, rings, frames, RaiseAsyncExc
<1>1. InPlace(t) /\ Runs(t) /\ holder = t /\ CoveredAt(t)
  BY DEF HolderInv, GilInv, InPlace, Runs, Yielding
<1>2. FlagTypes'
  <2>1. pc' \in [Actor -> ThreadLabel \cup AgentLabel]
    BY EvalBreakerAssumption, SMTT(30) DEF FlagTypes, Actor, ThreadLabel, AgentLabel
  <2>2. ret' \in [Actor -> {"run", "idle", "want", "taken", "tripped", "pop", "drop", "finished"}]
    BY EvalBreakerAssumption, SMTT(30) DEF FlagTypes, Actor
  <2>3. back' \in [Thread -> {"run", "async", "interrupted"}] /\ queue' \in [Actor -> Queue]
    BY EvalBreakerAssumption, SMTT(30) DEF FlagTypes, Actor, Queue
  <2>4. /\ holder' \in Thread \cup {NoThread} /\ seen' \in [Actor -> BOOLEAN]
        /\ {eval_breaker, gil_drop_request, signals_pending, gc_scheduled, async_flag}' \subseteq BOOLEAN
        /\ calls_to_do' \in [Queue -> BOOLEAN] /\ async_exc' \in [Thread -> BOOLEAN]
    BY EvalBreakerAssumption, Zenon DEF FlagTypes, Actor, Queue
  <2> QED BY <2>1, <2>2, <2>3, <2>4 DEF FlagTypes
<1>3. \A u \in Thread \ {t} : pc'[u] = pc[u] /\ ret'[u] = ret[u]
  BY DEF FlagTypes, Actor
<1>4. \/ holder' = t /\ Runs(t)' /\ CoveredAt(t)'
      \/ holder' = NoThread /\ pc'[t] \in {"out", "want", "yield"}
  BY <1>1, EvalBreakerAssumption DEF FlagTypes, InPlace, Runs, Yielding, CoveredAt, Work, Queue
<1>5. InPlace(t)'
  BY <1>1, EvalBreakerAssumption DEF FlagTypes, InPlace, ThreadLabel
<1> HIDE DEF RaiseAsyncExc
<1> QED
  BY <1>1, <1>2, <1>3, <1>4, <1>5, OthersDoNotRun

LEMMA DropGilCovers ==
  ASSUME HolderInv, NEW t \in Thread, DropGil(t)
  PROVE  HolderInv'
<1>0. FlagTypes /\ GilInv /\ t \in Actor /\ Main \in Actor
  BY EvalBreakerAssumption DEF HolderInv, Actor
<1> USE <1>0 DEF At, Goto, Compute, gil, flags, sigs, rings, frames, DropGil, Gil!Release
<1>1. InPlace(t) /\ Runs(t) /\ holder = t /\ CoveredAt(t)
  BY DEF HolderInv, GilInv, InPlace, Runs, Yielding
<1>2. FlagTypes'
  BY EvalBreakerAssumption, SMTT(30)
     DEF FlagTypes, Actor, Queue, ThreadLabel, AgentLabel
<1>3. \A u \in Thread \ {t} : pc'[u] = pc[u] /\ ret'[u] = ret[u]
  BY DEF FlagTypes, Actor
<1>4. \/ holder' = t /\ Runs(t)' /\ CoveredAt(t)'
      \/ holder' = NoThread /\ pc'[t] \in {"out", "want", "yield"}
  BY <1>1, EvalBreakerAssumption DEF FlagTypes, InPlace, Runs, Yielding, CoveredAt, Work, Queue
<1>5. InPlace(t)'
  BY <1>1, EvalBreakerAssumption DEF FlagTypes, InPlace, ThreadLabel
<1> HIDE DEF DropGil
<1> QED
  BY <1>1, <1>2, <1>3, <1>4, <1>5, OthersDoNotRun

LEMMA GilTakenCovers ==
  ASSUME HolderInv, NEW t \in Thread, GilTaken(t)
  PROVE  HolderInv'
<1>0. FlagTypes /\ GilInv /\ t \in Actor /\ Main \in Actor
  BY EvalBreakerAssumption DEF HolderInv, Actor
<1> USE <1>0 DEF At, Goto, Compute, gil, flags, sigs, rings, frames, GilTaken
<1>1. InPlace(t) /\ Runs(t) /\ holder = t /\ CoveredAt(t)
  BY DEF HolderInv, GilInv, InPlace, Runs, Yielding
<1>2. FlagTypes'
  BY EvalBreakerAssumption, SMTT(30)
     DEF FlagTypes, Actor, Queue, ThreadLabel, AgentLabel
<1>3. \A u \in Thread \ {t} : pc'[u] = pc[u] /\ ret'[u] = ret[u]
  BY DEF FlagTypes, Actor
<1>4. \/ holder' = t /\ Runs(t)' /\ CoveredAt(t)'
      \/ holder' = NoThread /\ pc'[t] \in {"out", "want", "yield"}
  BY <1>1, EvalBreakerAssumption DEF FlagTypes, InPlace, Runs, Yielding, CoveredAt, Work, Queue
<1>5. InPlace(t)'
  BY <1>1, EvalBreakerAssumption DEF FlagTypes, InPlace, ThreadLabel
<1> HIDE DEF GilTaken
<1> QED
  BY <1>1, <1>2, <1>3, <1>4, <1>5, OthersDoNotRun

LEMMA CallFailsCovers ==
  ASSUME HolderInv, NEW t \in Thread, CallFails(t)
  PROVE  HolderInv'
<1>0. FlagTypes /\ GilInv /\ t \in Actor /\ Main \in Actor
  BY EvalBreakerAssumption DEF HolderInv, Actor
<1> USE <1>0 DEF At, Goto, Compute, gil, flags, sigs, rings, frames, CallFails, FailedQueue
<1>1. InPlace(t) /\ Runs(t) /\ holder = t /\ CoveredAt(t)
  BY DEF HolderInv, GilInv, InPlace, Runs, Yielding
<1>2. FlagTypes'
  <2>1. /\ pc' \in [Actor -> ThreadLabel \cup AgentLabel] /\ queue' \in [Actor -> Queue]
        /\ ret' \in [Actor -> {"run", "idle", "want", "taken", "tripped", "pop", "drop", "finished"}]
    BY DEF FlagTypes, ThreadLabel, Queue, QueueOf
  <2> QED
    BY <2>1 DEF FlagTypes
<1>3. \A u \in Thread \ {t} : pc'[u] = pc[u] /\ ret'[u] = ret[u]
  BY DEF FlagTypes, Actor
<1>4. \/ holder' = t /\ Runs(t)' /\ CoveredAt(t)'
      \/ holder' = NoThread /\ pc'[t] \in {"out", "want", "yield"}
  BY <1>1, EvalBreakerAssumption DEF FlagTypes, InPlace, Runs, Yielding, CoveredAt, Work, Queue
<1>5. InPlace(t)'
  BY <1>1, EvalBreakerAssumption DEF FlagTypes, InPlace, ThreadLabel
<1> HIDE DEF CallFails
<1> QED
  BY <1>1, <1>2, <1>3, <1>4, <1>5, OthersDoNotRun

LEMMA ScheduleGCCovers ==
  ASSUME HolderInv, NEW t \in Thread, ScheduleGC(t)
  PROVE  HolderInv'
<1>0. FlagTypes /\ GilInv /\ t \in Actor /\ Main \in Actor
  BY EvalBreakerAssumption DEF HolderInv, Actor
<1> USE <1>0 DEF At, Goto, Compute, gil, flags, sigs, rings, frames, ScheduleGC
<1>1. InPlace(t) /\ Runs(t) /\ holder = t /\ CoveredAt(t)
  BY DEF HolderInv, GilInv, InPlace, Runs, Yielding
<1>2. FlagTypes'
  BY EvalBreakerAssumption, SMTT(30)
     DEF FlagTypes, Actor, Queue, ThreadLabel, AgentLabel
<1>3. \A u \in Thread \ {t} : pc'[u] = pc[u] /\ ret'[u] = ret[u]
  BY DEF FlagTypes, Actor
<1>4. \/ holder' = t /\ Runs(t)' /\ CoveredAt(t)'
      \/ holder' = NoThread /\ pc'[t] \in {"out", "want", "yield"}
  BY <1>1, EvalBreakerAssumption DEF FlagTypes, InPlace, Runs, Yielding, CoveredAt, Work, Queue
<1>5. InPlace(t)'
  BY <1>1, EvalBreakerAssumption DEF FlagTypes, InPlace, ThreadLabel
<1> HIDE DEF ScheduleGC
<1> QED
  BY <1>1, <1>2, <1>3, <1>4, <1>5, OthersDoNotRun

LEMMA SaveThreadCovers ==
  ASSUME HolderInv, NEW t \in Thread, SaveThread(t)
  PROVE  HolderInv'
<1>0. FlagTypes /\ GilInv /\ t \in Actor /\ Main \in Actor
  BY EvalBreakerAssumption DEF HolderInv, Actor
<1> USE <1>0 DEF At, Goto, Compute, gil, flags, sigs, rings, frames, SaveThread, Gil!Release
<1>1. InPlace(t) /\ Runs(t) /\ holder = t /\ CoveredAt(t)
  BY DEF HolderInv, GilInv, InPlace, Runs, Yielding
<1>2. FlagTypes'
  BY EvalBreakerAssumption, SMTT(30)
     DEF FlagTypes, Actor, Queue, ThreadLabel, AgentLabel
<1>3. \A u \in Thread \ {t} : pc'[u] = pc[u] /\ ret'[u] = ret[u]
  BY DEF FlagTypes, Actor
<1>4. \/ holder' = t /\ Runs(t)' /\ CoveredAt(t)'
      \/ holder' = NoThread /\ pc'[t] \in {"out", "want", "yield"}
  BY <1>1, EvalBreakerAssumption DEF FlagTypes, InPlace, Runs, Yielding, CoveredAt, Work, Queue
<1>5. InPlace(t)'
  BY <1>1, EvalBreakerAssumption DEF FlagTypes, InPlace, ThreadLabel
<1> HIDE DEF SaveThread
<1> QED
  BY <1>1, <1>2, <1>3, <1>4, <1>5, OthersDoNotRun

LEMMA SetAsyncExcCovers ==
  ASSUME HolderInv, NEW t \in Thread, NEW target \in Targets, SetAsyncExc(t, target)
  PROVE  HolderInv'
<1>0. FlagTypes /\ GilInv /\ t \in Actor /\ Main \in Actor
  BY EvalBreakerAssumption DEF HolderInv, Actor
<1> USE <1>0 DEF At, Goto, Compute, gil, flags, sigs, rings, frames, SetAsyncExc
<1>1. InPlace(t) /\ Runs(t) /\ holder = t /\ CoveredAt(t)
  BY DEF HolderInv, GilInv, InPlace, Runs, Yielding
<1>2. FlagTypes'
  BY EvalBreakerAssumption, SMTT(30)
     DEF FlagTypes, Actor, Queue, ThreadLabel, AgentLabel
<1>3. \A u \in Thread \ {t} : pc'[u] = pc[u] /\ ret'[u] = ret[u]
  BY DEF FlagTypes, Actor
<1>4. \/ holder' = t /\ Runs(t)' /\ CoveredAt(t)'
      \/ holder' = NoThread /\ pc'[t] \in {"out", "want", "yield"}
  BY <1>1, EvalBreakerAssumption DEF FlagTypes, InPlace, Runs, Yielding, CoveredAt, Work, Queue
<1>5. InPlace(t)'
  BY <1>1, EvalBreakerAssumption DEF FlagTypes, InPlace, ThreadLabel
<1> HIDE DEF SetAsyncExc
<1> QED
  BY <1>1, <1>2, <1>3, <1>4, <1>5, OthersDoNotRun

LEMMA AddPendingCallCovers ==
  ASSUME HolderInv, NEW t \in Thread, NEW c, AddPendingCall(t, c)
  PROVE  HolderInv'
<1>0. FlagTypes /\ GilInv /\ t \in Actor /\ Main \in Actor
  BY EvalBreakerAssumption DEF HolderInv, Actor
<1> USE <1>0 DEF At, Goto, Compute, gil, flags, sigs, rings, frames, AddPendingCall, QueueOf
<1>1. InPlace(t) /\ Runs(t) /\ holder = t /\ CoveredAt(t)
  BY DEF HolderInv, GilInv, InPlace, Runs, Yielding
<1>2. FlagTypes'
  BY EvalBreakerAssumption, SMTT(30)
     DEF FlagTypes, Actor, Queue, ThreadLabel, AgentLabel
<1>3. \A u \in Thread \ {t} : pc'[u] = pc[u] /\ ret'[u] = ret[u]
  BY DEF FlagTypes, Actor
<1>4. \/ holder' = t /\ Runs(t)' /\ CoveredAt(t)'
      \/ holder' = NoThread /\ pc'[t] \in {"out", "want", "yield"}
  BY <1>1, EvalBreakerAssumption DEF FlagTypes, InPlace, Runs, Yielding, CoveredAt, Work, Queue
<1>5. InPlace(t)'
  BY <1>1, EvalBreakerAssumption DEF FlagTypes, InPlace, ThreadLabel
<1> HIDE DEF AddPendingCall
<1> QED
  BY <1>1, <1>2, <1>3, <1>4, <1>5, OthersDoNotRun

LEMMA FinishPendingCallsCovers ==
  ASSUME HolderInv, NEW t \in Thread, t = Main, FinishPendingCalls
  PROVE  HolderInv'
<1>0. FlagTypes /\ GilInv /\ t \in Actor /\ Main \in Actor
  BY EvalBreakerAssumption DEF HolderInv, Actor
<1> USE <1>0 DEF At, Goto, Compute, gil, flags, sigs, rings, frames, FinishPendingCalls
<1>1. InPlace(t) /\ Runs(t) /\ holder = t /\ CoveredAt(t)
  BY DEF HolderInv, GilInv, InPlace, Runs, Yielding
<1>2. FlagTypes'
  BY EvalBreakerAssumption, SMTT(30)
     DEF FlagTypes, Actor, Queue, ThreadLabel, AgentLabel
<1>3. \A u \in Thread \ {t} : pc'[u] = pc[u] /\ ret'[u] = ret[u]
  BY DEF FlagTypes, Actor
<1>4. \/ holder' = t /\ Runs(t)' /\ CoveredAt(t)'
      \/ holder' = NoThread /\ pc'[t] \in {"out", "want", "yield"}
  BY <1>1, EvalBreakerAssumption DEF FlagTypes, InPlace, Runs, Yielding, CoveredAt, Work, Queue
<1>5. InPlace(t)'
  BY <1>1, EvalBreakerAssumption DEF FlagTypes, InPlace, ThreadLabel
<1> HIDE DEF FinishPendingCalls
<1> QED
  BY <1>1, <1>2, <1>3, <1>4, <1>5, OthersDoNotRun

(* A thread that has not got the GIL takes it, asks for it, or yields.     *)
LEMMA WaitersOK ==
  ASSUME HolderInv, NEW t \in Thread, FlagTypes',
         \A u \in Thread \ {t} : /\ pc'[u] = pc[u] /\ ret'[u] = ret[u] /\ seen'[u] = seen[u]
                                 /\ Runs(u) => (Work(u)' => Work(u)) /\ (eval_breaker => eval_breaker'),
         UNCHANGED <<holder, async_exc, async_flag>>,
         ~Runs(t), ~Runs(t)', Yielding(t)' => holder = NoThread,
         InPlace(t)'
  PROVE  HolderInv'
<1>1. ASSUME NEW u \in Thread, u # t
      PROVE  /\ Runs(u)' <=> Runs(u)
             /\ Yielding(u)' <=> Yielding(u)
             /\ InPlace(u) => InPlace(u)'
  <2>1. pc'[u] = pc[u] /\ ret'[u] = ret[u]
    BY <1>1
  <2> QED
    BY <2>1 DEF Runs, Yielding, InPlace
<1>2. ASSUME NEW u \in Thread, u # t, Runs(u) PROVE CoveredAt(u)'
  <2>1. /\ pc'[u] = pc[u] /\ ret'[u] = ret[u] /\ seen'[u] = seen[u]
        /\ Work(u)' => Work(u)
        /\ eval_breaker => eval_breaker'
    BY <1>2
  <2>2. CoveredAt(u)
    BY <1>2 DEF HolderInv
  <2> QED
    BY <2>1, <2>2 DEF CoveredAt
<1>3. GilInv'
  BY <1>1 DEF HolderInv, GilInv
<1> QED
  BY <1>1, <1>2, <1>3 DEF HolderInv

LEMMA RequestDropCovers ==
  ASSUME HolderInv, NEW t \in Thread, RequestDrop(t)
  PROVE  HolderInv'
<1>0. FlagTypes /\ GilInv /\ t \in Actor /\ InPlace(t)
  BY DEF HolderInv, GilInv, Actor
<1> USE <1>0 DEF At, Goto, Compute, gil, flags, sigs, rings, frames, RequestDrop
<1>1. FlagTypes'
  BY EvalBreakerAssumption, SMTT(30)
     DEF FlagTypes, Actor, Queue, ThreadLabel, AgentLabel
<1>2. \A u \in Thread \ {t} : pc'[u] = pc[u] /\ ret'[u] = ret[u] /\ seen'[u] = seen[u]
  BY DEF FlagTypes, Actor
<1>3. \A u \in Thread \ {t} : Runs(u) => (Work(u)' => Work(u)) /\ (eval_breaker => eval_breaker')
  BY DEF FlagTypes, Work, OnMain
<1>4. UNCHANGED <<holder, async_exc, async_flag>> /\ ~Runs(t) /\ ~Runs(t)'
  BY EvalBreakerAssumption DEF FlagTypes, Runs, Yielding
<1>5. Yielding(t)' => holder = NoThread
  BY DEF FlagTypes, Yielding
<1>6. InPlace(t)'
  BY DEF FlagTypes, InPlace, ThreadLabel
<1> HIDE DEF RequestDrop
<1> QED
  BY <1>1, <1>2, <1>3, <1>4, <1>5, <1>6, WaitersOK

LEMMA YieldGilCovers ==
  ASSUME HolderInv, NEW t \in Thread, YieldGil(t)
  PROVE  HolderInv'
<1>0. FlagTypes /\ GilInv /\ t \in Actor /\ InPlace(t)
  BY DEF HolderInv, GilInv, Actor
<1> USE <1>0 DEF At, Goto, Compute, gil, flags, sigs, rings, frames, YieldGil, Gil!Yield
<1>1. FlagTypes'
  <2>1. /\ pc' \in [Actor -> ThreadLabel \cup AgentLabel]
        /\ ret' \in [Actor -> {"run", "idle", "want", "taken", "tripped", "pop", "drop", "finished"}]
    BY DEF FlagTypes, ThreadLabel
  <2>2. {eval_breaker', gil_drop_request', signals_pending', gc_scheduled', async_flag'} \subseteq BOOLEAN
    BY DEF FlagTypes
  <2> QED
    BY <2>1, <2>2 DEF FlagTypes
<1>2. \A u \in Thread \ {t} : pc'[u] = pc[u] /\ ret'[u] = ret[u] /\ seen'[u] = seen[u]
  BY DEF FlagTypes, Actor
<1>3. \A u \in Thread \ {t} : Runs(u) => (Work(u)' => Work(u)) /\ (eval_breaker => eval_breaker')
  BY DEF FlagTypes, Work, OnMain
<1>4. UNCHANGED <<holder, async_exc, async_flag>> /\ ~Runs(t) /\ ~Runs(t)'
  BY EvalBreakerAssumption DEF FlagTypes, Runs, Yielding
<1>5. Yielding(t)' => holder = NoThread
  BY DEF FlagTypes, Yielding
<1>6. InPlace(t)'
  BY DEF FlagTypes, InPlace, ThreadLabel
<1> HIDE DEF YieldGil
<1> QED
  BY <1>1, <1>2, <1>3, <1>4, <1>5, <1>6, WaitersOK

LEMMA RestoreThreadCovers ==
  ASSUME HolderInv, NEW t \in Thread, RestoreThread(t)
  PROVE  HolderInv'
<1>0. FlagTypes /\ GilInv /\ t \in Actor /\ InPlace(t)
  BY DEF HolderInv, GilInv, Actor
<1> USE <1>0 DEF At, Goto, Compute, gil, flags, sigs, rings, frames, RestoreThread
<1>1. FlagTypes'
  BY EvalBreakerAssumption, SMTT(30)
     DEF FlagTypes, Actor, Queue, ThreadLabel, AgentLabel
<1>2. \A u \in Thread \ {t} : pc'[u] = pc[u] /\ ret'[u] = ret[u] /\ seen'[u] = seen[u]
  BY DEF FlagTypes, Actor
<1>3. \A u \in Thread \ {t} : Runs(u) => (Work(u)' => Work(u)) /\ (eval_breaker => eval_breaker')
  BY DEF FlagTypes, Work, OnMain
<1>4. UNCHANGED <<holder, async_exc, async_flag>> /\ ~Runs(t) /\ ~Runs(t)'
  BY EvalBreakerAssumption DEF FlagTypes, Runs, Yielding
<1>5. Yielding(t)' => holder = NoThread
  BY DEF FlagTypes, Yielding
<1>6. InPlace(t)'
  BY DEF FlagTypes, InPlace, ThreadLabel
<1> HIDE DEF RestoreThread
<1> QED
  BY <1>1, <1>2, <1>3, <1>4, <1>5, <1>6, WaitersOK

LEMMA TakeGilCovers ==
  ASSUME HolderInv, NEW t \in Thread, TakeGil(t)
  PROVE  HolderInv'
<1>0. FlagTypes /\ GilInv /\ t \in Actor /\ InPlace(t)
  BY DEF HolderInv, GilInv, Actor
<1> USE <1>0 DEF At, Goto, Compute, gil, flags, sigs, rings, frames, TakeGil, Gil!Acquire
<1>1. FlagTypes'
  <2>1. pc' \in [Actor -> ThreadLabel \cup AgentLabel]
    BY EvalBreakerAssumption, SMTT(30) DEF FlagTypes, Actor, ThreadLabel, AgentLabel
  <2>2. ret' \in [Actor -> {"run", "idle", "want", "taken", "tripped", "pop", "drop", "finished"}]
    BY EvalBreakerAssumption, SMTT(30) DEF FlagTypes, Actor
  <2>3. back' \in [Thread -> {"run", "async", "interrupted"}] /\ queue' \in [Actor -> Queue]
    BY EvalBreakerAssumption, SMTT(30) DEF FlagTypes, Actor, Queue
  <2>4. /\ holder' \in Thread \cup {NoThread} /\ seen' \in [Actor -> BOOLEAN]
        /\ {eval_breaker, gil_drop_request, signals_pending, gc_scheduled, async_flag}' \subseteq BOOLEAN
        /\ calls_to_do' \in [Queue -> BOOLEAN] /\ async_exc' \in [Thread -> BOOLEAN]
    BY EvalBreakerAssumption, Zenon DEF FlagTypes, Actor, Queue
  <2> QED BY <2>1, <2>2, <2>3, <2>4 DEF FlagTypes
<1>2. \A u \in Thread \ {t} : ~Runs(u)' /\ ~Yielding(u)' /\ InPlace(u)'
  BY EvalBreakerAssumption DEF FlagTypes, GilInv, Runs, Yielding, InPlace, Actor
<1>3. pc'[t] = "load" /\ ret'[t] = "taken" /\ holder' = t
  BY DEF FlagTypes
<1>4. Runs(t)' /\ ~Yielding(t)' /\ CoveredAt(t)' /\ InPlace(t)'
  BY <1>3 DEF Runs, Yielding, CoveredAt, InPlace, ThreadLabel
<1> HIDE DEF TakeGil
<1> QED
  BY <1>1, <1>2, <1>3, <1>4 DEF HolderInv, GilInv

(* A thread computes eval_breaker with the GIL, or while it yields, when   *)
(* nobody has it.                                                          *)
LEMMA LoadFlagsCovers ==
  ASSUME HolderInv, NEW t \in Thread, LoadFlags(t)
  PROVE  HolderInv'
<1>0. FlagTypes /\ GilInv /\ t \in Actor /\ InPlace(t)
  BY DEF HolderInv, GilInv, Actor
<1> USE <1>0 DEF At, Goto, Compute, gil, flags, sigs, rings, frames, LoadFlags
<1>1. FlagTypes'
  BY EvalBreakerAssumption, SMTT(30)
     DEF FlagTypes, Actor, Queue, ThreadLabel, AgentLabel
<1>2. CASE Yielding(t)
  <2>1. holder = NoThread /\ ~Runs(t)
    BY <1>2 DEF GilInv, Runs
  <2>2. \A u \in Thread : ~Runs(u)
    BY <2>1, EvalBreakerAssumption DEF GilInv
  <2>3. pc'[t] = "store" /\ ret' = ret /\ holder' = holder /\ UNCHANGED <<async_exc, async_flag>>
    BY DEF FlagTypes
  <2>4. Yielding(t)' /\ ~Runs(t)' /\ InPlace(t)'
    BY <1>2, <2>3 DEF Yielding, Runs, InPlace, ThreadLabel
  <2>5. \A u \in Thread \ {t} : pc'[u] = pc[u] /\ ret'[u] = ret[u] /\ seen'[u] = seen[u]
    BY DEF FlagTypes, Actor
  <2> HIDE DEF LoadFlags
  <2> QED
    BY <1>1, <2>1, <2>2, <2>3, <2>4, <2>5, WaitersOK
<1>3. CASE ~Yielding(t)
  <2>1. Runs(t) /\ holder = t /\ CoveredAt(t)
    BY <1>3 DEF HolderInv, GilInv, Runs
  <2>2. \A u \in Thread \ {t} : pc'[u] = pc[u] /\ ret'[u] = ret[u]
    BY DEF FlagTypes, Actor
  <2>3. pc'[t] = "store" /\ ret' = ret /\ holder' = holder /\ UNCHANGED flags /\ UNCHANGED async_exc
        /\ pc[t] = "load" /\ seen'[t] = (gil_drop_request \/ Work(t))
    BY DEF FlagTypes
  <2>4. Runs(t)' /\ InPlace(t)'
    BY <1>3, <2>3 DEF Runs, Yielding, InPlace, ThreadLabel
  <2>5. Work(t)' => seen'[t]
    <3>1. Work(t)' => Work(t)
      BY <2>3 DEF Work
    <3>2. Work(t) => seen'[t]
      BY <2>3, Zenon
    <3> QED
      BY <3>1, <3>2
  <2>6. CoveredAt(t)'
    BY <2>1, <2>3, <2>5 DEF CoveredAt
  <2> HIDE DEF LoadFlags
  <2> QED
    BY <1>1, <2>1, <2>2, <2>3, <2>4, <2>6, OthersDoNotRun
<1> QED
  BY <1>2, <1>3

LEMMA StoreBreakerCovers ==
  ASSUME HolderInv, NEW t \in Thread, StoreBreaker(t)
  PROVE  HolderInv'
<1>0. FlagTypes /\ GilInv /\ t \in Actor /\ InPlace(t)
  BY DEF HolderInv, GilInv, Actor
<1> USE <1>0 DEF At, Goto, Compute, gil, flags, sigs, rings, frames, StoreBreaker
<1>1. FlagTypes'
  BY EvalBreakerAssumption, SMTT(30)
     DEF FlagTypes, Actor, Queue, ThreadLabel, AgentLabel
<1>4. /\ pc[t] = "store" /\ pc'[t] = ret[t] /\ UNCHANGED <<ret, holder, flags, async_exc>>
      /\ eval_breaker' = seen[t]
  BY DEF FlagTypes
<1>2. CASE Yielding(t)
  <2>1. holder = NoThread /\ ~Runs(t)
    BY <1>2 DEF GilInv, Runs
  <2>2. \A u \in Thread : ~Runs(u)
    BY <2>1, EvalBreakerAssumption DEF GilInv
  <2>4. ~Yielding(t)' /\ ~Runs(t)' /\ InPlace(t)'
    BY <1>2, <1>4 DEF Yielding, Runs, InPlace, ThreadLabel
  <2>5. \A u \in Thread \ {t} : pc'[u] = pc[u] /\ ret'[u] = ret[u] /\ seen'[u] = seen[u]
    BY DEF FlagTypes, Actor
  <2> HIDE DEF StoreBreaker
  <2> QED
    BY <1>1, <1>4, <2>1, <2>2, <2>4, <2>5, WaitersOK
<1>3. CASE ~Yielding(t)
  <2>1. Runs(t) /\ holder = t /\ CoveredAt(t)
    BY <1>3 DEF HolderInv, GilInv, Runs
  <2>2. \A u \in Thread \ {t} : pc'[u] = pc[u] /\ ret'[u] = ret[u]
    BY DEF FlagTypes, Actor
  <2>3. pc'[t] \in {"run", "taken", "tripped", "pop", "drop", "finished"}
    BY <1>3, <1>4 DEF FlagTypes, InPlace, Yielding
  <2>4. Runs(t)' /\ InPlace(t)'
    BY <1>4, <2>3 DEF Runs, Yielding, InPlace, ThreadLabel
  <2>5. Work(t)' => eval_breaker'
    BY <1>4, <2>1 DEF Work, CoveredAt
  <2>6. CoveredAt(t)'
    BY <1>4, <2>1, <2>3, <2>5 DEF CoveredAt
  <2> HIDE DEF StoreBreaker
  <2> QED
    BY <1>1, <1>4, <2>1, <2>2, <2>4, <2>6, OthersDoNotRun
<1> QED
  BY <1>2, <1>3
-----------------------------------------------------------------------------
LEMMA HolderInitOK == Init => HolderInv
<1> SUFFICES ASSUME Init PROVE HolderInv
  OBVIOUS
<1> USE EvalBreakerAssumption DEF Init, Actor, Queue
<1>1. FlagTypes
  BY DEF FlagTypes, ThreadLabel, AgentLabel
<1>2. GilInv
  BY DEF GilInv, InPlace, Runs, Yielding, ThreadLabel
<1>3. \A t \in Thread : ~Work(t) /\ ~async_exc[t] /\ pc[t] \in {"run", "out"}
  BY DEF Work
<1> QED
  BY <1>1, <1>2, <1>3 DEF HolderInv, CoveredAt

LEMMA ThreadStepCovers ==
  ASSUME HolderInv, NEW t \in Thread,
         \/ Step(t) \/ TakeGil(t) \/ CallFails(t) \/ ScheduleGC(t)
         \/ SaveThread(t) \/ RestoreThread(t)
  PROVE  HolderInv'
<1>1. CASE LoadFlags(t) \/ StoreBreaker(t) \/ SignalCalls(t)
  BY <1>1, LoadFlagsCovers, StoreBreakerCovers, SignalCallsCovers
<1>2. CASE \/ EnterCalls(t) \/ UnsignalMain(t) \/ UnsignalInterp(t)
           \/ PopCall(t) \/ EndOfCalls(t) \/ CallReturns(t)
  BY <1>2, EnterCallsCovers, UnsignalMainCovers, UnsignalInterpCovers, PopCallCovers,
     EndOfCallsCovers, CallReturnsCovers
<1>3. CASE HandleSignals(t) \/ CheckSignals(t) \/ RunHandlers(t) \/ Resignal(t)
  BY <1>3, HandleSignalsCovers, CheckSignalsCovers, RunHandlersCovers, ResignalCovers
<1>4. CASE \/ CheckBreaker(t) \/ MakePendingCalls(t) \/ MaybeCalls(t) \/ RunGC(t)
           \/ RaiseAsyncExc(t)
  BY <1>4, CheckBreakerCovers, MakePendingCallsCovers, MaybeCallsCovers, RunGCCovers,
     RaiseAsyncExcCovers
<1>5. CASE DropGil(t) \/ YieldGil(t) \/ GilTaken(t) \/ RequestDrop(t)
  BY <1>5, DropGilCovers, YieldGilCovers, GilTakenCovers, RequestDropCovers
<1>6. CASE TakeGil(t) \/ CallFails(t) \/ ScheduleGC(t) \/ SaveThread(t) \/ RestoreThread(t)
  BY <1>6, TakeGilCovers, CallFailsCovers, ScheduleGCCovers, SaveThreadCovers, RestoreThreadCovers
<1> QED
  BY <1>1, <1>2, <1>3, <1>4, <1>5, <1>6 DEF Step

LEMMA HolderStutter ==
  ASSUME HolderInv, UNCHANGED vars
  PROVE  HolderInv'
<1> USE DEF vars, gil, flags, sigs, rings, frames
<1>1. FlagTypes'
  BY DEF HolderInv, FlagTypes
<1>2. GilInv'
  BY DEF HolderInv, GilInv, InPlace, Runs, Yielding
<1>3. \A t \in Thread : Runs(t)' => CoveredAt(t)'
  BY DEF HolderInv, CoveredAt, Work, Runs, Yielding
<1> QED
  BY <1>1, <1>2, <1>3 DEF HolderInv

LEMMA HolderCovers == HolderInv => BreakerCovers
<1> SUFFICES ASSUME HolderInv, NEW t \in Thread, pc[t] = "run", Work(t) \/ async_exc[t]
             PROVE  eval_breaker
  BY DEF BreakerCovers
<1>1. Runs(t)
  BY DEF Runs, Yielding
<1>2. CoveredAt(t)
  BY <1>1 DEF HolderInv
<1> QED
  BY <1>2 DEF CoveredAt, Work

(* COMPUTE_EVAL_BREAKER and take_gil: with no caller without the GIL, the  *)
(* thread that runs Python code finds whatever there is to do in           *)
(* eval_breaker.                                                           *)
THEOREM HoldersAreCovered ==
  ASSUME Agent = {}
  PROVE  Spec => []BreakerCovers
<1>1. Init => HolderInv
  BY HolderInitOK
<1>2. HolderInv /\ [Next]_vars => HolderInv'
  <2> SUFFICES ASSUME HolderInv, [Next]_vars PROVE HolderInv'
    OBVIOUS
  <2>1. CASE FinishPendingCalls
    BY <2>1, FinishPendingCallsCovers, EvalBreakerAssumption
  <2>2. ASSUME NEW t \in Thread,
               \/ Step(t) \/ TakeGil(t) \/ CallFails(t) \/ ScheduleGC(t)
               \/ SaveThread(t) \/ RestoreThread(t)
        PROVE  HolderInv'
    BY <2>2, ThreadStepCovers
  <2>3. ASSUME NEW t \in Thread,
               \/ \E c \in Call : AddPendingCall(t, c)
               \/ \E u \in Thread : SetAsyncExc(t, u)
        PROVE  HolderInv'
    <3>1. CASE \E c \in Call : AddPendingCall(t, c)
      BY <3>1, AddPendingCallCovers
    <3>2. ASSUME NEW u \in Thread, SetAsyncExc(t, u) PROVE HolderInv'
      <4>1. u \in Targets
        BY <3>2 DEF SetAsyncExc
      <4> QED
        BY <3>2, <4>1, SetAsyncExcCovers
    <3> QED
      BY <2>3, <3>1, <3>2
  <2>4. CASE UNCHANGED vars
    BY <2>4, HolderStutter
  <2> QED
    BY <2>1, <2>2, <2>3, <2>4 DEF Next
<1>3. HolderInv => BreakerCovers
  BY HolderCovers
<1> QED
  BY <1>1, <1>2, <1>3, PTL DEF Spec

(* The same of the two cases of MCEvalBreakerCases in which only threads   *)
(* that hold the GIL announce work, whatever agents there are.             *)
HolderCases == announcer \in {"holder", "blocker"} => HolderInv

(* In the cases of MCEvalBreakerCases without an agent a flag that is set  *)
(* for a thread is covered by eval_breaker.                                *)
THEOREM HolderCasesAreCovered == CasesSpec => []HolderCovered
<1>1. CasesInit => HolderCases
  BY HolderInitOK DEF CasesInit, HolderCases
<1>2. HolderCases /\ [CasesNext]_<<vars, announcer>> => HolderCases'
  <2> SUFFICES ASSUME announcer \in {"holder", "blocker"}, HolderInv, CasesNext \/ UNCHANGED vars
               PROVE  HolderInv'
    BY DEF HolderCases, CasesNext
  <2>1. ASSUME NEW t \in Thread,
               \/ Step(t) \/ TakeGil(t) \/ CallFails(t) \/ ScheduleGC(t)
               \/ SaveThread(t) \/ RestoreThread(t)
        PROVE  HolderInv'
    BY <2>1, ThreadStepCovers
  <2>2. ASSUME NEW calls, NEW T, HolderNext(calls, T) PROVE HolderInv'
    <3>1. CASE FinishPendingCalls
      BY <3>1, FinishPendingCallsCovers, EvalBreakerAssumption
    <3>2. ASSUME NEW t \in Thread, NEW c \in calls, AddPendingCall(t, c) PROVE HolderInv'
      BY <3>2, AddPendingCallCovers
    <3>3. ASSUME NEW t \in Thread, NEW u \in T, SetAsyncExc(t, u) PROVE HolderInv'
      <4>1. u \in Targets
        BY <3>3 DEF SetAsyncExc
      <4> QED
        BY <3>3, <4>1, SetAsyncExcCovers
    <3> QED
      BY <2>1, <2>2, <3>1, <3>2, <3>3 DEF HolderNext
  <2>3. CASE UNCHANGED vars
    BY <2>3, HolderStutter
  <2>4. CASE CasesNext
    <3>1. \/ \E t \in Thread : Step(t) \/ TakeGil(t) \/ CallFails(t) \/ RestoreThread(t)
          \/ HolderNext({d1, d2}, {t1})
          \/ HolderNext({d2}, {m})
          \/ \E t \in Thread : SaveThread(t)
      BY <2>4 DEF CasesNext
    <3> QED
      BY <2>1, <2>2, <3>1
  <2> QED
    BY <2>3, <2>4
<1>3. HolderCases => HolderCovered
  BY HolderCovers DEF HolderCases, HolderCovered
<1> QED
  BY <1>1, <1>2, <1>3, PTL DEF CasesSpec
=============================================================================
