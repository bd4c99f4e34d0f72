--------------------------- MODULE CollectorProof ---------------------------
(* Proofs about the cyclic garbage collector, for any finite set of objects, *)
(* any weak references among them and any heaps to begin with.               *)
(*                                                                           *)
(* IInv is an inductive invariant of every collection: nothing refers to     *)
(* what is freed, what a scan has marked is reachable and the rest is not    *)
(* referred to from what is (MarkedRight), and what will be deleted had its  *)
(* finalizer called.  CollectorInv follows from it.                          *)
(*                                                                           *)
(* SafeInv says that nothing leads to what the collector has given up, and   *)
(* is inductive where Python code makes no new weak references: a callback   *)
(* or finalizer that makes one to an object of the trash makes it accessible *)
(* after tp_clear (the run Collector_weakrefs).  CodeIsSafe and TrashGone    *)
(* follow from it; TrashGone also from what IsHeap says of tuples.           *)
EXTENDS Collector, FiniteSetTheorems, TLAPS
(***************************************************************************)
(* Reachability.                                                           *)
(***************************************************************************)
(* A closure has what it starts from, and no step leaves it.               *)
LEMMA ClosureIsClosed ==
  ASSUME NEW S \in SUBSET Object, NEW step, \A o \in Object : step[o] \subseteq Object
  PROVE  /\ S \subseteq Closure(S, step) /\ Closure(S, step) \subseteq Object
         /\ ClosedUnder(Closure(S, step), step)
<1> DEFINE C == Closure(S, step)
<1>1. S \subseteq C /\ C \subseteq Object
  BY DEF Closure
<1>2. ASSUME NEW o \in C, NEW x \in step[o] PROVE x \in C
  <2>1. o \in Object /\ x \in Object
    BY <1>1, <1>2
  <2>2. ASSUME NEW T \in SUBSET Object, S \subseteq T, ClosedUnder(T, step) PROVE x \in T
    <3>1. o \in T
      BY <1>2, <2>2 DEF Closure
    <3> QED BY <1>2, <2>2, <3>1 DEF ClosedUnder
  <2> QED BY <2>1, <2>2 DEF Closure
<1> QED
  BY <1>1, <1>2 DEF ClosedUnder

(* It is the least such set.                                               *)
LEMMA ClosureIsLeast ==
  ASSUME NEW S, NEW step, NEW T \in SUBSET Object, S \subseteq T, ClosedUnder(T, step)
  PROVE  Closure(S, step) \subseteq T
BY DEF Closure
-----------------------------------------------------------------------------
(***************************************************************************)
(* Reference counts.                                                       *)
(***************************************************************************)
(* An object has the count 0 when nobody refers to it.                     *)
LEMMA RefcntOf ==
  ASSUME NEW o \in Object
  PROVE  /\ IsFiniteSet(Referrers(o)) /\ Cardinality(Referrers(o)) \in Nat
         /\ Refcnt(o) \in Nat
         /\ Refcnt(o) = 0 <=> /\ \A p \in Object : o \notin refs[p]
                              /\ o \notin roots \cup toCall \cup {held}
<1>1. IsFiniteSet(Referrers(o))
  BY FS_Subset, CollectorAssumption DEF Referrers
<1>2. Cardinality(Referrers(o)) \in Nat /\ (Cardinality(Referrers(o)) = 0 <=> Referrers(o) = {})
  BY <1>1, FS_CardinalityType, FS_EmptySet
<1>3. Referrers(o) = {} <=> \A p \in Object : o \notin refs[p]
  BY DEF Referrers
<1> QED
  BY <1>1, <1>2, <1>3 DEF Refcnt

(* The count does not depend on where the objects are.                     *)
LEMMA RefcntKept ==
  ASSUME refs' = refs, roots' = roots, toCall' = toCall, held' = held
  PROVE  \A o \in Object : Refcnt(o)' = Refcnt(o)
BY DEF Refcnt, Referrers
-----------------------------------------------------------------------------
(***************************************************************************)
(* The heap.  Nothing refers to an object that is freed or unborn.         *)
(***************************************************************************)
Sound(r, v, wo, pl) ==
  /\ r \in [Object -> SUBSET Object] /\ v \subseteq Object
  /\ wo \in [Weakref -> Object \cup {NoObject}] /\ pl \in [Object -> Lists]
  /\ \A o \in Object : pl[o] \in {"freed", "unborn"} =>
       /\ r[o] = {} /\ o \notin v /\ \A p \in Object : o \notin r[p]
       /\ \A w \in Weakref : wo[w] # NoObject => o \notin {w, wo[w]}

HeapInv == Sound(refs, roots, wr_object, place)

(* What one piece of Python code does to the heap: nothing; or a variable  *)
(* is bound, or given up; an object gets or loses a reference; or a weak   *)
(* reference is made.                                                      *)
Leaves(h) == h.refs = refs /\ h.roots = roots /\ h.wr_object = wr_object /\ h.place = place

Binds(own, h) ==
  \E x \in Accessible(own) : /\ h.roots = roots \cup {x} /\ h.refs = refs
                             /\ h.wr_object = wr_object /\ h.place = place

Unbinds(h) ==
  \E x \in roots : /\ h.roots = roots \ {x} /\ h.refs = refs
                   /\ h.wr_object = wr_object /\ h.place = place

Writes(own, h) ==
  \E p \in Accessible(own) \cap Mutable, x \in Accessible(own) :
    /\ h.refs = [refs EXCEPT ![p] = IF x \in @ THEN @ \ {x} ELSE @ \cup {x}]
    /\ h.roots = roots /\ h.wr_object = wr_object /\ h.place = place

Makes(own, h) ==
  \E u \in In("unborn"), x \in Accessible(own) \cap Mutable :
    /\ h.wr_object = [wr_object EXCEPT ![u] = x] /\ h.roots = roots \cup {u}
    /\ h.place = [place EXCEPT ![u] = "young"] /\ h.refs = refs

IsRecord(h) ==
  h = [refs |-> h.refs, roots |-> h.roots, wr_object |-> h.wr_object, place |-> h.place]

LEMMA OutcomesAre ==
  ASSUME NEW own, NEW h \in Outcomes(own)
  PROVE  /\ \/ Leaves(h) \/ Binds(own, h) \/ Unbinds(h) \/ Writes(own, h)
            \/ MakesWeakrefs /\ Makes(own, h)
         /\ IsRecord(h)
<1> DEFINE Bound   == {[now EXCEPT !.roots = @ \cup {x}] : x \in Accessible(own)}
           Unbound == {[now EXCEPT !.roots = @ \ {x}] : x \in roots}
           Written == {[now EXCEPT !.refs[p] = IF x \in @ THEN @ \ {x} ELSE @ \cup {x}] :
                         p \in Accessible(own) \cap Mutable, x \in Accessible(own)}
           Made    == {[refs |-> refs, roots |-> roots \cup {u},
                        wr_object |-> [wr_object EXCEPT ![u] = x],
                        place |-> [place EXCEPT ![u] = "young"]] :
                         u \in IF MakesWeakrefs THEN In("unborn") ELSE {},
                         x \in Accessible(own) \cap Mutable}
<1>0. Outcomes(own) = {now} \cup Bound \cup Unbound \cup Written \cup Made
  BY DEF Outcomes
<1>1. h = now \/ h \in Bound \/ h \in Unbound \/ h \in Written \/ h \in Made
  <2> HIDE DEF Bound, Unbound, Written, Made
  <2> QED BY <1>0
<1>2. CASE h = now
  BY <1>2 DEF now, Leaves, IsRecord
<1>3. CASE h \in Bound
  BY <1>3 DEF now, Binds, IsRecord
<1>4. CASE h \in Unbound
  BY <1>4 DEF now, Unbinds, IsRecord
<1>5. CASE h \in Written
  <2>1. PICK p \in Accessible(own) \cap Mutable, x \in Accessible(own) :
          h = [now EXCEPT !.refs[p] = IF x \in @ THEN @ \ {x} ELSE @ \cup {x}]
    BY <1>5
  <2>2. /\ h.refs = [refs EXCEPT ![p] = IF x \in @ THEN @ \ {x} ELSE @ \cup {x}]
        /\ h.roots = roots /\ h.wr_object = wr_object /\ h.place = place
    BY <2>1 DEF now
  <2>3. IsRecord(h)
    BY <2>1 DEF now, IsRecord
  <2> QED BY <2>2, <2>3 DEF Writes
<1>6. CASE h \in Made
  <2>1. MakesWeakrefs
    BY <1>6
  <2>2. PICK u \in In("unborn"), x \in Accessible(own) \cap Mutable :
          h = [refs |-> refs, roots |-> roots \cup {u},
               wr_object |-> [wr_object EXCEPT ![u] = x], place |-> [place EXCEPT ![u] = "young"]]
    BY <1>6, <2>1
  <2>3. /\ h.wr_object = [wr_object EXCEPT ![u] = x] /\ h.roots = roots \cup {u}
        /\ h.place = [place EXCEPT ![u] = "young"] /\ h.refs = refs
    BY <2>2
  <2>4. IsRecord(h)
    BY <2>2 DEF IsRecord
  <2> QED BY <2>1, <2>3, <2>4 DEF Makes
<1> HIDE DEF Bound, Unbound, Written, Made
<1> QED
  BY <1>1, <1>2, <1>3, <1>4, <1>5, <1>6, Zenon

(* Python code gets at nothing in D when nothing outside of D leads there. *)
LEMMA AccessibleAvoids ==
  ASSUME NEW own \in SUBSET Object, NEW D, HeapInv, roots \cap D = {}, own \cap D = {},
         \A p \in Object \ D : refs[p] \cap D = {},
         \A w \in Weakref \ D : wr_object[w] \notin D
  PROVE  Accessible(own) \subseteq Object \ D
<1> DEFINE step == [o \in Object |-> Seen(o)]
<1>1. ClosedUnder(Object \ D, step)
  <2> SUFFICES ASSUME NEW o \in Object \ D PROVE Seen(o) \subseteq Object \ D
    BY DEF ClosedUnder
  <2>1. refs[o] \subseteq Object \ D
    BY DEF HeapInv, Sound
  <2>2. {x \in Object : o \in Weakref /\ wr_object[o] = x /\ Refcnt(x) > 0} \subseteq Object \ D
    BY CollectorAssumption
  <2> QED BY <2>1, <2>2 DEF Seen
<1>2. roots \cup own \subseteq Object \ D
  BY DEF HeapInv, Sound
<1>3. Closure(roots \cup own, step) \subseteq Object \ D
  <2> HIDE DEF step
  <2> QED BY <1>1, <1>2, ClosureIsLeast
<1> QED
  BY <1>3 DEF Accessible
(* The heap stays sound when Python code runs with live objects at hand;   *)
(* only an unborn object changes its place, and tuples stay what they are. *)
GoesOn(h) ==
  /\ Sound(h.refs, h.roots, h.wr_object, h.place)
  /\ \A o \in Object : \/ h.place[o] = place[o]
                       \/ place[o] = "unborn" /\ h.place[o] = "young"
  /\ \A p \in Object : kind[p] = "tuple" => h.refs[p] = refs[p]
  /\ IsRecord(h)

LEMMA CodeRuns ==
  ASSUME HeapInv, NEW own \in SUBSET Object, own \cap Gone = {}, NEW h \in Outcomes(own)
  PROVE  GoesOn(h)
<1>1. \A o \in Object : o \in Gone <=> place[o] \in {"freed", "unborn"}
  BY DEF Gone, In
<1>2. /\ refs \in [Object -> SUBSET Object] /\ roots \subseteq Object
      /\ wr_object \in [Weakref -> Object \cup {NoObject}] /\ place \in [Object -> Lists]
  BY DEF HeapInv, Sound
<1>3. \A o \in Object : place[o] \in {"freed", "unborn"} =>
       /\ refs[o] = {} /\ o \notin roots /\ \A p \in Object : o \notin refs[p]
       /\ \A w \in Weakref : wr_object[w] # NoObject => o \notin {w, wr_object[w]}
  BY DEF HeapInv, Sound
<1>0. IsRecord(h)
  BY OutcomesAre
<1>4. Accessible(own) \subseteq Object \ Gone
  <2>1. roots \cap Gone = {} /\ \A p \in Object \ Gone : refs[p] \cap Gone = {}
    BY <1>1, <1>2, <1>3
  <2>2. \A w \in Weakref \ Gone : wr_object[w] \notin Gone
    <3>1. NoObject \notin Gone
      BY CollectorAssumption DEF Gone, In
    <3> QED BY <1>1, <1>2, <1>3, <3>1
  <2> QED BY <2>1, <2>2, AccessibleAvoids
<1>5. \A o \in Accessible(own) : o \in Object /\ place[o] \notin {"freed", "unborn"}
  BY <1>1, <1>4
<1>6. ASSUME h.refs = refs, h.roots = roots, h.wr_object = wr_object, h.place = place
      PROVE  GoesOn(h)
  BY <1>6, <1>0 DEF HeapInv, GoesOn
<1>7. ASSUME NEW x \in Accessible(own), h.roots = roots \cup {x}, h.refs = refs,
             h.wr_object = wr_object, h.place = place
      PROVE  GoesOn(h)
  BY <1>2, <1>3, <1>5, <1>7, <1>0 DEF Sound, GoesOn
<1>8. ASSUME NEW x \in roots, h.roots = roots \ {x}, h.refs = refs,
             h.wr_object = wr_object, h.place = place
      PROVE  GoesOn(h)
  BY <1>2, <1>3, <1>8, <1>0 DEF Sound, GoesOn
<1>9. ASSUME NEW p \in Accessible(own) \cap Mutable, NEW x \in Accessible(own),
             h.refs = [refs EXCEPT ![p] = IF x \in @ THEN @ \ {x} ELSE @ \cup {x}],
             h.roots = roots, h.wr_object = wr_object, h.place = place
      PROVE  GoesOn(h)
  <2>1. /\ h.refs \in [Object -> SUBSET Object]
        /\ \A q \in Object : q # p => h.refs[q] = refs[q]
        /\ h.refs[p] \subseteq refs[p] \cup {x}
    BY <1>2, <1>5, <1>9
  <2>2. kind[p] # "tuple" /\ place[p] \notin {"freed", "unborn"}
    BY <1>5 DEF Mutable
  <2>3. \A o \in Object : place[o] \in {"freed", "unborn"} =>
          h.refs[o] = {} /\ \A q \in Object : o \notin h.refs[q]
    BY <1>3, <1>5, <2>1, <2>2
  <2>4. \A q \in Object : kind[q] = "tuple" => h.refs[q] = refs[q]
    BY <2>1, <2>2
  <2> QED BY <1>2, <1>3, <1>9, <2>1, <2>2, <2>3, <2>4, <1>0 DEF Sound, GoesOn
<1>10. ASSUME NEW u \in In("unborn"), NEW x \in Accessible(own) \cap Mutable,
              h.wr_object = [wr_object EXCEPT ![u] = x], h.roots = roots \cup {u},
              h.place = [place EXCEPT ![u] = "young"], h.refs = refs
       PROVE  GoesOn(h)
  <2>1. u \in Object /\ place[u] = "unborn"
    BY DEF In
  <2>2. /\ h.place \in [Object -> Lists] /\ h.place[u] = "young"
        /\ \A o \in Object : o # u => h.place[o] = place[o]
    BY <1>2, <1>10, <2>1 DEF Lists
  <2>3. /\ h.wr_object \in [Weakref -> Object \cup {NoObject}]
        /\ \A w \in Weakref : w # u => h.wr_object[w] = wr_object[w]
        /\ u \in Weakref => h.wr_object[u] = x
    BY <1>2, <1>5, <1>10
  <2>4. \A o \in Object : h.place[o] \in {"freed", "unborn"} =>
          \A w \in Weakref : h.wr_object[w] # NoObject => o \notin {w, h.wr_object[w]}
    BY <1>3, <1>5, <2>2, <2>3
  <2>5. \A o \in Object : h.place[o] \in {"freed", "unborn"} =>
          h.refs[o] = {} /\ o \notin h.roots /\ \A p \in Object : o \notin h.refs[p]
    BY <1>3, <1>10, <2>2
  <2> QED BY <1>2, <1>10, <2>1, <2>2, <2>3, <2>4, <2>5, <1>0 DEF Sound, GoesOn
<1>11. Binds(own, h) \/ Unbinds(h) \/ Writes(own, h) \/ Makes(own, h) => GoesOn(h)
  BY <1>7, <1>8, <1>9, <1>10 DEF Binds, Unbinds, Writes, Makes
<1> QED
  BY <1>6, <1>11, OutcomesAre DEF Leaves

(* Nothing outside of D leads there.                                       *)
Apart(D, r, v, wo) ==
  /\ v \cap D = {} /\ \A p \in Object \ D : r[p] \cap D = {}
  /\ \A w \in Weakref : wo[w] # NoObject => w \notin D /\ wo[w] \notin D

(* Then Python code with other objects at hand keeps it so, and leaves the *)
(* objects of D as they are, if it makes no weak references.               *)
LEMMA CodeStaysAway ==
  ASSUME HeapInv, ~MakesWeakrefs, NEW D \in SUBSET Object, Apart(D, refs, roots, wr_object),
         NEW own \in SUBSET Object, own \cap D = {}, NEW h \in Outcomes(own)
  PROVE  /\ Apart(D, h.refs, h.roots, h.wr_object)
         /\ h.wr_object = wr_object /\ h.place = place
         /\ \A p \in D : h.refs[p] = refs[p]
<1>1. refs \in [Object -> SUBSET Object] /\ roots \subseteq Object
  BY DEF HeapInv, Sound
<1>2. Accessible(own) \subseteq Object \ D
  <2>1. \A w \in Weakref \ D : wr_object[w] \notin D
    BY CollectorAssumption DEF Apart
  <2> QED BY <2>1, AccessibleAvoids DEF Apart
<1>3. ASSUME NEW p \in Accessible(own) \cap Mutable, NEW x \in Accessible(own),
             h.refs = [refs EXCEPT ![p] = IF x \in @ THEN @ \ {x} ELSE @ \cup {x}]
      PROVE  /\ \A q \in Object \ D : h.refs[q] \cap D = {}
             /\ \A q \in D : h.refs[q] = refs[q]
  <2>1. /\ \A q \in Object : q # p => h.refs[q] = refs[q]
        /\ h.refs[p] \subseteq refs[p] \cup {x}
    BY <1>1, <1>2, <1>3
  <2> QED BY <1>2, <2>1 DEF Apart
<1> DEFINE Right == /\ Apart(D, h.refs, h.roots, h.wr_object)
                    /\ h.wr_object = wr_object /\ h.place = place
                    /\ \A p \in D : h.refs[p] = refs[p]
<1>4. ASSUME h.refs = refs, h.roots = roots, h.wr_object = wr_object, h.place = place
      PROVE  Right
  BY <1>4
<1>5. ASSUME NEW x \in Accessible(own), h.roots = roots \cup {x}, h.refs = refs,
             h.wr_object = wr_object, h.place = place
      PROVE  Right
  BY <1>2, <1>5 DEF Apart
<1>6. ASSUME NEW x \in roots, h.roots = roots \ {x}, h.refs = refs,
             h.wr_object = wr_object, h.place = place
      PROVE  Right
  BY <1>6 DEF Apart
<1>7. ASSUME NEW p \in Accessible(own) \cap Mutable, NEW x \in Accessible(own),
             h.refs = [refs EXCEPT ![p] = IF x \in @ THEN @ \ {x} ELSE @ \cup {x}],
             h.roots = roots, h.wr_object = wr_object, h.place = place
      PROVE  Right
  BY <1>3, <1>7 DEF Apart
<1> HIDE DEF Right
<1>8. Leaves(h) \/ Binds(own, h) \/ Unbinds(h) \/ Writes(own, h)
  BY OutcomesAre
<1>9. Right
  BY <1>4, <1>5, <1>6, <1>7, <1>8, Zenon DEF Leaves, Binds, Unbinds, Writes
<1> QED
  BY <1>9 DEF Right
-----------------------------------------------------------------------------
(***************************************************************************)
(* The inductive invariant.                                                *)
(***************************************************************************)
(* The lists that a collection works on exist while it does, and there is  *)
(* no call under way where the collector takes none into account.          *)
PhaseInv ==
  /\ phase # "calls" => toCall = {}
  /\ phase \in {"scan", "sort", "rescan"} => Idle
  /\ held \notin toCall /\ held \notin Gone
  /\ \A o \in Object :
       /\ place[o] \in {"base", "reachable"} => phase \in {"scan", "rescan"}
       /\ place[o] = "unreachable" => phase \notin {"idle", "delete"}
       /\ place[o] = "seen" => phase \in {"calls", "finalize"}

Scanned == {o \in Object : place[o] \in {"base", "reachable", "unreachable"}}

(* The objects that a scan has found to be reachable, scanned or not.      *)
Marked == {o \in Object : place[o] = "reachable" \/ (place[o] = "base" /\ gcRefs[o] > 0)}

(* What is marked is reachable from outside; what is referred to from      *)
(* there, or by an object that was scanned and is reachable, is marked.    *)
MarkedRight ==
  /\ Marked \subseteq Reachable(roots \cup (Object \ Scanned))
  /\ \A o \in Scanned : o \in roots \/ (\E p \in Object \ Scanned : o \in refs[p]) => o \in Marked
  /\ \A o \in In("reachable") : refs[o] \cap Scanned \subseteq Marked

ScanInv == phase \in {"scan", "rescan"} => MarkedRight

(* The objects that may be deleted in the end.                             *)
Suspects ==
  {o \in Object : \/ phase \in {"sort", "calls", "finalize"} /\ place[o] \in {"unreachable", "seen"}
                  \/ phase = "rescan" /\ o \in Scanned}

(* The finalizers of those that will not be looked at again have run, and  *)
(* none has a tp_del.                                                      *)
SuspectInv ==
  /\ \A o \in Suspects : kind[o] # "legacy"
  /\ \A o \in Suspects : (place[o] = "seen" \/ phase = "rescan") =>
       (kind[o] = "finalizer" => o \in finalized)

DoomedKinds == \A o \in doomed : kind[o] # "legacy" /\ (kind[o] = "finalizer" => o \in finalized)

(* The types of what the heap does not have.                               *)
OtherTypes ==
  /\ kind \in [Object -> Kinds] /\ callback \subseteq Weakref
  /\ gcRefs \in [Object -> Nat]
  /\ toCall \subseteq In("wrcb") /\ finalized \subseteq Object /\ doomed \subseteq Object
  /\ held \in Object \cup {NoObject} /\ phase \in Phases /\ collections \in 0..MaxCollections

IInv == OtherTypes /\ HeapInv /\ PhaseInv /\ ScanInv /\ SuspectInv /\ DoomedKinds
-----------------------------------------------------------------------------
(***************************************************************************)
(* What a scan deduces.                                                    *)
(***************************************************************************)
(* gc_refs is positive where a reference comes from outside of the list.   *)
LEMMA OutsideCount ==
  ASSUME NEW B \in SUBSET Object, NEW o \in Object, toCall = {}, held = NoObject
  PROVE  LET n == Refcnt(o) - Cardinality(Referrers(o) \cap B)
         IN  /\ n \in Nat
             /\ n > 0 <=> o \in roots \/ \E p \in Object \ B : o \in refs[p]
<1> DEFINE R == Referrers(o)  I == R \cap B
<1>1. IsFiniteSet(R) /\ Cardinality(R) \in Nat
  BY RefcntOf
<1>2. /\ IsFiniteSet(I) /\ Cardinality(I) <= Cardinality(R)
      /\ Cardinality(I) = Cardinality(R) => I = R
  BY <1>1, FS_Subset
<1>3. Cardinality(I) \in Nat
  BY <1>2, FS_CardinalityType
<1>4. I = R <=> ~ \E p \in Object \ B : o \in refs[p]
  BY DEF Referrers
<1>5. Refcnt(o) = Cardinality(R) + (IF o \in roots THEN 1 ELSE 0)
  <2>1. o \notin toCall \cup {held}
    BY CollectorAssumption
  <2>2. LET n == Cardinality(R) + (IF o \in roots THEN 1 ELSE 0) IN n + 0 = n
    BY <1>1
  <2> QED BY <2>1, <2>2 DEF Refcnt
<1>6. I = R => Cardinality(I) = Cardinality(R)
  OBVIOUS
<1> HIDE DEF R, I
<1>7. /\ Refcnt(o) - Cardinality(I) \in Nat
      /\ Refcnt(o) - Cardinality(I) > 0 <=> o \in roots \/ I # R
  BY <1>1, <1>2, <1>3, <1>5, <1>6
<1> QED
  BY <1>4, <1>7 DEF I, R

(* So it begins right.                                                     *)
LEMMA DeduceBegins ==
  ASSUME OtherTypes, HeapInv, Idle, toCall = {}, NEW B \in SUBSET Object,
         \A o \in B : place[o] \notin {"freed", "unborn"},
         \A o \in Object \ B : place[o] \notin {"base", "reachable", "unreachable"},
         Deduce(B), UNCHANGED <<refs, roots, wr_object, toCall, held>>
  PROVE  /\ gcRefs' \in [Object -> Nat] /\ HeapInv' /\ Idle' /\ Scanned' = B
         /\ MarkedRight'
<1>1. /\ place' = [o \in Object |-> IF o \in B THEN "base" ELSE place[o]]
      /\ gcRefs' = [o \in Object |-> IF o \in B THEN Refcnt(o) - Cardinality(Referrers(o) \cap B)
                                                ELSE 0]
  BY DEF Deduce
<1>2. refs \in [Object -> SUBSET Object] /\ roots \subseteq Object /\ place \in [Object -> Lists]
  BY DEF HeapInv, Sound
<1>3. held = NoObject
  BY DEF Idle
<1>4. \A o \in B : /\ gcRefs'[o] \in Nat
                   /\ gcRefs'[o] > 0 <=> o \in roots \/ \E p \in Object \ B : o \in refs[p]
  BY <1>1, <1>3, OutsideCount
<1>5. gcRefs' \in [Object -> Nat]
  BY <1>1, <1>4
<1>6. /\ place' \in [Object -> Lists] /\ \A o \in B : place'[o] = "base"
      /\ \A o \in Object \ B : place'[o] = place[o]
  BY <1>1, <1>2 DEF Lists
<1>7. HeapInv'
  BY <1>6 DEF HeapInv, Sound
<1>8. Idle'
  <2>1. \A o \in Object : Refcnt(o)' = Refcnt(o)
    BY RefcntKept
  <2> QED BY <1>6, <2>1 DEF Idle, Quiet, Dying, IsDying
<1>9. Scanned' = B /\ Marked' = {o \in B : gcRefs'[o] > 0} /\ In("reachable")' = {}
  BY <1>6 DEF Scanned, Marked, In
<1>10. Marked' \subseteq Reachable(roots \cup (Object \ Scanned))'
  <2> DEFINE S == roots \cup (Object \ B)
  <2>1. Reachable(roots \cup (Object \ Scanned))' = Closure(S, refs)
    BY <1>9 DEF Reachable, Closure, ClosedUnder
  <2>2. S \subseteq Closure(S, refs) /\ ClosedUnder(Closure(S, refs), refs)
    BY <1>2, ClosureIsClosed
  <2>3. \A o \in Marked' : o \in S \/ \E p \in S : o \in refs[p]
    BY <1>4, <1>9
  <2> HIDE DEF S
  <2> QED BY <2>1, <2>2, <2>3 DEF ClosedUnder
<1>11. MarkedRight'
  BY <1>4, <1>9, <1>10 DEF MarkedRight
<1> QED
  BY <1>5, <1>7, <1>8, <1>9, <1>11

(* At its end nothing leads to what is unreachable, and all the rest of    *)
(* what was scanned is reachable.                                          *)
LEMMA ScanEnds ==
  ASSUME HeapInv, MarkedRight, In("base") = {}
  PROVE  /\ In("unreachable") = Scanned \ Reachable(roots \cup (Object \ Scanned))
         /\ roots \cap In("unreachable") = {}
         /\ \A p \in Object \ In("unreachable") : refs[p] \cap In("unreachable") = {}
<1> DEFINE U == In("unreachable")
           S == roots \cup (Object \ Scanned)
<1>1. refs \in [Object -> SUBSET Object] /\ roots \subseteq Object
  BY DEF HeapInv, Sound
<1>2. U \subseteq Scanned /\ U = Scanned \ Marked /\ Marked = In("reachable")
  BY DEF Scanned, Marked, In
<1>3. roots \cap U = {}
  BY <1>2 DEF MarkedRight
<1>4. \A p \in Object \ U : refs[p] \cap U = {}
  BY <1>2 DEF MarkedRight
<1>5. Reachable(S) \subseteq Object \ U
  <2>1. S \subseteq Object \ U /\ ClosedUnder(Object \ U, refs)
    BY <1>1, <1>2, <1>3, <1>4 DEF ClosedUnder
  <2> HIDE DEF S, U
  <2> QED BY <2>1, ClosureIsLeast DEF Reachable
<1>6. Marked \subseteq Reachable(S)
  BY DEF MarkedRight
<1> QED
  BY <1>2, <1>3, <1>4, <1>5, <1>6

(* One object is scanned.                                                  *)
LEMMA ScanKeeps ==
  ASSUME IInv, NEW o \in Object, Scan(o)
  PROVE  IInv'
<1>1. /\ refs \in [Object -> SUBSET Object] /\ roots \subseteq Object
      /\ place \in [Object -> Lists] /\ gcRefs \in [Object -> Nat]
  BY DEF IInv, HeapInv, Sound, OtherTypes
<1>2. /\ phase \in {"scan", "rescan"} /\ place[o] = "base"
      /\ UNCHANGED <<kind, refs, roots, wr_object, callback, toCall, finalized, held, doomed,
                     phase, collections>>
  BY DEF Scan, heap
<1>3. MarkedRight
  BY <1>2 DEF IInv, ScanInv
<1>4. /\ place' \in [Object -> Lists] /\ gcRefs' \in [Object -> Nat]
      /\ Scanned' = Scanned
      /\ Marked' = Marked \cup (IF o \in Marked THEN refs[o] \cap Scanned ELSE {})
      /\ \A p \in In("reachable")' : p \in In("reachable") \/ (p = o /\ o \in Marked)
      /\ \A p \in Object : \/ place'[p] = place[p]
                           \/ /\ place'[p] \in {"base", "reachable", "unreachable"}
                              /\ p \in Scanned
  <2>1. CASE gcRefs[o] > 0
    <3>1. /\ place'  = [p \in Object |-> CASE p = o -> "reachable"
                                           [] p \in Found(o) \ {o} -> "base"
                                           [] OTHER -> place[p]]
          /\ gcRefs' = [p \in Object |-> IF p \in Found(o) THEN 1 ELSE gcRefs[p]]
      BY <2>1 DEF Scan
    <3>2. /\ o \notin Found(o) /\ Found(o) \subseteq refs[o] /\ refs[o] \subseteq Object
          /\ \A p \in Found(o) : place[p] \in {"unreachable", "base"}
          /\ \A p \in refs[o] : p \in Found(o) <=> p \in Scanned \ Marked
      BY <1>1, <1>2, <2>1 DEF Found, Scanned, Marked
    <3>3. /\ place'[o] = "reachable"
          /\ \A p \in Found(o) : place'[p] = "base" /\ gcRefs'[p] = 1
          /\ \A p \in Object \ Found(o) : gcRefs'[p] = gcRefs[p] /\ (p # o => place'[p] = place[p])
      BY <3>1, <3>2
    <3>4. place' \in [Object -> Lists] /\ gcRefs' \in [Object -> Nat]
      <4>1. \A p \in Object : place'[p] \in Lists /\ gcRefs'[p] \in Nat
        BY <1>1, <3>2, <3>3 DEF Lists
      <4> QED BY <3>1, <4>1
    <3>5. Scanned' = Scanned
      BY <1>2, <3>2, <3>3 DEF Scanned
    <3>6. o \in Marked
      BY <1>2, <2>1 DEF Marked
    <3>7. \A p \in Object : p \in Marked' <=> p \in Marked \/ p \in Found(o)
      BY <1>2, <2>1, <3>2, <3>3 DEF Marked
    <3>8. Marked' = Marked \cup (refs[o] \cap Scanned)
      BY <1>1, <3>2, <3>7 DEF Marked
    <3>9. \A p \in In("reachable")' : p \in In("reachable") \/ p = o
      BY <3>2, <3>3 DEF In
    <3>10. \A p \in Object :
             \/ place'[p] = place[p]
             \/ place'[p] \in {"base", "reachable", "unreachable"} /\ p \in Scanned
      BY <1>2, <3>2, <3>3 DEF Scanned
    <3>11. Marked' = Marked \cup (IF o \in Marked THEN refs[o] \cap Scanned ELSE {})
      BY <3>6, <3>8
    <3> QED BY <3>4, <3>5, <3>6, <3>9, <3>10, <3>11
  <2>2. CASE ~(gcRefs[o] > 0)
    <3>1. place' = [place EXCEPT ![o] = "unreachable"] /\ gcRefs' = gcRefs
      BY <2>2 DEF Scan
    <3>2. /\ place' \in [Object -> Lists] /\ place'[o] = "unreachable"
          /\ \A p \in Object : p # o => place'[p] = place[p]
      BY <1>1, <3>1 DEF Lists
    <3>3. o \notin Marked
      BY <1>2, <2>2 DEF Marked
    <3>4. Scanned' = Scanned /\ Marked' = Marked /\ In("reachable")' = In("reachable")
      BY <1>2, <2>2, <3>1, <3>2 DEF Scanned, Marked, In
    <3>5. \A p \in Object :
             \/ place'[p] = place[p]
             \/ place'[p] \in {"base", "reachable", "unreachable"} /\ p \in Scanned
      BY <1>2, <3>2 DEF Scanned
    <3>6. gcRefs' \in [Object -> Nat]
      BY <1>1, <3>1
    <3>7. Marked' = Marked \cup (IF o \in Marked THEN refs[o] \cap Scanned ELSE {})
      BY <3>3, <3>4
    <3> QED BY <3>2, <3>4, <3>5, <3>6, <3>7
  <2> QED BY <2>1, <2>2
<1>5. HeapInv'
  BY <1>2, <1>4 DEF IInv, HeapInv, Sound, Scanned
<1>6. Idle'
  <2>1. Idle /\ \A p \in Object : Refcnt(p)' = Refcnt(p)
    BY <1>2, RefcntKept DEF IInv, PhaseInv
  <2>2. \A p \in Object : place'[p] \in {"freed", "unborn"} <=> place[p] \in {"freed", "unborn"}
    BY <1>4 DEF Scanned
  <2> QED BY <1>2, <2>1, <2>2 DEF Idle, Quiet, Dying, IsDying
<1>7. PhaseInv'
  <2>1. /\ toCall = {} /\ held = NoObject
    BY <1>2, <1>6 DEF IInv, PhaseInv, Idle
  <2>2. held' \notin Gone'
    BY <1>2, <2>1, CollectorAssumption DEF Gone, In
  <2> QED BY <1>2, <1>4, <1>6, <2>1, <2>2 DEF IInv, PhaseInv, Scanned
<1>8. MarkedRight'
  <2> DEFINE S == roots \cup (Object \ Scanned)
  <2>1. Reachable(roots \cup (Object \ Scanned))' = Reachable(S)
    BY <1>2, <1>4 DEF Reachable, Closure, ClosedUnder
  <2>2. ClosedUnder(Reachable(S), refs)
    BY <1>1, ClosureIsClosed DEF Reachable
  <2>3. Marked' \subseteq Reachable(S)
    BY <1>3, <1>4, <2>2 DEF MarkedRight, ClosedUnder
  <2>4. \A p \in Scanned' :
          p \in roots' \/ (\E q \in Object \ Scanned' : p \in refs'[q]) => p \in Marked'
    BY <1>2, <1>3, <1>4 DEF MarkedRight
  <2>5. \A p \in In("reachable")' : refs'[p] \cap Scanned' \subseteq Marked'
    BY <1>2, <1>3, <1>4 DEF MarkedRight
  <2> HIDE DEF S
  <2> QED BY <2>1, <2>3, <2>4, <2>5 DEF MarkedRight
<1>9. SuspectInv'
  <2>1. Suspects' = Suspects
    BY <1>2, <1>4 DEF Suspects
  <2> QED BY <1>2, <1>4, <2>1 DEF IInv, SuspectInv, Suspects
<1>10. OtherTypes' /\ DoomedKinds'
  <2>1. toCall' \subseteq In("wrcb")'
    BY <1>2, <1>4 DEF IInv, OtherTypes, PhaseInv, In, Scanned
  <2> QED BY <1>2, <1>4, <2>1 DEF IInv, OtherTypes, DoomedKinds
<1> QED
  BY <1>5, <1>7, <1>8, <1>9, <1>10 DEF IInv, ScanInv
-----------------------------------------------------------------------------
(***************************************************************************)
(* The other steps.                                                        *)
(***************************************************************************)
(* Nothing is deallocated or called while a scan goes on.                  *)
LEMMA BusyIsElsewhere ==
  ASSUME IInv, (\E o \in Object : IsDying(o)) \/ held # NoObject
  PROVE  phase \notin {"scan", "sort", "rescan"}
BY DEF IInv, PhaseInv, Idle, Quiet, Dying

(* Steps in which objects may leave the lists of the collection.           *)
LEMMA LeavingKeeps ==
  ASSUME IInv, phase \notin {"scan", "sort", "rescan"},
         UNCHANGED <<kind, gcRefs, doomed, phase, collections>>,
         finalized \subseteq finalized', finalized' \subseteq Object,
         callback' \subseteq callback, toCall' \subseteq toCall,
         HeapInv', held' \in Object \cup {NoObject}, held' \notin toCall', held' \notin Gone',
         \A o \in Object : place'[o] = place[o] \/ place'[o] \in {"young", "old", "freed"},
         \A o \in toCall' : place'[o] = place[o]
  PROVE  IInv'
<1>1. OtherTypes'
  <2>1. toCall' \subseteq In("wrcb")'
    BY DEF IInv, OtherTypes, In
  <2> QED BY <2>1 DEF IInv, OtherTypes
<1>2. PhaseInv'
  BY DEF IInv, PhaseInv
<1>3. ScanInv'
  BY DEF ScanInv
<1>4. SuspectInv'
  <2>1. \A o \in Suspects' : o \in Suspects /\ place'[o] = place[o]
    BY DEF Suspects
  <2> QED BY <2>1 DEF IInv, SuspectInv
<1>5. DoomedKinds'
  BY DEF IInv, DoomedKinds
<1> QED
  BY <1>1, <1>2, <1>3, <1>4, <1>5 DEF IInv

(* What is not dying or freed is not on its way there.                     *)
LEMMA DyingIsFree ==
  ASSUME NEW o \in Object, IsDying(o)
  PROVE  /\ \A p \in Object : o \notin refs[p]
         /\ o \notin roots /\ o \notin toCall /\ o # held
         /\ place[o] \notin {"freed", "unborn"} /\ o \notin Gone
BY RefcntOf DEF IsDying, Gone, In

LEMMA FinalizeDyingKeeps ==
  ASSUME IInv, NEW o \in Object, FinalizeDying(o)
  PROVE  IInv'
<1>1. /\ IsDying(o) /\ finalized' = finalized \cup {o}
      /\ UNCHANGED <<kind, callback, gcRefs, toCall, held, doomed, phase, collections>>
  BY DEF FinalizeDying
<1>2. PICK h \in Outcomes({o}) : Becomes([h EXCEPT !.place[o] = "young"])
  BY DEF FinalizeDying
<1>3. GoesOn(h)
  BY <1>1, DyingIsFree, CodeRuns DEF IInv
<1>4. /\ refs' = h.refs /\ roots' = h.roots /\ wr_object' = h.wr_object
      /\ place' = [h.place EXCEPT ![o] = "young"]
  BY <1>2, <1>3 DEF Becomes, GoesOn, IsRecord
<1>5. place[o] \notin {"freed", "unborn"} /\ o \notin toCall
  BY <1>1, DyingIsFree
<1>6. /\ place' \in [Object -> Lists] /\ place'[o] = "young"
      /\ \A p \in Object : p # o => \/ place'[p] = place[p]
                                    \/ place[p] = "unborn" /\ place'[p] = "young"
      /\ \A p \in Object : p # o => place'[p] = h.place[p]
  BY <1>3, <1>4 DEF GoesOn, Sound, Lists
<1>7. HeapInv'
  BY <1>3, <1>4, <1>6 DEF GoesOn, HeapInv, Sound
<1>8. held' \notin Gone' /\ held' \in Object \cup {NoObject} /\ held' \notin toCall'
  BY <1>1, <1>6 DEF IInv, PhaseInv, OtherTypes, Gone, In
<1>9. \A p \in toCall' : place'[p] = place[p]
  <2>1. \A p \in toCall : p \in Object /\ p # o /\ place[p] = "wrcb"
    BY <1>5 DEF IInv, OtherTypes, In
  <2> QED BY <1>1, <1>6, <2>1
<1>10. phase \notin {"scan", "sort", "rescan"}
  BY <1>1, BusyIsElsewhere
<1>11. finalized' \subseteq Object /\ finalized \subseteq finalized'
  BY <1>1 DEF IInv, OtherTypes
<1> QED
  BY <1>1, <1>6, <1>7, <1>8, <1>9, <1>10, <1>11, LeavingKeeps

LEMMA NothingHappens == ASSUME NEW own PROVE now \in Outcomes(own)
<1> HIDE DEF now
<1> QED
  BY DEF Outcomes

LEMMA ClearWeakRefKeeps ==
  ASSUME IInv, NEW o \in Object, NEW w \in Weakref, ClearWeakRef(o, w)
  PROVE  IInv'
<1>1. /\ IsDying(o) /\ wr_object[w] = o /\ callback' = callback \ {w}
      /\ UNCHANGED <<kind, gcRefs, toCall, finalized, held, doomed, phase, collections>>
  BY DEF ClearWeakRef, WeakrefsTo
<1>2. PICK h \in Outcomes({w}) : Becomes([h EXCEPT !.refs[w] = {}, !.wr_object[w] = NoObject])
  <2>1. PICK h \in IF w \in callback /\ ~IsDying(w) THEN Outcomes({w}) ELSE {now} :
          Becomes([h EXCEPT !.refs[w] = {}, !.wr_object[w] = NoObject])
    BY DEF ClearWeakRef
  <2>2. h \in Outcomes({w})
    BY <2>1, NothingHappens
  <2> QED BY <2>1, <2>2
<1>3. w \in Object /\ w \notin Gone
  BY <1>1, CollectorAssumption DEF IInv, HeapInv, Sound, Gone, In
<1>4. GoesOn(h)
  BY <1>3, CodeRuns DEF IInv
<1>5. /\ refs' = [h.refs EXCEPT ![w] = {}] /\ roots' = h.roots /\ place' = h.place
      /\ wr_object' = [h.wr_object EXCEPT ![w] = NoObject]
  BY <1>2, <1>4 DEF Becomes, GoesOn, IsRecord
<1>6. /\ refs' \in [Object -> SUBSET Object] /\ \A p \in Object : refs'[p] \subseteq h.refs[p]
      /\ wr_object' \in [Weakref -> Object \cup {NoObject}]
      /\ \A u \in Weakref : wr_object'[u] \in {h.wr_object[u], NoObject}
  BY <1>3, <1>4, <1>5 DEF GoesOn, Sound
<1>7. HeapInv'
  BY <1>4, <1>5, <1>6 DEF GoesOn, HeapInv, Sound
<1>8. \A p \in Object : \/ place'[p] = place[p]
                        \/ place[p] = "unborn" /\ place'[p] = "young"
  BY <1>4, <1>5 DEF GoesOn
<1>9. held' \notin Gone' /\ held' \in Object \cup {NoObject} /\ held' \notin toCall'
  BY <1>1, <1>8 DEF IInv, PhaseInv, OtherTypes, Gone, In
<1>10. \A p \in toCall' : place'[p] = place[p]
  <2>1. \A p \in toCall : p \in Object /\ place[p] = "wrcb"
    BY DEF IInv, OtherTypes, In
  <2> QED BY <1>1, <1>8, <2>1
<1>11. phase \notin {"scan", "sort", "rescan"}
  BY <1>1, BusyIsElsewhere
<1>12. finalized' \subseteq Object /\ finalized \subseteq finalized'
  BY <1>1 DEF IInv, OtherTypes
<1> QED
  BY <1>1, <1>7, <1>8, <1>9, <1>10, <1>11, <1>12, LeavingKeeps

LEMMA FreeDyingKeeps ==
  ASSUME IInv, NEW o \in Object, FreeDying(o)
  PROVE  IInv'
<1> DEFINE Back(h) == o \in h.roots \/ \E p \in Object : o \in h.refs[p]
<1>1. /\ IsDying(o) /\ callback' = callback \ {o}
      /\ UNCHANGED <<kind, gcRefs, toCall, finalized, held, doomed, phase, collections>>
  BY DEF FreeDying
<1>2. PICK h \in Outcomes({o}) :
        /\ Back(h) => Becomes([h EXCEPT !.place[o] = "young"])
        /\ ~Back(h) => Becomes([h EXCEPT
             !.refs[o] = {}, !.place[o] = "freed",
             !.wr_object = [w \in Weakref |-> IF o \in {w, @[w]} THEN NoObject ELSE @[w]]])
  <2>1. PICK h \in IF kind[o] = "legacy" THEN Outcomes({o}) ELSE {now} :
          IF o \in h.roots \/ \E p \in Object : o \in h.refs[p]
          THEN Becomes([h EXCEPT !.place[o] = "young"])
          ELSE Becomes([h EXCEPT
             !.refs[o] = {}, !.place[o] = "freed",
             !.wr_object = [w \in Weakref |-> IF o \in {w, @[w]} THEN NoObject ELSE @[w]]])
    BY DEF FreeDying
  <2>2. h \in Outcomes({o})
    BY <2>1, NothingHappens
  <2> QED BY <2>1, <2>2
<1>3. o \notin Gone /\ o \notin toCall /\ o # held /\ place[o] \notin {"freed", "unborn"}
  BY <1>1, DyingIsFree
<1>4. GoesOn(h)
  BY <1>3, CodeRuns DEF IInv
<1>5. /\ HeapInv' /\ \A p \in Object : p # o => place'[p] = h.place[p]
      /\ place'[o] \in {"young", "freed"}
  <2>1. CASE Back(h)
    <3>1. /\ refs' = h.refs /\ roots' = h.roots /\ wr_object' = h.wr_object
          /\ place' = [h.place EXCEPT ![o] = "young"]
      BY <1>2, <1>4, <2>1 DEF Becomes, GoesOn, IsRecord
    <3>2. /\ place' \in [Object -> Lists] /\ place'[o] = "young"
          /\ \A p \in Object : p # o => place'[p] = h.place[p]
      BY <1>4, <3>1 DEF GoesOn, Sound, Lists
    <3> QED BY <1>4, <3>1, <3>2 DEF GoesOn, HeapInv, Sound
  <2>2. CASE ~Back(h)
    <3>1. /\ refs' = [h.refs EXCEPT ![o] = {}] /\ roots' = h.roots
          /\ place' = [h.place EXCEPT ![o] = "freed"]
          /\ wr_object' = [w \in Weakref |-> IF o \in {w, h.wr_object[w]} THEN NoObject
                                                                         ELSE h.wr_object[w]]
      BY <1>2, <1>4, <2>2 DEF Becomes, GoesOn, IsRecord
    <3>2. /\ place' \in [Object -> Lists] /\ place'[o] = "freed"
          /\ \A p \in Object : p # o => place'[p] = h.place[p]
      BY <1>4, <3>1 DEF GoesOn, Sound, Lists
    <3>3. /\ refs' \in [Object -> SUBSET Object] /\ refs'[o] = {}
          /\ \A p \in Object : refs'[p] \subseteq h.refs[p]
      BY <1>4, <3>1 DEF GoesOn, Sound
    <3>4. /\ wr_object' \in [Weakref -> Object \cup {NoObject}]
          /\ \A w \in Weakref : wr_object'[w] # NoObject =>
               wr_object'[w] = h.wr_object[w] /\ o \notin {w, wr_object'[w]}
      BY <1>4, <3>1 DEF GoesOn, Sound
    <3>5. o \notin roots' /\ \A p \in Object : o \notin refs'[p]
      BY <2>2, <3>1, <3>3
    <3>6. roots' \subseteq Object
      BY <1>4, <3>1 DEF GoesOn, Sound
    <3>7. ASSUME NEW p \in Object, p # o, place'[p] \in {"freed", "unborn"}
          PROVE  /\ refs'[p] = {} /\ p \notin roots' /\ \A q \in Object : p \notin refs'[q]
                 /\ \A w \in Weakref : wr_object'[w] # NoObject => p \notin {w, wr_object'[w]}
      <4>1. /\ h.refs[p] = {} /\ p \notin h.roots /\ \A q \in Object : p \notin h.refs[q]
            /\ \A w \in Weakref : h.wr_object[w] # NoObject => p \notin {w, h.wr_object[w]}
        BY <1>4, <3>2, <3>7 DEF GoesOn, Sound
      <4> QED BY <3>1, <3>3, <3>4, <4>1
    <3>8. HeapInv'
      BY <3>2, <3>3, <3>4, <3>5, <3>6, <3>7 DEF HeapInv, Sound
    <3> QED BY <3>2, <3>8
  <2> QED BY <2>1, <2>2
<1>6. \A p \in Object : p # o => \/ place'[p] = place[p]
                                 \/ place[p] = "unborn" /\ place'[p] = "young"
  BY <1>4, <1>5 DEF GoesOn
<1>7. held' \notin Gone' /\ held' \in Object \cup {NoObject} /\ held' \notin toCall'
  BY <1>1, <1>3, <1>6 DEF IInv, PhaseInv, OtherTypes, Gone, In
<1>8. \A p \in toCall' : place'[p] = place[p]
  <2>1. \A p \in toCall : p \in Object /\ p # o /\ place[p] = "wrcb"
    BY <1>3 DEF IInv, OtherTypes, In
  <2> QED BY <1>1, <1>6, <2>1
<1>9. phase \notin {"scan", "sort", "rescan"}
  BY <1>1, BusyIsElsewhere
<1>10. finalized' \subseteq Object /\ finalized \subseteq finalized'
  BY <1>1 DEF IInv, OtherTypes
<1>11. \A p \in Object : place'[p] = place[p] \/ place'[p] \in {"young", "old", "freed"}
  BY <1>5, <1>6
<1> QED
  BY <1>1, <1>5, <1>7, <1>8, <1>9, <1>10, <1>11, LeavingKeeps

LEMMA CallCallbackKeeps ==
  ASSUME IInv, NEW w \in Weakref, CallCallback(w)
  PROVE  IInv'
<1>1. /\ phase = "calls" /\ w \in toCall /\ toCall' = toCall \ {w} /\ held' = w
      /\ UNCHANGED <<kind, callback, gcRefs, finalized, doomed, phase, collections>>
  BY DEF CallCallback
<1>2. PICK h \in Outcomes({w}) : Becomes(h)
  BY DEF CallCallback
<1>3. w \in Object /\ place[w] = "wrcb" /\ w \notin Gone
  BY <1>1 DEF IInv, OtherTypes, In, Gone
<1>4. GoesOn(h)
  BY <1>3, CodeRuns DEF IInv
<1>5. HeapInv' /\ place' = h.place
  BY <1>2, <1>4 DEF Becomes, GoesOn, HeapInv
<1>6. \A p \in Object : \/ place'[p] = place[p]
                        \/ place[p] = "unborn" /\ place'[p] = "young"
  BY <1>4, <1>5 DEF GoesOn
<1>7. held' \notin Gone' /\ held' \in Object \cup {NoObject} /\ held' \notin toCall'
  BY <1>1, <1>3, <1>6 DEF Gone, In
<1>8. \A p \in toCall' : place'[p] = place[p]
  <2>1. \A p \in toCall : p \in Object /\ place[p] = "wrcb"
    BY DEF IInv, OtherTypes, In
  <2> QED BY <1>1, <1>6, <2>1
<1>9. finalized' \subseteq Object /\ finalized \subseteq finalized'
  BY <1>1 DEF IInv, OtherTypes
<1> QED
  BY <1>1, <1>5, <1>6, <1>7, <1>8, <1>9, LeavingKeeps

LEMMA DeleteKeeps ==
  ASSUME IInv, NEW o \in Object, Delete(o)
  PROVE  IInv'
<1>1. /\ phase = "delete" /\ place[o] = "trash" /\ held = NoObject
      /\ UNCHANGED <<kind, gcRefs, toCall, finalized, doomed, phase, collections>>
  BY DEF Delete, Idle
<1>2. toCall = {} /\ o \notin Gone
  BY <1>1 DEF IInv, PhaseInv, Gone, In
<1>3. CASE kind[o] = "tuple"
  <2>1. /\ place' = [place EXCEPT ![o] = "old"]
        /\ UNCHANGED <<refs, roots, wr_object, callback, held>>
    BY <1>3 DEF Delete, heap
  <2>2. /\ place' \in [Object -> Lists] /\ place'[o] = "old"
        /\ \A p \in Object : p # o => place'[p] = place[p]
    BY <2>1 DEF IInv, HeapInv, Sound, Lists
  <2>3. HeapInv'
    BY <2>1, <2>2 DEF IInv, HeapInv, Sound
  <2>4. held' \notin Gone'
    BY <1>1, <2>1, <2>2, CollectorAssumption DEF Gone, In
  <2>5. held' \in Object \cup {NoObject} /\ finalized' \subseteq Object
    BY <1>1, <2>1 DEF IInv, OtherTypes
  <2> QED BY <1>1, <1>2, <2>1, <2>2, <2>3, <2>4, <2>5, LeavingKeeps
<1>4. CASE kind[o] # "tuple"
  <2>1. /\ refs' = [refs EXCEPT ![o] = {}] /\ held' = o /\ callback' = callback \ {o}
        /\ wr_object' = IF o \in Weakref THEN [wr_object EXCEPT ![o] = NoObject] ELSE wr_object
        /\ UNCHANGED <<roots, place>>
    BY <1>4 DEF Delete
  <2>2. /\ refs' \in [Object -> SUBSET Object]
        /\ \A p \in Object : refs'[p] \subseteq refs[p]
    BY <2>1 DEF IInv, HeapInv, Sound
  <2>3. /\ wr_object' \in [Weakref -> Object \cup {NoObject}]
        /\ \A w \in Weakref : wr_object'[w] \in {wr_object[w], NoObject}
    BY <2>1 DEF IInv, HeapInv, Sound
  <2>4. HeapInv'
    BY <2>1, <2>2, <2>3 DEF IInv, HeapInv, Sound
  <2>5. held' \notin Gone' /\ held' \in Object
    BY <1>2, <2>1 DEF Gone, In
  <2>6. finalized' \subseteq Object
    BY <1>1 DEF IInv, OtherTypes
  <2> QED BY <1>1, <1>2, <2>1, <2>4, <2>5, <2>6, LeavingKeeps
<1> QED
  BY <1>3, <1>4

LEMMA LetGoKeeps ==
  ASSUME IInv, LetGo
  PROVE  IInv'
<1>1. /\ held \in Object /\ held' = NoObject /\ held \notin Gone
      /\ UNCHANGED <<kind, refs, roots, wr_object, callback, gcRefs, toCall, finalized, doomed,
                     phase, collections>>
  BY DEF LetGo, heap, IInv, PhaseInv, OtherTypes
<1>2. held # NoObject /\ phase \notin {"scan", "sort", "rescan"}
  BY BusyIsElsewhere DEF LetGo
<1>3. /\ place' \in [Object -> Lists] /\ place'[held] \in {place[held], "old"}
      /\ \A p \in Object : p # held => place'[p] = place[p]
  <2>1. place' = [place EXCEPT ![held] = "old"] \/ place' = place
    BY DEF LetGo
  <2> QED BY <1>1, <2>1 DEF IInv, HeapInv, Sound, Lists
<1>4. place[held] \notin {"freed", "unborn"}
  BY <1>1 DEF Gone, In
<1>5. HeapInv'
  BY <1>1, <1>3, <1>4 DEF IInv, HeapInv, Sound
<1>6. held' \notin Gone' /\ held' \in Object \cup {NoObject} /\ held' \notin toCall'
  <2>1. toCall \subseteq Object
    BY DEF IInv, OtherTypes, In
  <2> QED BY <1>1, <2>1, CollectorAssumption DEF Gone, In
<1>7. \A p \in Object : place'[p] = place[p] \/ place'[p] \in {"young", "old", "freed"}
  BY <1>3
<1>8. \A p \in toCall' : place'[p] = place[p]
  <2>1. \A p \in toCall : p \in Object /\ p # held
    BY DEF IInv, PhaseInv, OtherTypes, In
  <2> QED BY <1>1, <1>3, <2>1
<1>9. finalized' \subseteq Object
  BY <1>1 DEF IInv, OtherTypes
<1> QED
  BY <1>1, <1>2, <1>5, <1>6, <1>7, <1>8, <1>9, LeavingKeeps

LEMMA GiveUpKeeps ==
  ASSUME IInv, NEW o \in Object, GiveUp(o)
  PROVE  IInv'
<1>1. /\ phase = "idle" /\ roots' = roots \ {o}
      /\ UNCHANGED <<kind, refs, wr_object, callback, place, gcRefs, toCall, finalized, held,
                     doomed, phase, collections>>
  BY DEF GiveUp
<1>2. HeapInv'
  BY <1>1 DEF IInv, HeapInv, Sound
<1>3. held' \in Object \cup {NoObject} /\ held' \notin toCall' /\ held' \notin Gone'
  BY <1>1 DEF IInv, PhaseInv, OtherTypes, Gone, In
<1>4. finalized' \subseteq Object
  BY <1>1 DEF IInv, OtherTypes
<1> QED
  BY <1>1, <1>2, <1>3, <1>4, LeavingKeeps
-----------------------------------------------------------------------------
LEMMA CollectKeeps ==
  ASSUME IInv, NEW full \in BOOLEAN, Collect(full)
  PROVE  IInv'
<1> DEFINE B == In("young") \cup IF full THEN In("old") ELSE {}
<1>1. /\ phase = "idle" /\ Idle /\ phase' = "scan" /\ collections < MaxCollections
      /\ collections' = collections + 1 /\ Deduce(B)
      /\ UNCHANGED <<kind, refs, roots, wr_object, callback, toCall, finalized, held, doomed>>
  BY DEF Collect, heap
<1>2. toCall = {} /\ held = NoObject
  BY <1>1 DEF IInv, PhaseInv, Idle
<1>3. /\ B \subseteq Object /\ \A o \in B : place[o] \in {"young", "old"}
      /\ \A o \in Object : place[o] \notin {"base", "reachable", "unreachable", "seen"}
  BY <1>1 DEF IInv, PhaseInv, In
<1>4. \A o \in Object : place'[o] = IF o \in B THEN "base" ELSE place[o]
  BY <1>1 DEF Deduce
<1> HIDE DEF B
<1>5. gcRefs' \in [Object -> Nat] /\ HeapInv' /\ Idle' /\ MarkedRight'
  BY <1>1, <1>2, <1>3, DeduceBegins DEF IInv
<1>6. OtherTypes'
  <2>1. collections' \in 0..MaxCollections
    BY <1>1, CollectorAssumption DEF IInv, OtherTypes
  <2> QED BY <1>1, <1>2, <1>5, <2>1 DEF IInv, OtherTypes, Phases
<1>7. PhaseInv'
  <2>1. held' \notin Gone'
    BY <1>1, <1>2, CollectorAssumption DEF Gone, In
  <2> QED BY <1>1, <1>2, <1>3, <1>4, <1>5, <2>1 DEF PhaseInv
<1>8. ScanInv' /\ SuspectInv' /\ DoomedKinds'
  BY <1>1, <1>5 DEF IInv, ScanInv, SuspectInv, Suspects, DoomedKinds
<1> QED
  BY <1>5, <1>6, <1>7, <1>8 DEF IInv

LEMMA DeduceAgainKeeps ==
  ASSUME IInv, DeduceAgain
  PROVE  IInv'
<1> DEFINE B == In("seen")
<1>1. /\ phase \in {"calls", "finalize"} /\ toCall = {} /\ In("unreachable") = {} /\ Idle
      /\ phase' = "rescan" /\ Deduce(B)
      /\ UNCHANGED <<kind, refs, roots, wr_object, callback, toCall, finalized, held, doomed,
                     collections>>
  BY DEF DeduceAgain, heap
<1>2. held = NoObject
  BY <1>1 DEF Idle
<1>3. /\ B \subseteq Object /\ \A o \in Object : o \in B <=> place[o] = "seen"
      /\ \A o \in Object : place[o] \notin {"base", "reachable", "unreachable"}
  BY <1>1 DEF IInv, PhaseInv, In
<1>4. \A o \in Object : place'[o] = IF o \in B THEN "base" ELSE place[o]
  BY <1>1 DEF Deduce
<1> HIDE DEF B
<1>5. gcRefs' \in [Object -> Nat] /\ HeapInv' /\ Idle' /\ MarkedRight' /\ Scanned' = B
  BY <1>1, <1>3, DeduceBegins DEF IInv
<1>6. OtherTypes'
  BY <1>1, <1>5 DEF IInv, OtherTypes, Phases
<1>7. PhaseInv'
  <2>1. held' \notin Gone'
    BY <1>1, <1>2, CollectorAssumption DEF Gone, In
  <2> QED BY <1>1, <1>2, <1>3, <1>4, <1>5, <2>1 DEF PhaseInv
<1>8. SuspectInv'
  <2>1. \A o \in Suspects' : o \in Suspects /\ place[o] = "seen"
    BY <1>1, <1>3, <1>5 DEF Suspects
  <2> QED BY <1>1, <2>1 DEF IInv, SuspectInv
<1>9. ScanInv' /\ DoomedKinds'
  BY <1>1, <1>5 DEF IInv, ScanInv, DoomedKinds
<1> QED
  BY <1>5, <1>6, <1>7, <1>8, <1>9 DEF IInv

LEMMA MoveLegacyFinalizersKeeps ==
  ASSUME IInv, MoveLegacyFinalizers
  PROVE  IInv'
<1> DEFINE legacy == {o \in In("unreachable") : kind[o] = "legacy"}
           step   == [o \in Object |-> refs[o] \cap In("unreachable")]
           theirs == Closure(legacy, step)
<1>1. /\ phase = "scan" /\ In("base") = {} /\ phase' = "sort"
      /\ place' = [o \in Object |-> CASE o \in theirs -> "finalizers"
                                      [] place[o] = "reachable" -> "old"
                                      [] OTHER -> place[o]]
      /\ UNCHANGED <<kind, refs, roots, wr_object, callback, gcRefs, toCall, finalized, held,
                     doomed, collections>>
  BY DEF MoveLegacyFinalizers, heap
<1>2. legacy \subseteq theirs /\ theirs \subseteq In("unreachable")
  <2>1. /\ legacy \in SUBSET Object /\ \A o \in Object : step[o] \subseteq Object
        /\ legacy \subseteq In("unreachable") /\ In("unreachable") \in SUBSET Object
        /\ ClosedUnder(In("unreachable"), step)
    BY DEF In, ClosedUnder
  <2> HIDE DEF legacy, step
  <2> QED BY <2>1, ClosureIsClosed, ClosureIsLeast
<1>3. \A o \in Object : /\ o \in theirs => place[o] = "unreachable"
                        /\ place[o] = "unreachable" /\ kind[o] = "legacy" => o \in theirs
                        /\ place[o] # "base"
  BY <1>1, <1>2 DEF In
<1> HIDE DEF theirs
<1>4. /\ place \in [Object -> Lists] /\ Idle /\ toCall = {} /\ held = NoObject
      /\ \A o \in Object : place[o] # "seen"
  BY <1>1 DEF IInv, HeapInv, Sound, PhaseInv, Idle
<1>5. \A o \in Object : /\ o \in theirs => place'[o] = "finalizers"
                        /\ o \notin theirs /\ place[o] = "reachable" => place'[o] = "old"
                        /\ o \notin theirs /\ place[o] # "reachable" => place'[o] = place[o]
  <2> SUFFICES ASSUME NEW o \in Object
               PROVE  /\ o \in theirs => place'[o] = "finalizers"
                      /\ o \notin theirs /\ place[o] = "reachable" => place'[o] = "old"
                      /\ o \notin theirs /\ place[o] # "reachable" => place'[o] = place[o]
    OBVIOUS
  <2>1. place'[o] = CASE o \in theirs -> "finalizers"
                      [] place[o] = "reachable" -> "old"
                      [] OTHER -> place[o]
    BY <1>1
  <2>2. o \in theirs => place[o] # "reachable"
    BY <1>3
  <2> QED BY <2>1, <2>2
<1>6. /\ place' \in [Object -> Lists]
      /\ \A o \in Object : /\ place'[o] = place[o] \/ place'[o] \in {"finalizers", "old"}
                           /\ place'[o] # place[o] => place[o] \in {"unreachable", "reachable"}
                           /\ place'[o] \notin {"base", "reachable", "seen"}
                           /\ place'[o] = "unreachable" => kind[o] # "legacy"
  <2>1. \A o \in Object : /\ place'[o] = place[o] \/ place'[o] \in {"finalizers", "old"}
                          /\ place'[o] # place[o] => place[o] \in {"unreachable", "reachable"}
                          /\ place'[o] \notin {"base", "reachable", "seen"}
                          /\ place'[o] = "unreachable" => kind[o] # "legacy"
    BY <1>3, <1>4, <1>5
  <2>2. \A o \in Object : place'[o] \in Lists
    BY <1>4, <2>1 DEF Lists
  <2> QED BY <1>1, <2>1, <2>2
<1>7. HeapInv'
  BY <1>1, <1>6 DEF IInv, HeapInv, Sound
<1>8. Idle'
  <2>1. \A o \in Object : Refcnt(o)' = Refcnt(o)
    BY <1>1, RefcntKept
  <2> QED BY <1>1, <1>4, <1>6, <2>1 DEF Idle, Quiet, Dying, IsDying
<1>9. PhaseInv'
  <2>1. held' \notin Gone'
    BY <1>1, <1>4, CollectorAssumption DEF Gone, In
  <2> QED BY <1>1, <1>4, <1>6, <1>8, <2>1 DEF PhaseInv
<1>10. OtherTypes' /\ ScanInv' /\ DoomedKinds'
  BY <1>1, <1>4 DEF IInv, OtherTypes, ScanInv, DoomedKinds, Phases
<1>11. SuspectInv'
  BY <1>1, <1>6 DEF SuspectInv, Suspects
<1> QED
  BY <1>7, <1>9, <1>10, <1>11 DEF IInv

LEMMA ClearWeakrefsKeeps ==
  ASSUME IInv, ClearWeakrefs
  PROVE  IInv'
<1> DEFINE trash == In("unreachable")
<1>1. /\ phase = "sort" /\ phase' = "calls"
      /\ wr_object' = [w \in Weakref |-> IF w \in Cleared(trash) THEN NoObject ELSE wr_object[w]]
      /\ toCall' = {w \in callback \ trash : wr_object[w] \in trash}
      /\ place' = [o \in Object |-> IF o \in toCall' THEN "wrcb" ELSE place[o]]
      /\ UNCHANGED <<kind, refs, roots, callback, gcRefs, finalized, held, doomed, collections>>
  BY DEF ClearWeakrefs, Moved
<1>2. /\ place \in [Object -> Lists] /\ held = NoObject /\ callback \subseteq Weakref
      /\ \A o \in Object : place[o] \notin {"base", "reachable", "seen"}
  BY <1>1 DEF IInv, HeapInv, Sound, PhaseInv, OtherTypes, Idle
<1>3. /\ wr_object' \in [Weakref -> Object \cup {NoObject}]
      /\ \A w \in Weakref : wr_object'[w] \in {wr_object[w], NoObject}
  BY <1>1 DEF IInv, HeapInv, Sound
<1>4. \A w \in toCall' : /\ w \in Object /\ place[w] \notin {"freed", "unborn", "unreachable"}
  <2> SUFFICES ASSUME NEW w \in toCall'
               PROVE  w \in Object /\ place[w] \notin {"freed", "unborn", "unreachable"}
    OBVIOUS
  <2>1. w \in Weakref /\ w \in Object /\ w \notin trash /\ wr_object[w] \in trash
    BY <1>1, <1>2, CollectorAssumption
  <2>2. wr_object[w] # NoObject
    BY <2>1, CollectorAssumption DEF In
  <2> QED BY <2>1, <2>2 DEF IInv, HeapInv, Sound, In
<1>5. /\ place' \in [Object -> Lists]
      /\ \A o \in Object : IF o \in toCall' THEN place'[o] = "wrcb" ELSE place'[o] = place[o]
  BY <1>1, <1>2 DEF Lists
<1>6. HeapInv'
  BY <1>1, <1>3, <1>4, <1>5 DEF IInv, HeapInv, Sound
<1>7. OtherTypes'
  <2>1. toCall' \subseteq In("wrcb")'
    BY <1>4, <1>5 DEF In
  <2> QED BY <1>1, <2>1 DEF IInv, OtherTypes, Phases
<1>8. PhaseInv'
  <2>1. held' \notin Gone' /\ held' \notin toCall'
    BY <1>1, <1>2, <1>4, CollectorAssumption DEF Gone, In
  <2> QED BY <1>1, <1>2, <1>5, <2>1 DEF PhaseInv
<1>9. SuspectInv'
  <2>1. \A o \in Suspects' : o \in Suspects /\ place'[o] = "unreachable"
    BY <1>1, <1>2, <1>5 DEF Suspects
  <2> QED BY <1>1, <2>1 DEF IInv, SuspectInv
<1>10. ScanInv' /\ DoomedKinds'
  BY <1>1 DEF IInv, ScanInv, DoomedKinds
<1> QED
  BY <1>6, <1>7, <1>8, <1>9, <1>10 DEF IInv

LEMMA FinalizeKeeps ==
  ASSUME IInv, NEW o \in Object, Finalize(o)
  PROVE  IInv'
<1>1. /\ phase \in {"calls", "finalize"} /\ toCall = {} /\ phase' = "finalize" /\ held = NoObject
      /\ place[o] = "unreachable"
      /\ UNCHANGED <<kind, callback, gcRefs, toCall, doomed, collections>>
  BY DEF Finalize, Idle, IInv, PhaseInv
<1>2. o \notin Gone /\ place[o] \notin {"freed", "unborn"}
  BY <1>1 DEF Gone, In
<1>3. /\ HeapInv' /\ place'[o] = "seen" /\ held' \in {o, NoObject}
      /\ \A p \in Object : p # o => \/ place'[p] = place[p]
                                    \/ place[p] = "unborn" /\ place'[p] = "young"
      /\ finalized \subseteq finalized' /\ finalized' \subseteq Object
      /\ kind[o] = "finalizer" => o \in finalized'
  <2>1. CASE HasFinalizer(o)
    <3>1. finalized' = finalized \cup {o} /\ held' = o
      BY <2>1 DEF Finalize
    <3>2. PICK h \in Outcomes({o}) : Becomes([h EXCEPT !.place[o] = "seen"])
      BY <2>1 DEF Finalize
    <3>3. GoesOn(h)
      BY <1>2, CodeRuns DEF IInv
    <3>4. /\ refs' = h.refs /\ roots' = h.roots /\ wr_object' = h.wr_object
          /\ place' = [h.place EXCEPT ![o] = "seen"]
      BY <3>2, <3>3 DEF Becomes, GoesOn, IsRecord
    <3>5. /\ place' \in [Object -> Lists] /\ place'[o] = "seen"
          /\ \A p \in Object : p # o => place'[p] = h.place[p]
      BY <3>3, <3>4 DEF GoesOn, Sound, Lists
    <3>6. HeapInv'
      BY <3>3, <3>4, <3>5 DEF GoesOn, HeapInv, Sound
    <3>7. \A p \in Object : p # o => \/ place'[p] = place[p]
                                     \/ place[p] = "unborn" /\ place'[p] = "young"
      BY <3>3, <3>5 DEF GoesOn
    <3> QED BY <3>1, <3>5, <3>6, <3>7 DEF IInv, OtherTypes
  <2>2. CASE ~HasFinalizer(o)
    <3>1. /\ place' = [place EXCEPT ![o] = "seen"]
          /\ UNCHANGED <<finalized, held, refs, roots, wr_object>>
      BY <2>2 DEF Finalize
    <3>2. /\ place' \in [Object -> Lists] /\ place'[o] = "seen"
          /\ \A p \in Object : p # o => place'[p] = place[p]
      BY <3>1 DEF IInv, HeapInv, Sound, Lists
    <3>3. HeapInv'
      BY <1>2, <3>1, <3>2 DEF IInv, HeapInv, Sound
    <3> QED BY <1>1, <2>2, <3>1, <3>2, <3>3 DEF IInv, OtherTypes, HasFinalizer
  <2> QED BY <2>1, <2>2
<1>4. OtherTypes'
  BY <1>1, <1>3 DEF IInv, OtherTypes, Phases
<1>5. PhaseInv'
  <2>1. held' \notin Gone'
    BY <1>3, CollectorAssumption DEF Gone, In
  <2>2. \A p \in Object : place'[p] \notin {"base", "reachable"}
    BY <1>1, <1>3 DEF IInv, PhaseInv
  <2> QED BY <1>1, <2>1, <2>2 DEF PhaseInv
<1>6. SuspectInv'
  <2>1. \A p \in Suspects' : p \in Suspects /\ (p # o => place'[p] = place[p])
    BY <1>1, <1>3 DEF Suspects
  <2> QED BY <1>1, <1>3, <2>1 DEF IInv, SuspectInv
<1>7. ScanInv' /\ DoomedKinds'
  BY <1>1, <1>3 DEF IInv, ScanInv, DoomedKinds
<1> QED
  BY <1>3, <1>4, <1>5, <1>6, <1>7 DEF IInv

LEMMA MoveResurrectedKeeps ==
  ASSUME IInv, MoveResurrected
  PROVE  IInv'
<1> DEFINE trash == In("unreachable")
<1>1. /\ phase = "rescan" /\ In("base") = {} /\ phase' = "delete"
      /\ place' = [o \in Object |-> IF o \in trash THEN "trash"
                                    ELSE IF place[o] = "reachable" THEN "old" ELSE place[o]]
      /\ doomed' = doomed \cup trash
      /\ UNCHANGED <<kind, refs, roots, wr_object, callback, gcRefs, toCall, finalized, held,
                     collections>>
  BY DEF MoveResurrected, heap, StillUnreachable
<1>2. /\ place \in [Object -> Lists] /\ Idle /\ toCall = {} /\ held = NoObject
      /\ \A o \in Object : /\ place[o] \notin {"seen", "base"}
                           /\ o \in trash <=> place[o] = "unreachable"
  BY <1>1 DEF IInv, HeapInv, Sound, PhaseInv, Idle, In
<1>3. /\ place' \in [Object -> Lists]
      /\ \A o \in Object : /\ place'[o] = place[o] \/ place'[o] \in {"trash", "old"}
                           /\ place'[o] # place[o] => place[o] \in {"unreachable", "reachable"}
                           /\ place'[o] \notin {"base", "reachable", "unreachable", "seen"}
  <2>1. \A o \in Object : /\ place'[o] = place[o] \/ place'[o] \in {"trash", "old"}
                          /\ place'[o] # place[o] => place[o] \in {"unreachable", "reachable"}
                          /\ place'[o] \notin {"base", "reachable", "unreachable", "seen"}
    BY <1>1, <1>2
  <2>2. \A o \in Object : place'[o] \in Lists
    BY <1>2, <2>1 DEF Lists
  <2> QED BY <1>1, <2>1, <2>2
<1>4. HeapInv'
  BY <1>1, <1>3 DEF IInv, HeapInv, Sound
<1>5. PhaseInv'
  <2>1. held' \notin Gone'
    BY <1>1, <1>2, CollectorAssumption DEF Gone, In
  <2> QED BY <1>1, <1>2, <1>3, <2>1 DEF PhaseInv
<1>6. OtherTypes' /\ ScanInv'
  <2>1. trash \subseteq Object
    BY DEF In
  <2> QED BY <1>1, <1>2, <2>1 DEF IInv, OtherTypes, ScanInv, Phases
<1>7. DoomedKinds'
  <2>1. \A o \in trash : o \in Suspects
    BY <1>1 DEF Suspects, Scanned, In
  <2> QED BY <1>1, <2>1 DEF IInv, SuspectInv, DoomedKinds
<1>8. SuspectInv'
  BY <1>1 DEF SuspectInv, Suspects
<1> QED
  BY <1>4, <1>5, <1>6, <1>7, <1>8 DEF IInv

LEMMA FinishKeeps ==
  ASSUME IInv, Finish
  PROVE  IInv'
<1>1. /\ phase = "delete" /\ Idle /\ phase' = "idle"
      /\ roots' = roots \cup {o \in In("finalizers") : kind[o] = "legacy"}
      /\ place' = [o \in Object |-> IF o \in In("finalizers") THEN "old" ELSE place[o]]
      /\ UNCHANGED <<kind, refs, wr_object, callback, gcRefs, toCall, finalized, held, doomed,
                     collections>>
  BY DEF Finish, Moved
<1>2. place \in [Object -> Lists] /\ toCall = {} /\ held = NoObject
  BY <1>1 DEF IInv, HeapInv, Sound, PhaseInv, Idle
<1>3. /\ place' \in [Object -> Lists]
      /\ \A o \in Object : \/ place'[o] = place[o] /\ place[o] # "finalizers"
                           \/ place'[o] = "old" /\ place[o] = "finalizers"
  BY <1>1, <1>2 DEF Lists, In
<1>4. HeapInv'
  <2>1. roots' \subseteq Object /\ \A o \in roots' : o \in roots \/ place'[o] = "old"
    BY <1>1, <1>3 DEF IInv, HeapInv, Sound, In
  <2> QED BY <1>1, <1>3, <2>1 DEF IInv, HeapInv, Sound
<1>5. PhaseInv'
  <2>1. held' \notin Gone'
    BY <1>1, <1>2, CollectorAssumption DEF Gone, In
  <2> QED BY <1>1, <1>2, <1>3, <2>1 DEF IInv, PhaseInv
<1>6. OtherTypes' /\ ScanInv' /\ SuspectInv' /\ DoomedKinds'
  BY <1>1, <1>2 DEF IInv, OtherTypes, ScanInv, SuspectInv, Suspects, DoomedKinds, Phases
<1> QED
  BY <1>4, <1>5, <1>6 DEF IInv
-----------------------------------------------------------------------------
LEMMA InitKeeps == CollectorInit => IInv
<1> SUFFICES ASSUME CollectorInit PROVE IInv
  OBVIOUS
<1>1. PICK h \in Heaps :
        /\ kind = h.kind /\ refs = h.refs /\ roots = h.roots /\ wr_object = h.wr_object
        /\ callback = h.callback /\ place = h.place
  BY DEF CollectorInit
<1>2. /\ gcRefs = [o \in Object |-> 0] /\ toCall = {} /\ finalized = {} /\ held = NoObject
      /\ doomed = {} /\ phase = "idle" /\ collections = 0
  BY DEF CollectorInit
<1>3. IsHeap(h)
  BY CollectorAssumption
<1>4. /\ place \in [Object -> Lists]
      /\ \A o \in Object : place[o] \in {"young", "old", "unborn"}
  BY <1>1, <1>3 DEF IsHeap, Lists
<1>5. HeapInv
  BY <1>1, <1>3, <1>4 DEF IsHeap, HeapInv, Sound
<1>6. OtherTypes
  <2>1. gcRefs \in [Object -> Nat] /\ collections \in 0 .. MaxCollections
    BY <1>2, CollectorAssumption
  <2> QED BY <1>1, <1>2, <1>3, <2>1 DEF IsHeap, OtherTypes, Phases
<1>7. PhaseInv
  <2>1. held \notin Gone
    BY <1>2, CollectorAssumption DEF Gone, In
  <2> QED BY <1>2, <1>4, <2>1 DEF PhaseInv
<1> QED
  BY <1>2, <1>5, <1>6, <1>7 DEF IInv, ScanInv, SuspectInv, Suspects, DoomedKinds

LEMMA StepKeeps == IInv /\ [CollectorNext]_collectorVars => IInv'
<1> SUFFICES ASSUME IInv, [CollectorNext]_collectorVars PROVE IInv'
  OBVIOUS
<1>1. CASE UNCHANGED collectorVars
  BY <1>1 DEF collectorVars, IInv, OtherTypes, HeapInv, PhaseInv, ScanInv, MarkedRight,
     SuspectInv, Suspects, DoomedKinds, Scanned, Marked, Reachable, Closure, ClosedUnder, In, Gone,
     Idle, Quiet, Dying, IsDying, Refcnt, Referrers
<1>2. ASSUME NEW o \in Object,
             FinalizeDying(o) \/ FreeDying(o) \/ Scan(o) \/ Finalize(o) \/ Delete(o) \/ GiveUp(o)
      PROVE  IInv'
  BY <1>2, FinalizeDyingKeeps, FreeDyingKeeps, ScanKeeps, FinalizeKeeps, DeleteKeeps, GiveUpKeeps
<1> QED
  BY <1>1, <1>2, ClearWeakRefKeeps, CallCallbackKeeps, CollectKeeps, MoveLegacyFinalizersKeeps,
     ClearWeakrefsKeeps, DeduceAgainKeeps, MoveResurrectedKeeps, LetGoKeeps, FinishKeeps
     DEF CollectorNext

(* The inductive invariant holds in every state of a collection.           *)
THEOREM Invariance == CollectorSpec => []IInv
<1>1. CollectorInit => IInv
  BY InitKeeps
<1>2. IInv /\ [CollectorNext]_collectorVars => IInv'
  BY StepKeeps
<1> QED
  BY <1>1, <1>2, PTL DEF CollectorSpec

(* What the runs check of a collection holds for any objects, weak         *)
(* references and heaps, and whatever Python code does in between: what    *)
(* deduce_unreachable finds is what nothing outside leads to, the first    *)
(* time and after the finalizers have run; and nothing is deleted whose    *)
(* finalizer has not been called.                                          *)
THEOREM CollectorIsRight == CollectorSpec => []CollectorInv
<1>1. IInv => CollectorInv
  <2> SUFFICES ASSUME IInv PROVE CollectorInv
    OBVIOUS
  <2>1. CollectorTypeOK
    BY DEF IInv, OtherTypes, HeapInv, Sound, CollectorTypeOK, Gone, In
  <2>2. DeducedRight
    <3> SUFFICES ASSUME phase \in {"scan", "rescan"}, In("base") = {}
                 PROVE  LET scanned == In("reachable") \cup In("unreachable")
                            outside == roots \cup toCall \cup {held} \cup (Object \ scanned)
                        IN  In("unreachable") = scanned \ Reachable(outside \ {NoObject})
      BY DEF DeducedRight
    <3>1. In("unreachable") = Scanned \ Reachable(roots \cup (Object \ Scanned))
      BY ScanEnds DEF IInv, ScanInv
    <3>2. Scanned = In("reachable") \cup In("unreachable")
      BY DEF Scanned, In
    <3>3. toCall = {} /\ held = NoObject /\ roots \subseteq Object
      BY DEF IInv, PhaseInv, Idle, HeapInv, Sound
    <3>4. (roots \cup toCall \cup {held} \cup (Object \ Scanned)) \ {NoObject}
            = roots \cup (Object \ Scanned)
      BY <3>3, CollectorAssumption
    <3> QED BY <3>1, <3>2, <3>4
  <2>3. FinalizedFirst
    BY DEF IInv, DoomedKinds, FinalizedFirst
  <2> QED BY <2>1, <2>2, <2>3 DEF CollectorInv
<1> QED
  BY <1>1, Invariance, PTL
-----------------------------------------------------------------------------
(***************************************************************************)
(* What is given up, where Python code makes no new weak references.       *)
(***************************************************************************)
(* No cycle is made of tuples only.                                        *)
TuplesEnd ==
  \A T \in SUBSET {o \in Object : kind[o] = "tuple"} :
    T # {} => \E o \in T : \A p \in T : o \notin refs[p]

(* No weak reference leads to what may be deleted, nor is there one in it. *)
SuspectsApart ==
  phase # "sort" => \A w \in Weakref : wr_object[w] # NoObject =>
                      w \notin Suspects /\ wr_object[w] \notin Suspects

(* Nothing leads to what was deleted.  What is left of it while the        *)
(* deletion goes on has no references of its own, but for tuples.          *)
DoomedInv ==
  /\ Apart(doomed, refs, roots, wr_object)
  /\ \A o \in doomed : \/ place[o] = "freed"
                       \/ /\ phase = "delete" /\ place[o] # "unborn"
                          /\ place[o] = "trash" \/ kind[o] = "tuple" \/ refs[o] = {}
  /\ held \in doomed => refs[held] = {}

SafeInv == TuplesEnd /\ SuspectsApart /\ DoomedInv

(* Steps of Python code, and others that only cut references.              *)
LEMMA CuttingIsSafe ==
  ASSUME IInv, SafeInv, UNCHANGED <<kind, doomed, phase>>,
         Apart(doomed, refs', roots', wr_object'),
         \A p \in Object : kind[p] = "tuple" \/ p \in doomed => refs'[p] \subseteq refs[p],
         \A w \in Weakref : wr_object'[w] \in {wr_object[w], NoObject},
         \A o \in Object : place'[o] = place[o] \/ place'[o] \in {"young", "old", "freed"},
         \A o \in doomed : \/ place'[o] = place[o] \/ place'[o] = "freed"
                           \/ place[o] # "freed" /\ (kind[o] = "tuple" \/ refs[o] = {}),
         held' \in doomed => refs'[held'] = {}
  PROVE  SafeInv'
<1>1. doomed \subseteq Object
  BY DEF IInv, OtherTypes
<1>2. TuplesEnd'
  <2> SUFFICES ASSUME NEW T \in SUBSET {o \in Object : kind[o] = "tuple"}, T # {}
               PROVE  \E o \in T : \A p \in T : o \notin refs'[p]
    BY DEF TuplesEnd
  <2>1. PICK o \in T : \A p \in T : o \notin refs[p]
    BY DEF SafeInv, TuplesEnd
  <2> QED BY <2>1
<1>3. SuspectsApart'
  <2>1. Suspects' \subseteq Suspects
    BY DEF Suspects, Scanned
  <2> QED BY <2>1 DEF SafeInv, SuspectsApart
<1>4. DoomedInv'
  <2>1. \A o \in doomed : \/ place'[o] = "freed"
                          \/ /\ phase' = "delete" /\ place'[o] # "unborn"
                             /\ place'[o] = "trash" \/ kind'[o] = "tuple" \/ refs'[o] = {}
    <3> SUFFICES ASSUME NEW o \in doomed, place'[o] # "freed"
                 PROVE  /\ phase' = "delete" /\ place'[o] # "unborn"
                        /\ place'[o] = "trash" \/ kind'[o] = "tuple" \/ refs'[o] = {}
      OBVIOUS
    <3>1. o \in Object /\ refs'[o] \subseteq refs[o]
      BY <1>1
    <3>2. place[o] # "freed" => /\ phase = "delete" /\ place[o] # "unborn"
                                /\ place[o] = "trash" \/ kind[o] = "tuple" \/ refs[o] = {}
      BY DEF SafeInv, DoomedInv
    <3>3. place[o] # "freed"
      OBVIOUS
    <3> QED BY <3>1, <3>2, <3>3
  <2> QED BY <2>1 DEF DoomedInv
<1> QED
  BY <1>2, <1>3, <1>4 DEF SafeInv

LEMMA FinalizeDyingIsSafe ==
  ASSUME IInv, SafeInv, ~MakesWeakrefs, NEW o \in Object, FinalizeDying(o)
  PROVE  SafeInv'
<1>1. /\ IsDying(o) /\ HasFinalizer(o)
      /\ UNCHANGED <<kind, held, doomed, phase>>
  BY DEF FinalizeDying
<1>2. PICK h \in Outcomes({o}) : Becomes([h EXCEPT !.place[o] = "young"])
  BY DEF FinalizeDying
<1>3. o \notin doomed /\ doomed \in SUBSET Object
  BY <1>1 DEF IInv, DoomedKinds, HasFinalizer, OtherTypes
<1>4. GoesOn(h)
  BY <1>1, DyingIsFree, CodeRuns DEF IInv
<1>5. /\ Apart(doomed, h.refs, h.roots, h.wr_object) /\ h.wr_object = wr_object
      /\ h.place = place /\ \A p \in doomed : h.refs[p] = refs[p]
  <2>1. HeapInv /\ Apart(doomed, refs, roots, wr_object)
    BY DEF IInv, SafeInv, DoomedInv
  <2>2. {o} \cap doomed = {} /\ {o} \in SUBSET Object
    BY <1>3
  <2> QED BY <1>3, <2>1, <2>2, CodeStaysAway
<1>6. /\ refs' = h.refs /\ roots' = h.roots /\ wr_object' = wr_object
      /\ place' = [place EXCEPT ![o] = "young"]
  BY <1>2, <1>4, <1>5 DEF Becomes, GoesOn, IsRecord
<1>7. \A p \in Object : kind[p] = "tuple" \/ p \in doomed => refs'[p] \subseteq refs[p]
  BY <1>4, <1>5, <1>6 DEF GoesOn
<1>8. place'[o] = "young" /\ \A p \in Object : p # o => place'[p] = place[p]
  BY <1>6 DEF IInv, HeapInv, Sound
<1>9. held' \in doomed => refs'[held'] = {}
  BY <1>1, <1>5, <1>6 DEF SafeInv, DoomedInv
<1> QED
  BY <1>1, <1>3, <1>5, <1>6, <1>7, <1>8, <1>9, CuttingIsSafe

LEMMA ClearWeakRefIsSafe ==
  ASSUME IInv, SafeInv, ~MakesWeakrefs, NEW o \in Object, NEW w \in Weakref, ClearWeakRef(o, w)
  PROVE  SafeInv'
<1>1. wr_object[w] = o /\ UNCHANGED <<kind, held, doomed, phase>>
  BY DEF ClearWeakRef, WeakrefsTo
<1>2. PICK h \in Outcomes({w}) : Becomes([h EXCEPT !.refs[w] = {}, !.wr_object[w] = NoObject])
  <2>1. PICK h \in IF w \in callback /\ ~IsDying(w) THEN Outcomes({w}) ELSE {now} :
          Becomes([h EXCEPT !.refs[w] = {}, !.wr_object[w] = NoObject])
    BY DEF ClearWeakRef
  <2>2. h \in Outcomes({w})
    BY <2>1, NothingHappens
  <2> QED BY <2>1, <2>2
<1>3. w \in Object /\ w \notin Gone /\ w \notin doomed /\ doomed \in SUBSET Object
  <2>1. w \in Object /\ wr_object[w] # NoObject
    BY <1>1, CollectorAssumption
  <2>2. w \notin Gone
    BY <2>1 DEF IInv, HeapInv, Sound, Gone, In
  <2>3. w \notin doomed
    BY <2>1 DEF SafeInv, DoomedInv, Apart
  <2> QED BY <2>1, <2>2, <2>3 DEF IInv, OtherTypes
<1>4. GoesOn(h)
  BY <1>3, CodeRuns DEF IInv
<1>5. /\ Apart(doomed, h.refs, h.roots, h.wr_object) /\ h.wr_object = wr_object
      /\ h.place = place /\ \A p \in doomed : h.refs[p] = refs[p]
  <2>1. HeapInv /\ Apart(doomed, refs, roots, wr_object)
    BY DEF IInv, SafeInv, DoomedInv
  <2>2. {w} \cap doomed = {} /\ {w} \in SUBSET Object
    BY <1>3
  <2> QED BY <1>3, <2>1, <2>2, CodeStaysAway
<1>6. /\ refs' = [h.refs EXCEPT ![w] = {}] /\ roots' = h.roots /\ place' = place
      /\ wr_object' = [wr_object EXCEPT ![w] = NoObject]
  BY <1>2, <1>4, <1>5 DEF Becomes, GoesOn, IsRecord
<1>7. /\ \A p \in Object : refs'[p] \subseteq h.refs[p]
      /\ \A u \in Weakref : wr_object'[u] \in {wr_object[u], NoObject}
  BY <1>3, <1>4, <1>6 DEF GoesOn, Sound, IInv, HeapInv
<1>8. Apart(doomed, refs', roots', wr_object')
  BY <1>5, <1>6, <1>7 DEF Apart
<1>9. \A p \in Object : kind[p] = "tuple" \/ p \in doomed => refs'[p] \subseteq refs[p]
  BY <1>4, <1>5, <1>7 DEF GoesOn
<1>10. held' \in doomed => refs'[held'] = {}
  <2>1. held \in doomed => refs[held] = {}
    BY DEF SafeInv, DoomedInv
  <2> QED BY <1>1, <1>3, <1>9, <2>1
<1> QED
  BY <1>1, <1>6, <1>7, <1>8, <1>9, <1>10, CuttingIsSafe

LEMMA FreeDyingIsSafe ==
  ASSUME IInv, SafeInv, ~MakesWeakrefs, NEW o \in Object, FreeDying(o)
  PROVE  SafeInv'
<1> DEFINE Back(h) == o \in h.roots \/ \E p \in Object : o \in h.refs[p]
<1>1. IsDying(o) /\ UNCHANGED <<kind, held, doomed, phase>>
  BY DEF FreeDying
<1>2. PICK h \in IF kind[o] = "legacy" THEN Outcomes({o}) ELSE {now} :
        IF Back(h)
        THEN Becomes([h EXCEPT !.place[o] = "young"])
        ELSE Becomes([h EXCEPT
             !.refs[o] = {}, !.place[o] = "freed",
             !.wr_object = [w \in Weakref |-> IF o \in {w, @[w]} THEN NoObject ELSE @[w]]])
  BY DEF FreeDying
<1>3. o \notin Gone /\ doomed \in SUBSET Object
  BY <1>1, DyingIsFree DEF IInv, OtherTypes
<1>4. GoesOn(h)
  BY <1>2, <1>3, NothingHappens, CodeRuns DEF IInv
<1>5. o \in doomed => h = now /\ ~Back(h)
  <2> SUFFICES ASSUME o \in doomed PROVE h = now /\ ~Back(h)
    OBVIOUS
  <2>1. h = now
    BY <1>2 DEF IInv, DoomedKinds
  <2>2. o \notin roots /\ \A p \in Object : o \notin refs[p]
    BY <1>1, DyingIsFree
  <2> QED BY <2>1, <2>2 DEF now
<1>6. /\ Apart(doomed, h.refs, h.roots, h.wr_object) /\ h.wr_object = wr_object
      /\ h.place = place /\ \A p \in doomed : h.refs[p] = refs[p]
  <2>1. HeapInv /\ Apart(doomed, refs, roots, wr_object)
    BY DEF IInv, SafeInv, DoomedInv
  <2>2. CASE o \in doomed
    BY <1>5, <2>1, <2>2 DEF now
  <2>3. CASE o \notin doomed
    <3>1. {o} \cap doomed = {} /\ {o} \in SUBSET Object /\ h \in Outcomes({o})
      BY <1>2, <2>3, NothingHappens
    <3> QED BY <1>3, <2>1, <3>1, CodeStaysAway
  <2> QED BY <2>2, <2>3
<1>7. /\ \A p \in Object : refs'[p] \subseteq h.refs[p]
      /\ roots' = roots \/ roots' = h.roots
      /\ \A u \in Weakref : wr_object'[u] \in {wr_object[u], NoObject}
      /\ place'[o] \in {"young", "freed"} /\ (o \in doomed => place'[o] = "freed")
      /\ \A p \in Object : p # o => place'[p] = place[p]
  <2>1. CASE Back(h)
    <3>1. /\ refs' = h.refs /\ roots' = h.roots /\ wr_object' = wr_object
          /\ place' = [place EXCEPT ![o] = "young"]
      BY <1>2, <1>4, <1>6, <2>1 DEF Becomes, GoesOn, IsRecord
    <3> QED BY <1>5, <2>1, <3>1 DEF IInv, HeapInv, Sound
  <2>2. CASE ~Back(h)
    <3>1. /\ refs' = [h.refs EXCEPT ![o] = {}] /\ roots' = h.roots
          /\ place' = [place EXCEPT ![o] = "freed"]
          /\ wr_object' = [w \in Weakref |-> IF o \in {w, wr_object[w]} THEN NoObject
                                                                       ELSE wr_object[w]]
      BY <1>2, <1>4, <1>6, <2>2 DEF Becomes, GoesOn, IsRecord
    <3>2. \A p \in Object : refs'[p] \subseteq h.refs[p]
      BY <1>4, <3>1 DEF GoesOn, Sound
    <3>3. \A u \in Weakref : wr_object'[u] \in {wr_object[u], NoObject}
      BY <3>1
    <3>4. place'[o] = "freed" /\ \A p \in Object : p # o => place'[p] = place[p]
      BY <3>1 DEF IInv, HeapInv, Sound
    <3> QED BY <3>1, <3>2, <3>3, <3>4
  <2> QED BY <2>1, <2>2
<1>8. Apart(doomed, refs', roots', wr_object')
  <2>1. roots \cap doomed = {} /\ h.roots \cap doomed = {}
    BY <1>6 DEF SafeInv, DoomedInv, Apart
  <2> QED BY <1>6, <1>7, <2>1 DEF Apart
<1>9. \A p \in Object : kind[p] = "tuple" \/ p \in doomed => refs'[p] \subseteq refs[p]
  BY <1>4, <1>6, <1>7 DEF GoesOn
<1>10. held' \in doomed => refs'[held'] = {}
  <2>1. held \in doomed => refs[held] = {}
    BY DEF SafeInv, DoomedInv
  <2> QED BY <1>1, <1>3, <1>9, <2>1
<1>11. \A p \in doomed : place'[p] = place[p] \/ place'[p] = "freed"
  BY <1>3, <1>7
<1> QED
  BY <1>1, <1>7, <1>8, <1>9, <1>10, <1>11, CuttingIsSafe

LEMMA CallCallbackIsSafe ==
  ASSUME IInv, SafeInv, ~MakesWeakrefs, NEW w \in Weakref, CallCallback(w)
  PROVE  SafeInv'
<1>1. /\ phase = "calls" /\ w \in toCall /\ held' = w
      /\ UNCHANGED <<kind, doomed, phase>>
  BY DEF CallCallback
<1>2. PICK h \in Outcomes({w}) : Becomes(h)
  BY DEF CallCallback
<1>3. w \in Object /\ place[w] = "wrcb" /\ w \notin Gone /\ doomed \in SUBSET Object
  BY <1>1 DEF IInv, OtherTypes, In, Gone
<1>4. w \notin doomed
  BY <1>1, <1>3 DEF SafeInv, DoomedInv
<1>5. GoesOn(h)
  BY <1>3, CodeRuns DEF IInv
<1>6. /\ Apart(doomed, h.refs, h.roots, h.wr_object) /\ h.wr_object = wr_object
      /\ h.place = place /\ \A p \in doomed : h.refs[p] = refs[p]
  <2>1. HeapInv /\ Apart(doomed, refs, roots, wr_object)
    BY DEF IInv, SafeInv, DoomedInv
  <2>2. {w} \cap doomed = {} /\ {w} \in SUBSET Object
    BY <1>3, <1>4
  <2> QED BY <1>3, <2>1, <2>2, CodeStaysAway
<1>7. refs' = h.refs /\ roots' = h.roots /\ wr_object' = wr_object /\ place' = place
  BY <1>2, <1>6 DEF Becomes
<1>8. \A p \in Object : kind[p] = "tuple" \/ p \in doomed => refs'[p] \subseteq refs[p]
  BY <1>5, <1>6, <1>7 DEF GoesOn
<1> QED
  BY <1>1, <1>4, <1>6, <1>7, <1>8, CuttingIsSafe

LEMMA FinalizeIsSafe ==
  ASSUME IInv, SafeInv, ~MakesWeakrefs, NEW o \in Object, Finalize(o)
  PROVE  SafeInv'
<1>1. /\ phase \in {"calls", "finalize"} /\ phase' = "finalize" /\ place[o] = "unreachable"
      /\ held = NoObject /\ UNCHANGED <<kind, doomed>>
  BY DEF Finalize, Idle
<1>2. o \notin Gone /\ doomed \in SUBSET Object
  BY <1>1 DEF Gone, In, IInv, OtherTypes
<1>3. o \notin doomed
  BY <1>1 DEF SafeInv, DoomedInv
<1>4. /\ Apart(doomed, refs', roots', wr_object') /\ wr_object' = wr_object
      /\ place' = [place EXCEPT ![o] = "seen"] /\ held' \in {o, NoObject}
      /\ \A p \in Object : kind[p] = "tuple" => refs'[p] = refs[p]
  <2>1. HeapInv /\ Apart(doomed, refs, roots, wr_object)
    BY DEF IInv, SafeInv, DoomedInv
  <2>2. CASE HasFinalizer(o)
    <3>1. PICK h \in Outcomes({o}) : Becomes([h EXCEPT !.place[o] = "seen"])
      BY <2>2 DEF Finalize
    <3>2. GoesOn(h)
      BY <1>2, CodeRuns DEF IInv
    <3>3. Apart(doomed, h.refs, h.roots, h.wr_object) /\ h.wr_object = wr_object /\ h.place = place
      <4>1. {o} \cap doomed = {} /\ {o} \in SUBSET Object
        BY <1>3
      <4> QED BY <1>2, <2>1, <4>1, CodeStaysAway
    <3>4. /\ refs' = h.refs /\ roots' = h.roots /\ wr_object' = wr_object
          /\ place' = [place EXCEPT ![o] = "seen"] /\ held' = o
      BY <2>2, <3>1, <3>2, <3>3 DEF Becomes, GoesOn, IsRecord, Finalize
    <3> QED BY <3>2, <3>3, <3>4 DEF GoesOn
  <2>3. CASE ~HasFinalizer(o)
    <3>1. /\ place' = [place EXCEPT ![o] = "seen"]
          /\ UNCHANGED <<finalized, held, refs, roots, wr_object>>
      BY <2>3 DEF Finalize
    <3> QED BY <1>1, <2>1, <3>1
  <2> QED BY <2>2, <2>3
<1>5. place'[o] = "seen" /\ \A p \in Object : p # o => place'[p] = place[p]
  BY <1>4 DEF IInv, HeapInv, Sound
<1>6. TuplesEnd'
  BY <1>1, <1>4 DEF SafeInv, TuplesEnd
<1>7. SuspectsApart'
  <2>1. Suspects' \subseteq Suspects
    BY <1>1, <1>5 DEF Suspects
  <2> QED BY <1>1, <1>4, <2>1 DEF SafeInv, SuspectsApart
<1>8. DoomedInv'
  <2>1. NoObject \notin doomed
    BY <1>2, CollectorAssumption
  <2>2. \A p \in doomed : p \in Object /\ p # o /\ place[p] = "freed"
    BY <1>1, <1>2, <1>3 DEF SafeInv, DoomedInv
  <2>3. \A p \in doomed : place'[p] = "freed"
    BY <1>5, <2>2
  <2> QED BY <1>1, <1>3, <1>4, <2>1, <2>3 DEF DoomedInv
<1> QED
  BY <1>6, <1>7, <1>8 DEF SafeInv

LEMMA DeleteIsSafe ==
  ASSUME IInv, SafeInv, NEW o \in Object, Delete(o)
  PROVE  SafeInv'
<1>1. /\ place[o] = "trash" /\ held = NoObject /\ UNCHANGED <<kind, doomed, phase>>
  BY DEF Delete, Idle
<1>2. doomed \in SUBSET Object /\ NoObject \notin doomed
  BY CollectorAssumption DEF IInv, OtherTypes
<1>3. Apart(doomed, refs, roots, wr_object)
  BY DEF SafeInv, DoomedInv
<1>4. CASE kind[o] = "tuple"
  <2>1. /\ place' = [place EXCEPT ![o] = "old"]
        /\ UNCHANGED <<refs, roots, wr_object, held>>
    BY <1>4 DEF Delete, heap
  <2>2. place'[o] = "old" /\ \A p \in Object : p # o => place'[p] = place[p]
    BY <2>1 DEF IInv, HeapInv, Sound
  <2>3. \A p \in doomed : place'[p] = place[p] \/ (place[p] # "freed" /\ kind[p] = "tuple")
    BY <1>1, <1>2, <1>4, <2>2
  <2> QED BY <1>1, <1>2, <1>3, <2>1, <2>2, <2>3, CuttingIsSafe
<1>5. CASE kind[o] # "tuple"
  <2>1. /\ refs' = [refs EXCEPT ![o] = {}] /\ held' = o
        /\ wr_object' = IF o \in Weakref THEN [wr_object EXCEPT ![o] = NoObject] ELSE wr_object
        /\ UNCHANGED <<roots, place>>
    BY <1>5 DEF Delete
  <2>2. refs'[o] = {} /\ \A p \in Object : refs'[p] \subseteq refs[p]
    BY <2>1 DEF IInv, HeapInv, Sound
  <2>3. \A w \in Weakref : wr_object'[w] \in {wr_object[w], NoObject}
    BY <2>1 DEF IInv, HeapInv, Sound
  <2>4. Apart(doomed, refs', roots', wr_object')
    BY <1>3, <2>1, <2>2, <2>3 DEF Apart
  <2> QED BY <1>1, <2>1, <2>2, <2>3, <2>4, CuttingIsSafe
<1> QED
  BY <1>4, <1>5

LEMMA LetGoIsSafe ==
  ASSUME IInv, SafeInv, LetGo
  PROVE  SafeInv'
<1>1. /\ held \in Object /\ held' = NoObject /\ held \notin Gone
      /\ UNCHANGED <<kind, refs, roots, wr_object, doomed, phase>>
  BY DEF LetGo, heap, IInv, PhaseInv, OtherTypes
<1>2. /\ place'[held] \in {place[held], "old"}
      /\ \A p \in Object : p # held => place'[p] = place[p]
  <2>1. place' = [place EXCEPT ![held] = "old"] \/ place' = place
    BY DEF LetGo
  <2> QED BY <1>1, <2>1 DEF IInv, HeapInv, Sound
<1>3. doomed \in SUBSET Object /\ NoObject \notin doomed
  BY CollectorAssumption DEF IInv, OtherTypes
<1>4. Apart(doomed, refs', roots', wr_object')
  BY <1>1 DEF SafeInv, DoomedInv
<1>5. \A p \in doomed : place'[p] = place[p] \/ (place[p] # "freed" /\ refs[p] = {})
  <2>1. held \in doomed => refs[held] = {} /\ place[held] # "freed"
    BY <1>1 DEF SafeInv, DoomedInv, Gone, In
  <2> QED BY <1>2, <1>3, <2>1
<1> QED
  BY <1>1, <1>2, <1>3, <1>4, <1>5, CuttingIsSafe

LEMMA GiveUpIsSafe ==
  ASSUME IInv, SafeInv, NEW o \in Object, GiveUp(o)
  PROVE  SafeInv'
<1>1. /\ roots' = roots \ {o}
      /\ UNCHANGED <<kind, refs, wr_object, place, held, doomed, phase>>
  BY DEF GiveUp
<1>2. Apart(doomed, refs', roots', wr_object') /\ (held' \in doomed => refs'[held'] = {})
  BY <1>1 DEF SafeInv, DoomedInv, Apart
<1> QED
  BY <1>1, <1>2, CuttingIsSafe
-----------------------------------------------------------------------------
(* Steps of the collector by itself, which leave the heap alone.           *)
LEMMA SortingIsSafe ==
  ASSUME IInv, SafeInv, UNCHANGED <<kind, refs, roots, wr_object, doomed, held>>,
         phase # "delete", phase' # "delete", phase # "sort",
         phase' # "sort" => Suspects' \subseteq Suspects,
         \A o \in Object : place[o] = "freed" => place'[o] = "freed"
  PROVE  SafeInv'
<1>1. TuplesEnd'
  BY DEF SafeInv, TuplesEnd
<1>2. SuspectsApart'
  BY DEF SafeInv, SuspectsApart
<1>3. DoomedInv'
  <2>1. \A o \in doomed : o \in Object /\ place[o] = "freed"
    BY DEF IInv, OtherTypes, SafeInv, DoomedInv
  <2> QED BY <2>1 DEF SafeInv, DoomedInv
<1> QED
  BY <1>1, <1>2, <1>3 DEF SafeInv

LEMMA CollectIsSafe ==
  ASSUME IInv, SafeInv, NEW full \in BOOLEAN, Collect(full)
  PROVE  SafeInv'
<1>1. /\ phase = "idle" /\ phase' = "scan"
      /\ UNCHANGED <<kind, refs, roots, wr_object, held, doomed>>
  BY DEF Collect, heap
<1>2. \A o \in Object : place[o] = "freed" => place'[o] = "freed"
  BY DEF Collect, Deduce, In
<1>3. Suspects' = {}
  BY <1>1 DEF Suspects
<1> QED
  BY <1>1, <1>2, <1>3, SortingIsSafe

LEMMA DeduceAgainIsSafe ==
  ASSUME IInv, SafeInv, DeduceAgain
  PROVE  SafeInv'
<1>1. /\ phase \in {"calls", "finalize"} /\ phase' = "rescan"
      /\ UNCHANGED <<kind, refs, roots, wr_object, held, doomed>>
      /\ \A o \in Object : place'[o] = IF place[o] = "seen" THEN "base" ELSE place[o]
      /\ \A o \in Object : place[o] # "unreachable"
  BY DEF DeduceAgain, heap, Deduce, In
<1>2. \A o \in Object : place[o] \notin {"base", "reachable"}
  BY <1>1 DEF IInv, PhaseInv
<1>3. Suspects' \subseteq Suspects
  BY <1>1, <1>2 DEF Suspects, Scanned
<1> QED
  BY <1>1, <1>3, SortingIsSafe

LEMMA ScanIsSafe ==
  ASSUME IInv, SafeInv, NEW o \in Object, Scan(o)
  PROVE  SafeInv'
<1>1. /\ phase \in {"scan", "rescan"} /\ place[o] = "base"
      /\ UNCHANGED <<kind, refs, roots, wr_object, held, doomed, phase>>
  BY DEF Scan, heap
<1>2. \A p \in Object : /\ place[p] = "freed" => place'[p] = "freed"
                        /\ p \in Scanned' => p \in Scanned
  <2>1. CASE gcRefs[o] > 0
    <3>1. place' = [p \in Object |-> CASE p = o -> "reachable"
                                       [] p \in Found(o) \ {o} -> "base"
                                       [] OTHER -> place[p]]
      BY <2>1 DEF Scan
    <3>2. \A p \in Found(o) : place[p] \in {"unreachable", "base"}
      BY DEF Found
    <3>3. ASSUME NEW p \in Object
          PROVE  \/ place'[p] = place[p]
                 \/ /\ place'[p] \in {"base", "reachable"}
                    /\ place[p] \in {"unreachable", "base"}
      BY <1>1, <3>1, <3>2
    <3> QED BY <3>3 DEF Scanned
  <2>2. CASE ~(gcRefs[o] > 0)
    <3>1. place' = [place EXCEPT ![o] = "unreachable"]
      BY <2>2 DEF Scan
    <3>2. place'[o] = "unreachable" /\ \A p \in Object : p # o => place'[p] = place[p]
      BY <3>1 DEF IInv, HeapInv, Sound
    <3> QED BY <1>1, <3>2 DEF Scanned
  <2> QED BY <2>1, <2>2
<1>3. Suspects' \subseteq Suspects
  BY <1>1, <1>2 DEF Suspects
<1> QED
  BY <1>1, <1>2, <1>3, SortingIsSafe

LEMMA MoveLegacyFinalizersIsSafe ==
  ASSUME IInv, SafeInv, MoveLegacyFinalizers
  PROVE  SafeInv'
<1> DEFINE legacy == {o \in In("unreachable") : kind[o] = "legacy"}
           step   == [o \in Object |-> refs[o] \cap In("unreachable")]
           theirs == Closure(legacy, step)
<1>1. /\ phase = "scan" /\ phase' = "sort"
      /\ place' = [o \in Object |-> CASE o \in theirs -> "finalizers"
                                      [] place[o] = "reachable" -> "old"
                                      [] OTHER -> place[o]]
      /\ UNCHANGED <<kind, refs, roots, wr_object, held, doomed>>
  BY DEF MoveLegacyFinalizers, heap
<1>2. theirs \subseteq In("unreachable")
  <2>1. /\ legacy \subseteq In("unreachable") /\ In("unreachable") \in SUBSET Object
        /\ ClosedUnder(In("unreachable"), step)
    BY DEF In, ClosedUnder
  <2> HIDE DEF legacy, step
  <2> QED BY <2>1, ClosureIsLeast
<1> HIDE DEF theirs
<1>3. ASSUME NEW o \in Object, place[o] = "freed" PROVE place'[o] = "freed"
  <2>1. o \notin theirs /\ place[o] # "reachable"
    BY <1>2, <1>3 DEF In
  <2>2. place'[o] = CASE o \in theirs -> "finalizers"
                      [] place[o] = "reachable" -> "old"
                      [] OTHER -> place[o]
    BY <1>1
  <2> QED BY <1>3, <2>1, <2>2
<1> QED
  BY <1>1, <1>3, SortingIsSafe

LEMMA ClearWeakrefsIsSafe ==
  ASSUME IInv, SafeInv, ClearWeakrefs
  PROVE  SafeInv'
<1> DEFINE trash == In("unreachable")
<1>1. /\ phase = "sort" /\ phase' = "calls"
      /\ wr_object' = [w \in Weakref |-> IF w \in Cleared(trash) THEN NoObject ELSE wr_object[w]]
      /\ toCall' = {w \in callback \ trash : wr_object[w] \in trash}
      /\ place' = [o \in Object |-> IF o \in toCall' THEN "wrcb" ELSE place[o]]
      /\ UNCHANGED <<kind, refs, roots, held, doomed>>
  BY DEF ClearWeakrefs, Moved
<1>2. \A w \in Weakref : wr_object'[w] # NoObject =>
        /\ wr_object'[w] = wr_object[w] /\ w \notin trash /\ wr_object[w] \notin trash
  BY <1>1 DEF Cleared
<1>3. TuplesEnd'
  BY <1>1 DEF SafeInv, TuplesEnd
<1>4. SuspectsApart'
  <2>1. Suspects' \subseteq trash
    <3>1. \A o \in Object : place[o] # "seen"
      BY <1>1 DEF IInv, PhaseInv
    <3> QED BY <1>1, <3>1 DEF Suspects, In
  <2> QED BY <1>1, <1>2, <2>1 DEF SuspectsApart
<1>5. DoomedInv'
  <2>1. \A o \in doomed : o \in Object /\ place[o] = "freed"
    BY <1>1 DEF IInv, OtherTypes, SafeInv, DoomedInv
  <2>2. \A w \in toCall' : place[w] # "freed"
    <3>1. \A w \in toCall' : w \in Weakref /\ w \in Object /\ wr_object[w] \in Object
      BY <1>1, CollectorAssumption DEF IInv, OtherTypes, In
    <3> QED BY <3>1, CollectorAssumption DEF IInv, HeapInv, Sound
  <2>3. \A o \in doomed : place'[o] = "freed"
    BY <1>1, <2>1, <2>2
  <2>4. Apart(doomed, refs, roots, wr_object)
    BY DEF SafeInv, DoomedInv
  <2>5. Apart(doomed', refs', roots', wr_object')
    BY <1>1, <1>2, <2>4 DEF Apart
  <2> QED BY <1>1, <2>3, <2>5 DEF SafeInv, DoomedInv
<1> QED
  BY <1>3, <1>4, <1>5 DEF SafeInv

(* What is still unreachable has nothing that leads to it.                 *)
LEMMA MoveResurrectedIsSafe ==
  ASSUME IInv, SafeInv, MoveResurrected
  PROVE  SafeInv'
<1> DEFINE trash == In("unreachable")
<1>1. /\ phase = "rescan" /\ In("base") = {} /\ phase' = "delete"
      /\ place' = [o \in Object |-> IF o \in trash THEN "trash"
                                    ELSE IF place[o] = "reachable" THEN "old" ELSE place[o]]
      /\ doomed' = doomed \cup trash
      /\ UNCHANGED <<kind, refs, roots, wr_object, held>>
  BY DEF MoveResurrected, heap, StillUnreachable
<1>2. /\ held = NoObject /\ doomed \subseteq Object /\ trash \subseteq Object
  BY <1>1 DEF IInv, PhaseInv, Idle, OtherTypes, In
<1>3. /\ roots \cap trash = {} /\ \A p \in Object \ trash : refs[p] \cap trash = {}
  <2>1. HeapInv /\ MarkedRight
    BY <1>1 DEF IInv, ScanInv
  <2> QED BY <1>1, <2>1, ScanEnds
<1>4. \A w \in Weakref : wr_object[w] # NoObject => w \notin trash /\ wr_object[w] \notin trash
  <2>1. trash \subseteq Suspects
    BY <1>1 DEF Suspects, Scanned, In
  <2> QED BY <1>1, <2>1 DEF SafeInv, SuspectsApart
<1>5. Apart(doomed', refs', roots', wr_object')
  <2>1. Apart(doomed, refs, roots, wr_object)
    BY DEF SafeInv, DoomedInv
  <2> HIDE DEF trash
  <2> QED BY <1>1, <1>3, <1>4, <2>1 DEF Apart
<1>6. \A o \in doomed' : place'[o] = "freed" \/ place'[o] = "trash"
  <2>1. \A o \in doomed : place[o] = "freed"
    BY <1>1 DEF SafeInv, DoomedInv
  <2> QED BY <1>1, <1>2, <2>1
<1>7. DoomedInv'
  <2>1. held' \notin doomed'
    BY <1>1, <1>2, CollectorAssumption
  <2> QED BY <1>1, <1>5, <1>6, <2>1 DEF DoomedInv
<1>8. TuplesEnd' /\ SuspectsApart'
  BY <1>1 DEF SafeInv, TuplesEnd, SuspectsApart, Suspects
<1> QED
  BY <1>7, <1>8 DEF SafeInv

(* When nothing is trash any more, all that was is freed: what is left     *)
(* would be tuples only, and one of them has no reference to it.           *)
LEMMA AllIsFreed ==
  ASSUME IInv, SafeInv, Idle, phase = "delete", In("trash") = {}
  PROVE  \A o \in doomed : place[o] = "freed"
<1> DEFINE T == {o \in doomed : place[o] # "freed"}
<1>1. /\ toCall = {} /\ held = NoObject /\ doomed \subseteq Object
      /\ \A o \in Object : place[o] # "trash"
  BY DEF IInv, PhaseInv, Idle, OtherTypes, In
<1>2. \A o \in T : o \in Object /\ place[o] # "unborn" /\ (kind[o] = "tuple" \/ refs[o] = {})
  BY <1>1 DEF SafeInv, DoomedInv
<1>3. ASSUME NEW o \in T PROVE \E p \in T : kind[p] = "tuple" /\ o \in refs[p]
  <2>1. ~IsDying(o)
    BY <1>2 DEF Idle, Quiet, Dying
  <2>2. Refcnt(o) # 0
    BY <1>2, <2>1 DEF IsDying
  <2>3. o \notin roots \cup toCall \cup {held}
    BY <1>1, <1>2, CollectorAssumption DEF SafeInv, DoomedInv, Apart
  <2>4. PICK p \in Object : o \in refs[p]
    BY <1>2, <2>2, <2>3, RefcntOf
  <2>5. p \in doomed
    BY <2>4 DEF SafeInv, DoomedInv, Apart
  <2>6. place[p] # "freed"
    BY <2>4 DEF IInv, HeapInv, Sound
  <2> QED BY <1>2, <2>4, <2>5, <2>6
<1>4. SUFFICES T = {}
  OBVIOUS
<1>5. SUFFICES ASSUME T # {} PROVE FALSE
  OBVIOUS
<1> DEFINE Tuples == {p \in T : kind[p] = "tuple"}
<1>6. Tuples # {}
  BY <1>3, <1>5
<1>7. PICK o \in Tuples : \A p \in Tuples : o \notin refs[p]
  <2>1. Tuples \in SUBSET {o \in Object : kind[o] = "tuple"}
    BY <1>2
  <2> HIDE DEF Tuples
  <2> QED BY <1>6, <2>1 DEF SafeInv, TuplesEnd
<1> QED
  BY <1>3, <1>7

LEMMA FinishIsSafe ==
  ASSUME IInv, SafeInv, Finish
  PROVE  SafeInv'
<1>1. /\ phase = "delete" /\ In("trash") = {} /\ Idle /\ phase' = "idle"
      /\ roots' = roots \cup {o \in In("finalizers") : kind[o] = "legacy"}
      /\ place' = [o \in Object |-> IF o \in In("finalizers") THEN "old" ELSE place[o]]
      /\ UNCHANGED <<kind, refs, wr_object, held, doomed>>
  BY DEF Finish, Moved
<1>2. \A o \in doomed : o \in Object /\ place[o] = "freed"
  BY <1>1, AllIsFreed DEF IInv, OtherTypes
<1>3. \A o \in doomed : place'[o] = "freed"
  BY <1>1, <1>2 DEF In
<1>4. Apart(doomed', refs', roots', wr_object')
  <2>1. Apart(doomed, refs, roots, wr_object)
    BY DEF SafeInv, DoomedInv
  <2>2. \A o \in doomed : o \notin In("finalizers")
    BY <1>2 DEF In
  <2>3. roots' \cap doomed = {}
    BY <1>1, <2>1, <2>2 DEF Apart
  <2> QED BY <1>1, <2>1, <2>3 DEF Apart
<1>5. TuplesEnd' /\ SuspectsApart'
  BY <1>1 DEF SafeInv, TuplesEnd, SuspectsApart, Suspects
<1>6. DoomedInv'
  BY <1>1, <1>3, <1>4 DEF SafeInv, DoomedInv
<1> QED
  BY <1>5, <1>6 DEF SafeInv
-----------------------------------------------------------------------------
LEMMA InitIsSafe == CollectorInit => SafeInv
<1> SUFFICES ASSUME CollectorInit PROVE SafeInv
  OBVIOUS
<1>1. PICK h \in Heaps : kind = h.kind /\ refs = h.refs /\ roots = h.roots
  BY DEF CollectorInit
<1>2. held = NoObject /\ doomed = {} /\ phase = "idle"
  BY DEF CollectorInit
<1>3. TuplesEnd
  <2>1. IsHeap(h)
    BY CollectorAssumption
  <2> QED BY <1>1, <2>1 DEF IsHeap, TuplesEnd
<1>4. SuspectsApart /\ DoomedInv
  BY <1>2 DEF SuspectsApart, Suspects, DoomedInv, Apart
<1> QED
  BY <1>3, <1>4 DEF SafeInv

LEMMA StepIsSafe ==
  ASSUME ~MakesWeakrefs
  PROVE  IInv /\ SafeInv /\ [CollectorNext]_collectorVars => SafeInv'
<1> SUFFICES ASSUME IInv, SafeInv, [CollectorNext]_collectorVars PROVE SafeInv'
  OBVIOUS
<1>1. CASE UNCHANGED collectorVars
  BY <1>1 DEF collectorVars, SafeInv, TuplesEnd, SuspectsApart, Suspects, Scanned, DoomedInv, Apart
<1>2. ASSUME NEW o \in Object,
             FinalizeDying(o) \/ FreeDying(o) \/ Scan(o) \/ Finalize(o) \/ Delete(o) \/ GiveUp(o)
      PROVE  SafeInv'
  BY <1>2, FinalizeDyingIsSafe, FreeDyingIsSafe, ScanIsSafe, FinalizeIsSafe, DeleteIsSafe,
     GiveUpIsSafe
<1> QED
  BY <1>1, <1>2, ClearWeakRefIsSafe, CallCallbackIsSafe, CollectIsSafe,
     MoveLegacyFinalizersIsSafe, ClearWeakrefsIsSafe, DeduceAgainIsSafe, MoveResurrectedIsSafe,
     LetGoIsSafe, FinishIsSafe
     DEF CollectorNext

(* Without new weak references the second invariant holds as well.         *)
THEOREM SafeInvariance ==
  ASSUME ~MakesWeakrefs
  PROVE  CollectorSpec => [](IInv /\ SafeInv)
<1>1. CollectorInit => IInv /\ SafeInv
  BY InitKeeps, InitIsSafe
<1>2. (IInv /\ SafeInv) /\ [CollectorNext]_collectorVars => (IInv /\ SafeInv)'
  BY StepKeeps, StepIsSafe
<1> QED
  BY <1>1, <1>2, PTL DEF CollectorSpec

(* Where Python code makes no new weak references, a finalizer, tp_del or  *)
(* callback that runs at any time gets at no object that the collector has *)
(* given up to tp_clear, however the heap was and whatever other Python    *)
(* code did to it (handle_weakrefs, gc_weakref.txt:7).                     *)
THEOREM CodeIsKeptSafe ==
  ASSUME ~MakesWeakrefs
  PROVE  CollectorSpec => []CodeIsSafe
<1>1. IInv /\ SafeInv => CodeIsSafe
  <2> SUFFICES ASSUME IInv, SafeInv, NEW o \in Callers
               PROVE  Accessible({o}) \cap doomed = {}
    BY DEF CodeIsSafe
  <2>1. HeapInv /\ Apart(doomed, refs, roots, wr_object)
    BY DEF IInv, SafeInv, DoomedInv
  <2>2. o \in Object /\ o \notin doomed
    <3>1. CASE o \in Dying /\ (HasFinalizer(o) \/ kind[o] = "legacy")
      BY <3>1 DEF Dying, HasFinalizer, IInv, DoomedKinds
    <3>2. CASE o \in callback /\ wr_object[o] \in Dying
      <4>1. o \in Weakref /\ wr_object[o] # NoObject
        BY <3>2, CollectorAssumption DEF IInv, OtherTypes, Dying
      <4> QED BY <2>1, <4>1, CollectorAssumption DEF Apart
    <3>3. CASE o \in toCall
      <4>1. o \in Object /\ place[o] = "wrcb" /\ phase = "calls"
        BY <3>3 DEF IInv, OtherTypes, PhaseInv, In
      <4> QED BY <4>1 DEF SafeInv, DoomedInv
    <3> QED BY <3>1, <3>2, <3>3 DEF Callers
  <2>3. {o} \in SUBSET Object /\ {o} \cap doomed = {}
    BY <2>2
  <2>4. \A w \in Weakref \ doomed : wr_object[w] \notin doomed
    <3>1. NoObject \notin doomed
      BY CollectorAssumption DEF IInv, OtherTypes
    <3> QED BY <2>1, <3>1 DEF Apart
  <2>5. Accessible({o}) \subseteq Object \ doomed
    BY <2>1, <2>3, <2>4, AccessibleAvoids DEF Apart
  <2> QED BY <2>5
<1>2. CollectorSpec => [](IInv /\ SafeInv)
  BY SafeInvariance
<1> QED
  BY <1>1, <1>2, PTL

(* And then a collection frees all that it has found to be trash, though   *)
(* tuples have no tp_clear (delete_garbage).                               *)
THEOREM TrashIsFreed ==
  ASSUME ~MakesWeakrefs
  PROVE  CollectorSpec => []TrashGone
<1>1. IInv /\ SafeInv => TrashGone
  BY DEF IInv, OtherTypes, SafeInv, DoomedInv, TrashGone, In
<1>2. CollectorSpec => [](IInv /\ SafeInv)
  BY SafeInvariance
<1> QED
  BY <1>1, <1>2, PTL
=============================================================================
