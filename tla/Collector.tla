------------------------------ MODULE Collector ------------------------------
(* The cyclic garbage collector (Modules/gcmodule.c) with the parts of      *)
(* deallocation that run Python code (Objects/typeobject.c,                 *)
(* Objects/object.c, Objects/weakrefobject.c).                              *)
(*                                                                          *)
(* The lists of the collector are sets: the objects whose place is the name *)
(* of the list.  A piece of Python code (a finalizer, a callback, or what   *)
(* another thread does while one of them has the GIL) is one write to the   *)
(* objects it can get at.  An object whose reference count is 0 is          *)
(* deallocated before anything else happens.                                *)
EXTENDS Integers, FiniteSets

CONSTANTS
  Object,         \* all objects that the collector tracks
  Weakref,        \* those of them that are weak references
  NoObject,
  Heaps,          \* the heaps to begin with: records of what the variables say
  MakesWeakrefs,  \* may Python code make new weak references?
  MaxCollections  \* how many collections there are

Kinds == {"plain", "finalizer", "legacy", "tuple"}

(* A heap between two collections.  An unborn object is none yet.  Tuples   *)
(* have no tp_clear since no cycle is made of tuples only                   *)
(* (Doc/c-api/typeobj.rst:1501).                                            *)
IsHeap(h) ==
  /\ h.kind \in [Object -> Kinds] /\ h.refs \in [Object -> SUBSET Object]
  /\ h.roots \subseteq Object /\ h.callback \subseteq Weakref
  /\ h.wr_object \in [Weakref -> Object \cup {NoObject}]
  /\ h.place \in [Object -> {"young", "old", "unborn"}]
  /\ \A o \in Object : h.place[o] = "unborn" =>
       /\ h.refs[o] = {} /\ o \notin h.roots /\ \A p \in Object : o \notin h.refs[p]
       /\ \A w \in Weakref : h.wr_object[w] # NoObject => o \notin {w, h.wr_object[w]}
  /\ \A T \in SUBSET {o \in Object : h.kind[o] = "tuple"} :
       T # {} => \E o \in T : \A p \in T : o \notin h.refs[p]

ASSUME CollectorAssumption == /\ Weakref \subseteq Object /\ IsFiniteSet(Object)
                              /\ NoObject \notin Object
                              /\ \A h \in Heaps : IsHeap(h)
                              /\ MakesWeakrefs \in BOOLEAN /\ MaxCollections \in Nat

VARIABLES
  kind,       \* what the type of each object has: a finalizer, a tp_del, no tp_clear
  refs,       \* the objects each object refers to; of a weakref, its callback does
  roots,      \* the objects that variables and modules refer to
  wr_object,  \* wr_object of each weak reference
  callback,   \* the weak references that have a callback
  place,      \* the list that each object is in
  gcRefs,     \* gc_refs of each object
  toCall,     \* wrcb_to_call of handle_weakrefs
  finalized,  \* the objects that are marked as finalized
  held,       \* the object that the collector has a reference to during a call
  doomed,     \* history: all that delete_garbage was given
  phase,      \* where gc_collect_main is
  collections \* how many collections have begun

heap == <<refs, roots, wr_object, callback>>
collectorVars == <<kind, refs, roots, wr_object, callback, place, gcRefs, toCall, finalized,
                   held, doomed, phase, collections>>

Lists  == {"unborn", "young", "old", "base", "reachable", "unreachable", "finalizers",
            "wrcb", "seen", "trash", "freed"}
Phases == {"idle", "scan", "sort", "calls", "finalize", "rescan", "delete"}

In(p) == {o \in Object : place[o] = p}
Gone == In("freed") \cup In("unborn")

CollectorTypeOK ==
  /\ kind \in [Object -> Kinds]
  /\ refs \in [Object -> SUBSET Object] /\ roots \subseteq Object
  /\ wr_object \in [Weakref -> Object \cup {NoObject}] /\ callback \subseteq Weakref
  /\ place \in [Object -> Lists] /\ gcRefs \in [Object -> Nat]
  /\ toCall \subseteq In("wrcb") /\ finalized \subseteq Object /\ doomed \subseteq Object
  /\ held \in Object \cup {NoObject} /\ phase \in Phases /\ collections \in 0..MaxCollections
  /\ \A o \in Gone : refs[o] = {} /\ \A p \in Object : o \notin refs[p]

-----------------------------------------------------------------------------
(* References and what can be reached with them.                            *)

Referrers(o) == {p \in Object : o \in refs[p]}

(* Py_REFCNT: references of other objects, of variables, and of the         *)
(* collector around a call.                                                 *)
Refcnt(o) == Cardinality(Referrers(o)) + (IF o \in roots THEN 1 ELSE 0)
             + (IF o \in toCall \cup {held} THEN 1 ELSE 0)

(* The objects that are being deallocated.                                  *)
IsDying(o) == place[o] \notin {"freed", "unborn"} /\ Refcnt(o) = 0
Dying == {o \in Object : IsDying(o)}

Quiet == Dying = {}

(* What can be reached from S when o leads to the objects of step[o]: the   *)
(* objects that are in every set with S which no step leaves.               *)
ClosedUnder(R, step) == \A o \in R : step[o] \subseteq R

Closure(S, step) ==
  LET closed == {T \in SUBSET Object : S \subseteq T /\ ClosedUnder(T, step)}
  IN  {o \in Object : \A T \in closed : o \in T}

Reachable(S) == Closure(S, refs)

(* Python code gets through a weak reference as long as the object is not   *)
(* being deallocated.                                                       *)
Seen(o) == refs[o] \cup {x \in Object : /\ o \in Weakref /\ wr_object[o] = x
                                        /\ Refcnt(x) > 0}

Accessible(own) == Closure(roots \cup own, [o \in Object |-> Seen(o)])

-----------------------------------------------------------------------------
(* What a piece of Python code may leave behind: one write, or none.        *)

Mutable == {o \in Object \ Weakref : kind[o] # "tuple"}

now == [refs |-> refs, roots |-> roots, wr_object |-> wr_object, place |-> place]

Outcomes(own) ==
  LET mine == Accessible(own)
  IN  {now}
      \cup {[now EXCEPT !.roots = @ \cup {x}] : x \in mine}
      \cup {[now EXCEPT !.roots = @ \ {x}] : x \in roots}
      \cup {[now EXCEPT !.refs[p] = IF x \in @ THEN @ \ {x} ELSE @ \cup {x}] :
              p \in mine \cap Mutable, x \in mine}
      \cup {[refs |-> refs, roots |-> roots \cup {u}, wr_object |-> [wr_object EXCEPT ![u] = x],
              place |-> [place EXCEPT ![u] = "young"]] :
              u \in IF MakesWeakrefs THEN In("unborn") ELSE {}, x \in mine \cap Mutable}

(* The code with the objects of own at hand runs, and leaves h behind.      *)
Becomes(h) == refs' = h.refs /\ roots' = h.roots /\ wr_object' = h.wr_object /\ place' = h.place

-----------------------------------------------------------------------------
(* Deallocation: subtype_dealloc and what it calls, and weakref_dealloc.    *)

HasFinalizer(o) == kind[o] = "finalizer" /\ o \notin finalized

WeakrefsTo(o) == {w \in Weakref : wr_object[w] = o}

(* The finalizer is called from the deallocation; the object is tracked     *)
(* again for that, in the youngest generation.                              *)
FinalizeDying(o) ==
  /\ IsDying(o) /\ HasFinalizer(o)
  /\ finalized' = finalized \cup {o}
  /\ \E h \in Outcomes({o}) : Becomes([h EXCEPT !.place[o] = "young"])
  /\ UNCHANGED <<kind, callback, gcRefs, toCall, held, doomed, phase, collections>>

(* PyObject_ClearWeakRefs, one weak reference of it: the callback is called *)
(* if the weak reference is not dying, too, and given up.                   *)
ClearWeakRef(o, w) ==
  /\ IsDying(o) /\ ~HasFinalizer(o) /\ w \in WeakrefsTo(o)
  /\ callback' = callback \ {w}
  /\ \E h \in IF w \in callback /\ ~IsDying(w) THEN Outcomes({w}) ELSE {now} :
       Becomes([h EXCEPT !.refs[w] = {}, !.wr_object[w] = NoObject])
  /\ UNCHANGED <<kind, gcRefs, toCall, finalized, held, doomed, phase, collections>>

(* What is left of the object goes, or a tp_del has made a new reference.   *)
FreeDying(o) ==
  /\ IsDying(o) /\ ~HasFinalizer(o) /\ WeakrefsTo(o) = {}
  /\ \E h \in IF kind[o] = "legacy" THEN Outcomes({o}) ELSE {now} :
       IF o \in h.roots \/ \E p \in Object : o \in h.refs[p]
         THEN Becomes([h EXCEPT !.place[o] = "young"])
         ELSE Becomes([h EXCEPT
                !.refs[o] = {}, !.place[o] = "freed",
                !.wr_object = [w \in Weakref |-> IF o \in {w, @[w]} THEN NoObject ELSE @[w]]])
  /\ callback' = callback \ {o}
  /\ UNCHANGED <<kind, gcRefs, toCall, finalized, held, doomed, phase, collections>>

-----------------------------------------------------------------------------
(* deduce_unreachable.  Variants named "faulty" are not part of the model:  *)
(* each stands for a mistake in the code that the properties are tried on.  *)

(* update_refs and subtract_refs.                                           *)
Deduce(base) ==
  /\ place'  = [o \in Object |-> IF o \in base THEN "base" ELSE place[o]]
  /\ gcRefs' = [o \in Object |-> IF o \in base
                                   THEN Refcnt(o) - Cardinality(Referrers(o) \cap base)
                                   ELSE 0]

(* Faulty: what was moved to unreachable stays there.                       *)
faultyFound(o) == {p \in refs[o] : place[p] = "base" /\ gcRefs[p] = 0}

(* visit_reachable: what o refers to that is to be scanned (again).         *)
Found(o) == {p \in refs[o] : \/ place[p] = "unreachable"
                             \/ place[p] = "base" /\ gcRefs[p] = 0}

(* move_unreachable for the object o.                                       *)
Scan(o) ==
  /\ phase \in {"scan", "rescan"} /\ place[o] = "base"
  /\ IF gcRefs[o] > 0
       THEN /\ place'  = [p \in Object |-> CASE p = o -> "reachable"
                                           [] p \in Found(o) \ {o} -> "base"
                                           [] OTHER -> place[p]]
            /\ gcRefs' = [p \in Object |-> IF p \in Found(o) THEN 1 ELSE gcRefs[p]]
       ELSE /\ place' = [place EXCEPT ![o] = "unreachable"]
            /\ UNCHANGED gcRefs
  /\ UNCHANGED <<kind, heap, callback, toCall, finalized, held, doomed, phase, collections>>

Moved(from, to) == [o \in Object |-> IF o \in from THEN to ELSE place[o]]

-----------------------------------------------------------------------------
(* gc_collect_main                                                          *)

(* The collector goes on when nothing is being deallocated and no call of   *)
(* its own is under way.                                                    *)
Idle == Quiet /\ held = NoObject

Collect(full) ==
  /\ phase = "idle" /\ Idle /\ collections < MaxCollections
  /\ Deduce(In("young") \cup IF full THEN In("old") ELSE {})
  /\ phase' = "scan" /\ collections' = collections + 1
  /\ UNCHANGED <<kind, heap, toCall, finalized, held, doomed>>

(* What is reachable moves on to the next generation; objects with tp_del   *)
(* and what they refer to, to the finalizers.                               *)
MoveLegacyFinalizers ==
  /\ phase = "scan" /\ In("base") = {}
  /\ LET legacy == {o \in In("unreachable") : kind[o] = "legacy"}
         theirs == Closure(legacy, [o \in Object |-> refs[o] \cap In("unreachable")])
     IN  place' = [o \in Object |-> CASE o \in theirs -> "finalizers"
                                     [] place[o] = "reachable" -> "old"
                                     [] OTHER -> place[o]]
  /\ phase' = "sort"
  /\ UNCHANGED <<kind, heap, gcRefs, toCall, finalized, held, doomed, collections>>

(* Faulty: weak references that are trash themselves are left (bpo-38006).  *)
faultyCleared(trash) == {w \in Weakref : wr_object[w] \in trash}

(* The weak references to the trash and in it.                              *)
Cleared(trash) == {w \in Weakref : w \in trash \/ wr_object[w] \in trash}

(* The first pass of handle_weakrefs.                                       *)
ClearWeakrefs ==
  /\ phase = "sort"
  /\ LET trash == In("unreachable")
     IN  /\ wr_object' = [w \in Weakref |-> IF w \in Cleared(trash) THEN NoObject ELSE wr_object[w]]
         /\ toCall' = {w \in callback \ trash : wr_object[w] \in trash}
  /\ place' = Moved(toCall', "wrcb")
  /\ phase' = "calls"
  /\ UNCHANGED <<kind, refs, roots, callback, gcRefs, finalized, held, doomed, collections>>

(* Its second pass, one callback.                                           *)
CallCallback(w) ==
  /\ phase = "calls" /\ w \in toCall /\ Idle
  /\ \E h \in Outcomes({w}) : Becomes(h)
  /\ toCall' = toCall \ {w} /\ held' = w
  /\ UNCHANGED <<kind, callback, gcRefs, finalized, doomed, phase, collections>>

(* finalize_garbage for the object o.                                       *)
Finalize(o) ==
  /\ \/ phase = "calls" /\ toCall = {}
     \/ phase = "finalize"
  /\ place[o] = "unreachable" /\ Idle
  /\ phase' = "finalize"
  /\ IF HasFinalizer(o)
       THEN /\ finalized' = finalized \cup {o} /\ held' = o
            /\ \E h \in Outcomes({o}) : Becomes([h EXCEPT !.place[o] = "seen"])
       ELSE /\ place' = [place EXCEPT ![o] = "seen"]
            /\ UNCHANGED <<finalized, held, refs, roots, wr_object>>
  /\ UNCHANGED <<kind, callback, gcRefs, toCall, doomed, collections>>

(* handle_resurrected_objects: what is still unreachable.                   *)
DeduceAgain ==
  /\ phase \in {"calls", "finalize"} /\ toCall = {} /\ In("unreachable") = {} /\ Idle
  /\ Deduce(In("seen"))
  /\ phase' = "rescan"
  /\ UNCHANGED <<kind, heap, toCall, finalized, held, doomed, collections>>

(* Faulty: what finalizers have resurrected is deleted, too.                *)
faultyStillUnreachable == In("unreachable") \cup In("reachable")

StillUnreachable == In("unreachable")

MoveResurrected ==
  /\ phase = "rescan" /\ In("base") = {}
  /\ place' = [o \in Object |-> IF o \in StillUnreachable THEN "trash"
                                ELSE IF place[o] = "reachable" THEN "old" ELSE place[o]]
  /\ doomed' = doomed \cup StillUnreachable
  /\ phase' = "delete"
  /\ UNCHANGED <<kind, heap, gcRefs, toCall, finalized, held, collections>>

(* delete_garbage for the object o: tp_clear, if its type has one.          *)
Delete(o) ==
  /\ phase = "delete" /\ place[o] = "trash" /\ Idle
  /\ IF kind[o] = "tuple"
       THEN place' = [place EXCEPT ![o] = "old"] /\ UNCHANGED <<heap, held>>
       ELSE /\ refs' = [refs EXCEPT ![o] = {}] /\ held' = o
            /\ wr_object' = IF o \in Weakref THEN [wr_object EXCEPT ![o] = NoObject] ELSE wr_object
            /\ callback' = callback \ {o}
            /\ UNCHANGED <<roots, place>>
  /\ UNCHANGED <<kind, gcRefs, toCall, finalized, doomed, phase, collections>>

(* The end of a call: the collector gives up its reference; a weak          *)
(* reference or an object of the trash that is still there moves on.        *)
LetGo ==
  /\ held # NoObject /\ Quiet
  /\ held' = NoObject
  /\ place' = IF phase # "finalize" /\ Refcnt(held) > 1
                THEN [place EXCEPT ![held] = "old"] ELSE place
  /\ UNCHANGED <<kind, heap, gcRefs, toCall, finalized, doomed, phase, collections>>

(* handle_legacy_finalizers, and the end of the collection.                 *)
Finish ==
  /\ phase = "delete" /\ In("trash") = {} /\ Idle
  /\ roots' = roots \cup {o \in In("finalizers") : kind[o] = "legacy"}
  /\ place' = Moved(In("finalizers"), "old")
  /\ phase' = "idle"
  /\ UNCHANGED <<kind, refs, wr_object, callback, gcRefs, toCall, finalized, held, doomed,
                 collections>>

(* Between two collections the program gives up a variable.                 *)
GiveUp(o) ==
  /\ phase = "idle" /\ o \in roots /\ collections \in 1..(MaxCollections - 1) /\ Idle
  /\ roots' = roots \ {o}
  /\ UNCHANGED <<kind, refs, wr_object, callback, place, gcRefs, toCall, finalized, held, doomed,
                 phase, collections>>

CollectorInit ==
  /\ \E h \in Heaps :
       /\ kind = h.kind /\ refs = h.refs /\ roots = h.roots /\ wr_object = h.wr_object
       /\ callback = h.callback /\ place = h.place
  /\ gcRefs = [o \in Object |-> 0]
  /\ toCall = {} /\ finalized = {} /\ held = NoObject /\ doomed = {}
  /\ phase = "idle" /\ collections = 0

CollectorNext ==
  \/ \E o \in Object : \/ FinalizeDying(o) \/ FreeDying(o) \/ Scan(o) \/ Finalize(o)
                       \/ Delete(o) \/ GiveUp(o)
  \/ \E o \in Object, w \in Weakref : ClearWeakRef(o, w)
  \/ \E w \in Weakref : CallCallback(w)
  \/ \E full \in BOOLEAN : Collect(full)
  \/ MoveLegacyFinalizers \/ ClearWeakrefs \/ DeduceAgain \/ MoveResurrected
  \/ LetGo \/ Finish

CollectorSpec == CollectorInit /\ [][CollectorNext]_collectorVars

-----------------------------------------------------------------------------
(* What is deduced to be unreachable is what nothing outside of the scanned *)
(* objects leads to, and nothing else (deduce_unreachable, the comment at   *)
(* gcmodule.c:558).                                                         *)
DeducedRight ==
  phase \in {"scan", "rescan"} /\ In("base") = {} =>
    LET scanned == In("reachable") \cup In("unreachable")
        outside == roots \cup toCall \cup {held} \cup (Object \ scanned)
    IN  In("unreachable") = scanned \ Reachable(outside \ {NoObject})

(* No object is cleared before its finalizer has been called (PEP 442).     *)
FinalizedFirst == \A o \in doomed : kind[o] = "finalizer" => o \in finalized

CollectorInv == CollectorTypeOK /\ DeducedRight /\ FinalizedFirst

(* The objects whose Python code the next step may run, or on whose behalf  *)
(* it calls a callback.                                                     *)
Callers == {o \in Dying : HasFinalizer(o) \/ (kind[o] = "legacy" /\ WeakrefsTo(o) = {})}
           \cup {w \in callback \ Dying : wr_object[w] \in Dying}
           \cup toCall

(* Python code does not get at an object that the collector has given up:   *)
(* tp_clear has been called for it or will be (gc_weakref.txt:7).           *)
CodeIsSafe == \A o \in Callers : Accessible({o}) \cap doomed = {}

(* A collection frees all that it has found to be trash.                    *)
TrashGone == phase = "idle" => doomed \subseteq In("freed")
=============================================================================
