------------------------------ MODULE MCCollector ------------------------------
(* Heaps of three objects and a weak reference with a callback.             *)
EXTENDS Collector, TLC

CONSTANTS o1, o2, o3, r1, r2

(* There is no object that nothing refers to.                               *)
AllReferred(h) ==
  \A o \in Object \ {r2} : o \in h.roots \/ \E p \in Object : o \in h.refs[p]

(* What is out of the ordinary about a heap: a tp_del or a tuple, a second  *)
(* thing that hangs on the cycle, an old object, a callback that refers to  *)
(* the cycle.                                                               *)
Specialties(h) ==
  {i \in 1 .. 4 : <<h.kind[o2] # "plain", o3 \in h.refs[o2], h.place[o3] = "old",
                    h.refs[r1] # {}>>[i]}

(* o2 has o3 only if o1, which is like it, has the weak reference.          *)
HangsInOrder(h) == o3 \in h.refs[o2] => r1 \in h.refs[o1]

(* A cycle of o1, which has a finalizer, and o2; another object with a      *)
(* finalizer, o3, and the weak reference r1, which may belong to it or hang *)
(* on it; r2 is for a weak reference that Python code makes.  One thing at  *)
(* a time is out of the ordinary.                                           *)
SomeHeaps ==
  {h \in {[kind  |-> (o1 :> "finalizer") @@ (o2 :> kind2) @@ (o3 :> "finalizer")
                     @@ (r1 :> "plain") @@ (r2 :> "plain"),
           refs  |-> (o1 :> refs1 \cup {o2}) @@ (o2 :> refs2 \cup {o1}) @@ (o3 :> refs3)
                     @@ (r1 :> refsR) @@ (r2 :> {}),
           roots |-> variables, wr_object |-> (r1 :> object) @@ (r2 :> NoObject),
           callback |-> {r1},
           place |-> (o1 :> "young") @@ (o2 :> "young") @@ (o3 :> place3)
                     @@ (r1 :> "young") @@ (r2 :> "unborn")] :
             kind2 \in {"plain", "legacy", "tuple"}, refs1 \in {{}, {o3}, {r1}},
             refs2 \in {{}, {o3}}, refs3 \in {{}, {o1}}, refsR \in {{}, {o1}},
             variables \in SUBSET {o3, r1}, object \in {o1, o3}, place3 \in {"young", "old"}} :
     AllReferred(h) /\ HangsInOrder(h) /\ Cardinality(Specialties(h)) <= 1}
=============================================================================
