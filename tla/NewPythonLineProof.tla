------------------------- MODULE NewPythonLineProof -------------------------
(***************************************************************************)
(* A line of the NewPython front end, conversion by conversion: what       *)
(* brackets, colons of lambdas and commas of calls become, which statements*)
(* are passed on to which conversion, and which of them become the Python  *)
(* that they stand for.  Print and plain statements are in NewPythonProof. *)
(*                                                                         *)
(* In this order: lines as sequences of words; what each conversion does to*)
(* a line; the expressions, each by itself; the kinds of statements.       *)
(*                                                                         *)
(* Induction is over sets of numbers (NatInSet), with the statement to be  *)
(* proved as the condition of the set.                                     *)
(***************************************************************************)
EXTENDS NewPythonParser, SequenceTheorems, NaturalsInduction, FiniteSetTheorems, TLAPS

-----------------------------------------------------------------------------
(* Lines: sequences of words, put together with Cat and FlattenSeq. *)

(* Induction, of a set instead of a predicate. *)
LEMMA NatInSet ==
  ASSUME NEW S, 0 \in S, \A n \in Nat : n \in S => n + 1 \in S
  PROVE  Nat \subseteq S
<1> DEFINE I == Nat \ S
           R == OpToRel(<, Nat)
<1>1. \A x, y \in Nat : <<y, x>> \notin R => x <= y
  BY DEF OpToRel
<1> HIDE DEF R
<1> SUFFICES ASSUME I # {} PROVE FALSE
  OBVIOUS
<1>2. PICK x \in I : \A y \in I : <<y, x>> \notin R
  BY NatLessThanWellFounded, WFMin DEF R
<1>3. \A y \in I : x <= y
  BY <1>1, <1>2
<1>4. x # 0 /\ x - 1 \in Nat /\ x - 1 + 1 = x
  BY <1>2
<1>5. x - 1 \in I
  BY <1>2, <1>4
<1> QED
  BY <1>3, <1>4, <1>5

(* A function on 1 .. n is a sequence of length n. *)
LEMMA SeqOfFunction ==
  ASSUME NEW T, NEW n \in Nat, NEW f \in [1 .. n -> T]
  PROVE  f \in Seq(T) /\ Len(f) = n
<1>1. f \in Seq(T)
  BY SeqDef
<1> QED BY <1>1, LenProperties

(* f is the recursive function that FlattenSeq is the last value of. *)
FlatStep(seqs, f, n) == f = [i \in 1 .. n |-> IF i = 1 THEN seqs[i] ELSE f[i-1] \o seqs[i]]

(* The lengths up to which such a function exists. *)
CanFlat(seqs) == {n \in Nat : \E f : FlatStep(seqs, f, n)}

(* It exists for every length. *)
LEMMA FlatExists ==
  ASSUME NEW seqs, NEW n \in Nat
  PROVE  \E f : FlatStep(seqs, f, n)
<1>1. 0 \in CanFlat(seqs)
  <2>1. FlatStep(seqs, [i \in {} |-> 0], 0)
    BY DEF FlatStep
  <2> QED BY <2>1 DEF CanFlat
<1>2. ASSUME NEW m \in Nat, m \in CanFlat(seqs)
      PROVE  m + 1 \in CanFlat(seqs)
  <2>1. PICK f : FlatStep(seqs, f, m)
    BY <1>2 DEF CanFlat
  <2> DEFINE g == [i \in 1 .. m + 1 |-> IF i = 1 THEN seqs[i] ELSE f[i-1] \o seqs[i]]
  <2>2. \A i \in 1 .. m : f[i] = IF i = 1 THEN seqs[i] ELSE f[i-1] \o seqs[i]
    <3>1. f = [i \in 1 .. m |-> IF i = 1 THEN seqs[i] ELSE f[i-1] \o seqs[i]]
      BY <2>1 DEF FlatStep
    <3> HIDE DEF g
    <3> QED BY <3>1
  <2>3. \A i \in 1 .. m : i \in 1 .. m + 1
    OBVIOUS
  <2>4. \A i \in 1 .. m : g[i] = f[i]
    BY <2>2, <2>3
  <2>5. FlatStep(seqs, g, m + 1)
    <3>1. \A i \in 1 .. m + 1 : i # 1 => i - 1 \in 1 .. m
      OBVIOUS
    <3>2. \A i \in 1 .. m + 1 : g[i] = IF i = 1 THEN seqs[i] ELSE g[i-1] \o seqs[i]
      BY <2>4, <3>1
    <3> QED BY <3>2 DEF FlatStep
  <2> HIDE DEF g
  <2>6. m + 1 \in Nat
    OBVIOUS
  <2> QED BY <2>5, <2>6 DEF CanFlat
<1>3. Nat \subseteq CanFlat(seqs)
  BY <1>1, <1>2, NatInSet
<1> QED
  BY <1>3 DEF CanFlat

(* FlattenSeq is the last value of a function of that kind. *)
LEMMA FlattenDef ==
  ASSUME NEW seqs, Len(seqs) \in Nat \ {0}
  PROVE  \E f : FlatStep(seqs, f, Len(seqs)) /\ FlattenSeq(seqs) = f[Len(seqs)]
<1> DEFINE F == CHOOSE f : FlatStep(seqs, f, Len(seqs))
<1>1. FlatStep(seqs, F, Len(seqs))
  BY FlatExists
<1>2. FlattenSeq(seqs) = F[Len(seqs)]
  BY DEF FlattenSeq, FlatStep
<1> QED BY <1>1, <1>2

(* Two such functions agree as long as their sequences do. *)
LEMMA FlatUnique ==
  ASSUME NEW a, NEW b, NEW f, NEW g, NEW m \in Nat, NEW n \in Nat, m <= n,
         FlatStep(a, f, m), FlatStep(b, g, n), \A i \in 1 .. m : a[i] = b[i]
  PROVE  \A i \in 1 .. m : f[i] = g[i]
<1> DEFINE S == {i \in Nat : i \in 1 .. m => f[i] = g[i]}
<1>1. \A i \in 1 .. m : f[i] = IF i = 1 THEN a[i] ELSE f[i-1] \o a[i]
  <2>1. f = [i \in 1 .. m |-> IF i = 1 THEN a[i] ELSE f[i-1] \o a[i]]
    BY DEF FlatStep
  <2> QED BY <2>1
<1>2. \A i \in 1 .. n : g[i] = IF i = 1 THEN b[i] ELSE g[i-1] \o b[i]
  <2>1. g = [i \in 1 .. n |-> IF i = 1 THEN b[i] ELSE g[i-1] \o b[i]]
    BY DEF FlatStep
  <2> QED BY <2>1
<1>3. \A i \in 1 .. m : i \in 1 .. n
  OBVIOUS
<1>4. 0 \in S
  OBVIOUS
<1>5. \A i \in Nat : i \in S => i + 1 \in S
  <2> SUFFICES ASSUME NEW i \in Nat, i \in S, i + 1 \in 1 .. m PROVE f[i + 1] = g[i + 1]
    OBVIOUS
  <2>1. CASE i = 0
    BY <2>1, <1>1, <1>2, <1>3
  <2>2. CASE i # 0
    <3>1. i \in 1 .. m /\ i + 1 - 1 = i /\ i + 1 # 1
      BY <2>2
    <3>2. f[i] = g[i]
      BY <3>1
    <3> QED BY <1>1, <1>2, <1>3, <3>1, <3>2
  <2> QED BY <2>1, <2>2
<1> HIDE DEF S
<1>6. Nat \subseteq S
  BY <1>4, <1>5, NatInSet
<1> QED BY <1>6 DEF S

(* The first n of a sequence. *)
Firsts(f, n) == [k \in 1 .. n |-> f[k]]

(* The first n are flattened on the way to the first n + 1. *)
LEMMA FlatOfFirsts ==
  ASSUME NEW f, NEW g, NEW h, NEW n \in Nat, NEW N, N = n + 1,
         FlatStep(Firsts(f, n), g, n), FlatStep(f, h, N)
  PROVE  \A i \in 1 .. n : g[i] = h[i]
<1>1. \A i \in 1 .. n : Firsts(f, n)[i] = f[i]
  BY DEF Firsts
<1>2. N \in Nat /\ n <= N
  OBVIOUS
<1> QED BY <1>1, <1>2, FlatUnique

(* Nothing is flattened to nothing. *)
LEMMA FlatEmpty ==
  ASSUME NEW T, NEW f \in [1 .. 0 -> T]
  PROVE  f = <<>> /\ FlattenSeq(f) = <<>>
<1>1. f \in Seq(T) /\ Len(f) = 0
  BY SeqOfFunction
<1>2. f = <<>>
  BY <1>1
<1> QED BY <1>1, <1>2 DEF FlattenSeq

(* FlattenSeq, one sequence at a time: the last one is appended. *)
LEMMA FlatLast ==
  ASSUME NEW S, NEW n \in Nat, NEW f \in [1 .. n + 1 -> Seq(S)]
  PROVE  /\ Firsts(f, n) \in [1 .. n -> Seq(S)]
         /\ FlattenSeq(f) = FlattenSeq(Firsts(f, n)) \o f[n + 1]
<1>1. Firsts(f, n) \in [1 .. n -> Seq(S)]
  BY DEF Firsts
<1>2. Len(f) = n + 1 /\ n + 1 \in Nat \ {0} /\ Len(Firsts(f, n)) = n
  BY <1>1, SeqOfFunction
<1>3. PICK h : FlatStep(f, h, n + 1) /\ FlattenSeq(f) = h[n + 1]
  BY <1>2, FlattenDef
<1>4. h[n + 1] = IF n + 1 = 1 THEN f[n + 1] ELSE h[n] \o f[n + 1]
  <2>1. h = [i \in 1 .. n + 1 |-> IF i = 1 THEN f[i] ELSE h[i-1] \o f[i]]
    BY <1>3 DEF FlatStep
  <2>2. \A i \in 1 .. n + 1 : h[i] = IF i = 1 THEN f[i] ELSE h[i-1] \o f[i]
    BY <2>1
  <2>3. n + 1 \in 1 .. n + 1 /\ n + 1 - 1 = n
    OBVIOUS
  <2> QED BY <2>2, <2>3
<1>5. CASE n = 0
  <2>1. FlattenSeq(Firsts(f, n)) = <<>>
    BY <1>1, <1>5, FlatEmpty
  <2>2. f[n + 1] \in Seq(S)
    OBVIOUS
  <2> QED BY <1>1, <1>3, <1>4, <1>5, <2>1, <2>2, ConcatEmptySeq
<1>6. CASE n # 0
  <2>1. PICK g : FlatStep(Firsts(f, n), g, n) /\ FlattenSeq(Firsts(f, n)) = g[n]
    BY <1>2, <1>6, FlattenDef
  <2>3. \A i \in 1 .. n : g[i] = h[i]
    BY <1>3, <2>1, FlatOfFirsts
  <2>4. n \in 1 .. n /\ n + 1 # 1
    BY <1>6
  <2>5. h[n + 1] = h[n] \o f[n + 1]
    BY <1>4, <2>4
  <2>6. FlattenSeq(f) = FlattenSeq(Firsts(f, n)) \o f[n + 1]
    BY <1>3, <2>1, <2>3, <2>4, <2>5
  <2> QED BY <1>1, <2>6
<1> QED BY <1>5, <1>6

(* m of a sequence, after its first n. *)
Shifted(f, n, m) == [k \in 1 .. m |-> f[n + k]]

(* Whatever holds of the empty sequence and of two sequences put together, *)
(* holds of all of them put together.                                      *)
LEMMA FlatIn ==
  ASSUME NEW S, NEW P \in SUBSET Seq(S), <<>> \in P, \A s, t \in P : s \o t \in P,
         NEW n \in Nat, NEW f \in [1 .. n -> P]
  PROVE  FlattenSeq(f) \in P
<1> DEFINE X == {i \in Nat : \A g \in [1 .. i -> P] : FlattenSeq(g) \in P}
<1>1. 0 \in X
  BY FlatEmpty
<1>2. \A i \in Nat : i \in X => i + 1 \in X
  <2> SUFFICES ASSUME NEW i \in Nat, i \in X
               PROVE  \A g \in [1 .. i + 1 -> P] : FlattenSeq(g) \in P
    <3>1. \A i \in Nat : i + 1 \in Nat
      OBVIOUS
    <3> QED BY <3>1, Zenon
  <2> TAKE g \in [1 .. i + 1 -> P]
  <2>1. g \in [1 .. i + 1 -> Seq(S)]
    OBVIOUS
  <2>2. Firsts(g, i) \in [1 .. i -> P]
    BY DEF Firsts
  <2>3. FlattenSeq(Firsts(g, i)) \in P
    BY <2>2
  <2>4. g[i + 1] \in P
    OBVIOUS
  <2>5. FlattenSeq(g) = FlattenSeq(Firsts(g, i)) \o g[i + 1]
    BY <2>1, FlatLast
  <2> QED BY <2>3, <2>4, <2>5
<1> HIDE DEF X
<1>3. Nat \subseteq X
  BY <1>1, <1>2, NatInSet
<1> QED BY <1>3 DEF X

-----------------------------------------------------------------------------
(* Lines and their concatenation. *)

(* Words with any marks, those of NewPython and those of Python. *)
Words == [text : Texts, left : {"", "[", "]", "\"", ":"}, right : {"", "[", "]", "\"", ":"}]

(* A line of words, in NewPython or in Python. *)
Line  == Seq(Words)

(* Two lines put together; an operator, so that the provers do not look    *)
(* into it.                                                                *)
Cat(s, t) == s \o t

(* n lines. *)
Pieces(n) == [1 .. n -> Line]

(* The length of two lines put together. *)
LEMMA CatLine ==
  ASSUME NEW s \in Line, NEW t \in Line
  PROVE  Cat(s, t) \in Line /\ Len(Cat(s, t)) = Len(s) + Len(t)
BY ConcatProperties DEF Cat, Line

(* A line has words from the first to the last. *)
LEMMA LenLine ==
  ASSUME NEW s \in Line
  PROVE  Len(s) \in Nat /\ DOMAIN s = 1 .. Len(s) /\ \A i \in 1 .. Len(s) : s[i] \in Words
BY LenProperties DEF Line

(* The words of two lines put together. *)
LEMMA CatAt ==
  ASSUME NEW s \in Line, NEW t \in Line, NEW i \in Nat
  PROVE  /\ 1 <= i /\ i <= Len(s) => Cat(s, t)[i] = s[i]
         /\ Len(s) < i /\ i <= Len(s) + Len(t) => Cat(s, t)[i] = t[i - Len(s)]
<1>1. Len(s) \in Nat /\ Len(t) \in Nat
  BY LenLine
<1>2. \A j \in 1 .. Len(s) + Len(t) : (s \o t)[j] = IF j <= Len(s) THEN s[j] ELSE t[j - Len(s)]
  BY ConcatProperties DEF Line
<1> QED BY <1>1, <1>2 DEF Cat

(* It does not matter which lines are put together first. *)
LEMMA CatAssoc ==
  ASSUME NEW s \in Line, NEW t \in Line, NEW u \in Line
  PROVE  Cat(Cat(s, t), u) = Cat(s, Cat(t, u))
BY ConcatAssociative DEF Cat, Line

(* The empty line. *)
LEMMA NilLine == <<>> \in Line /\ Len(<<>>) = 0
BY EmptySeq DEF Line

(* The empty line adds nothing. *)
LEMMA CatNil ==
  ASSUME NEW s \in Line
  PROVE  Cat(s, <<>>) = s /\ Cat(<<>>, s) = s
BY ConcatEmptySeq, Zenon DEF Cat, Line

(* Lines with the same words are the same. *)
LEMMA LineEqual ==
  ASSUME NEW s \in Line, NEW t \in Line, Len(s) = Len(t), \A i \in 1 .. Len(s) : s[i] = t[i]
  PROVE  s = t
BY SeqEqual DEF Line

(* What follows the same line is the same. *)
LEMMA CatCancelLeft ==
  ASSUME NEW s \in Line, NEW t \in Line, NEW u \in Line, Cat(s, t) = Cat(s, u)
  PROVE  t = u
<1>0. /\ Len(s) \in Nat /\ Len(t) \in Nat /\ Len(u) \in Nat
      /\ Len(Cat(s, t)) = Len(s) + Len(t) /\ Len(Cat(s, u)) = Len(s) + Len(u)
  BY CatLine, LenLine, Zenon
<1>1. Len(s) \in Nat /\ Len(t) \in Nat /\ Len(u) \in Nat /\ Len(t) = Len(u)
  BY <1>0
<1>2. ASSUME NEW i \in 1 .. Len(t)  PROVE t[i] = u[i]
  <2>1. /\ i + Len(s) \in Nat /\ Len(s) < i + Len(s) /\ i + Len(s) <= Len(s) + Len(t)
        /\ (i + Len(s)) - Len(s) = i
    BY <1>1
  <2>2. Cat(s, t)[i + Len(s)] = t[i] /\ Cat(s, u)[i + Len(s)] = u[i]
    BY <1>1, <2>1, CatAt
  <2> QED BY <2>2
<1> QED BY <1>1, <1>2, LineEqual

(* What is followed by the same line is the same. *)
LEMMA CatCancelRight ==
  ASSUME NEW s \in Line, NEW t \in Line, NEW u \in Line, Cat(s, u) = Cat(t, u)
  PROVE  s = t
<1>0. /\ Len(s) \in Nat /\ Len(t) \in Nat /\ Len(u) \in Nat
      /\ Len(Cat(s, u)) = Len(s) + Len(u) /\ Len(Cat(t, u)) = Len(t) + Len(u)
  BY CatLine, LenLine, Zenon
<1>1. Len(s) \in Nat /\ Len(t) \in Nat /\ Len(u) \in Nat /\ Len(t) = Len(s)
  BY <1>0
<1>2. ASSUME NEW i \in 1 .. Len(s)  PROVE s[i] = t[i]
  <2>2. Cat(s, u)[i] = s[i] /\ Cat(t, u)[i] = t[i]
    BY <1>1, CatAt
  <2> QED BY <2>2
<1> QED BY <1>1, <1>2, LineEqual

(* Lines are flattened to a line. *)
LEMMA FlatLine ==
  ASSUME NEW n \in Nat, NEW f, f \in Pieces(n)
  PROVE  FlattenSeq(f) \in Line
<1>1. <<>> \in Line /\ \A s, t \in Line : s \o t \in Line
  BY CatLine, NilLine, Zenon DEF Cat
<1>2. Line \in SUBSET Seq(Words)
  BY DEF Line
<1> QED BY <1>1, <1>2, FlatIn DEF Pieces

(* No lines are flattened to the empty line. *)
LEMMA FlatNone ==
  ASSUME NEW f, f \in Pieces(0)
  PROVE  FlattenSeq(f) = <<>>
BY FlatEmpty DEF Pieces

(* Each piece is a line. *)
LEMMA PiecesAt ==
  ASSUME NEW n \in Nat, NEW f, f \in Pieces(n), NEW k \in 1 .. n
  PROVE  f[k] \in Line
BY DEF Pieces

(* The first m of n lines. *)
LEMMA FirstsType ==
  ASSUME NEW n \in Nat, NEW m \in Nat, m <= n, NEW f, f \in Pieces(n)
  PROVE  Firsts(f, m) \in Pieces(m) /\ \A k \in 1 .. m : Firsts(f, m)[k] = f[k]
BY DEF Firsts, Pieces

(* FlattenSeq appends the last line to the others. *)
LEMMA FlatSnoc ==
  ASSUME NEW n \in Nat, NEW f, f \in Pieces(n + 1)
  PROVE  FlattenSeq(f) = Cat(FlattenSeq(Firsts(f, n)), f[n + 1])
<1>1. f \in [1 .. n + 1 -> Seq(Words)]
  BY DEF Pieces, Line
<1> QED BY <1>1, FlatLast DEF Cat

(* One line is flattened to itself. *)
LEMMA FlatOne ==
  ASSUME NEW f, f \in Pieces(1)
  PROVE  FlattenSeq(f) = f[1]
<1>1. f \in Pieces(0 + 1) /\ 0 \in Nat /\ 1 \in Nat /\ 0 <= 1 /\ 1 \in 1 .. 1
  OBVIOUS
<1>2. FlattenSeq(f) = Cat(FlattenSeq(Firsts(f, 0)), f[0 + 1])
  BY <1>1, FlatSnoc, Zenon
<1>3. Firsts(f, 0) \in Pieces(0)
  BY <1>1, FirstsType, Zenon
<1>4. FlattenSeq(Firsts(f, 0)) = <<>>
  BY <1>3, FlatNone
<1>5. f[1] \in Line
  BY <1>1, PiecesAt, Zenon
<1>6. 0 + 1 = 1
  OBVIOUS
<1> QED BY <1>2, <1>4, <1>5, <1>6, CatNil, Zenon

(* m lines after the first n. *)
LEMMA ShiftedType ==
  ASSUME NEW n \in Nat, NEW m \in Nat, NEW l \in Nat, n + m <= l, NEW f, f \in Pieces(l)
  PROVE  Shifted(f, n, m) \in Pieces(m) /\ \A k \in 1 .. m : Shifted(f, n, m)[k] = f[n + k]
<1>1. \A k \in 1 .. m : n + k \in 1 .. l
  OBVIOUS
<1>2. \A k \in 1 .. m : f[n + k] \in Line
  BY <1>1, PiecesAt
<1> QED BY <1>2 DEF Shifted, Pieces

(* Lines are flattened the first n and the others apart. *)
LEMMA FlatCat ==
  ASSUME NEW n \in Nat, NEW m \in Nat, NEW f, f \in Pieces(n + m)
  PROVE  FlattenSeq(f) = Cat(FlattenSeq(Firsts(f, n)), FlattenSeq(Shifted(f, n, m)))
<1> DEFINE X == {i \in Nat : \A g \in Pieces(n + i) :
                   FlattenSeq(g) = Cat(FlattenSeq(Firsts(g, n)), FlattenSeq(Shifted(g, n, i)))}
<1>2. 0 \in X
  <2> SUFFICES ASSUME NEW g, g \in Pieces(n + 0)
               PROVE  FlattenSeq(g) = Cat(FlattenSeq(Firsts(g, n)), FlattenSeq(Shifted(g, n, 0)))
    OBVIOUS
  <2>0. n + 0 = n /\ n + 0 <= n /\ 0 \in Nat
    OBVIOUS
  <2>1. Firsts(g, n) = g
    BY <2>0 DEF Firsts, Pieces
  <2>2. Shifted(g, n, 0) \in Pieces(0)
    BY <2>0, ShiftedType, Zenon
  <2>3. FlattenSeq(Shifted(g, n, 0)) = <<>>
    BY <2>2, FlatNone
  <2>4. FlattenSeq(g) \in Line
    BY <2>0, FlatLine, Zenon
  <2> QED BY <2>1, <2>3, <2>4, CatNil, Zenon
<1>3. \A i \in Nat : i \in X => i + 1 \in X
  <2> SUFFICES ASSUME NEW i \in Nat, i \in X
               PROVE  \A g \in Pieces(n + (i + 1)) :
                 FlattenSeq(g) = Cat(FlattenSeq(Firsts(g, n)), FlattenSeq(Shifted(g, n, i + 1)))
    <3>1. \A j \in Nat : j + 1 \in Nat
      OBVIOUS
    <3> QED BY <3>1, Zenon
  <2> SUFFICES ASSUME NEW g, g \in Pieces(n + (i + 1))
               PROVE  FlattenSeq(g)
                        = Cat(FlattenSeq(Firsts(g, n)), FlattenSeq(Shifted(g, n, i + 1)))
    OBVIOUS
  <2> DEFINE h == Firsts(g, n + i)
  <2>0. /\ n + (i + 1) = (n + i) + 1 /\ n + i \in Nat /\ i + 1 \in Nat /\ n + (i + 1) \in Nat
        /\ n + i <= n + (i + 1) /\ n + (i + 1) <= n + (i + 1) /\ i <= i + 1
        /\ n + i <= n + i /\ n <= n + (i + 1) /\ (n + i) + 1 \in 1 .. n + (i + 1)
        /\ i + 1 \in 1 .. i + 1 /\ n <= n + i
    OBVIOUS
  <2>1. h \in Pieces(n + i) /\ FlattenSeq(g) = Cat(FlattenSeq(h), g[(n + i) + 1])
    BY <2>0, FlatSnoc, FirstsType, Zenon
  <2>2. Firsts(h, n) = Firsts(g, n) /\ Shifted(h, n, i) = Firsts(Shifted(g, n, i + 1), i)
    BY DEF Firsts, Shifted
  <2> HIDE DEF h
  <2>3. /\ Shifted(g, n, i + 1) \in Pieces(i + 1) /\ Shifted(h, n, i) \in Pieces(i)
        /\ Firsts(g, n) \in Pieces(n)
    BY <2>0, <2>1, ShiftedType, FirstsType, Zenon
  <2>4. Shifted(g, n, i + 1)[i + 1] = g[(n + i) + 1]
    <3>1. Shifted(g, n, i + 1)[i + 1] = g[n + (i + 1)]
      BY DEF Shifted
    <3> QED BY <3>1, <2>0
  <2>5. FlattenSeq(h) = Cat(FlattenSeq(Firsts(g, n)), FlattenSeq(Shifted(h, n, i)))
    BY <2>1, <2>2
  <2>6. FlattenSeq(Shifted(g, n, i + 1)) = Cat(FlattenSeq(Shifted(h, n, i)), g[(n + i) + 1])
    BY <2>2, <2>3, <2>4, FlatSnoc, Zenon
  <2>7. /\ FlattenSeq(Firsts(g, n)) \in Line /\ FlattenSeq(Shifted(h, n, i)) \in Line
        /\ g[(n + i) + 1] \in Line
    BY <2>0, <2>3, FlatLine, PiecesAt, Zenon
  <2>8. Cat(Cat(FlattenSeq(Firsts(g, n)), FlattenSeq(Shifted(h, n, i))), g[(n + i) + 1])
          = Cat(FlattenSeq(Firsts(g, n)), Cat(FlattenSeq(Shifted(h, n, i)), g[(n + i) + 1]))
    BY <2>7, CatAssoc, Zenon
  <2> QED BY <2>1, <2>5, <2>6, <2>8, Zenon
<1> HIDE DEF X
<1>4. Nat \subseteq X
  BY <1>2, <1>3, NatInSet
<1>5. m \in X
  BY <1>4
<1> QED BY <1>5, Zenon DEF X

(* FlattenSeq puts the first line in front of the others. *)
LEMMA FlatCons ==
  ASSUME NEW n \in Nat, NEW f, f \in Pieces(1 + n)
  PROVE  FlattenSeq(f) = Cat(f[1], FlattenSeq(Shifted(f, 1, n)))
<1>1. 1 \in Nat /\ 1 + n \in Nat /\ 1 <= 1 + n /\ 1 \in 1 .. 1
  OBVIOUS
<1>2. Firsts(f, 1) \in Pieces(1) /\ Firsts(f, 1)[1] = f[1]
  BY <1>1, FirstsType, ZenonT(40)
<1>3. FlattenSeq(Firsts(f, 1)) = f[1]
  BY <1>2, FlatOne, Zenon
<1>4. FlattenSeq(f) = Cat(FlattenSeq(Firsts(f, 1)), FlattenSeq(Shifted(f, 1, n)))
  BY <1>1, FlatCat
<1> QED BY <1>3, <1>4, Zenon

-----------------------------------------------------------------------------
(* The words of a line, one by one. *)

(* The line of one word. *)
Single(w) == <<w>>

(* A line, cut into its words. *)
Singles(s) == [k \in 1 .. Len(s) |-> Single(s[k])]

(* The line of one word has that word. *)
LEMMA SingleLine ==
  ASSUME NEW w \in Words
  PROVE  Single(w) \in Line /\ Len(Single(w)) = 1 /\ Single(w)[1] = w
BY DEF Single, Line

(* A line has as many pieces as words. *)
LEMMA SinglesType ==
  ASSUME NEW s \in Line
  PROVE  Singles(s) \in Pieces(Len(s)) /\ \A k \in 1 .. Len(s) : Singles(s)[k] = Single(s[k])
<1>1. \A k \in 1 .. Len(s) : Single(s[k]) \in Line
  BY SingleLine, LenLine
<1> QED BY <1>1 DEF Singles, Pieces

(* A line is its last word after the others. *)
LEMMA LineSnoc ==
  ASSUME NEW s \in Line, NEW n \in Nat, Len(s) = n + 1
  PROVE  Firsts(s, n) \in Line /\ Len(Firsts(s, n)) = n /\ s = Cat(Firsts(s, n), Single(s[n + 1]))
<1>1. s[n + 1] \in Words /\ \A i \in 1 .. n : s[i] \in Words
  BY LenLine
<1>2. Firsts(s, n) \in [1 .. n -> Words] /\ \A i \in 1 .. n : Firsts(s, n)[i] = s[i]
  BY <1>1 DEF Firsts
<1>3. Firsts(s, n) \in Line /\ Len(Firsts(s, n)) = n
  BY <1>2, SeqOfFunction DEF Line
<1>4. Single(s[n + 1]) \in Line /\ Len(Single(s[n + 1])) = 1 /\ Single(s[n + 1])[1] = s[n + 1]
  BY <1>1, SingleLine
<1>5. Cat(Firsts(s, n), Single(s[n + 1])) \in Line
        /\ Len(Cat(Firsts(s, n), Single(s[n + 1]))) = n + 1
  BY <1>3, <1>4, CatLine
<1>6. ASSUME NEW i \in 1 .. n + 1  PROVE s[i] = Cat(Firsts(s, n), Single(s[n + 1]))[i]
  <2>1. CASE i <= n
    <3>1. i \in Nat /\ 1 <= i /\ i <= Len(Firsts(s, n)) /\ i \in 1 .. n
      BY <2>1, <1>3
    <3>2. Cat(Firsts(s, n), Single(s[n + 1]))[i] = Firsts(s, n)[i]
      BY <3>1, <1>3, <1>4, CatAt, Zenon
    <3> QED BY <3>1, <3>2, <1>2
  <2>2. CASE i = n + 1
    <3>1. n < i /\ i <= n + 1 /\ i - n = 1 /\ i \in Nat
      BY <2>2
    <3>2. Cat(Firsts(s, n), Single(s[n + 1]))[i] = Single(s[n + 1])[i - n]
      BY <3>1, <1>3, <1>4, CatAt
    <3> QED BY <1>4, <2>2, <3>1, <3>2
  <2> QED BY <2>1, <2>2
<1> QED BY <1>3, <1>5, <1>6, LineEqual

(* The words of a line are flattened to the line. *)
LEMMA FlatSingles ==
  ASSUME NEW s \in Line
  PROVE  FlattenSeq(Singles(s)) = s
<1> DEFINE X == {i \in Nat : \A t \in Line : Len(t) = i => FlattenSeq(Singles(t)) = t}
<1>1. 0 \in X
  <2> SUFFICES ASSUME NEW t \in Line, Len(t) = 0 PROVE FlattenSeq(Singles(t)) = t
    OBVIOUS
  <2>1. Singles(t) \in Pieces(0)
    BY SinglesType
  <2>2. t = <<>>
    BY NilLine, LineEqual
  <2> QED BY <2>1, <2>2, FlatNone
<1>2. \A i \in Nat : i \in X => i + 1 \in X
  <2> SUFFICES ASSUME NEW i \in Nat, i \in X
               PROVE  \A t \in Line : Len(t) = i + 1 => FlattenSeq(Singles(t)) = t
    <3>1. \A j \in Nat : j + 1 \in Nat
      OBVIOUS
    <3> QED BY <3>1, Zenon
  <2> SUFFICES ASSUME NEW t \in Line, Len(t) = i + 1 PROVE FlattenSeq(Singles(t)) = t
    OBVIOUS
  <2>1. /\ Firsts(t, i) \in Line /\ Len(Firsts(t, i)) = i
        /\ t = Cat(Firsts(t, i), Single(t[i + 1]))
    BY LineSnoc, Zenon
  <2>2. FlattenSeq(Singles(Firsts(t, i))) = Firsts(t, i)
    BY <2>1
  <2>3. Singles(t) \in Pieces(i + 1) /\ Singles(t)[i + 1] = Single(t[i + 1])
    BY SinglesType
  <2>4. Firsts(Singles(t), i) = Singles(Firsts(t, i))
    BY <2>1 DEF Firsts, Singles
  <2>5. FlattenSeq(Singles(t)) = Cat(FlattenSeq(Firsts(Singles(t), i)), Singles(t)[i + 1])
    BY <2>3, FlatSnoc, Zenon
  <2> QED BY <2>1, <2>2, <2>3, <2>4, <2>5, Zenon
<1> HIDE DEF X
<1>3. Nat \subseteq X
  BY <1>1, <1>2, NatInSet
<1>4. Len(s) \in X
  BY <1>3, LenLine
<1> QED BY <1>4, Zenon DEF X

(* If each piece is one word, the pieces are the words of their concatenation. *)
LEMMA FlatOnes ==
  ASSUME NEW n \in Nat, NEW f, f \in Pieces(n), \A k \in 1 .. n : Len(f[k]) = 1
  PROVE  /\ Len(FlattenSeq(f)) = n
         /\ f = Singles(FlattenSeq(f))
         /\ \A k \in 1 .. n : f[k] = Single(FlattenSeq(f)[k])
<1> DEFINE s == [k \in 1 .. n |-> f[k][1]]
<1>1. \A k \in 1 .. n : f[k] \in Line /\ f[k][1] \in Words
  BY PiecesAt, LenLine
<1>2. s \in [1 .. n -> Words]
  BY <1>1
<1>3. s \in Line /\ Len(s) = n
  BY <1>2, SeqOfFunction DEF Line
<1>4. \A k \in 1 .. n : s[k] = f[k][1]
  OBVIOUS
<1> HIDE DEF s
<1>5. ASSUME NEW k \in 1 .. n  PROVE f[k] = Single(s[k])
  <2>1. s[k] \in Words /\ f[k] \in Line /\ Len(f[k]) = 1 /\ f[k][1] = s[k]
    BY <1>1, <1>4
  <2>2. Single(s[k]) \in Line /\ Len(Single(s[k])) = 1 /\ Single(s[k])[1] = s[k]
    BY <2>1, SingleLine
  <2> QED BY <2>1, <2>2, LineEqual
<1>6. f = Singles(s)
  BY <1>3, <1>5 DEF Singles, Pieces
<1>7. FlattenSeq(f) = s
  BY <1>3, <1>6, FlatSingles
<1> QED BY <1>3, <1>5, <1>6, <1>7, Zenon

(* Pieces of at least one word each. *)
LEMMA FlatLong ==
  ASSUME NEW n \in Nat, NEW f, f \in Pieces(n), \A k \in 1 .. n : Len(f[k]) >= 1
  PROVE  Len(FlattenSeq(f)) >= n /\ ((\E k \in 1 .. n : Len(f[k]) # 1) => Len(FlattenSeq(f)) > n)
<1> DEFINE Long(i, g) == /\ Len(FlattenSeq(g)) >= i
                         /\ (\E k \in 1 .. i : Len(g[k]) # 1) => Len(FlattenSeq(g)) > i
           X == {i \in Nat : \A g \in Pieces(i) : (\A k \in 1 .. i : Len(g[k]) >= 1) => Long(i, g)}
<1>1. 0 \in X
  <2> SUFFICES ASSUME NEW g, g \in Pieces(0) PROVE Long(0, g)
    OBVIOUS
  <2>1. FlattenSeq(g) = <<>>
    BY FlatNone
  <2> QED BY <2>1, NilLine
<1>2. \A i \in Nat : i \in X => i + 1 \in X
  <2> SUFFICES ASSUME NEW i \in Nat, i \in X
               PROVE  \A g \in Pieces(i + 1) :
                        (\A k \in 1 .. i + 1 : Len(g[k]) >= 1) => Long(i + 1, g)
    <3>1. \A j \in Nat : j + 1 \in Nat
      OBVIOUS
    <3> HIDE DEF Long
    <3> QED BY <3>1, Zenon
  <2> SUFFICES ASSUME NEW g, g \in Pieces(i + 1), \A k \in 1 .. i + 1 : Len(g[k]) >= 1
               PROVE  Long(i + 1, g)
    OBVIOUS
  <2> DEFINE h == Firsts(g, i)
  <2>0. i + 1 \in Nat /\ i <= i + 1 /\ i + 1 \in 1 .. i + 1 /\ \A k \in 1 .. i : k \in 1 .. i + 1
    OBVIOUS
  <2>1. h \in Pieces(i) /\ \A k \in 1 .. i : h[k] = g[k]
    BY <2>0, FirstsType
  <2>2. FlattenSeq(g) = Cat(FlattenSeq(h), g[i + 1])
    BY FlatSnoc, Zenon
  <2> HIDE DEF h
  <2>3. \A k \in 1 .. i : Len(h[k]) >= 1
    BY <2>0, <2>1
  <2>4. Long(i, h)
    BY <2>1, <2>3
  <2>5. g[i + 1] \in Line /\ FlattenSeq(h) \in Line
    BY <2>0, <2>1, PiecesAt, FlatLine, Zenon
  <2>6. /\ Len(FlattenSeq(g)) = Len(FlattenSeq(h)) + Len(g[i + 1])
        /\ Len(FlattenSeq(h)) \in Nat /\ Len(g[i + 1]) \in Nat
    BY <2>2, <2>5, CatLine, LenLine, Zenon
  <2>7. Len(g[i + 1]) >= 1
    BY <2>0
  <2>8. ASSUME NEW k \in 1 .. i + 1, Len(g[k]) # 1  PROVE Len(FlattenSeq(g)) > i + 1
    <3>0. Len(FlattenSeq(h)) >= i
      BY <2>4
    <3>1. CASE k = i + 1
      <4>1. Len(g[i + 1]) # 1
        BY <3>1, <2>8, Zenon
      <4>2. \A a, b, c : b \in Nat /\ c \in Nat /\ a = b + c /\ b >= i /\ c >= 1 /\ c # 1
              => a > i + 1
        OBVIOUS
      <4> QED BY <4>1, <4>2, <3>0, <2>6, <2>7, Zenon
    <3>2. CASE k # i + 1
      <4>1. k \in 1 .. i /\ Len(h[k]) # 1
        BY <3>2, <2>1, <2>8
      <4>2. Len(FlattenSeq(h)) > i
        BY <4>1, <2>4
      <4> QED BY <4>2, <2>6, <2>7
    <3> QED BY <3>1, <3>2
  <2>9. Len(FlattenSeq(g)) >= i + 1
    BY <2>4, <2>6, <2>7
  <2> QED BY <2>8, <2>9
<1> HIDE DEF X
<1>3. Nat \subseteq X
  BY <1>1, <1>2, NatInSet
<1>4. n \in X
  BY <1>3
<1> QED BY <1>4 DEF X

-----------------------------------------------------------------------------
(* Pieces with commas between them. *)

(* A word without marks. *)
Plainly(text) == Word(text, "", "")

(* The line of one word without marks. *)
Sign(text) == Single(Plainly(text))

(* A word without marks is a word. *)
LEMMA PlainlyWord ==
  ASSUME NEW text \in Texts
  PROVE  /\ Plainly(text) \in Words /\ Plainly(text).text = text
         /\ Plainly(text).left = "" /\ Plainly(text).right = ""
BY DEF Plainly, Word, Words

(* A sign is a line of one word. *)
LEMMA SignLine ==
  ASSUME NEW text \in Texts
  PROVE  Sign(text) \in Line /\ Len(Sign(text)) = 1 /\ Sign(text)[1] = Plainly(text)
BY PlainlyWord, SingleLine DEF Sign

(* Bare words: one. *)
LEMMA BareOne ==
  ASSUME NEW text \in Texts
  PROVE  Bare(<<text>>) = Sign(text)
<1>1. DOMAIN <<text>> = 1 .. 1 /\ <<text>>[1] = text
  OBVIOUS
<1>2. Bare(<<text>>) = [k \in DOMAIN <<text>> |-> Plainly(<<text>>[k])]
  BY Zenon DEF Bare, Plainly
<1>3. Bare(<<text>>) = <<Plainly(text)>>
  BY <1>1, <1>2
<1> QED BY <1>3, Zenon DEF Sign, Single

(* The words that the language gives a meaning are texts. *)
LEMMA Known ==
  /\ Keywords \cup Numbers \cup Operators \subseteq Texts
  /\ "," \in Texts /\ "(" \in Texts /\ ")" \in Texts /\ ":" \in Texts /\ "=" \in Texts
  /\ "+" \in Texts /\ "<" \in Texts /\ "print" \in Texts /\ "lambda" \in Texts
BY DEF Texts, Keywords, Numbers, Operators

(* Lines, each but the first with a comma in front. *)
Commas(f) == [k \in DOMAIN f |-> IF k = 1 THEN f[k] ELSE Cat(Sign(","), f[k])]

(* Comma flattens them. *)
LEMMA CommaIs ==
  ASSUME NEW f
  PROVE  Comma(f) = FlattenSeq(Commas(f))
<1>1. Bare(<<",">>) = Sign(",")
  BY BareOne, Known
<1> QED BY <1>1, Zenon DEF Comma, Joined, Commas, Cat

(* They are as many lines. *)
LEMMA CommasType ==
  ASSUME NEW n \in Nat, NEW f, f \in Pieces(n)
  PROVE  /\ Commas(f) \in Pieces(n)
         /\ \A k \in 1 .. n : Commas(f)[k] = IF k = 1 THEN f[k] ELSE Cat(Sign(","), f[k])
<1>1. \A k \in 1 .. n : f[k] \in Line /\ Cat(Sign(","), f[k]) \in Line
  BY PiecesAt, SignLine, CatLine, Known
<1>2. DOMAIN f = 1 .. n
  BY DEF Pieces
<1> QED BY <1>1, <1>2 DEF Commas, Pieces

(* Lines with commas are a line. *)
LEMMA CommaLine ==
  ASSUME NEW n \in Nat, NEW f, f \in Pieces(n)
  PROVE  Comma(f) \in Line
BY CommaIs, CommasType, FlatLine

(* One line has no comma. *)
LEMMA CommaOne ==
  ASSUME NEW f, f \in Pieces(1)
  PROVE  Comma(f) = f[1]
<1>1. 1 \in Nat /\ 1 \in 1 .. 1
  OBVIOUS
<1>2. Commas(f) \in Pieces(1) /\ Commas(f)[1] = f[1]
  BY <1>1, CommasType
<1> QED BY <1>2, FlatOne, CommaIs, Zenon

(* The last line comes after a comma. *)
LEMMA CommaSnoc ==
  ASSUME NEW n \in Nat \ {0}, NEW f, f \in Pieces(n + 1)
  PROVE  Comma(f) = Cat(Comma(Firsts(f, n)), Cat(Sign(","), f[n + 1]))
<1>1. n + 1 \in Nat /\ n <= n + 1 /\ n \in Nat /\ n + 1 \in 1 .. n + 1 /\ n + 1 # 1
  OBVIOUS
<1>2. Commas(f) \in Pieces(n + 1) /\ Commas(f)[n + 1] = Cat(Sign(","), f[n + 1])
  BY <1>1, CommasType
<1>3. Firsts(f, n) \in Pieces(n) /\ \A k \in 1 .. n : Firsts(f, n)[k] = f[k]
  BY <1>1, FirstsType
<1>4. Firsts(Commas(f), n) = Commas(Firsts(f, n))
  <2>1. DOMAIN Firsts(f, n) = 1 .. n /\ DOMAIN f = 1 .. n + 1
    BY <1>3 DEF Pieces
  <2>2. \A k \in 1 .. n : k \in 1 .. n + 1
    OBVIOUS
  <2> QED BY <1>3, <2>1, <2>2 DEF Firsts, Commas
<1>5. FlattenSeq(Commas(f)) = Cat(FlattenSeq(Firsts(Commas(f), n)), Commas(f)[n + 1])
  BY <1>1, <1>2, FlatSnoc, Zenon
<1> QED BY <1>2, <1>4, <1>5, CommaIs, Zenon

(* There is one comma less than lines. *)
LEMMA CommaLen ==
  ASSUME NEW n \in Nat, NEW f, f \in Pieces(n + 1)
  PROVE  Len(Comma(f)) = Len(FlattenSeq(f)) + n
<1> DEFINE X == {i \in Nat : \A g \in Pieces(i + 1) : Len(Comma(g)) = Len(FlattenSeq(g)) + i}
<1>1. 0 \in X
  <2> SUFFICES ASSUME NEW g, g \in Pieces(0 + 1)
               PROVE  Len(Comma(g)) = Len(FlattenSeq(g)) + 0
    BY Zenon
  <2>1. 0 + 1 = 1 /\ 1 \in Nat
    OBVIOUS
  <2>2. FlattenSeq(g) \in Line /\ Comma(g) = FlattenSeq(g)
    BY <2>1, FlatLine, FlatOne, CommaOne, Zenon
  <2> QED BY <2>2, LenLine
<1>2. \A i \in Nat : i \in X => i + 1 \in X
  <2> SUFFICES ASSUME NEW i \in Nat, i \in X
               PROVE  \A g \in Pieces((i + 1) + 1) : Len(Comma(g)) = Len(FlattenSeq(g)) + (i + 1)
    <3>1. \A j \in Nat : j + 1 \in Nat
      OBVIOUS
    <3> QED BY <3>1, Zenon
  <2> SUFFICES ASSUME NEW g, g \in Pieces((i + 1) + 1)
               PROVE  Len(Comma(g)) = Len(FlattenSeq(g)) + (i + 1)
    OBVIOUS
  <2> DEFINE h == Firsts(g, i + 1)
  <2>0. /\ i + 1 \in Nat \ {0} /\ i + 1 \in Nat /\ (i + 1) + 1 \in Nat
        /\ i + 1 <= (i + 1) + 1 /\ (i + 1) + 1 \in 1 .. (i + 1) + 1
    OBVIOUS
  <2>1. h \in Pieces(i + 1)
    BY <2>0, FirstsType, Zenon
  <2>2. /\ FlattenSeq(g) = Cat(FlattenSeq(h), g[(i + 1) + 1])
        /\ Comma(g) = Cat(Comma(h), Cat(Sign(","), g[(i + 1) + 1]))
    BY <2>0, FlatSnoc, CommaSnoc, Zenon
  <2> HIDE DEF h
  <2>3. /\ g[(i + 1) + 1] \in Line /\ FlattenSeq(h) \in Line /\ Comma(h) \in Line
        /\ Sign(",") \in Line /\ Len(Sign(",")) = 1
    <3>1. Sign(",") \in Line /\ Len(Sign(",")) = 1
      BY SignLine, Known
    <3> QED BY <2>0, <2>1, <3>1, FlatLine, PiecesAt, CommaLine, Zenon
  <2>4. Len(FlattenSeq(g)) = Len(FlattenSeq(h)) + Len(g[(i + 1) + 1])
    BY <2>2, <2>3, CatLine, Zenon
  <2>5. /\ Cat(Sign(","), g[(i + 1) + 1]) \in Line
        /\ Len(Cat(Sign(","), g[(i + 1) + 1])) = 1 + Len(g[(i + 1) + 1])
    BY <2>3, CatLine, Zenon
  <2>6. Len(Comma(g)) = Len(Comma(h)) + (1 + Len(g[(i + 1) + 1]))
    BY <2>2, <2>3, <2>5, CatLine, ZenonT(40)
  <2>7. Len(Comma(h)) = Len(FlattenSeq(h)) + i
    BY <2>1
  <2>8. Len(FlattenSeq(h)) \in Nat /\ Len(g[(i + 1) + 1]) \in Nat
    BY <2>3, LenLine, Zenon
  <2>9. \A a, b, c, d, e : b \in Nat /\ c \in Nat /\ a = b + c /\ d = e + (1 + c) /\ e = b + i
                            => d = a + (i + 1)
    OBVIOUS
  <2> QED BY <2>4, <2>6, <2>7, <2>8, <2>9, ZenonT(40)
<1> HIDE DEF X
<1>3. Nat \subseteq X
  BY <1>1, <1>2, NatInSet
<1>4. n \in X
  BY <1>3
<1> QED BY <1>4, Zenon DEF X
-----------------------------------------------------------------------------
(* Brackets become quotes, word by word. *)

(* The mark that ConvertBracketStrings makes of a mark. *)
Quote(mark) == IF mark \in {"[", "]"} THEN "\"" ELSE mark

(* The word that it makes of a word. *)
Quoted(w) == Word(w.text, Quote(w.left), Quote(w.right))

(* Only the marks change. *)
LEMMA QuotedWord ==
  ASSUME NEW w \in Words
  PROVE  /\ Quoted(w) \in Words /\ Quoted(w).text = w.text
         /\ Quoted(w).left = Quote(w.left) /\ Quoted(w).right = Quote(w.right)
BY DEF Quoted, Quote, Word, Words

(* ConvertBracketStrings changes each word by itself. *)
LEMMA QuoteLine ==
  ASSUME NEW s \in Line
  PROVE  /\ ConvertBracketStrings(s) \in Line /\ Len(ConvertBracketStrings(s)) = Len(s)
         /\ \A k \in 1 .. Len(s) : ConvertBracketStrings(s)[k] = Quoted(s[k])
<1>1. DOMAIN s = 1 .. Len(s) /\ Len(s) \in Nat /\ \A i \in 1 .. Len(s) : Quoted(s[i]) \in Words
  BY LenLine, QuotedWord
<1>2. ConvertBracketStrings(s) = [k \in DOMAIN s |-> Quoted(s[k])]
  BY Zenon DEF ConvertBracketStrings, Quoted, Quote
<1>3. ConvertBracketStrings(s) \in [1 .. Len(s) -> Words]
  BY <1>1, <1>2
<1>4. ConvertBracketStrings(s) \in Line /\ Len(ConvertBracketStrings(s)) = Len(s)
  BY <1>1, <1>3, SeqOfFunction DEF Line
<1> QED BY <1>1, <1>2, <1>4

(* It converts two lines put together like the two. *)
LEMMA QuoteCat ==
  ASSUME NEW s \in Line, NEW t \in Line
  PROVE  ConvertBracketStrings(Cat(s, t)) = Cat(ConvertBracketStrings(s), ConvertBracketStrings(t))
<1> DEFINE a == ConvertBracketStrings(Cat(s, t))
           b == Cat(ConvertBracketStrings(s), ConvertBracketStrings(t))
<1>1. Len(s) \in Nat /\ Len(t) \in Nat /\ Cat(s, t) \in Line /\ Len(Cat(s, t)) = Len(s) + Len(t)
  BY LenLine, CatLine
<1>2. /\ ConvertBracketStrings(s) \in Line /\ Len(ConvertBracketStrings(s)) = Len(s)
      /\ ConvertBracketStrings(t) \in Line /\ Len(ConvertBracketStrings(t)) = Len(t)
      /\ a \in Line /\ Len(a) = Len(s) + Len(t)
  BY <1>1, QuoteLine
<1>3. b \in Line /\ Len(b) = Len(s) + Len(t)
  <2>1. b \in Line /\ Len(b) = Len(ConvertBracketStrings(s)) + Len(ConvertBracketStrings(t))
    BY <1>2, CatLine, Zenon
  <2> QED BY <1>2, <2>1, Zenon
<1>4. ASSUME NEW i \in 1 .. Len(s) + Len(t)  PROVE a[i] = b[i]
  <2>0. i \in Nat /\ 1 <= i /\ i <= Len(s) + Len(t)
    BY <1>1
  <2>1. a[i] = Quoted(Cat(s, t)[i])
    BY <1>1, QuoteLine
  <2>2. CASE i <= Len(s)
    <3>1. Cat(s, t)[i] = s[i] /\ b[i] = ConvertBracketStrings(s)[i]
      BY <1>2, <2>0, <2>2, CatAt, Zenon
    <3>2. ConvertBracketStrings(s)[i] = Quoted(s[i])
      BY <1>1, <2>0, <2>2, QuoteLine
    <3> QED BY <2>1, <3>1, <3>2, Zenon
  <2>3. CASE Len(s) < i
    <3>1. Cat(s, t)[i] = t[i - Len(s)] /\ b[i] = ConvertBracketStrings(t)[i - Len(s)]
      <4>1. Cat(s, t)[i] = t[i - Len(s)]
        BY <2>0, <2>3, CatAt, Zenon
      <4>2. Len(ConvertBracketStrings(s)) < i
            /\ i <= Len(ConvertBracketStrings(s)) + Len(ConvertBracketStrings(t))
        BY <1>2, <2>0, <2>3, Zenon
      <4>3. b[i] = ConvertBracketStrings(t)[i - Len(ConvertBracketStrings(s))]
        BY <1>2, <2>0, <4>2, CatAt, Zenon
      <4> QED BY <1>2, <4>1, <4>3, Zenon
    <3>2. i - Len(s) \in 1 .. Len(t)
      BY <1>1, <2>0, <2>3
    <3>3. ConvertBracketStrings(t)[i - Len(s)] = Quoted(t[i - Len(s)])
      BY <3>2, QuoteLine
    <3> QED BY <2>1, <3>1, <3>3, Zenon
  <2> QED BY <1>1, <2>0, <2>2, <2>3
<1> HIDE DEF a, b
<1>5. a = b
  BY <1>2, <1>3, <1>4, LineEqual
<1> QED BY <1>5 DEF a, b

(* It is done to each of several lines. *)
Quotes(f) == [k \in DOMAIN f |-> ConvertBracketStrings(f[k])]

(* They stay as many lines. *)
LEMMA QuotesType ==
  ASSUME NEW n \in Nat, NEW f, f \in Pieces(n)
  PROVE  Quotes(f) \in Pieces(n) /\ \A k \in 1 .. n : Quotes(f)[k] = ConvertBracketStrings(f[k])
<1>1. DOMAIN f = 1 .. n /\ \A k \in 1 .. n : ConvertBracketStrings(f[k]) \in Line
  BY PiecesAt, QuoteLine DEF Pieces
<1> QED BY <1>1 DEF Quotes, Pieces

(* Nothing is to be done to the empty line. *)
LEMMA QuoteNil == ConvertBracketStrings(<<>>) = <<>>
<1>1. ConvertBracketStrings(<<>>) \in Line /\ Len(ConvertBracketStrings(<<>>)) = 0
  BY NilLine, QuoteLine
<1> QED BY <1>1, NilLine, LineEqual

(* It converts lines put together like each of them. *)
LEMMA QuoteFlat ==
  ASSUME NEW n \in Nat, NEW f, f \in Pieces(n)
  PROVE  ConvertBracketStrings(FlattenSeq(f)) = FlattenSeq(Quotes(f))
<1> DEFINE X == {i \in Nat : \A g \in Pieces(i) :
                   ConvertBracketStrings(FlattenSeq(g)) = FlattenSeq(Quotes(g))}
<1>1. 0 \in X
  <2> SUFFICES ASSUME NEW g, g \in Pieces(0)
               PROVE  ConvertBracketStrings(FlattenSeq(g)) = FlattenSeq(Quotes(g))
    OBVIOUS
  <2>1. Quotes(g) \in Pieces(0)
    BY QuotesType
  <2> QED BY <2>1, FlatNone, QuoteNil, Zenon
<1>2. \A i \in Nat : i \in X => i + 1 \in X
  <2> SUFFICES ASSUME NEW i \in Nat, i \in X
               PROVE  \A g \in Pieces(i + 1) :
                        ConvertBracketStrings(FlattenSeq(g)) = FlattenSeq(Quotes(g))
    <3>1. \A j \in Nat : j + 1 \in Nat
      OBVIOUS
    <3> QED BY <3>1, Zenon
  <2> SUFFICES ASSUME NEW g, g \in Pieces(i + 1)
               PROVE  ConvertBracketStrings(FlattenSeq(g)) = FlattenSeq(Quotes(g))
    OBVIOUS
  <2>0. i + 1 \in Nat /\ i <= i + 1 /\ i + 1 \in 1 .. i + 1 /\ \A k \in 1 .. i : k \in 1 .. i + 1
    OBVIOUS
  <2>1. Firsts(g, i) \in Pieces(i) /\ \A k \in 1 .. i : Firsts(g, i)[k] = g[k]
    BY <2>0, FirstsType
  <2>2. Quotes(g) \in Pieces(i + 1) /\ Quotes(g)[i + 1] = ConvertBracketStrings(g[i + 1])
    BY <2>0, QuotesType, Zenon
  <2>3. Firsts(Quotes(g), i) = Quotes(Firsts(g, i))
    <3>1. DOMAIN g = 1 .. i + 1 /\ DOMAIN Firsts(g, i) = 1 .. i
      BY <2>1 DEF Pieces
    <3> QED BY <2>0, <2>1, <3>1 DEF Firsts, Quotes
  <2>4. /\ FlattenSeq(g) = Cat(FlattenSeq(Firsts(g, i)), g[i + 1])
        /\ FlattenSeq(Quotes(g)) = Cat(FlattenSeq(Firsts(Quotes(g), i)), Quotes(g)[i + 1])
    BY <2>2, FlatSnoc, Zenon
  <2>5. FlattenSeq(Firsts(g, i)) \in Line /\ g[i + 1] \in Line
    BY <2>0, <2>1, FlatLine, PiecesAt, Zenon
  <2>6. ConvertBracketStrings(FlattenSeq(Firsts(g, i))) = FlattenSeq(Quotes(Firsts(g, i)))
    BY <2>1
  <2>7. ConvertBracketStrings(FlattenSeq(g))
          = Cat(ConvertBracketStrings(FlattenSeq(Firsts(g, i))), ConvertBracketStrings(g[i + 1]))
    BY <2>4, <2>5, QuoteCat, Zenon
  <2> QED BY <2>2, <2>3, <2>4, <2>6, <2>7, Zenon
<1> HIDE DEF X
<1>3. Nat \subseteq X
  BY <1>1, <1>2, NatInSet
<1>4. n \in X
  BY <1>3
<1> QED BY <1>4, Zenon DEF X

-----------------------------------------------------------------------------
(* Words without marks, and texts with marks at their ends. *)

(* Bare words have no marks. *)
LEMMA BareLine ==
  ASSUME NEW texts \in Seq(Texts)
  PROVE  /\ Bare(texts) \in Line /\ Len(Bare(texts)) = Len(texts)
         /\ \A k \in 1 .. Len(texts) : Bare(texts)[k] = Plainly(texts[k])
<1>1. Len(texts) \in Nat /\ DOMAIN texts = 1 .. Len(texts)
      /\ \A k \in 1 .. Len(texts) : Plainly(texts[k]) \in Words
  BY LenProperties, ElementOfSeq, PlainlyWord
<1>2. Bare(texts) = [k \in DOMAIN texts |-> Plainly(texts[k])]
  BY Zenon DEF Bare, Plainly
<1>3. Bare(texts) \in [1 .. Len(texts) -> Words]
  BY <1>1, <1>2
<1>4. Bare(texts) \in Line /\ Len(Bare(texts)) = Len(texts)
  BY <1>1, <1>3, SeqOfFunction DEF Line
<1> QED BY <1>1, <1>2, <1>4

(* Bare words have no brackets. *)
LEMMA QuoteBare ==
  ASSUME NEW texts \in Seq(Texts)
  PROVE  ConvertBracketStrings(Bare(texts)) = Bare(texts)
<1>1. \A k \in 1 .. Len(texts) : texts[k] \in Texts
  OBVIOUS
<1>2. \A text \in Texts : Quoted(Plainly(text)) = Plainly(text)
  BY DEF Quoted, Plainly, Quote, Word
<1>3. Bare(texts) \in Line /\ Len(Bare(texts)) = Len(texts)
  BY BareLine
<1>4. /\ ConvertBracketStrings(Bare(texts)) \in Line
      /\ Len(ConvertBracketStrings(Bare(texts))) = Len(Bare(texts))
  BY <1>3, QuoteLine
<1>5. ASSUME NEW k \in 1 .. Len(Bare(texts))
      PROVE ConvertBracketStrings(Bare(texts))[k] = Bare(texts)[k]
  BY <1>1, <1>2, <1>3, BareLine, QuoteLine
<1> QED BY <1>3, <1>4, <1>5, LineEqual

(* The k-th word of a marked text. *)
InMarks(texts, left, right, k) ==
  Word(texts[k], IF k = 1 THEN left ELSE "", IF k = Len(texts) THEN right ELSE "")

(* A marked text has a mark at each end. *)
LEMMA MarkedLine ==
  ASSUME NEW texts \in Seq(Texts), NEW left \in {"[", "\""}, NEW right \in {"]", "\""}
  PROVE  /\ Marked(texts, left, right) \in Line /\ Len(Marked(texts, left, right)) = Len(texts)
         /\ \A k \in 1 .. Len(texts) : /\ Marked(texts, left, right)[k]
                                            = InMarks(texts, left, right, k)
                                       /\ InMarks(texts, left, right, k) \in Words
<1>1. Len(texts) \in Nat /\ DOMAIN texts = 1 .. Len(texts)
      /\ \A k \in 1 .. Len(texts) : texts[k] \in Texts
  BY LenProperties, ElementOfSeq
<1>2. \A k \in 1 .. Len(texts) : InMarks(texts, left, right, k) \in Words
  BY <1>1 DEF InMarks, Word, Words
<1>3. Marked(texts, left, right) = [k \in DOMAIN texts |-> InMarks(texts, left, right, k)]
  BY Zenon DEF Marked, InMarks
<1>4. Marked(texts, left, right) \in [1 .. Len(texts) -> Words]
  BY <1>1, <1>2, <1>3
<1>5. Marked(texts, left, right) \in Line /\ Len(Marked(texts, left, right)) = Len(texts)
  BY <1>1, <1>4, SeqOfFunction DEF Line
<1> QED BY <1>1, <1>2, <1>3, <1>5

(* A text in brackets becomes a text in quotes. *)
LEMMA QuoteMarked ==
  ASSUME NEW texts \in Seq(Texts)
  PROVE  ConvertBracketStrings(Marked(texts, "[", "]")) = Marked(texts, "\"", "\"")
<1>1. /\ Marked(texts, "[", "]") \in Line /\ Len(Marked(texts, "[", "]")) = Len(texts)
      /\ Marked(texts, "\"", "\"") \in Line /\ Len(Marked(texts, "\"", "\"")) = Len(texts)
  BY MarkedLine
<1>2. /\ ConvertBracketStrings(Marked(texts, "[", "]")) \in Line
      /\ Len(ConvertBracketStrings(Marked(texts, "[", "]"))) = Len(texts)
  BY <1>1, QuoteLine
<1>3. ASSUME NEW k \in 1 .. Len(texts)
      PROVE  ConvertBracketStrings(Marked(texts, "[", "]"))[k] = Marked(texts, "\"", "\"")[k]
  <2>1. ConvertBracketStrings(Marked(texts, "[", "]"))[k] = Quoted(InMarks(texts, "[", "]", k))
    <3>1. Marked(texts, "[", "]")[k] = InMarks(texts, "[", "]", k)
      BY MarkedLine
    <3>2. ConvertBracketStrings(Marked(texts, "[", "]"))[k] = Quoted(Marked(texts, "[", "]")[k])
      BY <1>1, QuoteLine
    <3> QED BY <3>1, <3>2
  <2>2. Quoted(InMarks(texts, "[", "]", k)) = InMarks(texts, "\"", "\"", k)
    BY DEF Quoted, Quote, InMarks, Word
  <2>3. Marked(texts, "\"", "\"")[k] = InMarks(texts, "\"", "\"", k)
    BY MarkedLine
  <2> QED BY <2>1, <2>2, <2>3
<1> QED BY <1>1, <1>2, <1>3, LineEqual

(* An item becomes what it is in Python. *)
LEMMA ItemLine ==
  ASSUME NEW item \in Items
  PROVE  /\ ItemSource(item) \in Line /\ Len(ItemSource(item)) = Len(item.texts)
         /\ ItemPython(item) \in Line /\ Len(ItemPython(item)) = Len(item.texts)
         /\ ConvertBracketStrings(ItemSource(item)) = ItemPython(item)
<1>1. item.texts \in Seq(Texts)
  BY DEF Items
<1> QED BY <1>1, BareLine, MarkedLine, QuoteBare, QuoteMarked DEF ItemSource, ItemPython
-----------------------------------------------------------------------------
(* ConvertLambda: a colon for the first lambda that is found. *)

(* The word is a lambda, and a name follows. *)
MatchAt(ws, k) == ws[k].text = "lambda" /\ ws[k].right = "" /\ Identifier(ws[k + 1])

(* Where the pattern of ConvertLambda matches. *)
Matches(ws) == {k \in 1 .. Len(ws) - 2 : MatchAt(ws, k)}

(* ConvertLambda, with its matches named. *)
LEMMA LambdaIs ==
  ASSUME NEW ws
  PROVE  ConvertLambda(ws) = IF Matches(ws) = {} THEN ws
                             ELSE [ws EXCEPT ![Min(Matches(ws)) + 1].right = ":"]
BY DEF ConvertLambda, Matches, MatchAt

(* Without a match the line stays as it is. *)
LEMMA LambdaNone ==
  ASSUME NEW ws, Matches(ws) = {}
  PROVE  ConvertLambda(ws) = ws
BY LambdaIs

(* Min is the least element of a set of numbers. *)
LEMMA LeastNat ==
  ASSUME NEW S \in SUBSET Nat, S # {}
  PROVE  Min(S) \in S /\ \A y \in S : Min(S) <= y
<1> DEFINE R == OpToRel(<, Nat)
<1>1. \A x, y \in Nat : <<y, x>> \notin R => x <= y
  BY DEF OpToRel
<1> HIDE DEF R
<1>2. PICK x \in S : \A y \in S : <<y, x>> \notin R
  BY NatLessThanWellFounded, WFMin DEF R
<1>3. \A y \in S : x <= y
  BY <1>1, <1>2
<1> QED BY <1>3 DEF Min

(* A word with a colon attached. *)
Colon(w) == [w EXCEPT !.right = ":"]

(* Only the mark on the right changes. *)
LEMMA ColonWord ==
  ASSUME NEW w \in Words
  PROVE  /\ Colon(w) \in Words /\ Colon(w).right = ":" /\ Colon(w).text = w.text
         /\ Colon(w).left = w.left
BY DEF Colon, Words

(* m is the first match *)
First(ws, m) == m \in Matches(ws) /\ \A k \in Matches(ws) : m <= k

(* The word after the first lambda gets a colon, and no other changes. *)
LEMMA LambdaFirst ==
  ASSUME NEW ws \in Line, NEW m, First(ws, m)
  PROVE  /\ ConvertLambda(ws) \in Line /\ Len(ConvertLambda(ws)) = Len(ws)
         /\ m \in 1 .. Len(ws) - 2
         /\ \A k \in 1 .. Len(ws) :
              ConvertLambda(ws)[k] = IF k = m + 1 THEN Colon(ws[k]) ELSE ws[k]
<1>0. Len(ws) \in Nat /\ DOMAIN ws = 1 .. Len(ws) /\ \A i \in 1 .. Len(ws) : ws[i] \in Words
  BY LenLine
<1>1. m \in 1 .. Len(ws) - 2 /\ Matches(ws) \in SUBSET Nat /\ m \in Matches(ws)
  BY <1>0 DEF First, Matches
<1>2. Min(Matches(ws)) \in Matches(ws) /\ \A y \in Matches(ws) : Min(Matches(ws)) <= y
  BY <1>1, LeastNat
<1>3. Min(Matches(ws)) = m
  <2>1. m <= Min(Matches(ws)) /\ Min(Matches(ws)) <= m /\ Min(Matches(ws)) \in Nat /\ m \in Nat
    BY <1>1, <1>2 DEF First
  <2> QED BY <2>1
<1>4. ConvertLambda(ws) = [ws EXCEPT ![m + 1].right = ":"]
  BY <1>1, <1>3, LambdaIs
<1>5. ConvertLambda(ws) = [k \in 1 .. Len(ws) |-> IF k = m + 1 THEN Colon(ws[k]) ELSE ws[k]]
  BY <1>0, <1>4 DEF Colon
<1>6. \A k \in 1 .. Len(ws) : (IF k = m + 1 THEN Colon(ws[k]) ELSE ws[k]) \in Words
  BY <1>0, ColonWord
<1>7. ConvertLambda(ws) \in [1 .. Len(ws) -> Words]
  BY <1>5, <1>6
<1>8. ConvertLambda(ws) \in Line /\ Len(ConvertLambda(ws)) = Len(ws)
  BY <1>0, <1>7, SeqOfFunction DEF Line
<1> QED BY <1>1, <1>5, <1>8

(* There is no match or there is a first one. *)
LEMMA LambdaCases ==
  ASSUME NEW ws \in Line
  PROVE  (Matches(ws) = {}) \/ (\E m : First(ws, m))
<1>1. Matches(ws) \in SUBSET Nat
  BY LenLine DEF Matches
<1> QED BY <1>1, LeastNat DEF First

(* What is left of the words, whatever is found: a word may have got a colon. *)
OrColon(v, w) ==
  /\ v.text = w.text /\ v.left = w.left
  /\ v.right # w.right => v.right = ":" /\ Identifier(w)

(* That, word by word. *)
OrColons(vs, ws) ==
  /\ vs \in Line /\ Len(vs) = Len(ws)
  /\ \A k \in 1 .. Len(ws) : OrColon(vs[k], ws[k])

(* ConvertLambda adds colons to names, and does nothing else. *)
LEMMA LambdaLine ==
  ASSUME NEW ws \in Line
  PROVE  OrColons(ConvertLambda(ws), ws)
<1>1. CASE Matches(ws) = {}
  BY <1>1, LambdaNone DEF OrColons, OrColon
<1>2. ASSUME NEW m, First(ws, m)  PROVE OrColons(ConvertLambda(ws), ws)
  <2>1. /\ ConvertLambda(ws) \in Line /\ Len(ConvertLambda(ws)) = Len(ws)
        /\ \A k \in 1 .. Len(ws) :
              ConvertLambda(ws)[k] = IF k = m + 1 THEN Colon(ws[k]) ELSE ws[k]
    BY <1>2, LambdaFirst
  <2>2. Identifier(ws[m + 1])
    BY <1>2 DEF First, Matches, MatchAt
  <2>3. \A k \in 1 .. Len(ws) : ws[k] \in Words
    BY LenLine
  <2>4. ASSUME NEW k \in 1 .. Len(ws)  PROVE OrColon(ConvertLambda(ws)[k], ws[k])
    <3>1. CASE k = m + 1
      <4>1. ConvertLambda(ws)[k] = Colon(ws[k]) /\ Identifier(ws[k]) /\ ws[k] \in Words
        BY <3>1, <2>1, <2>2, <2>3
      <4> QED BY <4>1, ColonWord DEF OrColon
    <3>2. CASE k # m + 1
      <4>1. ConvertLambda(ws)[k] = ws[k]
        BY <3>2, <2>1
      <4> QED BY <4>1 DEF OrColon
    <3> QED BY <3>1, <3>2
  <2> QED BY <2>1, <2>4 DEF OrColons
<1> QED BY <1>1, <1>2, LambdaCases

(* A line in which no lambda is found, nor in one that goes on. *)
Still(s) ==
  \A k \in 1 .. Len(s) : s[k].text = "lambda" =>
    \/ s[k].right # ""
    \/ k < Len(s) /\ ~Identifier(s[k + 1])

(* In such a line nothing matches. *)
LEMMA StillNone ==
  ASSUME NEW s \in Line, Still(s)
  PROVE  Matches(s) = {}
<1> SUFFICES ASSUME NEW k \in Matches(s) PROVE FALSE
  OBVIOUS
<1>1. Len(s) \in Nat
  BY LenLine
<1>2. k \in 1 .. Len(s) /\ MatchAt(s, k)
  BY <1>1 DEF Matches
<1> QED BY <1>2 DEF Still, MatchAt

(* The empty line is such a line. *)
LEMMA StillNil == Still(<<>>)
<1>1. 1 .. Len(<<>>) = {}
  BY NilLine
<1> QED BY <1>1, Zenon DEF Still

(* Two of them make another. *)
LEMMA StillCat ==
  ASSUME NEW s \in Line, NEW t \in Line, Still(s), Still(t)
  PROVE  Still(Cat(s, t))
<1> DEFINE c == Cat(s, t)
<1>1. Len(s) \in Nat /\ Len(t) \in Nat /\ Len(c) = Len(s) + Len(t)
  BY LenLine, CatLine
<1>2. /\ \A i \in Nat : 1 <= i /\ i <= Len(s) => c[i] = s[i]
      /\ \A i \in Nat : Len(s) < i /\ i <= Len(s) + Len(t) => c[i] = t[i - Len(s)]
  BY CatAt
<1> HIDE DEF c
<1>3. ASSUME NEW k \in 1 .. Len(c), c[k].text = "lambda"
      PROVE  c[k].right # "" \/ (k < Len(c) /\ ~Identifier(c[k + 1]))
  <2>0. k \in Nat /\ 1 <= k /\ k <= Len(s) + Len(t)
    BY <1>1
  <2>1. CASE k <= Len(s)
    <3>1. c[k] = s[k]
      BY <1>2, <2>0, <2>1
    <3>2. s[k].right # "" \/ (k < Len(s) /\ ~Identifier(s[k + 1]))
      <4>1. k \in 1 .. Len(s) /\ s[k].text = "lambda"
        BY <1>1, <1>3, <2>0, <2>1, <3>1
      <4> QED BY <4>1, Zenon DEF Still
    <3>3. CASE k < Len(s)
      <4>1. c[k + 1] = s[k + 1] /\ k < Len(c)
        BY <1>1, <1>2, <2>0, <3>3
      <4> QED BY <3>1, <3>2, <4>1
    <3> QED BY <3>1, <3>2, <3>3
  <2>2. CASE Len(s) < k
    <3>1. c[k] = t[k - Len(s)] /\ k - Len(s) \in 1 .. Len(t)
      BY <1>1, <1>2, <2>0, <2>2
    <3>2. t[k - Len(s)].right # "" \/ (k - Len(s) < Len(t) /\ ~Identifier(t[(k - Len(s)) + 1]))
      BY <1>3, <3>1 DEF Still
    <3>3. CASE k - Len(s) < Len(t)
      <4>1. k + 1 \in Nat /\ Len(s) < k + 1 /\ k + 1 <= Len(s) + Len(t) /\ k < Len(c)
            /\ (k + 1) - Len(s) = (k - Len(s)) + 1
        BY <1>1, <2>0, <2>2, <3>3
      <4>2. c[k + 1] = t[(k - Len(s)) + 1]
        BY <1>2, <4>1
      <4> QED BY <3>1, <3>2, <4>1, <4>2
    <3> QED BY <3>1, <3>2, <3>3
  <2>3. k <= Len(s) \/ Len(s) < k
    BY <1>1, <2>0
  <2> QED BY <2>1, <2>2, <2>3, Zenon
<1>4. Still(c)
  BY <1>3 DEF Still
<1> QED BY <1>4 DEF c

(* And so do many. *)
LEMMA StillFlat ==
  ASSUME NEW n \in Nat, NEW f, f \in Pieces(n), \A k \in 1 .. n : Still(f[k])
  PROVE  Still(FlattenSeq(f))
<1> DEFINE P == {s \in Line : Still(s)}
<1>1. P \in SUBSET Seq(Words)
  BY DEF Line
<1>2. <<>> \in P
  BY StillNil, NilLine
<1>3. \A s, t \in P : Cat(s, t) \in P
  BY StillCat, CatLine
<1>4. f \in [1 .. n -> P]
  BY PiecesAt DEF Pieces
<1> HIDE DEF P
<1>5. \A s, t \in P : s \o t \in P
  BY <1>3, Zenon DEF Cat
<1>6. FlattenSeq(f) \in P
  BY <1>1, <1>2, <1>4, <1>5, FlatIn, Zenon
<1> QED BY <1>6 DEF P

(* Lambdas are looked for behind a line that has none. *)
LEMMA LambdaAfter ==
  ASSUME NEW s \in Line, NEW t \in Line, Still(s)
  PROVE  ConvertLambda(Cat(s, t)) = Cat(s, ConvertLambda(t))
<1> DEFINE c == Cat(s, t)
<1>1. Len(s) \in Nat /\ Len(t) \in Nat /\ c \in Line /\ Len(c) = Len(s) + Len(t)
  BY LenLine, CatLine
<1>2. /\ \A i \in Nat : 1 <= i /\ i <= Len(s) => c[i] = s[i]
      /\ \A i \in Nat : Len(s) < i /\ i <= Len(s) + Len(t) => c[i] = t[i - Len(s)]
  BY CatAt
<1> HIDE DEF c
<1>3. ASSUME NEW k \in Matches(c)  PROVE k - Len(s) \in Matches(t)
  <2>1. k \in Nat /\ 1 <= k /\ k <= (Len(s) + Len(t)) - 2 /\ MatchAt(c, k)
    BY <1>1 DEF Matches
  <2>2. CASE k <= Len(s)
    <3>1. c[k] = s[k]
      BY <1>2, <2>1, <2>2
    <3>2. k < Len(s) /\ ~Identifier(s[k + 1])
      <4>1. k \in 1 .. Len(s) /\ s[k].text = "lambda" /\ s[k].right = ""
        <5>1. c[k].text = "lambda" /\ c[k].right = ""
          BY <2>1, Zenon DEF MatchAt
        <5>2. k \in 1 .. Len(s)
          BY <1>1, <2>1, <2>2
        <5> QED BY <3>1, <5>1, <5>2, Zenon
      <4> QED BY <4>1, Zenon DEF Still
    <3>3. c[k + 1] = s[k + 1]
      BY <1>1, <1>2, <2>1, <3>2
    <3> QED BY <2>1, <3>2, <3>3 DEF MatchAt
  <2>3. CASE Len(s) < k
    <3>1. c[k] = t[k - Len(s)] /\ k - Len(s) \in 1 .. Len(t) - 2
      BY <1>1, <1>2, <2>1, <2>3
    <3>2. k + 1 \in Nat /\ Len(s) < k + 1 /\ k + 1 <= Len(s) + Len(t)
          /\ (k + 1) - Len(s) = (k - Len(s)) + 1
      BY <1>1, <2>1, <2>3
    <3>3. c[k + 1] = t[(k - Len(s)) + 1]
      BY <1>2, <3>2
    <3> QED BY <2>1, <3>1, <3>3 DEF Matches, MatchAt
  <2> QED BY <1>1, <2>1, <2>2, <2>3
<1>4. ASSUME NEW k \in Matches(t)  PROVE k + Len(s) \in Matches(c) /\ (k + Len(s)) - Len(s) = k
  <2>1. k \in Nat /\ 1 <= k /\ k <= Len(t) - 2 /\ MatchAt(t, k)
    BY <1>1 DEF Matches
  <2>2. /\ k + Len(s) \in Nat /\ Len(s) < k + Len(s) /\ k + Len(s) <= Len(s) + Len(t)
        /\ (k + Len(s)) - Len(s) = k /\ k + Len(s) \in 1 .. Len(c) - 2
        /\ (k + Len(s)) + 1 \in Nat /\ Len(s) < (k + Len(s)) + 1
        /\ (k + Len(s)) + 1 <= Len(s) + Len(t) /\ ((k + Len(s)) + 1) - Len(s) = k + 1
    BY <1>1, <2>1
  <2>3. c[k + Len(s)] = t[k] /\ c[(k + Len(s)) + 1] = t[k + 1]
    BY <1>2, <2>2
  <2> QED BY <2>1, <2>2, <2>3 DEF Matches, MatchAt
<1>5. CASE Matches(t) = {}
  <2>1. Matches(c) = {}
    BY <1>3, <1>5
  <2> QED BY <2>1, <1>5, LambdaNone DEF c
<1>6. ASSUME NEW m, First(t, m)  PROVE ConvertLambda(c) = Cat(s, ConvertLambda(t))
  <2>1. /\ ConvertLambda(t) \in Line /\ Len(ConvertLambda(t)) = Len(t) /\ m \in 1 .. Len(t) - 2
        /\ \A k \in 1 .. Len(t) :
             ConvertLambda(t)[k] = IF k = m + 1 THEN Colon(t[k]) ELSE t[k]
    BY <1>6, LambdaFirst
  <2>2. First(c, m + Len(s))
    <3>1. m + Len(s) \in Matches(c)
      BY <1>4, <1>6 DEF First
    <3>2. ASSUME NEW k \in Matches(c)  PROVE m + Len(s) <= k
      <4>1. m <= k - Len(s)
        BY <1>3, <1>6 DEF First
      <4>2. k \in Nat
        BY <1>1 DEF Matches
      <4> QED BY <1>1, <2>1, <4>1, <4>2
    <3> QED BY <3>1, <3>2 DEF First
  <2>3. /\ ConvertLambda(c) \in Line /\ Len(ConvertLambda(c)) = Len(c)
        /\ \A k \in 1 .. Len(c) :
             ConvertLambda(c)[k] = IF k = (m + Len(s)) + 1 THEN Colon(c[k]) ELSE c[k]
    BY <1>1, <2>2, LambdaFirst
  <2> DEFINE a == ConvertLambda(c)
             v == ConvertLambda(t)
             b == Cat(s, v)
  <2> HIDE DEF a, v
  <2>4. b \in Line /\ Len(b) = Len(s) + Len(t)
    BY <1>1, <2>1, CatLine DEF v
  <2>5. /\ \A i \in Nat : 1 <= i /\ i <= Len(s) => b[i] = s[i]
        /\ \A i \in Nat : Len(s) < i /\ i <= Len(s) + Len(t) => b[i] = v[i - Len(s)]
    <3>1. v \in Line /\ Len(v) = Len(t)
      BY <2>1 DEF v
    <3> QED BY <3>1, CatAt
  <2> HIDE DEF b
  <2>6. ASSUME NEW i \in 1 .. Len(c)  PROVE a[i] = b[i]
    <3>0. i \in Nat /\ 1 <= i /\ i <= Len(s) + Len(t)
      BY <1>1
    <3>1. CASE i <= Len(s)
      <4>1. i # (m + Len(s)) + 1
        BY <1>1, <2>1, <3>0, <3>1
      <4>2. a[i] = c[i]
        BY <2>3, <4>1 DEF a
      <4> QED BY <1>2, <2>5, <3>0, <3>1, <4>2
    <3>2. CASE Len(s) < i
      <4>1. i - Len(s) \in 1 .. Len(t) /\ (i = (m + Len(s)) + 1 <=> i - Len(s) = m + 1)
        BY <1>1, <2>1, <3>0, <3>2
      <4>2. v[i - Len(s)] = IF i - Len(s) = m + 1 THEN Colon(t[i - Len(s)]) ELSE t[i - Len(s)]
        BY <2>1, <4>1 DEF v
      <4>3. a[i] = IF i = (m + Len(s)) + 1 THEN Colon(c[i]) ELSE c[i]
        BY <2>3 DEF a
      <4>4. c[i] = t[i - Len(s)] /\ b[i] = v[i - Len(s)]
        BY <1>2, <2>5, <3>0, <3>2
      <4> QED BY <4>1, <4>2, <4>3, <4>4
    <3> QED BY <1>1, <3>0, <3>1, <3>2
  <2>7. a \in Line /\ Len(a) = Len(c)
    BY <2>3 DEF a
  <2>8. a = b
    BY <1>1, <2>4, <2>6, <2>7, LineEqual
  <2> QED BY <2>8 DEF a, b, v
<1>7. ConvertLambda(c) = Cat(s, ConvertLambda(t))
  BY <1>5, <1>6, LambdaCases, Zenon DEF c
<1> QED BY <1>7 DEF c

(* Such a line is not changed. *)
LEMMA LambdaStill ==
  ASSUME NEW s \in Line, Still(s)
  PROVE  ConvertLambda(s) = s
BY StillNone, LambdaNone
-----------------------------------------------------------------------------
(* ConvertSimpleCall, and the items of expressions. *)

(* A call of h with the arguments x. *)
Called(h, x) == Cat(Cat(Cat(h, Sign("(")), x), Sign(")"))

(* A call has its parentheses in addition to its words. *)
LEMMA CalledLine ==
  ASSUME NEW h \in Line, NEW x \in Line
  PROVE  Called(h, x) \in Line /\ Len(Called(h, x)) = (Len(h) + Len(x)) + 2
<1>1. /\ Sign("(") \in Line /\ Len(Sign("(")) = 1
      /\ Sign(")") \in Line /\ Len(Sign(")")) = 1
  BY SignLine, Known
<1>2. Cat(h, Sign("(")) \in Line /\ Len(Cat(h, Sign("("))) = Len(h) + 1
  BY <1>1, CatLine, Zenon
<1>3. /\ Cat(Cat(h, Sign("(")), x) \in Line
      /\ Len(Cat(Cat(h, Sign("(")), x)) = (Len(h) + 1) + Len(x)
  BY <1>2, CatLine, Zenon
<1>4. Called(h, x) \in Line /\ Len(Called(h, x)) = ((Len(h) + 1) + Len(x)) + 1
  BY <1>1, <1>3, CatLine, Zenon DEF Called
<1>5. \A i, j \in Nat : ((i + 1) + j) + 1 = (i + j) + 2
  OBVIOUS
<1> QED BY <1>4, <1>5, LenLine, Zenon

(* A line without its first word. *)
Rest(ws) == [k \in 1 .. Len(ws) - 1 |-> ws[k + 1]]

(* The words of the rest. *)
LEMMA RestLine ==
  ASSUME NEW ws \in Line, Len(ws) >= 1
  PROVE  /\ Rest(ws) \in Line /\ Len(Rest(ws)) = Len(ws) - 1
         /\ \A k \in 1 .. Len(ws) - 1 : Rest(ws)[k] = ws[k + 1]
<1>1. Len(ws) \in Nat /\ Len(ws) - 1 \in Nat
      /\ \A k \in 1 .. Len(ws) - 1 : ws[k + 1] \in Words
  BY LenLine
<1>2. Rest(ws) \in [1 .. Len(ws) - 1 -> Words]
  BY <1>1 DEF Rest
<1>3. Rest(ws) \in Line /\ Len(Rest(ws)) = Len(ws) - 1
  BY <1>1, <1>2, SeqOfFunction DEF Line
<1> QED BY <1>1, <1>3 DEF Rest

(* The rest of a word and a line is the line. *)
LEMMA RestCat ==
  ASSUME NEW w \in Words, NEW t \in Line
  PROVE  /\ Cat(Single(w), t) \in Line /\ Len(Cat(Single(w), t)) = Len(t) + 1
         /\ Cat(Single(w), t)[1] = w
         /\ \A k \in 1 .. Len(t) : Cat(Single(w), t)[k + 1] = t[k]
         /\ Rest(Cat(Single(w), t)) = t
<1> DEFINE c == Cat(Single(w), t)
<1>1. Single(w) \in Line /\ Len(Single(w)) = 1 /\ Single(w)[1] = w /\ Len(t) \in Nat
  BY SingleLine, LenLine
<1>2. c \in Line /\ Len(c) = Len(t) + 1
  <2>1. c \in Line /\ Len(c) = Len(Single(w)) + Len(t)
    BY <1>1, CatLine, Zenon
  <2> HIDE DEF c
  <2> QED BY <1>1, <2>1
<1>3. /\ \A i \in Nat : 1 <= i /\ i <= Len(Single(w)) => c[i] = Single(w)[i]
      /\ \A i \in Nat : Len(Single(w)) < i /\ i <= Len(Single(w)) + Len(t)
           => c[i] = t[i - Len(Single(w))]
  BY <1>1, CatAt
<1> HIDE DEF c
<1>4. c[1] = w
  BY <1>1, <1>3
<1>5. ASSUME NEW k \in 1 .. Len(t)  PROVE c[k + 1] = t[k]
  <2>1. k + 1 \in Nat /\ 1 < k + 1 /\ k + 1 <= 1 + Len(t) /\ (k + 1) - 1 = k
    BY <1>1
  <2> QED BY <1>1, <1>3, <2>1
<1>6. /\ Rest(c) \in Line /\ Len(Rest(c)) = Len(t)
      /\ \A k \in 1 .. Len(t) : Rest(c)[k] = c[k + 1]
  BY <1>1, <1>2, RestLine
<1>7. Rest(c) = t
  BY <1>5, <1>6, LineEqual
<1> QED BY <1>2, <1>4, <1>5, <1>7 DEF c

(* A line is its first word and its rest. *)
LEMMA LineCons ==
  ASSUME NEW ws \in Line, Len(ws) >= 1
  PROVE  ws[1] \in Words /\ ws = Cat(Single(ws[1]), Rest(ws))
<1>1. Len(ws) \in Nat /\ ws[1] \in Words
  BY LenLine
<1>2. /\ Rest(ws) \in Line /\ Len(Rest(ws)) = Len(ws) - 1
      /\ \A k \in 1 .. Len(ws) - 1 : Rest(ws)[k] = ws[k + 1]
  BY RestLine
<1> DEFINE c == Cat(Single(ws[1]), Rest(ws))
<1>3. /\ c \in Line /\ Len(c) = Len(Rest(ws)) + 1 /\ c[1] = ws[1]
      /\ \A k \in 1 .. Len(Rest(ws)) : c[k + 1] = Rest(ws)[k]
  BY <1>1, <1>2, RestCat
<1> HIDE DEF c
<1>4. ASSUME NEW i \in 1 .. Len(ws)  PROVE ws[i] = c[i]
  <2>1. CASE i = 1
    BY <1>3, <2>1
  <2>2. CASE i # 1
    <3>1. i - 1 \in 1 .. Len(ws) - 1 /\ (i - 1) + 1 = i
      BY <1>1, <2>2
    <3>2. c[(i - 1) + 1] = Rest(ws)[i - 1] /\ Rest(ws)[i - 1] = ws[(i - 1) + 1]
      BY <1>2, <1>3, <3>1
    <3> QED BY <3>1, <3>2
  <2> QED BY <2>1, <2>2
<1>5. Len(c) = Len(ws)
  BY <1>1, <1>2, <1>3
<1>6. ws = c
  BY <1>3, <1>4, <1>5, LineEqual
<1> QED BY <1>1, <1>6 DEF c

(* ConvertSimpleCall takes the line for a call. *)
Found(ws) == Len(ws) > 1 /\ Identifier(ws[1]) /\ \A k \in 1 .. Len(ws) : ~Symbolic(ws[k])

(* Then it is made a call of the first word, with a comma between the      *)
(* others.                                                                 *)
LEMMA SimpleCallIs ==
  ASSUME NEW ws \in Line
  PROVE  ConvertSimpleCall(ws) = IF Found(ws) THEN Called(Single(ws[1]), Comma(Singles(Rest(ws))))
                                 ELSE ws
<1>1. DOMAIN ws = 1 .. Len(ws) /\ Len(ws) \in Nat
  BY LenLine
<1>2. CASE ~Found(ws)
  <2>1. Len(ws) <= 1 \/ ~Identifier(ws[1]) \/ \E k \in DOMAIN ws : Symbolic(ws[k])
    BY <1>1, <1>2 DEF Found
  <2> QED BY <1>2, <2>1, Zenon DEF ConvertSimpleCall
<1>3. CASE Found(ws)
  <2>1. ~(Len(ws) <= 1 \/ ~Identifier(ws[1]) \/ \E k \in DOMAIN ws : Symbolic(ws[k]))
    BY <1>1, <1>3 DEF Found
  <2>2. ConvertSimpleCall(ws)
          = <<ws[1]>> \o Bare(<<"(">>) \o Comma([k \in 1 .. Len(ws) - 1 |-> <<ws[k + 1]>>])
              \o Bare(<<")">>)
    BY <2>1, Zenon DEF ConvertSimpleCall
  <2>3. Bare(<<"(">>) = Sign("(") /\ Bare(<<")">>) = Sign(")")
    BY BareOne, Known
  <2>4. [k \in 1 .. Len(ws) - 1 |-> <<ws[k + 1]>>] = Singles(Rest(ws))
    <3>1. Len(ws) >= 1
      BY <1>1, <1>3 DEF Found
    <3>2. Len(Rest(ws)) = Len(ws) - 1 /\ \A k \in 1 .. Len(ws) - 1 : Rest(ws)[k] = ws[k + 1]
      BY <3>1, RestLine
    <3>3. [k \in 1 .. Len(ws) - 1 |-> <<ws[k + 1]>>]
            = [k \in 1 .. Len(ws) - 1 |-> Single(ws[k + 1])]
      BY Zenon DEF Single
    <3> QED BY <3>2, <3>3 DEF Singles
  <2>5. ConvertSimpleCall(ws) = Called(Single(ws[1]), Comma(Singles(Rest(ws))))
    BY <2>2, <2>3, <2>4, Zenon DEF Called, Cat, Single
  <2> QED BY <1>3, <2>5, Zenon
<1> QED BY <1>2, <1>3

(* The length of words with commas between them. *)
LEMMA CommaSingles ==
  ASSUME NEW s \in Line, Len(s) >= 1
  PROVE  Comma(Singles(s)) \in Line /\ Len(Comma(Singles(s))) = (Len(s) + Len(s)) - 1
<1>1. Len(s) \in Nat /\ Len(s) - 1 \in Nat /\ (Len(s) - 1) + 1 = Len(s)
  BY LenLine
<1>2. Singles(s) \in Pieces(Len(s)) /\ FlattenSeq(Singles(s)) = s
  BY SinglesType, FlatSingles
<1>3. Comma(Singles(s)) \in Line
  BY <1>1, <1>2, CommaLine
<1>4. Singles(s) \in Pieces((Len(s) - 1) + 1)
  BY <1>1, <1>2
<1>5. Len(Comma(Singles(s))) = Len(FlattenSeq(Singles(s))) + (Len(s) - 1)
  BY <1>1, <1>4, CommaLen, Zenon
<1>6. \A i \in Nat : i + (i - 1) = (i + i) - 1
  OBVIOUS
<1> QED BY <1>1, <1>2, <1>3, <1>5, <1>6, Zenon

(* A call that was found has twice as many words. *)
LEMMA SimpleCallLen ==
  ASSUME NEW ws \in Line
  PROVE  /\ ConvertSimpleCall(ws) \in Line
         /\ Found(ws) => Len(ConvertSimpleCall(ws)) = Len(ws) + Len(ws)
<1>0. Len(ws) \in Nat
  BY LenLine
<1>1. ASSUME Found(ws)
      PROVE  /\ Called(Single(ws[1]), Comma(Singles(Rest(ws)))) \in Line
             /\ Len(Called(Single(ws[1]), Comma(Singles(Rest(ws))))) = Len(ws) + Len(ws)
  <2>1. Len(ws) > 1 /\ Len(ws) >= 1
    BY <1>0, <1>1 DEF Found
  <2>2. ws[1] \in Words /\ Rest(ws) \in Line /\ Len(Rest(ws)) = Len(ws) - 1
    BY <2>1, LineCons, RestLine
  <2>3. Len(Rest(ws)) >= 1
    BY <1>0, <2>1, <2>2
  <2>4. /\ Comma(Singles(Rest(ws))) \in Line
        /\ Len(Comma(Singles(Rest(ws)))) = (Len(Rest(ws)) + Len(Rest(ws))) - 1
    BY <2>2, <2>3, CommaSingles
  <2>5. Single(ws[1]) \in Line /\ Len(Single(ws[1])) = 1
    BY <2>2, SingleLine
  <2>6. /\ Called(Single(ws[1]), Comma(Singles(Rest(ws)))) \in Line
        /\ Len(Called(Single(ws[1]), Comma(Singles(Rest(ws)))))
             = (1 + Len(Comma(Singles(Rest(ws))))) + 2
    BY <2>4, <2>5, CalledLine, Zenon
  <2>7. \A i \in Nat : (1 + (((i - 1) + (i - 1)) - 1)) + 2 = i + i
    OBVIOUS
  <2>8. Len(Comma(Singles(Rest(ws)))) = ((Len(ws) - 1) + (Len(ws) - 1)) - 1
    BY <2>2, <2>4, Zenon
  <2> QED BY <1>0, <2>6, <2>7, <2>8, Zenon
<1>2. CASE Found(ws)
  BY <1>1, <1>2, SimpleCallIs, Zenon
<1>3. CASE ~Found(ws)
  BY <1>3, SimpleCallIs, Zenon
<1> QED BY <1>2, <1>3

-----------------------------------------------------------------------------
(* The words of items. *)

(* Items in NewPython. *)
Sources(items) == [k \in DOMAIN items |-> ItemSource(items[k])]

(* Items in Python. *)
Pythons(items) == [k \in DOMAIN items |-> ItemPython(items[k])]

(* The one becomes the other. *)
LEMMA PythonsType ==
  ASSUME NEW items \in Seq(Items)
  PROVE  /\ Len(items) \in Nat
         /\ Sources(items) \in Pieces(Len(items)) /\ Pythons(items) \in Pieces(Len(items))
         /\ Quotes(Sources(items)) = Pythons(items)
         /\ \A k \in 1 .. Len(items) : /\ items[k] \in Items
                                       /\ Sources(items)[k] = ItemSource(items[k])
                                       /\ Pythons(items)[k] = ItemPython(items[k])
<1>1. Len(items) \in Nat /\ DOMAIN items = 1 .. Len(items)
      /\ \A k \in 1 .. Len(items) : items[k] \in Items
  BY LenProperties, ElementOfSeq
<1>2. \A k \in 1 .. Len(items) :
        /\ ItemSource(items[k]) \in Line /\ ItemPython(items[k]) \in Line
        /\ ConvertBracketStrings(ItemSource(items[k])) = ItemPython(items[k])
  BY <1>1, ItemLine
<1>3. \A k \in 1 .. Len(items) : /\ Sources(items)[k] = ItemSource(items[k])
                                 /\ Pythons(items)[k] = ItemPython(items[k])
  BY <1>1 DEF Sources, Pythons
<1>4. Sources(items) \in Pieces(Len(items)) /\ Pythons(items) \in Pieces(Len(items))
  BY <1>1, <1>2 DEF Sources, Pythons, Pieces
<1>5. Quotes(Sources(items)) = Pythons(items)
  BY <1>1, <1>2 DEF Quotes, Sources, Pythons
<1> QED BY <1>1, <1>3, <1>4, <1>5, Zenon

(* The words of an item in Python. *)
LEMMA ItemWords ==
  ASSUME NEW item \in Items, NEW k \in 1 .. Len(item.texts)
  PROVE  /\ item.texts \in Seq(Texts) /\ Len(item.texts) \in Nat /\ item.texts[k] \in Texts
         /\ ItemPython(item)[k] \in Words
         /\ ItemPython(item)[k].text = item.texts[k]
         /\ item.literal => ItemPython(item)[k] = InMarks(item.texts, "\"", "\"", k)
         /\ ~item.literal => ItemPython(item)[k] = Plainly(item.texts[k])
<1>1. item.texts \in Seq(Texts)
  BY DEF Items
<1>2. Len(item.texts) \in Nat /\ item.texts[k] \in Texts
  BY <1>1, LenProperties, ElementOfSeq
<1>3. CASE item.literal
  <2>1. /\ Marked(item.texts, "\"", "\"")[k] = InMarks(item.texts, "\"", "\"", k)
        /\ InMarks(item.texts, "\"", "\"", k) \in Words
    BY <1>1, MarkedLine
  <2>2. InMarks(item.texts, "\"", "\"", k).text = item.texts[k]
    BY DEF InMarks, Word
  <2> QED BY <1>1, <1>2, <1>3, <2>1, <2>2, Zenon DEF ItemPython
<1>4. CASE ~item.literal
  <2>1. Bare(item.texts)[k] = Plainly(item.texts[k])
    BY <1>1, BareLine
  <2> QED BY <1>1, <1>2, <1>4, <2>1, PlainlyWord, Zenon DEF ItemPython
<1> QED BY <1>3, <1>4

(* The parts of a word of a text in quotes. *)
LEMMA MarkedWord ==
  ASSUME NEW texts, NEW k
  PROVE  /\ InMarks(texts, "\"", "\"", k).text = texts[k]
         /\ InMarks(texts, "\"", "\"", k).left = IF k = 1 THEN "\"" ELSE ""
         /\ InMarks(texts, "\"", "\"", k).right = IF k = Len(texts) THEN "\"" ELSE ""
BY DEF InMarks, Word

(* A text has quotes at its ends, and nowhere else. *)
LEMMA TextWords ==
  ASSUME NEW item \in Items, item.literal, NEW k \in 1 .. Len(item.texts)
  PROVE  /\ ItemPython(item)[k].text = item.texts[k]
         /\ ItemPython(item)[k].left = IF k = 1 THEN "\"" ELSE ""
         /\ ItemPython(item)[k].right = IF k = Len(item.texts) THEN "\"" ELSE ""
<1>1. ItemPython(item)[k] = InMarks(item.texts, "\"", "\"", k)
  BY ItemWords
<1>2. /\ InMarks(item.texts, "\"", "\"", k).text = item.texts[k]
      /\ InMarks(item.texts, "\"", "\"", k).left = IF k = 1 THEN "\"" ELSE ""
      /\ InMarks(item.texts, "\"", "\"", k).right = IF k = Len(item.texts) THEN "\"" ELSE ""
  BY MarkedWord
<1> QED BY <1>1, <1>2

(* Other items have no marks. *)
LEMMA PlainWords ==
  ASSUME NEW item \in Items, ~item.literal, NEW k \in 1 .. Len(item.texts)
  PROVE  /\ ItemPython(item)[k].text = item.texts[k]
         /\ ItemPython(item)[k].left = "" /\ ItemPython(item)[k].right = ""
<1>1. ItemPython(item)[k] = Plainly(item.texts[k]) /\ item.texts[k] \in Texts
  BY ItemWords
<1> QED BY <1>1, PlainlyWord, Zenon

(* The word lambda is neither a name nor a number. *)
LEMMA NotLambda ==
  ASSUME NEW text, IsAtom(text)
  PROVE  text # "lambda"
BY DEF IsAtom, IsName, Keywords, Numbers

(* A plain item has none of the words that its formulas must not have. *)
LEMMA PlainItem ==
  ASSUME NEW item \in Items, IsItem(item), ~item.literal, NEW k \in 1 .. Len(item.texts)
  PROVE  item.texts[k] \notin {"lambda", "=", "+=", "(", ")", ",", ":"}
<1>1. item.texts \in Seq(Texts)
  BY DEF Items
<1>2. Len(item.texts) \in Nat /\ DOMAIN item.texts = 1 .. Len(item.texts)
  BY <1>1, LenProperties
<1>3. CASE Len(item.texts) = 1
  <2>1. IsAtom(item.texts[1]) /\ k = 1
    BY <1>3 DEF IsItem
  <2> QED BY <2>1 DEF IsAtom, IsName, Keywords, Numbers, Operators
<1>4. CASE Len(item.texts) # 1
  BY <1>2, <1>4 DEF IsItem
<1> QED BY <1>3, <1>4

(* An item that does not speak of a lambda has none to be found. *)
LEMMA StillItem ==
  ASSUME NEW item \in Items, IsItem(item), ~SpeaksOfLambda(item)
  PROVE  Still(ItemPython(item))
<1> DEFINE p == ItemPython(item)
<1>1. p \in Line /\ Len(p) = Len(item.texts)
  BY ItemLine
<1> HIDE DEF p
<1> SUFFICES ASSUME NEW k \in 1 .. Len(item.texts), p[k].text = "lambda"
             PROVE  p[k].right # "" \/ (k < Len(p) /\ ~Identifier(p[k + 1]))
  BY <1>1 DEF Still, p
<1>2. Len(item.texts) \in Nat /\ item.texts[k] = "lambda"
  BY ItemWords DEF p
<1>3. item.literal
  BY <1>2, PlainItem
<1>4. p[k].right = IF k = Len(item.texts) THEN "\"" ELSE ""
  BY <1>3, TextWords DEF p
<1>5. CASE k = Len(item.texts)
  BY <1>4, <1>5
<1>6. CASE k # Len(item.texts)
  <2>1. k + 1 \in 1 .. Len(item.texts) /\ k < Len(p)
    BY <1>1, <1>2, <1>6
  <2>2. /\ p[k + 1].text = item.texts[k + 1]
        /\ p[k + 1].right = IF k + 1 = Len(item.texts) THEN "\"" ELSE ""
    BY <1>3, <2>1, TextWords DEF p
  <2>3. CASE k + 1 = Len(item.texts)
    BY <2>1, <2>2, <2>3 DEF Identifier, WordArg, Unmarked
  <2>4. CASE k + 1 # Len(item.texts)
    <3>1. k \in 1 .. Len(item.texts) - 2
      BY <1>2, <2>1, <2>4
    <3>2. item.texts[k + 1] \in Symbols \cup Numbers
      BY <1>2, <1>3, <3>1 DEF SpeaksOfLambda
    <3> QED BY <2>1, <2>2, <3>2 DEF Identifier, WordArg
  <2> QED BY <2>3, <2>4
<1> QED BY <1>5, <1>6

(* One that does has a match. *)
LEMMA SpeaksMatch ==
  ASSUME NEW item \in Items, SpeaksOfLambda(item)
  PROVE  \E k \in 1 .. Len(item.texts) - 2 : MatchAt(ItemPython(item), k)
<1>1. PICK k \in 1 .. Len(item.texts) - 2 :
        item.literal /\ item.texts[k] = "lambda" /\ item.texts[k + 1] \notin Symbols \cup Numbers
  BY DEF SpeaksOfLambda
<1>2. item.texts \in Seq(Texts)
  BY DEF Items
<1>3. Len(item.texts) \in Nat
  BY <1>2, LenProperties
<1>4. /\ k \in 1 .. Len(item.texts) /\ k + 1 \in 1 .. Len(item.texts)
      /\ k # Len(item.texts) /\ k + 1 # Len(item.texts) /\ k + 1 # 1
  BY <1>3
<1>5. ItemPython(item)[k].text = "lambda" /\ ItemPython(item)[k].right = ""
  <2>1. item.literal
    BY <1>1
  <2>2. k \in 1 .. Len(item.texts) /\ ~(k = Len(item.texts))
    BY <1>4
  <2>3. ItemPython(item)[k].text = item.texts[k] /\ ItemPython(item)[k].right = ""
    BY <2>1, <2>2, TextWords, Zenon
  <2> QED BY <1>1, <2>3
<1>6. /\ ItemPython(item)[k + 1].text = item.texts[k + 1]
      /\ ItemPython(item)[k + 1].right = "" /\ ItemPython(item)[k + 1].left = ""
  <2>1. item.literal
    BY <1>1
  <2>2. k + 1 \in 1 .. Len(item.texts) /\ ~(k + 1 = 1) /\ ~(k + 1 = Len(item.texts))
    BY <1>4
  <2> QED BY <2>1, <2>2, TextWords, Zenon
<1>7. Identifier(ItemPython(item)[k + 1])
  BY <1>1, <1>6 DEF Identifier, WordArg, Unmarked
<1> QED BY <1>5, <1>7 DEF MatchAt
-----------------------------------------------------------------------------
(* What an expression is when its brackets have become quotes, for each of *)
(* the three forms.                                                        *)

(* The items of an expression in Python, one after the other. *)
Body(e) == FlattenSeq(Pythons(e.items))

(* The word lambda, if the expression begins with it. *)
Lead(e) == IF e.form = "lambda" THEN Sign("lambda") ELSE <<>>

(* An expression after ConvertBracketStrings. *)
Spoken(e) == Cat(Cat(Lead(e), Bare(e.head)), Body(e))

(* The types of the parts of an expression. *)
LEMMA ExprParts ==
  ASSUME NEW e \in Expressions
  PROVE  /\ e.form \in {"value", "call", "lambda"}
         /\ e.head \in Seq(Texts) /\ Len(e.head) \in Nat /\ DOMAIN e.head = 1 .. Len(e.head)
         /\ e.items \in Seq(Items) /\ Len(e.items) \in Nat /\ DOMAIN e.items = 1 .. Len(e.items)
         /\ \A k \in 1 .. Len(e.head) : e.head[k] \in Texts
         /\ \A k \in 1 .. Len(e.items) : e.items[k] \in Items
<1>1. e.form \in {"value", "call", "lambda"} /\ e.head \in Seq(Texts) /\ e.items \in Seq(Items)
  BY DEF Expressions
<1>2. /\ Len(e.head) \in Nat /\ DOMAIN e.head = 1 .. Len(e.head)
      /\ \A k \in 1 .. Len(e.head) : e.head[k] \in Texts
  BY <1>1, LenProperties, ElementOfSeq
<1>3. /\ Len(e.items) \in Nat /\ DOMAIN e.items = 1 .. Len(e.items)
      /\ \A k \in 1 .. Len(e.items) : e.items[k] \in Items
  BY <1>1, LenProperties, ElementOfSeq
<1> QED BY <1>1, <1>2, <1>3, Zenon

(* One text is a sequence of texts. *)
LEMMA OneText ==
  ASSUME NEW text \in Texts
  PROVE  <<text>> \in Seq(Texts)
OBVIOUS

(* The word lambda has no brackets. *)
LEMMA LeadLine ==
  ASSUME NEW e \in Expressions
  PROVE  Lead(e) \in Line /\ ConvertBracketStrings(Lead(e)) = Lead(e)
<1>1. Sign("lambda") \in Line /\ Bare(<<"lambda">>) = Sign("lambda")
  BY SignLine, BareOne, Known
<1>2. <<"lambda">> \in Seq(Texts)
  BY Known, OneText, Zenon
<1>3. ConvertBracketStrings(Sign("lambda")) = Sign("lambda")
  BY <1>1, <1>2, QuoteBare
<1> QED BY <1>1, <1>3, QuoteNil, NilLine DEF Lead

(* The items become what they are in Python. *)
LEMMA BodyLine ==
  ASSUME NEW e \in Expressions
  PROVE  /\ Body(e) \in Line /\ FlattenSeq(Sources(e.items)) \in Line
         /\ ConvertBracketStrings(FlattenSeq(Sources(e.items))) = Body(e)
<1>1. e.items \in Seq(Items)
  BY ExprParts
<1>2. /\ Len(e.items) \in Nat /\ Sources(e.items) \in Pieces(Len(e.items))
      /\ Pythons(e.items) \in Pieces(Len(e.items)) /\ Quotes(Sources(e.items)) = Pythons(e.items)
  BY <1>1, PythonsType, Zenon
<1> QED BY <1>2, FlatLine, QuoteFlat, Zenon DEF Body

(* That is what ConvertBracketStrings makes of the source of an            *)
(* expression.                                                             *)
LEMMA SpokenIs ==
  ASSUME NEW e \in Expressions
  PROVE  /\ ExprSource(e) \in Line /\ Spoken(e) \in Line
         /\ ConvertBracketStrings(ExprSource(e)) = Spoken(e)
<1>1. e.head \in Seq(Texts)
  BY ExprParts
<1>2. Bare(e.head) \in Line /\ ConvertBracketStrings(Bare(e.head)) = Bare(e.head)
  BY <1>1, BareLine, QuoteBare
<1>3. ExprSource(e) = Cat(Cat(Lead(e), Bare(e.head)), FlattenSeq(Sources(e.items)))
  <2>1. Bare(<<"lambda">>) = Sign("lambda")
    BY BareOne, Known
  <2> QED BY <2>1, Zenon DEF ExprSource, Lead, Cat, Sources
<1>4. Cat(Lead(e), Bare(e.head)) \in Line
  BY <1>2, LeadLine, CatLine
<1>5. ExprSource(e) \in Line /\ Spoken(e) \in Line
  BY <1>3, <1>4, BodyLine, CatLine, Zenon DEF Spoken
<1>6. ConvertBracketStrings(Cat(Lead(e), Bare(e.head))) = Cat(Lead(e), Bare(e.head))
  BY <1>2, LeadLine, QuoteCat, Zenon
<1>7. ConvertBracketStrings(ExprSource(e)) = Spoken(e)
  BY <1>3, <1>4, <1>6, BodyLine, QuoteCat, Zenon DEF Spoken
<1> QED BY <1>5, <1>7

(* The three forms. *)

(* The items of an expression are legal and have words. *)
LEMMA ExprItems ==
  ASSUME NEW e \in Expressions, IsExpression(e), NEW k \in 1 .. Len(e.items)
  PROVE  /\ e.items[k] \in Items /\ IsItem(e.items[k])
         /\ Len(e.items[k].texts) \in Nat /\ Len(e.items[k].texts) >= 1
         /\ ItemPython(e.items[k]) \in Line /\ Len(ItemPython(e.items[k])) = Len(e.items[k].texts)
         /\ Pythons(e.items)[k] = ItemPython(e.items[k])
<1>1. e.items \in Seq(Items) /\ DOMAIN e.items = 1 .. Len(e.items) /\ e.items[k] \in Items
  BY ExprParts
<1>2. IsItem(e.items[k])
  BY <1>1 DEF IsExpression
<1>3. e.items[k].texts \in Seq(Texts) /\ e.items[k].texts # <<>>
  BY <1>1, <1>2 DEF Items, IsItem
<1>4. Len(e.items[k].texts) \in Nat /\ Len(e.items[k].texts) >= 1
  BY <1>3
<1>5. Pythons(e.items)[k] = ItemPython(e.items[k])
  BY <1>1, PythonsType
<1> QED BY <1>1, <1>2, <1>4, <1>5, ItemLine, Zenon

(* The head of an expression is made of names. *)
LEMMA HeadNames ==
  ASSUME NEW e \in Expressions, IsExpression(e), NEW k \in 1 .. Len(e.head)
  PROVE  e.head[k] \in Texts /\ IsName(e.head[k]) /\ Bare(e.head)[k] = Plainly(e.head[k])
<1>1. e.head \in Seq(Texts) /\ DOMAIN e.head = 1 .. Len(e.head) /\ e.head[k] \in Texts
  BY ExprParts
<1>2. IsName(e.head[k])
  BY <1>1 DEF IsExpression
<1> QED BY <1>1, <1>2, BareLine

(* A value is its item. *)
LEMMA ValueForm ==
  ASSUME NEW e \in Expressions, IsExpression(e), e.form = "value"
  PROVE  /\ Len(e.items) = 1 /\ 1 \in 1 .. Len(e.items)
         /\ Spoken(e) = ItemPython(e.items[1]) /\ ExprPython(e) = ItemPython(e.items[1])
<1>1. Len(e.head) = 0 /\ Len(e.items) = 1
  BY DEF IsExpression
<1>2. e.head \in Seq(Texts) /\ e.items \in Seq(Items)
  BY ExprParts
<1>3. Bare(e.head) = <<>>
  BY <1>1, <1>2, BareLine, NilLine, LineEqual
<1>4. Lead(e) = <<>>
  BY DEF Lead
<1>5. 1 \in 1 .. 1 /\ 1 \in 1 .. Len(e.items)
  BY <1>1
<1>6. Pythons(e.items) \in Pieces(1)
  BY <1>1, <1>2, PythonsType, Zenon
<1>7. Body(e) = ItemPython(e.items[1]) /\ ItemPython(e.items[1]) \in Line
  BY <1>5, <1>6, FlatOne, ExprItems, Zenon DEF Body
<1>8. Spoken(e) = ItemPython(e.items[1])
  BY <1>3, <1>4, <1>7, CatNil, NilLine, Zenon DEF Spoken
<1>9. ExprPython(e) = ItemPython(e.items[1])
  BY DEF ExprPython
<1> QED BY <1>1, <1>5, <1>8, <1>9

(* A call in Python, piece by piece. *)
LEMMA CallPythonIs ==
  ASSUME NEW head, NEW items
  PROVE  CallPython(head, items)
           = Cat(Bare(head), Cat(Cat(Sign("("), Comma(Pythons(items))), Sign(")")))
<1>1. Bare(<<"(">>) = Sign("(") /\ Bare(<<")">>) = Sign(")")
  BY BareOne, Known
<1> QED BY <1>1, Zenon DEF CallPython, ArgumentsPython, Pythons, Cat

(* And put together. *)
LEMMA CalledIs ==
  ASSUME NEW h \in Line, NEW x \in Line
  PROVE  Cat(h, Cat(Cat(Sign("("), x), Sign(")"))) = Called(h, x)
<1>1. Sign("(") \in Line /\ Sign(")") \in Line
  BY SignLine, Known
<1>2. Cat(Sign("("), x) \in Line /\ Cat(h, Sign("(")) \in Line
  BY <1>1, CatLine
<1>3. Cat(h, Cat(Cat(Sign("("), x), Sign(")"))) = Cat(Cat(h, Cat(Sign("("), x)), Sign(")"))
  BY <1>1, <1>2, CatAssoc, ZenonT(40)
<1>4. Cat(h, Cat(Sign("("), x)) = Cat(Cat(h, Sign("(")), x)
  BY <1>1, CatAssoc, Zenon
<1> QED BY <1>3, <1>4, Zenon DEF Called

(* A call: its name and its arguments, before and after. *)
LEMMA CallForm ==
  ASSUME NEW e \in Expressions, IsExpression(e), e.form = "call"
  PROVE  /\ Len(e.head) = 1 /\ 1 \in 1 .. Len(e.head)
         /\ Len(e.items) >= 1 /\ \A k \in 1 .. Len(e.items) : IsArgument(e.items[k])
         /\ Pythons(e.items) \in Pieces(Len(e.items))
         /\ Plainly(e.head[1]) \in Words
         /\ Spoken(e) = Cat(Single(Plainly(e.head[1])), Body(e))
         /\ ExprPython(e) = Called(Single(Plainly(e.head[1])), Comma(Pythons(e.items)))
<1>1. Len(e.head) = 1 /\ e.items # <<>> /\ \A k \in DOMAIN e.items : IsArgument(e.items[k])
  BY DEF IsExpression
<1>2. /\ e.head \in Seq(Texts) /\ e.items \in Seq(Items) /\ DOMAIN e.items = 1 .. Len(e.items)
      /\ Len(e.items) \in Nat
  BY ExprParts, Zenon
<1>3. Len(e.items) >= 1 /\ 1 \in 1 .. Len(e.head)
  BY <1>1, <1>2
<1>4. e.head[1] \in Texts /\ Plainly(e.head[1]) \in Words
  BY <1>3, ExprParts, PlainlyWord
<1>5. Bare(e.head) = Single(Plainly(e.head[1]))
  <2>1. /\ Bare(e.head) \in Line /\ Len(Bare(e.head)) = 1 /\ Bare(e.head)[1] = Plainly(e.head[1])
    BY <1>1, <1>2, <1>3, BareLine
  <2>2. /\ Single(Plainly(e.head[1])) \in Line /\ Len(Single(Plainly(e.head[1]))) = 1
        /\ Single(Plainly(e.head[1]))[1] = Plainly(e.head[1])
    BY <1>4, SingleLine
  <2> QED BY <2>1, <2>2, LineEqual
<1>6. Lead(e) = <<>>
  BY DEF Lead
<1>7. Single(Plainly(e.head[1])) \in Line
  BY <1>4, SingleLine
<1>8. Spoken(e) = Cat(Single(Plainly(e.head[1])), Body(e))
  BY <1>5, <1>6, <1>7, CatNil, Zenon DEF Spoken
<1>9. Pythons(e.items) \in Pieces(Len(e.items))
  BY <1>2, PythonsType
<1>10. Comma(Pythons(e.items)) \in Line
  BY <1>2, <1>9, CommaLine, Zenon
<1>11. ExprPython(e) = CallPython(e.head, e.items)
  BY DEF ExprPython
<1>12. ExprPython(e) = Called(Single(Plainly(e.head[1])), Comma(Pythons(e.items)))
  BY <1>5, <1>7, <1>10, <1>11, CallPythonIs, CalledIs, Zenon
<1>13. \A k \in 1 .. Len(e.items) : IsArgument(e.items[k])
  BY <1>1, <1>2
<1> QED BY <1>1, <1>3, <1>4, <1>8, <1>9, <1>12, <1>13, Zenon

(* A lambda: its parameters and its body, before and after. *)
LEMMA LambdaForm ==
  ASSUME NEW e \in Expressions, IsExpression(e), e.form = "lambda"
  PROVE  /\ Len(e.head) >= 1 /\ 1 \in 1 .. Len(e.head) /\ Len(e.items) >= 1
         /\ Pythons(e.items) \in Pieces(Len(e.items))
         /\ \A k \in 1 .. Len(e.items) : ~e.items[k].literal
         /\ Len(e.items) > 1 => \A k \in 1 .. Len(e.items) : Len(e.items[k].texts) = 1
         /\ Bare(e.head) \in Line /\ Len(Bare(e.head)) = Len(e.head)
         /\ Spoken(e) = Cat(Sign("lambda"), Cat(Bare(e.head), Body(e)))
         /\ ExprPython(e) = Cat(Cat(Sign("lambda"), ParametersPython(e.head)), BodyPython(e.items))
<1>1. /\ e.head # <<>> /\ e.items # <<>> /\ \A k \in DOMAIN e.items : ~e.items[k].literal
      /\ Len(e.items) > 1 => \A k \in DOMAIN e.items : IsArgument(e.items[k])
  BY DEF IsExpression
<1>2. /\ e.head \in Seq(Texts) /\ e.items \in Seq(Items) /\ DOMAIN e.items = 1 .. Len(e.items)
      /\ Len(e.items) \in Nat /\ Len(e.head) \in Nat
  BY ExprParts, Zenon
<1>3. Len(e.items) >= 1 /\ Len(e.head) >= 1 /\ 1 \in 1 .. Len(e.head)
  BY <1>1, <1>2
<1>4. Bare(e.head) \in Line /\ Len(Bare(e.head)) = Len(e.head)
  BY <1>2, BareLine
<1>5. Lead(e) = Sign("lambda") /\ Sign("lambda") \in Line
  BY SignLine, Known DEF Lead
<1>6. Spoken(e) = Cat(Sign("lambda"), Cat(Bare(e.head), Body(e)))
  <2>1. Body(e) \in Line /\ Spoken(e) = Cat(Cat(Sign("lambda"), Bare(e.head)), Body(e))
    BY <1>5, BodyLine, Zenon DEF Spoken
  <2> QED BY <1>4, <1>5, <2>1, CatAssoc, Zenon
<1>7. ExprPython(e) = Cat(Cat(Sign("lambda"), ParametersPython(e.head)), BodyPython(e.items))
  <2>1. ExprPython(e) = Bare(<<"lambda">>) \o ParametersPython(e.head) \o BodyPython(e.items)
    BY DEF ExprPython
  <2>2. Bare(<<"lambda">>) = Sign("lambda")
    BY BareOne, Known
  <2> QED BY <2>1, <2>2, Zenon DEF Cat
<1>8. Pythons(e.items) \in Pieces(Len(e.items))
  BY <1>2, PythonsType
<1>9. /\ \A k \in 1 .. Len(e.items) : ~e.items[k].literal
      /\ Len(e.items) > 1 => \A k \in 1 .. Len(e.items) : Len(e.items[k].texts) = 1
  BY <1>1, <1>2 DEF IsArgument
<1> QED BY <1>3, <1>4, <1>6, <1>7, <1>8, <1>9, Zenon
-----------------------------------------------------------------------------
(* Values and calls on the right of an equals sign. *)

(* Where there is a match something changes. *)
LEMMA LambdaChanges ==
  ASSUME NEW ws \in Line, NEW k, k \in Matches(ws)
  PROVE  ConvertLambda(ws) # ws
<1>1. PICK m : First(ws, m)
  BY LambdaCases
<1>2. m \in 1 .. Len(ws) - 2 /\ \A i \in 1 .. Len(ws) :
        ConvertLambda(ws)[i] = IF i = m + 1 THEN Colon(ws[i]) ELSE ws[i]
  BY <1>1, LambdaFirst
<1>3. m + 1 \in 1 .. Len(ws)
  BY <1>2, LenLine
<1>4. ConvertLambda(ws)[m + 1] = Colon(ws[m + 1]) /\ ws[m + 1] \in Words
  BY <1>2, <1>3, LenLine
<1>5. Identifier(ws[m + 1])
  BY <1>1 DEF First, Matches, MatchAt
<1>6. ws[m + 1].right = ""
  BY <1>5 DEF Identifier, WordArg, Unmarked
<1>7. Colon(ws[m + 1]).right = ":"
  BY <1>4, ColonWord
<1> QED BY <1>4, <1>6, <1>7

(* No text of the expression speaks of a lambda. *)
NoSpeech(e) == \A k \in 1 .. Len(e.items) : ~SpeaksOfLambda(e.items[k])

(* ConvertLambda leaves a value as it is, unless it speaks of a lambda. *)
LEMMA ValueSaid ==
  ASSUME NEW e \in Expressions, IsExpression(e), e.form = "value"
  PROVE  ConvertLambda(Spoken(e)) = ExprPython(e) <=> NoSpeech(e)
<1> DEFINE item == e.items[1]
<1>1. Len(e.items) = 1 /\ 1 \in 1 .. Len(e.items)
      /\ Spoken(e) = ItemPython(item) /\ ExprPython(e) = ItemPython(item)
  BY ValueForm
<1>2. item \in Items /\ IsItem(item) /\ ItemPython(item) \in Line
      /\ Len(ItemPython(item)) = Len(item.texts)
  BY <1>1, ExprItems
<1> HIDE DEF item
<1>3. NoSpeech(e) <=> ~SpeaksOfLambda(item)
  BY <1>1 DEF NoSpeech, item
<1>4. CASE ~SpeaksOfLambda(item)
  <2>1. ConvertLambda(ItemPython(item)) = ItemPython(item)
    BY <1>2, <1>4, StillItem, LambdaStill
  <2> QED BY <1>1, <1>3, <1>4, <2>1
<1>5. CASE SpeaksOfLambda(item)
  <2>1. PICK k \in 1 .. Len(item.texts) - 2 : MatchAt(ItemPython(item), k)
    BY <1>2, <1>5, SpeaksMatch
  <2>2. k \in Matches(ItemPython(item))
    BY <1>2, <2>1 DEF Matches
  <2>3. ConvertLambda(ItemPython(item)) # ItemPython(item)
    BY <1>2, <2>2, LambdaChanges
  <2> QED BY <1>1, <1>3, <1>5, <2>3
<1> QED BY <1>4, <1>5

(* A text begins with a quote. *)
LEMMA LiteralFirst ==
  ASSUME NEW item \in Items, IsItem(item), item.literal
  PROVE  Len(item.texts) >= 1 /\ ItemPython(item)[1].left = "\""
<1>1. item.texts \in Seq(Texts) /\ item.texts # <<>>
  BY DEF Items, IsItem
<1>2. Len(item.texts) >= 1 /\ 1 \in 1 .. Len(item.texts)
  BY <1>1
<1>3. ItemPython(item)[1].left = IF 1 = 1 THEN "\"" ELSE ""
  BY <1>2, TextWords
<1> QED BY <1>2, <1>3

(* What does not begin with a name is not taken for a call. *)
LEMMA NotCalled ==
  ASSUME NEW ws \in Line, ~Identifier(ws[1])
  PROVE  ConvertSimpleCall(ws) = ws
BY SimpleCallIs, Zenon DEF Found

(* A plain item is taken for a call unless NoCall says that it is not. *)
LEMMA PlainFound ==
  ASSUME NEW item \in Items, IsItem(item), ~item.literal
  PROVE  Found(ItemPython(item)) <=> ~NoCall(item)
<1> DEFINE p == ItemPython(item)
<1>1. /\ item.texts \in Seq(Texts) /\ item.texts # <<>> /\ Len(item.texts) \in Nat
      /\ DOMAIN item.texts = 1 .. Len(item.texts)
  BY LenProperties DEF Items, IsItem
<1>2. Len(p) = Len(item.texts)
  BY ItemLine
<1>3. \A k \in 1 .. Len(item.texts) :
        p[k].text = item.texts[k] /\ p[k].left = "" /\ p[k].right = ""
  BY PlainWords
<1> HIDE DEF p
<1>4. \A k \in 1 .. Len(item.texts) : Symbolic(p[k]) <=> item.texts[k] \in Symbols
  BY <1>3 DEF Symbolic
<1>5. 1 \in 1 .. Len(item.texts) /\ Len(item.texts) >= 1
  BY <1>1
<1>6. Identifier(p[1]) <=> item.texts[1] \notin Symbols \cup Numbers
  BY <1>3, <1>5 DEF Identifier, WordArg, Unmarked
<1>7. HasSymbol(item.texts) <=> \E k \in 1 .. Len(item.texts) : item.texts[k] \in Symbols
  BY <1>1 DEF HasSymbol
<1>8. (Len(item.texts) > 1) <=> Len(item.texts) # 1
  <2>1. \A i \in Nat : i >= 1 => ((i > 1) <=> i # 1)
    OBVIOUS
  <2> QED BY <1>1, <1>5, <2>1, Zenon
<1>9. Found(p) <=> /\ Len(item.texts) # 1 /\ item.texts[1] \notin Symbols \cup Numbers
                   /\ ~HasSymbol(item.texts)
  BY <1>2, <1>4, <1>6, <1>7, <1>8 DEF Found
<1> QED BY <1>5, <1>7, <1>9 DEF NoCall, p

(* A value is right where ConvertSimpleCall is applied if it is not taken  *)
(* for a call and speaks of no lambda, and only then.                      *)
LEMMA ValueRight ==
  ASSUME NEW e \in Expressions, IsExpression(e), e.form = "value"
  PROVE  ConvertSimpleCall(ConvertLambda(Spoken(e))) = ExprPython(e)
           <=> NoCall(e.items[1]) /\ NoSpeech(e)
<1> DEFINE item == e.items[1]
           p == ItemPython(item)
<1>1. /\ Len(e.items) = 1 /\ 1 \in 1 .. Len(e.items) /\ Spoken(e) = p /\ ExprPython(e) = p
  BY ValueForm
<1>2. item \in Items /\ IsItem(item) /\ p \in Line /\ Len(p) = Len(item.texts)
      /\ Len(p) \in Nat /\ Len(p) >= 1
  BY <1>1, ExprItems, LenLine
<1>3. ConvertLambda(p) = p <=> NoSpeech(e)
  BY <1>1, ValueSaid
<1>4. CASE item.literal
  <2>1. p[1].left = "\""
    BY <1>2, <1>4, LiteralFirst
  <2>2. OrColons(ConvertLambda(p), p)
    BY <1>2, LambdaLine
  <2>3. 1 \in 1 .. Len(p)
    BY <1>2
  <2>4. ConvertLambda(p) \in Line /\ ConvertLambda(p)[1].left = "\""
    BY <2>1, <2>2, <2>3 DEF OrColons, OrColon
  <2>5. ~Identifier(ConvertLambda(p)[1])
    BY <2>4 DEF Identifier, WordArg, Unmarked
  <2>6. ConvertSimpleCall(ConvertLambda(p)) = ConvertLambda(p)
    BY <2>4, <2>5, NotCalled
  <2>7. NoCall(item)
    BY <1>4 DEF NoCall
  <2> QED BY <1>1, <1>3, <2>6, <2>7
<1>5. CASE ~item.literal
  <2>1. NoSpeech(e)
    BY <1>1, <1>5 DEF NoSpeech, SpeaksOfLambda
  <2>2. ConvertLambda(p) = p
    BY <1>3, <2>1
  <2>3. Found(p) <=> ~NoCall(item)
    BY <1>2, <1>5, PlainFound
  <2>4. CASE Found(p)
    <3>1. Len(ConvertSimpleCall(p)) = Len(p) + Len(p)
      BY <1>2, <2>4, SimpleCallLen
    <3>2. ConvertSimpleCall(p) # p
      BY <1>2, <3>1
    <3> QED BY <1>1, <2>2, <2>3, <2>4, <3>2
  <2>5. CASE ~Found(p)
    <3>1. ConvertSimpleCall(p) = p
      BY <1>2, <2>5, SimpleCallIs, Zenon
    <3> QED BY <1>1, <2>1, <2>2, <2>3, <2>5, <3>1
  <2> QED BY <2>4, <2>5
<1> QED BY <1>4, <1>5

-----------------------------------------------------------------------------
(* A call has a comma between its items in Python; ConvertSimpleCall puts  *)
(* one between its words.                                                  *)
LEMMA CallSizes ==
  ASSUME NEW e \in Expressions, IsExpression(e), e.form = "call"
  PROVE  /\ Body(e) \in Line /\ Len(Body(e)) \in Nat
         /\ Len(e.items) \in Nat /\ Len(e.items) >= 1
         /\ Len(Body(e)) >= Len(e.items)
         /\ (\E k \in 1 .. Len(e.items) : Len(e.items[k].texts) # 1) => Len(Body(e)) > Len(e.items)
         /\ Spoken(e) \in Line /\ Len(Spoken(e)) = Len(Body(e)) + 1
         /\ ExprPython(e) \in Line /\ Len(ExprPython(e)) = (Len(Body(e)) + Len(e.items)) + 2
<1>1. /\ Len(e.items) >= 1 /\ Pythons(e.items) \in Pieces(Len(e.items))
      /\ Plainly(e.head[1]) \in Words
      /\ Spoken(e) = Cat(Single(Plainly(e.head[1])), Body(e))
      /\ ExprPython(e) = Called(Single(Plainly(e.head[1])), Comma(Pythons(e.items)))
  BY CallForm, Zenon
<1>2. Len(e.items) \in Nat /\ Body(e) \in Line /\ Len(Body(e)) \in Nat
  BY ExprParts, BodyLine, LenLine
<1>3. \A k \in 1 .. Len(e.items) : /\ Len(Pythons(e.items)[k]) = Len(e.items[k].texts)
                                   /\ Len(Pythons(e.items)[k]) >= 1
  BY ExprItems
<1>4. /\ Len(Body(e)) >= Len(e.items)
      /\ (\E k \in 1 .. Len(e.items) : Len(Pythons(e.items)[k]) # 1) => Len(Body(e)) > Len(e.items)
  BY <1>1, <1>2, <1>3, FlatLong, Zenon DEF Body
<1>5. Spoken(e) \in Line /\ Len(Spoken(e)) = Len(Body(e)) + 1
  BY <1>1, <1>2, RestCat, Zenon
<1>6. Len(e.items) - 1 \in Nat /\ (Len(e.items) - 1) + 1 = Len(e.items)
  BY <1>1, <1>2
<1>7. Pythons(e.items) \in Pieces((Len(e.items) - 1) + 1)
  BY <1>1, <1>6
<1>8. Len(Comma(Pythons(e.items))) = Len(Body(e)) + (Len(e.items) - 1)
  BY <1>6, <1>7, CommaLen, Zenon DEF Body
<1>9. Comma(Pythons(e.items)) \in Line
  BY <1>1, <1>2, CommaLine, Zenon
<1>10. Single(Plainly(e.head[1])) \in Line /\ Len(Single(Plainly(e.head[1]))) = 1
  BY <1>1, SingleLine
<1>11. ExprPython(e) \in Line /\ Len(ExprPython(e)) = (1 + Len(Comma(Pythons(e.items)))) + 2
  BY <1>1, <1>9, <1>10, CalledLine, Zenon
<1>12. \A i, j \in Nat : (1 + (i + (j - 1))) + 2 = (i + j) + 2
  OBVIOUS
<1>13. Len(ExprPython(e)) = (Len(Body(e)) + Len(e.items)) + 2
  BY <1>2, <1>8, <1>11, <1>12, Zenon
<1> QED BY <1>1, <1>2, <1>3, <1>4, <1>5, <1>11, <1>13

(* What a name is not. *)
LEMMA NameWord ==
  ASSUME NEW text, IsName(text)
  PROVE  /\ Identifier(Plainly(text)) /\ ~Symbolic(Plainly(text)) /\ text # "lambda"
         /\ text \notin Symbols /\ WordArg(Plainly(text))
<1>1. text \notin Symbols /\ text \notin Numbers /\ text # "lambda"
  BY DEF IsName, Keywords, Operators, Symbols, Equals
<1>2. /\ Plainly(text).text = text /\ Plainly(text).left = "" /\ Plainly(text).right = ""
  BY DEF Plainly, Word
<1> QED BY <1>1, <1>2 DEF Identifier, WordArg, Unmarked, Symbolic

(* The arguments of a call are single words. *)
OneEach(e) == \A k \in 1 .. Len(e.items) : Len(e.items[k].texts) = 1

(* Then the words of the call are its items. *)
LEMMA OneWords ==
  ASSUME NEW e \in Expressions, IsExpression(e), OneEach(e)
  PROVE  /\ Len(Body(e)) = Len(e.items)
         /\ Pythons(e.items) = Singles(Body(e))
         /\ \A k \in 1 .. Len(e.items) : /\ Body(e)[k] = ItemPython(e.items[k])[1]
                                         /\ Body(e)[k].text = e.items[k].texts[1]
                                         /\ Body(e)[k].right \in {"", "\""}
                                         /\ e.items[k].literal => Body(e)[k].left = "\""
                                         /\ ~e.items[k].literal
                                              => Body(e)[k] = Plainly(e.items[k].texts[1])
<1>1. Len(e.items) \in Nat /\ Pythons(e.items) \in Pieces(Len(e.items))
  BY ExprParts, PythonsType
<1>2. \A k \in 1 .. Len(e.items) : Len(Pythons(e.items)[k]) = 1
  BY ExprItems DEF OneEach
<1>3. /\ Len(Body(e)) = Len(e.items) /\ Pythons(e.items) = Singles(Body(e))
      /\ \A k \in 1 .. Len(e.items) : Pythons(e.items)[k] = Single(Body(e)[k])
  BY <1>1, <1>2, FlatOnes, Zenon DEF Body
<1>4. ASSUME NEW k \in 1 .. Len(e.items)
      PROVE  /\ Body(e)[k] = ItemPython(e.items[k])[1]
             /\ Body(e)[k].text = e.items[k].texts[1]
             /\ Body(e)[k].right \in {"", "\""}
             /\ e.items[k].literal => Body(e)[k].left = "\""
             /\ ~e.items[k].literal => Body(e)[k] = Plainly(e.items[k].texts[1])
  <2>1. Pythons(e.items)[k] = ItemPython(e.items[k]) /\ e.items[k] \in Items
    BY ExprItems
  <2>2. Single(Body(e)[k]) = ItemPython(e.items[k])
    BY <1>3, <2>1
  <2>3. Single(Body(e)[k])[1] = Body(e)[k]
    BY DEF Single
  <2>4. Body(e)[k] = ItemPython(e.items[k])[1]
    BY <2>2, <2>3
  <2>5. Len(e.items[k].texts) = 1 /\ 1 \in 1 .. Len(e.items[k].texts)
    <3>1. Len(e.items[k].texts) = 1
      BY Zenon DEF OneEach
    <3> QED BY <3>1
  <2>6. CASE e.items[k].literal
    <3>1. /\ ItemPython(e.items[k])[1].text = e.items[k].texts[1]
          /\ ItemPython(e.items[k])[1].left = IF 1 = 1 THEN "\"" ELSE ""
          /\ ItemPython(e.items[k])[1].right = IF 1 = Len(e.items[k].texts) THEN "\"" ELSE ""
      BY <2>1, <2>5, <2>6, TextWords
    <3> QED BY <2>4, <2>5, <2>6, <3>1
  <2>7. CASE ~e.items[k].literal
    <3>1. ItemPython(e.items[k])[1] = Plainly(e.items[k].texts[1])
      BY <2>1, <2>5, <2>7, ItemWords
    <3>2. /\ Plainly(e.items[k].texts[1]).text = e.items[k].texts[1]
          /\ Plainly(e.items[k].texts[1]).right = ""
      BY DEF Plainly, Word
    <3> QED BY <2>4, <2>7, <3>1, <3>2
  <2> QED BY <2>6, <2>7
<1> QED BY <1>3, <1>4, Zenon

(* A call is right where ConvertSimpleCall is applied if its texts are     *)
(* closed and none speaks of a lambda, and only then.                      *)
LEMMA CallRight ==
  ASSUME NEW e \in Expressions, IsExpression(e), e.form = "call"
  PROVE  ConvertSimpleCall(ConvertLambda(Spoken(e))) = ExprPython(e)
           <=> (\A k \in 1 .. Len(e.items) : Closed(e.items[k])) /\ NoSpeech(e)
<1> DEFINE v == ConvertLambda(Spoken(e))
           c == ConvertSimpleCall(v)
<1>0. /\ Body(e) \in Line /\ Len(Body(e)) \in Nat /\ Len(e.items) \in Nat /\ Len(e.items) >= 1
      /\ Len(Body(e)) >= Len(e.items)
      /\ (\E k \in 1 .. Len(e.items) : Len(e.items[k].texts) # 1) => Len(Body(e)) > Len(e.items)
      /\ Spoken(e) \in Line /\ Len(Spoken(e)) = Len(Body(e)) + 1
      /\ ExprPython(e) \in Line /\ Len(ExprPython(e)) = (Len(Body(e)) + Len(e.items)) + 2
  BY CallSizes, Zenon
<1>1. /\ \A k \in 1 .. Len(e.items) : IsArgument(e.items[k])
      /\ Plainly(e.head[1]) \in Words
      /\ Spoken(e) = Cat(Single(Plainly(e.head[1])), Body(e))
      /\ ExprPython(e) = Called(Single(Plainly(e.head[1])), Comma(Pythons(e.items)))
      /\ IsName(e.head[1])
  BY CallForm, HeadNames
<1>2. /\ Spoken(e)[1] = Plainly(e.head[1]) /\ Rest(Spoken(e)) = Body(e)
      /\ \A k \in 1 .. Len(Body(e)) : Spoken(e)[k + 1] = Body(e)[k]
  <2>1. Body(e) \in Line /\ Plainly(e.head[1]) \in Words
    BY <1>0, <1>1
  <2>2. Spoken(e) = Cat(Single(Plainly(e.head[1])), Body(e))
    BY <1>1
  <2>3. /\ Cat(Single(Plainly(e.head[1])), Body(e))[1] = Plainly(e.head[1])
        /\ Rest(Cat(Single(Plainly(e.head[1])), Body(e))) = Body(e)
        /\ \A k \in 1 .. Len(Body(e)) :
             Cat(Single(Plainly(e.head[1])), Body(e))[k + 1] = Body(e)[k]
    BY <2>1, RestCat
  <2> QED BY <2>2, <2>3
<1>3. OrColons(v, Spoken(e))
  BY <1>0, LambdaLine
<1>4. v \in Line /\ Len(v) = Len(Body(e)) + 1
      /\ \A k \in 1 .. Len(Body(e)) + 1 : v[k].text = Spoken(e)[k].text
  BY <1>0, <1>3 DEF OrColons, OrColon
<1> HIDE DEF v, c
<1>5. CASE \A k \in 1 .. Len(e.items) : Closed(e.items[k])
  <2>1. OneEach(e)
    <3> SUFFICES ASSUME NEW k \in 1 .. Len(e.items) PROVE Len(e.items[k].texts) = 1
      BY DEF OneEach
    <3>1. IsArgument(e.items[k]) /\ Closed(e.items[k])
      BY <1>1, <1>5
    <3> QED BY <3>1 DEF IsArgument, Closed
  <2>2. NoSpeech(e)
    <3> SUFFICES ASSUME NEW k \in 1 .. Len(e.items) PROVE ~SpeaksOfLambda(e.items[k])
      BY DEF NoSpeech
    <3>1. Len(e.items[k].texts) = 1
      BY <2>1 DEF OneEach
    <3> QED BY <3>1 DEF SpeaksOfLambda
  <2>3. /\ Len(Body(e)) = Len(e.items) /\ Pythons(e.items) = Singles(Body(e))
        /\ \A k \in 1 .. Len(e.items) : /\ Body(e)[k].text = e.items[k].texts[1]
                                        /\ Body(e)[k].right \in {"", "\""}
    BY <2>1, OneWords
  <2>4. Still(Spoken(e))
    <3>1. Still(Single(Plainly(e.head[1]))) /\ Single(Plainly(e.head[1])) \in Line
      <4>1. Plainly(e.head[1]).text # "lambda"
        <5>1. Plainly(e.head[1]).text = e.head[1]
          BY DEF Plainly, Word
        <5> QED BY <1>1, <5>1, NameWord
      <4>2. /\ Single(Plainly(e.head[1])) \in Line /\ Len(Single(Plainly(e.head[1]))) = 1
            /\ Single(Plainly(e.head[1]))[1] = Plainly(e.head[1])
        BY <1>1, SingleLine
      <4>3. \A k \in 1 .. 1 : k = 1
        OBVIOUS
      <4> QED BY <4>1, <4>2, <4>3, Zenon DEF Still
    <3>2. Pythons(e.items) \in Pieces(Len(e.items))
      BY CallForm
    <3>3. \A k \in 1 .. Len(e.items) : Still(Pythons(e.items)[k])
      BY <2>2, ExprItems, StillItem DEF NoSpeech
    <3>4. Still(Body(e))
      BY <1>0, <3>2, <3>3, StillFlat DEF Body
    <3> QED BY <1>0, <1>1, <3>1, <3>4, StillCat
  <2>5. v = Spoken(e)
    BY <1>0, <2>4, LambdaStill DEF v
  <2>6. ~Symbolic(Plainly(e.head[1])) /\ Identifier(Plainly(e.head[1]))
    BY <1>1, NameWord
  <2>7. ASSUME NEW k \in 1 .. Len(e.items)  PROVE ~Symbolic(Body(e)[k])
    <3>1. Len(e.items[k].texts) = 1 /\ e.items[k] \in Items /\ IsItem(e.items[k])
      BY <2>1, ExprItems DEF OneEach
    <3>2. e.items[k].texts[1] \notin Symbols
      <4>1. CASE e.items[k].literal
        <5>1. ~HasSymbol(e.items[k].texts)
          BY <1>5, <4>1 DEF Closed
        <5>2. 1 \in DOMAIN e.items[k].texts
          <6>1. e.items[k].texts \in Seq(Texts)
            BY <3>1 DEF Items
          <6> QED BY <3>1, <6>1
        <5> QED BY <5>1, <5>2 DEF HasSymbol
      <4>2. CASE ~e.items[k].literal
        <5>1. IsAtom(e.items[k].texts[1])
          BY <3>1, <4>2 DEF IsItem
        <5> QED BY <5>1 DEF IsAtom, IsName, Numbers, Operators, Symbols, Equals
      <4> QED BY <4>1, <4>2
    <3>3. Body(e)[k].text = e.items[k].texts[1] /\ Body(e)[k].right \in {"", "\""}
      BY <2>3
    <3> QED BY <3>2, <3>3 DEF Symbolic
  <2>8. Found(v)
    <3>1. Len(v) > 1
      BY <1>0, <1>4
    <3>2. Identifier(v[1])
      BY <1>2, <2>5, <2>6
    <3>3. ASSUME NEW k \in 1 .. Len(v)  PROVE ~Symbolic(v[k])
      <4>1. CASE k = 1
        BY <4>1, <1>2, <2>5, <2>6
      <4>2. CASE k # 1
        <5>1. k - 1 \in 1 .. Len(Body(e)) /\ (k - 1) + 1 = k
          BY <4>2, <1>0, <1>4
        <5>2. v[k] = Body(e)[k - 1]
          BY <5>1, <1>2, <2>5
        <5> QED BY <5>1, <5>2, <2>3, <2>7
      <4> QED BY <4>1, <4>2
    <3> QED BY <3>1, <3>2, <3>3 DEF Found
  <2>9. c = Called(Single(v[1]), Comma(Singles(Rest(v))))
    BY <1>4, <2>8, SimpleCallIs, Zenon DEF c
  <2>10. c = ExprPython(e)
    BY <1>1, <1>2, <2>3, <2>5, <2>9, Zenon
  <2> QED BY <1>5, <2>2, <2>10 DEF c, v
<1>6. ASSUME NEW k \in 1 .. Len(e.items), ~Closed(e.items[k])  PROVE c # ExprPython(e)
  <2>1. Len(c) = Len(Body(e)) + 1 \/ (Found(v) /\ Len(c) = (Len(Body(e)) + 1) + (Len(Body(e)) + 1))
    <3>1. CASE Found(v)
      BY <3>1, <1>4, SimpleCallLen, Zenon DEF c
    <3>2. CASE ~Found(v)
      BY <3>2, <1>4, SimpleCallIs, Zenon DEF c
    <3> QED BY <3>1, <3>2
  <2>2. SUFFICES ASSUME c = ExprPython(e) PROVE FALSE
    OBVIOUS
  <2>3. Found(v) /\ Len(Body(e)) = Len(e.items)
    BY <1>0, <2>1, <2>2
  <2>4. OneEach(e)
    BY <1>0, <2>3 DEF OneEach
  <2>5. Body(e)[k].text = e.items[k].texts[1]
    BY <2>4, OneWords
  <2>6. e.items[k].texts[1] \in Symbols
    <3>1. HasSymbol(e.items[k].texts) /\ Len(e.items[k].texts) = 1
      BY <1>6, <2>4 DEF Closed, OneEach
    <3>2. e.items[k].texts \in Seq(Texts)
      BY ExprItems DEF Items
    <3> QED BY <3>1, <3>2 DEF HasSymbol
  <2>7. k + 1 \in 1 .. Len(v) /\ k + 1 \in 1 .. Len(Body(e)) + 1 /\ k \in 1 .. Len(Body(e))
    BY <1>0, <1>4, <2>3
  <2>8. v[k + 1].text = Body(e)[k].text
    BY <1>2, <1>4, <2>7
  <2>9. Symbolic(v[k + 1])
    BY <2>5, <2>6, <2>8 DEF Symbolic
  <2> QED BY <2>3, <2>7, <2>9 DEF Found
<1> QED BY <1>5, <1>6 DEF c, v
-----------------------------------------------------------------------------
(* Lambdas on the right of an equals sign. *)

(* The word lambda, as the pattern wants it. *)
LambdaWord(w) == w.text = "lambda" /\ w.right = ""

(* A lambda at the beginning of a line: the name after it gets the colon. *)
LEMMA LambdaHere ==
  ASSUME NEW a \in Words, NEW b \in Words, NEW t \in Line,
         LambdaWord(a), Identifier(b), Len(t) >= 1
  PROVE  ConvertLambda(Cat(Single(a), Cat(Single(b), t))) = Cat(Single(a), Cat(Single(Colon(b)), t))
<1> DEFINE u == Cat(Single(b), t)
           ws == Cat(Single(a), u)
           x == Cat(Single(Colon(b)), t)
           y == Cat(Single(a), x)
<1>1. Colon(b) \in Words /\ Len(t) \in Nat
  BY ColonWord, LenLine
<1>2. /\ u \in Line /\ Len(u) = Len(t) + 1 /\ u[1] = b
      /\ \A k \in 1 .. Len(t) : u[k + 1] = t[k]
  BY RestCat
<1>3. /\ x \in Line /\ Len(x) = Len(t) + 1 /\ x[1] = Colon(b)
      /\ \A k \in 1 .. Len(t) : x[k + 1] = t[k]
  BY <1>1, RestCat
<1> HIDE DEF u, x
<1>4. /\ ws \in Line /\ Len(ws) = Len(u) + 1 /\ ws[1] = a
      /\ \A k \in 1 .. Len(u) : ws[k + 1] = u[k]
  BY <1>2, RestCat
<1>5. /\ y \in Line /\ Len(y) = Len(x) + 1 /\ y[1] = a
      /\ \A k \in 1 .. Len(x) : y[k + 1] = x[k]
  BY <1>3, RestCat
<1> HIDE DEF ws, y
<1>0. /\ Len(t) \in Nat /\ Len(t) >= 1 /\ Len(u) = Len(t) + 1 /\ Len(x) = Len(t) + 1
      /\ Len(ws) = (Len(t) + 1) + 1 /\ Len(y) = (Len(t) + 1) + 1
  BY <1>1, <1>2, <1>3, <1>4, <1>5, Zenon
<1>6. ws[2] = b
  <2>1. 1 \in 1 .. Len(u) /\ 1 + 1 = 2
    BY <1>0
  <2> QED BY <1>2, <1>4, <2>1
<1>7. First(ws, 1)
  <2>1. MatchAt(ws, 1)
    <3>1. ws[1] = a /\ ws[1 + 1] = b
      BY <1>4, <1>6
    <3> QED BY <3>1, Zenon DEF MatchAt, LambdaWord
  <2>2. 1 \in 1 .. Len(ws) - 2
    BY <1>0
  <2>3. \A k \in Matches(ws) : 1 <= k
    BY <1>0 DEF Matches
  <2> QED BY <2>1, <2>2, <2>3 DEF First, Matches
<1>8. /\ ConvertLambda(ws) \in Line /\ Len(ConvertLambda(ws)) = Len(ws)
      /\ \A k \in 1 .. Len(ws) :
           ConvertLambda(ws)[k] = IF k = 1 + 1 THEN Colon(ws[k]) ELSE ws[k]
  BY <1>4, <1>7, LambdaFirst
<1> DEFINE v == ConvertLambda(ws)
<1>9. Len(v) = Len(y) /\ Len(y) = Len(t) + 2
  <2>1. Len(v) = Len(ws)
    BY <1>8, Zenon
  <2> HIDE DEF v
  <2> QED BY <1>0, <2>1
<1>10. ASSUME NEW k \in 1 .. Len(t) + 2  PROVE v[k] = y[k]
  <2>0. k \in 1 .. Len(ws)
    BY <1>0
  <2> HIDE DEF v
  <2>4. \A i \in 1 .. Len(ws) : v[i] = IF i = 1 + 1 THEN Colon(ws[i]) ELSE ws[i]
    BY <1>8 DEF v
  <2>1. CASE k = 1
    <3>1. v[1] = ws[1]
      BY <2>4, <2>0, <2>1
    <3> QED BY <1>4, <1>5, <2>1, <3>1
  <2>2. CASE k = 2
    <3>1. v[2] = Colon(ws[2])
      BY <2>4, <2>0, <2>2
    <3>2. 1 \in 1 .. Len(x) /\ 1 + 1 = 2
      BY <1>0
    <3>3. y[2] = x[1]
      BY <1>5, <3>2
    <3> QED BY <1>3, <1>6, <2>2, <3>1, <3>3
  <2>3. CASE k # 1 /\ k # 2
    <3>1. /\ k - 2 \in 1 .. Len(t) /\ (k - 2) + 1 \in 1 .. Len(u) /\ (k - 2) + 1 \in 1 .. Len(x)
          /\ ((k - 2) + 1) + 1 = k /\ k # 1 + 1
      BY <1>0, <2>3
    <3>2. v[k] = ws[k]
      BY <2>4, <2>0, <3>1
    <3>3. ws[k] = u[(k - 2) + 1] /\ y[k] = x[(k - 2) + 1]
      <4>1. /\ ws[((k - 2) + 1) + 1] = u[(k - 2) + 1]
            /\ y[((k - 2) + 1) + 1] = x[(k - 2) + 1]
        BY <1>4, <1>5, <3>1, Zenon
      <4> QED BY <3>1, <4>1, Zenon
    <3>4. u[(k - 2) + 1] = t[k - 2] /\ x[(k - 2) + 1] = t[k - 2]
      BY <1>2, <1>3, <3>1
    <3> QED BY <3>2, <3>3, <3>4
  <2> QED BY <2>1, <2>2, <2>3
<1>11. v = y
  BY <1>5, <1>8, <1>9, <1>10, LineEqual
<1> QED BY <1>11 DEF ws, y, u, x

(* The words of a lambda. *)
Params(names) ==
  [k \in DOMAIN names |-> Single(Word(names[k], "", IF k = Len(names) THEN ":" ELSE ""))]

(* They have commas between them, and a colon after the last. *)
LEMMA ParamsType ==
  ASSUME NEW names \in Seq(Texts), Len(names) >= 1
  PROVE  /\ ParametersPython(names) = Comma(Params(names))
         /\ Params(names) \in Pieces(Len(names))
         /\ ParametersPython(names) \in Line
         /\ Len(ParametersPython(names)) = Len(names) + (Len(names) - 1)
<1>1. Len(names) \in Nat /\ DOMAIN names = 1 .. Len(names)
      /\ \A k \in 1 .. Len(names) : names[k] \in Texts
  BY LenProperties, ElementOfSeq
<1>2. ParametersPython(names) = Comma(Params(names))
  BY Zenon DEF ParametersPython, Params, Single
<1>3. \A k \in 1 .. Len(names) : Word(names[k], "", IF k = Len(names) THEN ":" ELSE "") \in Words
  BY <1>1 DEF Word, Words
<1>4. \A k \in 1 .. Len(names) :
        LET s == Single(Word(names[k], "", IF k = Len(names) THEN ":" ELSE "")) IN
        s \in Line /\ Len(s) = 1
  BY <1>3, SingleLine
<1>5. Params(names) \in Pieces(Len(names)) /\ \A k \in 1 .. Len(names) : Len(Params(names)[k]) = 1
  BY <1>1, <1>4 DEF Params, Pieces
<1>6. Len(FlattenSeq(Params(names))) = Len(names)
  BY <1>1, <1>5, FlatOnes, Zenon
<1>7. Len(names) - 1 \in Nat /\ (Len(names) - 1) + 1 = Len(names)
  BY <1>1
<1>8. Params(names) \in Pieces((Len(names) - 1) + 1)
  BY <1>5, <1>7
<1>9. Len(Comma(Params(names))) = Len(names) + (Len(names) - 1)
  BY <1>6, <1>7, <1>8, CommaLen, Zenon
<1>10. Comma(Params(names)) \in Line
  BY <1>1, <1>5, CommaLine, Zenon
<1> QED BY <1>2, <1>5, <1>9, <1>10, Zenon

(* Words with the same parts are the same. *)
LEMMA WordEqual ==
  ASSUME NEW a \in Words, NEW b \in Words, a.text = b.text, a.left = b.left, a.right = b.right
  PROVE  a = b
<1>1. \A A, B, C : \A u, v \in [text : A, left : B, right : C] :
        u.text = v.text /\ u.left = v.left /\ u.right = v.right => u = v
  OBVIOUS
<1> QED BY <1>1, Zenon DEF Words
(* A name with a colon. *)
LEMMA ColonPlainly ==
  ASSUME NEW text \in Texts
  PROVE  Colon(Plainly(text)) = Word(text, "", ":")
<1>1. /\ Plainly(text) \in Words /\ Plainly(text).text = text
      /\ Plainly(text).left = "" /\ Plainly(text).right = ""
  BY PlainlyWord
<1> DEFINE a == Colon(Plainly(text))
           b == Word(text, "", ":")
<1>2. a \in Words /\ a.text = text /\ a.left = "" /\ a.right = ":"
  BY <1>1, ColonWord
<1>3. b \in Words /\ b.text = text /\ b.left = "" /\ b.right = ":"
  BY DEF Word, Words
<1> HIDE DEF a, b
<1>4. a = b
  BY <1>2, <1>3, WordEqual
<1> QED BY <1>4 DEF a, b

(* The body of a lambda in Python; it is longer than the source if it is a *)
(* call.                                                                   *)
LEMMA LambdaBody ==
  ASSUME NEW e \in Expressions, IsExpression(e), e.form = "lambda"
  PROVE  /\ BodyPython(e.items) \in Line
         /\ Len(e.items) = 1 => BodyPython(e.items) = Body(e)
         /\ Len(e.items) # 1 => /\ Len(BodyPython(e.items)) = Len(e.items) + Len(e.items)
                                /\ Len(Body(e)) = Len(e.items)
         /\ Len(Body(e)) \in Nat /\ Len(Body(e)) >= 1
<1>0. /\ Len(e.items) >= 1 /\ Pythons(e.items) \in Pieces(Len(e.items)) /\ Len(e.items) \in Nat
      /\ e.items \in Seq(Items) /\ Body(e) \in Line /\ Len(Body(e)) \in Nat
  BY LambdaForm, ExprParts, BodyLine, LenLine
<1>1. Len(Body(e)) >= 1
  <2>1. \A k \in 1 .. Len(e.items) : Len(Pythons(e.items)[k]) >= 1
    BY ExprItems
  <2>2. Len(Body(e)) >= Len(e.items)
    BY <1>0, <2>1, FlatLong, Zenon DEF Body
  <2> QED BY <1>0, <2>2
<1>2. CASE Len(e.items) = 1
  <2>1. BodyPython(e.items) = ItemPython(e.items[1])
    BY <1>2 DEF BodyPython
  <2>2. 1 \in 1 .. Len(e.items)
    BY <1>2
  <2>3. Pythons(e.items) \in Pieces(1)
    BY <1>0, <1>2, Zenon
  <2>4. Body(e) = Pythons(e.items)[1]
    BY <2>3, FlatOne, Zenon DEF Body
  <2>5. Body(e) = BodyPython(e.items)
    BY <2>1, <2>2, <2>4, ExprItems
  <2> QED BY <1>0, <1>1, <1>2, <2>5
<1>3. CASE Len(e.items) # 1
  <2> DEFINE rest == Tail(e.items)
             n == Len(e.items) - 1
  <2>0. Len(e.items) > 1 /\ n \in Nat /\ n - 1 \in Nat /\ (n - 1) + 1 = n
    <3>1. Len(e.items) \in Nat /\ Len(e.items) >= 1
      BY <1>0, Zenon
    <3>2. \A i \in Nat : i >= 1 /\ i # 1
            => i > 1 /\ i - 1 \in Nat /\ (i - 1) - 1 \in Nat /\ ((i - 1) - 1) + 1 = i - 1
      OBVIOUS
    <3> QED BY <1>3, <3>1, <3>2, Zenon
  <2>1. OneEach(e)
    BY <2>0, LambdaForm DEF OneEach
  <2>2. Len(Body(e)) = Len(e.items)
    BY <2>1, OneWords
  <2>3. rest \in Seq(Items) /\ Len(rest) = n /\ \A k \in 1 .. n : rest[k] = e.items[k + 1]
    BY <1>0, <2>0
  <2>4. BodyPython(e.items) = CallPython(e.items[1].texts, rest)
    BY <1>3 DEF BodyPython
  <2> HIDE DEF rest
  <2>5. \A k \in 1 .. n : k + 1 \in 1 .. Len(e.items)
    BY <1>0
  <2> HIDE DEF n
  <2>6. Pythons(rest) \in Pieces(n) /\ \A k \in 1 .. n : Pythons(rest)[k] = ItemPython(rest[k])
    BY <2>3, PythonsType
  <2>7. ASSUME NEW k \in 1 .. n  PROVE Len(Pythons(rest)[k]) = 1
    <3>1. k + 1 \in 1 .. Len(e.items) /\ Pythons(rest)[k] = ItemPython(e.items[k + 1])
      BY <2>3, <2>5, <2>6
    <3>2. Len(ItemPython(e.items[k + 1])) = Len(e.items[k + 1].texts)
      BY <3>1, ExprItems
    <3> QED BY <2>1, <3>1, <3>2 DEF OneEach
  <2>8. Len(FlattenSeq(Pythons(rest))) = n
    BY <2>0, <2>6, <2>7, FlatOnes, Zenon
  <2>9. Pythons(rest) \in Pieces((n - 1) + 1)
    BY <2>0, <2>6
  <2>10. Len(Comma(Pythons(rest))) = n + (n - 1)
    BY <2>0, <2>8, <2>9, CommaLen, Zenon
  <2>11. Comma(Pythons(rest)) \in Line
    BY <2>0, <2>6, CommaLine, Zenon
  <2>12. /\ Bare(e.items[1].texts) \in Line /\ Len(Bare(e.items[1].texts)) = 1
    <3>1. 1 \in 1 .. Len(e.items)
      BY <1>0
    <3>2. e.items[1].texts \in Seq(Texts)
      BY <3>1, ExprItems DEF Items
    <3>3. Len(e.items[1].texts) = 1
      BY <2>1, <3>1 DEF OneEach
    <3> QED BY <3>2, <3>3, BareLine
  <2>13. BodyPython(e.items) = Called(Bare(e.items[1].texts), Comma(Pythons(rest)))
    BY <2>4, <2>11, <2>12, CallPythonIs, CalledIs, Zenon
  <2>14. /\ BodyPython(e.items) \in Line
         /\ Len(BodyPython(e.items)) = (1 + (n + (n - 1))) + 2
    BY <2>10, <2>11, <2>12, <2>13, CalledLine, Zenon
  <2>15. Len(BodyPython(e.items)) = Len(e.items) + Len(e.items)
    <3>1. \A i \in Nat : (1 + ((i - 1) + ((i - 1) - 1))) + 2 = i + i
      OBVIOUS
    <3> QED BY <1>0, <2>14, <3>1, Zenon DEF n
  <2> QED BY <1>0, <1>1, <1>3, <2>2, <2>14, <2>15
<1> QED BY <1>2, <1>3

(* What ConvertLambda makes of a lambda: the first parameter gets the      *)
(* colon.                                                                  *)
LEMMA LambdaSaid ==
  ASSUME NEW e \in Expressions, IsExpression(e), e.form = "lambda"
  PROVE  LET t == Cat(Rest(Bare(e.head)), Body(e)) IN
         /\ Colon(Plainly(e.head[1])) \in Words /\ t \in Line
         /\ Len(t) = (Len(e.head) - 1) + Len(Body(e))
         /\ ConvertLambda(Spoken(e))
              = Cat(Sign("lambda"), Cat(Single(Colon(Plainly(e.head[1]))), t))
<1>0. /\ Len(e.head) >= 1 /\ 1 \in 1 .. Len(e.head) /\ Len(e.head) \in Nat
      /\ Bare(e.head) \in Line /\ Len(Bare(e.head)) = Len(e.head)
      /\ Spoken(e) = Cat(Sign("lambda"), Cat(Bare(e.head), Body(e)))
  BY LambdaForm, ExprParts, Zenon
<1>1. /\ Body(e) \in Line /\ Len(Body(e)) \in Nat /\ Len(Body(e)) >= 1
  BY BodyLine, LambdaBody
<1>2. /\ e.head[1] \in Texts /\ IsName(e.head[1]) /\ Bare(e.head)[1] = Plainly(e.head[1])
  BY <1>0, HeadNames
<1> DEFINE b == Plainly(e.head[1])
           r == Rest(Bare(e.head))
           t == Cat(r, Body(e))
<1>3. b \in Words /\ Identifier(b) /\ Colon(b) \in Words
  BY <1>2, PlainlyWord, NameWord, ColonWord
<1>4. Bare(e.head) = Cat(Single(b), r)
  BY <1>0, <1>2, LineCons
<1>5. r \in Line /\ Len(r) = Len(e.head) - 1
  BY <1>0, RestLine
<1> HIDE DEF b, r
<1>6. t \in Line /\ Len(t) = (Len(e.head) - 1) + Len(Body(e))
  BY <1>1, <1>5, CatLine
<1>7. Single(b) \in Line
  BY <1>3, SingleLine
<1>8. Cat(Bare(e.head), Body(e)) = Cat(Single(b), t)
  <2>1. Body(e) \in Line
    BY <1>1
  <2>2. Cat(Cat(Single(b), r), Body(e)) = Cat(Single(b), Cat(r, Body(e)))
    BY <1>5, <1>7, <2>1, CatAssoc, Zenon
  <2> QED BY <1>4, <2>2
<1>9. Len(t) >= 1
  BY <1>0, <1>1, <1>6
<1> HIDE DEF t
<1>10. Plainly("lambda") \in Words /\ LambdaWord(Plainly("lambda"))
  BY PlainlyWord, Known, Zenon DEF LambdaWord
<1>11. ConvertLambda(Cat(Single(Plainly("lambda")), Cat(Single(b), t)))
         = Cat(Single(Plainly("lambda")), Cat(Single(Colon(b)), t))
  BY <1>3, <1>6, <1>9, <1>10, LambdaHere
<1>12. ConvertLambda(Spoken(e)) = Cat(Sign("lambda"), Cat(Single(Colon(b)), t))
  BY <1>0, <1>8, <1>11, Zenon DEF Sign
<1> QED BY <1>3, <1>6, <1>12 DEF t, b, r

(* A lambda is right if it has one parameter and one item, and only then. *)
LEMMA LambdaRight ==
  ASSUME NEW e \in Expressions, IsExpression(e), e.form = "lambda"
  PROVE  /\ ConvertSimpleCall(ConvertLambda(Spoken(e))) = ExprPython(e)
              <=> Len(e.head) = 1 /\ Len(e.items) = 1
         /\ ConvertSimpleCall(ConvertLambda(Spoken(e))) = ConvertLambda(Spoken(e))
         /\ NoSpeech(e) /\ ExprPython(e) \in Line
<1> DEFINE t == Cat(Rest(Bare(e.head)), Body(e))
           x == Cat(Single(Colon(Plainly(e.head[1]))), t)
           v == ConvertLambda(Spoken(e))
<1>1. /\ Colon(Plainly(e.head[1])) \in Words /\ t \in Line
      /\ Len(t) = (Len(e.head) - 1) + Len(Body(e)) /\ v = Cat(Sign("lambda"), x)
  BY LambdaSaid
<1>2. /\ Len(e.head) >= 1 /\ 1 \in 1 .. Len(e.head) /\ Len(e.head) \in Nat
      /\ Len(e.items) \in Nat /\ Len(e.items) >= 1 /\ e.head \in Seq(Texts)
      /\ Len(Body(e)) \in Nat /\ Body(e) \in Line
      /\ Bare(e.head) \in Line /\ Len(Bare(e.head)) = Len(e.head)
  BY LambdaForm, LambdaBody, ExprParts, BodyLine, Zenon
<1> HIDE DEF t
<1>3. x \in Line /\ Len(x) = Len(t) + 1 /\ x[1] = Colon(Plainly(e.head[1]))
  BY <1>1, RestCat
<1> HIDE DEF x
<1>4. Plainly("lambda") \in Words
  BY PlainlyWord, Known
<1>5. /\ v \in Line /\ Len(v) = Len(x) + 1 /\ v[1] = Plainly("lambda")
      /\ \A k \in 1 .. Len(x) : v[k + 1] = x[k]
  <2>1. v = Cat(Single(Plainly("lambda")), x)
    BY <1>1 DEF Sign
  <2> DEFINE w == Plainly("lambda")
             c == Cat(Single(w), x)
  <2>2. w \in Words /\ x \in Line
    BY <1>3, <1>4, Zenon
  <2> HIDE DEF v, w
  <2>3. /\ c \in Line /\ Len(c) = Len(x) + 1 /\ c[1] = w
        /\ \A k \in 1 .. Len(x) : c[k + 1] = x[k]
    BY <2>2, RestCat, ZenonT(40)
  <2>4. v = c
    BY <2>1, Zenon DEF w
  <2> HIDE DEF c
  <2> QED BY <2>3, <2>4, Zenon DEF w
<1> HIDE DEF v
<1>6. v[2].right = ":"
  <2>1. 1 \in 1 .. Len(x) /\ 1 + 1 = 2
    BY <1>1, <1>2, <1>3
  <2>2. v[2] = Colon(Plainly(e.head[1]))
    BY <1>3, <1>5, <2>1
  <2> QED BY <2>2 DEF Colon, Plainly, Word
<1>7. Len(v) = (Len(e.head) + Len(Body(e))) + 1
  BY <1>1, <1>2, <1>3, <1>5
<1>8. ~Found(v)
  <2>1. 2 \in 1 .. Len(v)
    BY <1>1, <1>2, <1>3, <1>5
  <2> QED BY <1>6, <2>1 DEF Found, Symbolic
<1>9. ConvertSimpleCall(v) = v
  BY <1>5, <1>8, SimpleCallIs, Zenon
<1>10. NoSpeech(e)
  BY LambdaForm DEF NoSpeech, SpeaksOfLambda
<1>11. /\ ExprPython(e) = Cat(Cat(Sign("lambda"), ParametersPython(e.head)), BodyPython(e.items))
       /\ ParametersPython(e.head) \in Line
       /\ Len(ParametersPython(e.head)) = Len(e.head) + (Len(e.head) - 1)
       /\ BodyPython(e.items) \in Line
       /\ Sign("lambda") \in Line /\ Len(Sign("lambda")) = 1
  BY <1>2, LambdaForm, ParamsType, LambdaBody, SignLine, Known, Zenon
<1>12. /\ Cat(Sign("lambda"), ParametersPython(e.head)) \in Line
       /\ Len(Cat(Sign("lambda"), ParametersPython(e.head))) = 1 + (Len(e.head) + (Len(e.head) - 1))
  BY <1>11, CatLine, Zenon
<1>13. /\ ExprPython(e) \in Line
       /\ Len(ExprPython(e)) = (1 + (Len(e.head) + (Len(e.head) - 1))) + Len(BodyPython(e.items))
  BY <1>11, <1>12, CatLine, Zenon
<1>14. CASE Len(e.items) # 1
  <2>1. Len(BodyPython(e.items)) = Len(e.items) + Len(e.items) /\ Len(Body(e)) = Len(e.items)
    BY <1>14, LambdaBody, Zenon
  <2>2. Len(v) # Len(ExprPython(e))
    <3>1. \A p, n, l, m \in Nat : p >= 1 /\ n >= 1 /\ n # 1 /\ l = n + n /\ m = n
            => (p + m) + 1 # (1 + (p + (p - 1))) + l
      OBVIOUS
    <3>2. Len(BodyPython(e.items)) \in Nat
      BY <1>11, LenLine
    <3> QED BY <1>2, <1>7, <1>13, <1>14, <2>1, <3>1, <3>2, Zenon
  <2>3. v # ExprPython(e)
    BY <2>2
  <2> QED BY <1>9, <1>10, <1>13, <1>14, <2>3 DEF v
<1>15. CASE Len(e.items) = 1 /\ Len(e.head) # 1
  <2>1. BodyPython(e.items) = Body(e)
    BY <1>15, LambdaBody, Zenon
  <2>2. Len(v) # Len(ExprPython(e))
    <3>1. \A p, m \in Nat : p >= 1 /\ p # 1 => (p + m) + 1 # (1 + (p + (p - 1))) + m
      OBVIOUS
    <3> QED BY <1>2, <1>7, <1>13, <1>15, <2>1, <3>1, Zenon
  <2>3. v # ExprPython(e)
    BY <2>2
  <2> QED BY <1>9, <1>10, <1>13, <1>15, <2>3 DEF v
<1>16. CASE Len(e.items) = 1 /\ Len(e.head) = 1
  <2>1. BodyPython(e.items) = Body(e)
    BY <1>16, LambdaBody, Zenon
  <2>2. ParametersPython(e.head) = Single(Colon(Plainly(e.head[1])))
    <3>1. Params(e.head) \in Pieces(1) /\ ParametersPython(e.head) = Comma(Params(e.head))
      BY <1>2, <1>16, ParamsType
    <3>2. Comma(Params(e.head)) = Params(e.head)[1]
      BY <3>1, CommaOne
    <3>3. Params(e.head)[1] = Single(Word(e.head[1], "", ":"))
      <4>1. DOMAIN e.head = 1 .. Len(e.head)
        BY ExprParts
      <4> QED BY <1>16, <4>1 DEF Params
    <3>4. Word(e.head[1], "", ":") = Colon(Plainly(e.head[1]))
      BY <1>2, ExprParts, ColonPlainly
    <3> QED BY <3>1, <3>2, <3>3, <3>4
  <2>3. t = Body(e)
    <3>1. Rest(Bare(e.head)) \in Line /\ Len(Rest(Bare(e.head))) = 0
      <4>1. Bare(e.head) \in Line /\ Len(Bare(e.head)) = 1
        BY <1>2, <1>16, Zenon
      <4> DEFINE b == Bare(e.head)
      <4>2. b \in Line /\ Len(b) = 1 /\ Len(b) >= 1
        <5>1. \A n : n = 1 => n >= 1
          OBVIOUS
        <5> QED BY <4>1, <5>1, Zenon
      <4> HIDE DEF b
      <4>3. Rest(b) \in Line /\ Len(Rest(b)) = Len(b) - 1
        BY <4>2, RestLine, ZenonT(40)
      <4>4. Len(b) - 1 = 0
        BY <4>2
      <4> QED BY <4>3, <4>4, Zenon DEF b
    <3>2. Rest(Bare(e.head)) = <<>>
      BY <3>1, NilLine, LineEqual
    <3> QED BY <1>2, <3>2, CatNil, Zenon DEF t
  <2>4. Single(Colon(Plainly(e.head[1]))) \in Line
    BY <1>1, SingleLine
  <2>5. v = ExprPython(e)
    <3>1. Sign("lambda") \in Line /\ Body(e) \in Line
      BY <1>2, <1>11
    <3>2. Cat(Cat(Sign("lambda"), Single(Colon(Plainly(e.head[1])))), Body(e))
            = Cat(Sign("lambda"), Cat(Single(Colon(Plainly(e.head[1]))), Body(e)))
      BY <2>4, <3>1, CatAssoc, Zenon
    <3>3. v = Cat(Sign("lambda"), Cat(Single(Colon(Plainly(e.head[1]))), Body(e)))
      BY <1>1, <2>3, Zenon DEF x
    <3>4. ExprPython(e) = Cat(Cat(Sign("lambda"), Single(Colon(Plainly(e.head[1])))), Body(e))
      BY <1>11, <2>1, <2>2, Zenon
    <3> QED BY <3>2, <3>3, <3>4, Zenon
  <2> QED BY <1>9, <1>10, <1>13, <1>16, <2>5 DEF v
<1> QED BY <1>14, <1>15, <1>16
-----------------------------------------------------------------------------
(* All expressions; statements and their parts. *)

(* What is done to an expression leaves it a line of words. *)
LEMMA ExprLines ==
  ASSUME NEW e \in Expressions, IsExpression(e)
  PROVE  /\ Spoken(e) \in Line /\ Len(Spoken(e)) \in Nat /\ Len(Spoken(e)) >= 1
         /\ ConvertLambda(Spoken(e)) \in Line /\ Len(ConvertLambda(Spoken(e))) = Len(Spoken(e))
         /\ ConvertSimpleCall(ConvertLambda(Spoken(e))) \in Line
         /\ ExprPython(e) \in Line
<1>1. Spoken(e) \in Line /\ Len(Spoken(e)) \in Nat
  BY SpokenIs, LenLine
<1>2. /\ ConvertLambda(Spoken(e)) \in Line /\ Len(ConvertLambda(Spoken(e))) = Len(Spoken(e))
  BY <1>1, LambdaLine DEF OrColons
<1>3. ConvertSimpleCall(ConvertLambda(Spoken(e))) \in Line
  BY <1>2, SimpleCallLen
<1>4. e.form \in {"value", "call", "lambda"}
  BY ExprParts
<1>5. Len(Spoken(e)) >= 1 /\ ExprPython(e) \in Line
  <2>1. CASE e.form = "value"
    <3>1. /\ 1 \in 1 .. Len(e.items) /\ Spoken(e) = ItemPython(e.items[1])
          /\ ExprPython(e) = ItemPython(e.items[1])
      BY <2>1, ValueForm
    <3>2. /\ ItemPython(e.items[1]) \in Line /\ Len(e.items[1].texts) >= 1
          /\ Len(ItemPython(e.items[1])) = Len(e.items[1].texts)
      BY <3>1, ExprItems
    <3> QED BY <3>1, <3>2
  <2>2. CASE e.form = "call"
    <3>1. /\ Len(Body(e)) \in Nat /\ Len(Spoken(e)) = Len(Body(e)) + 1 /\ ExprPython(e) \in Line
      BY <2>2, CallSizes
    <3> QED BY <3>1
  <2>3. CASE e.form = "lambda"
    <3>1. ExprPython(e) \in Line
      BY <2>3, LambdaRight
    <3>2. /\ Spoken(e) = Cat(Sign("lambda"), Cat(Bare(e.head), Body(e)))
          /\ Bare(e.head) \in Line /\ Body(e) \in Line
      BY <2>3, LambdaForm, BodyLine, Zenon
    <3>3. Cat(Bare(e.head), Body(e)) \in Line /\ Len(Cat(Bare(e.head), Body(e))) \in Nat
      BY <3>2, CatLine, LenLine
    <3>4. Sign("lambda") \in Line /\ Len(Sign("lambda")) = 1
      BY SignLine, Known
    <3>5. Len(Spoken(e)) = 1 + Len(Cat(Bare(e.head), Body(e)))
      BY <3>2, <3>3, <3>4, CatLine, Zenon
    <3>6. \A i, j \in Nat : i = 1 + j => i >= 1
      OBVIOUS
    <3> QED BY <1>1, <3>1, <3>3, <3>5, <3>6, Zenon
  <2> QED BY <1>4, <2>1, <2>2, <2>3
<1> QED BY <1>1, <1>2, <1>3, <1>5

(* An expression is right where ConvertSimpleCall is applied if FoundRight *)
(* says so and it speaks of no lambda, and only then.                      *)
LEMMA RightIs ==
  ASSUME NEW e \in Expressions, IsExpression(e)
  PROVE  ConvertSimpleCall(ConvertLambda(Spoken(e))) = ExprPython(e)
           <=> FoundRight(e) /\ NoSpeech(e)
<1>1. e.form \in {"value", "call", "lambda"} /\ DOMAIN e.items = 1 .. Len(e.items)
  BY ExprParts
<1>2. CASE e.form = "value"
  <2>1. FoundRight(e) <=> NoCall(e.items[1])
    BY <1>2 DEF FoundRight
  <2> QED BY <1>2, <2>1, ValueRight
<1>3. CASE e.form = "call"
  <2>1. FoundRight(e) <=> \A k \in 1 .. Len(e.items) : Closed(e.items[k])
    BY <1>1, <1>3 DEF FoundRight
  <2> QED BY <1>3, <2>1, CallRight
<1>4. CASE e.form = "lambda"
  <2>1. FoundRight(e) <=> Len(e.head) = 1 /\ Len(e.items) = 1
    BY <1>4 DEF FoundRight
  <2> QED BY <1>4, <2>1, LambdaRight
<1> QED BY <1>1, <1>2, <1>3, <1>4

(* After if, while and the like, no call is looked for. *)
LEMMA HeaderIs ==
  ASSUME NEW e \in Expressions, IsExpression(e), e.form # "lambda"
  PROVE  ConvertLambda(Spoken(e)) = ExprPython(e) <=> e.form # "call" /\ NoSpeech(e)
<1>1. e.form \in {"value", "call"}
  BY ExprParts
<1>2. CASE e.form = "value"
  BY <1>2, ValueSaid
<1>3. CASE e.form = "call"
  <2>1. /\ Len(Body(e)) \in Nat /\ Len(e.items) \in Nat
        /\ Len(Spoken(e)) = Len(Body(e)) + 1
        /\ Len(ExprPython(e)) = (Len(Body(e)) + Len(e.items)) + 2
    BY <1>3, CallSizes
  <2>2. Len(ConvertLambda(Spoken(e))) = Len(Spoken(e))
    BY ExprLines
  <2>3. Len(ConvertLambda(Spoken(e))) # Len(ExprPython(e))
    <3>1. \A i, j \in Nat : i + 1 # (i + j) + 2
      OBVIOUS
    <3> QED BY <2>1, <2>2, <3>1, Zenon
  <2> QED BY <1>3, <2>3
<1> QED BY <1>1, <1>2, <1>3

-----------------------------------------------------------------------------
(* The kinds of statements. *)

(* The shape of an assignment. *)
LEMMA KindAssign ==
  ASSUME NEW s, IsStatement(s), s.kind = "assign"
  PROVE  Len(s.exprs) = 1 /\ Len(s.words) = 2 /\ IsName(s.words[1]) /\ s.words[2] = "="
BY Zenon DEF IsStatement
(* The shape of a for. *)
LEMMA KindFor ==
  ASSUME NEW s, IsStatement(s), s.kind = "for"
  PROVE  Len(s.exprs) = 1 /\ s.exprs[1].form # "lambda"
         /\ Len(s.words) = 3 /\ s.words[1] = "for" /\ IsName(s.words[2]) /\ s.words[3] = "in"
BY Zenon DEF IsStatement
(* The shape of the other block headers. *)
LEMMA KindHeader ==
  ASSUME NEW s, IsStatement(s), s.kind = "header"
  PROVE  \/ /\ s.exprs = <<>>
            /\ s.words \in {<<w>> : w \in {"else", "try", "except", "finally"}}
         \/ /\ Len(s.exprs) = 1 /\ s.exprs[1].form # "lambda"
            /\ s.words \in {<<w>> : w \in {"if", "elif", "while", "with", "except"}}
BY Zenon DEF IsStatement
(* The shape of a plain statement. *)
LEMMA KindStatement ==
  ASSUME NEW s, IsStatement(s), s.kind = "statement"
  PROVE  s.exprs = <<>> /\ s.words # <<>>
        /\ (IsName(s.words[1]) \/ s.words = <<"return">>)
        /\ \A k \in DOMAIN s.words : s.words[k] \notin {"lambda", "=", ":"}
BY Zenon DEF IsStatement
(* The shape of a print. *)
LEMMA KindPrint ==
  ASSUME NEW s, IsStatement(s), s.kind = "print"
  PROVE  s.words = <<"print">> /\ s.exprs # <<>>
        /\ \A k \in 1 .. Len(s.exprs) - 1 : IsText(s.exprs[k]) \/ IsText(s.exprs[k + 1])
BY Zenon DEF IsStatement
(* The shape of a definition. *)
LEMMA KindDefine ==
  ASSUME NEW s, IsStatement(s), s.kind = "define"
  PROVE  s.exprs = <<>> /\ Len(s.words) > 1 /\ s.words[1] \in {"def", "class"}
        /\ \A k \in 2 .. Len(s.words) : IsName(s.words[k])
BY Zenon DEF IsStatement
(* The shape of a call. *)
LEMMA KindCall ==
  ASSUME NEW s, IsStatement(s), s.kind = "call"
  PROVE  Len(s.exprs) = 1 /\ s.words = <<>> /\ s.exprs[1].form = "call"
BY Zenon DEF IsStatement
(* The shape of a return. *)
LEMMA KindReturn ==
  ASSUME NEW s, IsStatement(s), s.kind = "return"
  PROVE  Len(s.exprs) = 1 /\ s.words = <<"return">>
BY Zenon DEF IsStatement
(* The shape of an end and of a blank line. *)
LEMMA KindEnd ==
  ASSUME NEW s, IsStatement(s), s.kind \in {"end", "blank"}
  PROVE  s.exprs = <<>> /\ s.words = IF s.kind = "end" THEN <<"end">> ELSE <<>>
BY Zenon DEF IsStatement
(* There are no other kinds. *)
LEMMA Kinds ==
  ASSUME NEW s, IsStatement(s)
  PROVE  /\ s.kind \in {"assign", "return", "call", "header", "for", "print", "define",
                        "statement", "end", "blank"}
         /\ \A k \in DOMAIN s.exprs : IsExpression(s.exprs[k])
BY Zenon DEF IsStatement

(* The types of the parts of a statement. *)
LEMMA StatementParts ==
  ASSUME NEW s \in Statements
  PROVE  /\ s.words \in Seq(Texts) /\ Len(s.words) \in Nat /\ DOMAIN s.words = 1 .. Len(s.words)
         /\ s.exprs \in Seq(Expressions) /\ Len(s.exprs) \in Nat
         /\ DOMAIN s.exprs = 1 .. Len(s.exprs)
         /\ \A k \in 1 .. Len(s.words) : s.words[k] \in Texts
         /\ \A k \in 1 .. Len(s.exprs) : s.exprs[k] \in Expressions
<1>1. s.words \in Seq(Texts) /\ s.exprs \in Seq(Expressions)
  BY DEF Statements
<1>2. /\ Len(s.words) \in Nat /\ DOMAIN s.words = 1 .. Len(s.words)
      /\ \A k \in 1 .. Len(s.words) : s.words[k] \in Texts
  BY <1>1, LenProperties, ElementOfSeq
<1>3. /\ Len(s.exprs) \in Nat /\ DOMAIN s.exprs = 1 .. Len(s.exprs)
      /\ \A k \in 1 .. Len(s.exprs) : s.exprs[k] \in Expressions
  BY <1>1, LenProperties, ElementOfSeq
<1> QED BY <1>1, <1>2, <1>3, Zenon

(* Expressions in NewPython. *)
ExprSources(exprs) == [k \in DOMAIN exprs |-> ExprSource(exprs[k])]

(* Expressions after ConvertBracketStrings. *)
Spokens(exprs) == [k \in DOMAIN exprs |-> Spoken(exprs[k])]

(* Expressions in Python. *)
ExprPythons(exprs) == [k \in DOMAIN exprs |-> ExprPython(exprs[k])]

(* All expressions of a statement after ConvertBracketStrings, one after   *)
(* the other.                                                              *)
Speech(s) == FlattenSeq(Spokens(s.exprs))

(* ConvertBracketStrings makes the one of the other. *)
LEMMA SpokensType ==
  ASSUME NEW exprs \in Seq(Expressions)
  PROVE  /\ Len(exprs) \in Nat
         /\ ExprSources(exprs) \in Pieces(Len(exprs)) /\ Spokens(exprs) \in Pieces(Len(exprs))
         /\ Quotes(ExprSources(exprs)) = Spokens(exprs)
         /\ \A k \in 1 .. Len(exprs) : exprs[k] \in Expressions
              /\ Spokens(exprs)[k] = Spoken(exprs[k])
<1>1. Len(exprs) \in Nat /\ DOMAIN exprs = 1 .. Len(exprs)
      /\ \A k \in 1 .. Len(exprs) : exprs[k] \in Expressions
  BY LenProperties, ElementOfSeq
<1>2. \A k \in 1 .. Len(exprs) :
        /\ ExprSource(exprs[k]) \in Line /\ Spoken(exprs[k]) \in Line
        /\ ConvertBracketStrings(ExprSource(exprs[k])) = Spoken(exprs[k])
  BY <1>1, SpokenIs
<1>3. \A k \in 1 .. Len(exprs) : Spokens(exprs)[k] = Spoken(exprs[k])
  BY <1>1 DEF Spokens
<1>4. ExprSources(exprs) \in Pieces(Len(exprs)) /\ Spokens(exprs) \in Pieces(Len(exprs))
  BY <1>1, <1>2 DEF ExprSources, Spokens, Pieces
<1>5. Quotes(ExprSources(exprs)) = Spokens(exprs)
  BY <1>1, <1>2 DEF Quotes, ExprSources, Spokens
<1> QED BY <1>1, <1>3, <1>4, <1>5, Zenon

(* A statement after ConvertBracketStrings: its words, then its            *)
(* expressions.                                                            *)
LEMMA SourceIs ==
  ASSUME NEW s \in Statements
  PROVE  /\ Bare(s.words) \in Line /\ Len(Bare(s.words)) = Len(s.words)
         /\ \A k \in 1 .. Len(s.words) : Bare(s.words)[k] = Plainly(s.words[k])
         /\ Speech(s) \in Line
         /\ Source(s) \in Line /\ Len(Source(s)) = Len(s.words) + Len(Speech(s))
         /\ ConvertBracketStrings(Source(s)) = Cat(Bare(s.words), Speech(s))
<1>1. s.words \in Seq(Texts) /\ s.exprs \in Seq(Expressions)
  BY StatementParts
<1>2. /\ Bare(s.words) \in Line /\ Len(Bare(s.words)) = Len(s.words)
      /\ \A k \in 1 .. Len(s.words) : Bare(s.words)[k] = Plainly(s.words[k])
      /\ ConvertBracketStrings(Bare(s.words)) = Bare(s.words)
  BY <1>1, BareLine, QuoteBare
<1>3. /\ Len(s.exprs) \in Nat
      /\ ExprSources(s.exprs) \in Pieces(Len(s.exprs)) /\ Spokens(s.exprs) \in Pieces(Len(s.exprs))
      /\ Quotes(ExprSources(s.exprs)) = Spokens(s.exprs)
  BY <1>1, SpokensType, Zenon
<1> DEFINE x == FlattenSeq(ExprSources(s.exprs))
<1>4. x \in Line /\ Speech(s) \in Line /\ ConvertBracketStrings(x) = Speech(s)
  BY <1>3, FlatLine, QuoteFlat, Zenon DEF Speech
<1>5. Source(s) = Cat(Bare(s.words), x)
  BY Zenon DEF Source, ExprSources, Cat
<1> HIDE DEF x
<1>6. Source(s) \in Line /\ Len(Source(s)) = Len(s.words) + Len(x)
  BY <1>2, <1>4, <1>5, CatLine, Zenon
<1>7. ConvertBracketStrings(Source(s)) = Cat(Bare(s.words), Speech(s))
  BY <1>2, <1>4, <1>5, QuoteCat, Zenon
<1>8. Len(Speech(s)) = Len(x)
  BY <1>4, QuoteLine, Zenon
<1> QED BY <1>2, <1>4, <1>6, <1>7, <1>8, Zenon

(* A statement with one expression. *)
LEMMA OneSpeech ==
  ASSUME NEW s \in Statements, Len(s.exprs) = 1
  PROVE  Speech(s) = Spoken(s.exprs[1]) /\ 1 \in 1 .. Len(s.exprs) /\ s.exprs[1] \in Expressions
<1>1. s.exprs \in Seq(Expressions)
  BY StatementParts
<1>2. 1 \in 1 .. 1 /\ 1 \in 1 .. Len(s.exprs)
  OBVIOUS
<1>3. Spokens(s.exprs) \in Pieces(1) /\ Spokens(s.exprs)[1] = Spoken(s.exprs[1])
      /\ s.exprs[1] \in Expressions
  BY <1>1, <1>2, SpokensType, Zenon
<1> QED BY <1>2, <1>3, FlatOne, Zenon DEF Speech

(* A statement without expressions. *)
LEMMA NoSpeechAtAll ==
  ASSUME NEW s \in Statements, s.exprs = <<>>
  PROVE  Speech(s) = <<>> /\ FlattenSeq(ExprPythons(s.exprs)) = <<>>
<1>1. 1 .. 0 = {} /\ DOMAIN s.exprs = {}
  OBVIOUS
<1>2. Spokens(s.exprs) \in Pieces(0) /\ ExprPythons(s.exprs) \in Pieces(0)
  BY <1>1 DEF Spokens, ExprPythons, Pieces
<1> QED BY <1>2, FlatNone, Zenon DEF Speech

(* A statement with one expression, in Python. *)
LEMMA OnePython ==
  ASSUME NEW s \in Statements, Len(s.exprs) = 1, IsStatement(s)
  PROVE  FlattenSeq(ExprPythons(s.exprs)) = ExprPython(s.exprs[1])
         /\ IsExpression(s.exprs[1])
<1>1. DOMAIN s.exprs = 1 .. 1 /\ 1 \in 1 .. 1
  BY StatementParts
<1>2. s.exprs[1] \in Expressions /\ IsExpression(s.exprs[1])
  BY <1>1, OneSpeech, Kinds
<1>3. ExprPython(s.exprs[1]) \in Line
  BY <1>2, ExprLines
<1>4. \A k \in 1 .. 1 : k = 1
  OBVIOUS
<1>5. ExprPythons(s.exprs) \in Pieces(1) /\ ExprPythons(s.exprs)[1] = ExprPython(s.exprs[1])
  BY <1>1, <1>3, <1>4 DEF ExprPythons, Pieces
<1> QED BY <1>2, <1>5, FlatOne, Zenon

(* The word lambda is none of the texts. *)
NoLambdas(texts) == \A k \in 1 .. Len(texts) : texts[k] # "lambda"

(* Then there is none to be found. *)
LEMMA NoLambdaStill ==
  ASSUME NEW texts \in Seq(Texts), NoLambdas(texts)
  PROVE  Still(Bare(texts))
<1>1. Len(Bare(texts)) = Len(texts)
      /\ \A k \in 1 .. Len(texts) : Bare(texts)[k] = Plainly(texts[k])
  BY BareLine
<1>2. \A text : Plainly(text).text = text
  BY DEF Plainly, Word
<1> SUFFICES ASSUME NEW k \in 1 .. Len(texts), Bare(texts)[k].text = "lambda" PROVE FALSE
  BY <1>1, Zenon DEF Still
<1> QED BY <1>1, <1>2, Zenon DEF NoLambdas

-----------------------------------------------------------------------------
(* How a line is passed on by its first word. *)

(* The words of a part of a line. *)
LEMMA SubLine ==
  ASSUME NEW s \in Line, NEW m \in Nat, NEW n \in Nat, 1 <= m, m <= n + 1, n <= Len(s)
  PROVE  /\ SubSeq(s, m, n) \in Line /\ Len(SubSeq(s, m, n)) = (n - m) + 1
         /\ \A i \in 1 .. (n - m) + 1 : SubSeq(s, m, n)[i] = s[(m + i) - 1]
<1>0. Len(s) \in Nat /\ m \in 1 .. Len(s) + 1 /\ n \in m - 1 .. Len(s) /\ (n - m) + 1 = n - m + 1
  BY LenLine
<1>1. SubSeq(s, m, n) \in Line /\ Len(SubSeq(s, m, n)) = n - m + 1
  BY <1>0, SubSeqProperties DEF Line
<1>2. \A i \in 1 .. n - m + 1 : SubSeq(s, m, n)[i] = s[m + i - 1]
  BY <1>0, SubSeqProperties DEF Line
<1> QED BY <1>0, <1>1, <1>2

(* The parts of two lines put together. *)
LEMMA SubCat ==
  ASSUME NEW s \in Line, NEW t \in Line
  PROVE  /\ SubSeq(Cat(s, t), 1, Len(s)) = s
         /\ SubSeq(Cat(s, t), Len(s) + 1, Len(Cat(s, t))) = t
<1> DEFINE c == Cat(s, t)
<1>1. Len(s) \in Nat /\ Len(t) \in Nat /\ c \in Line /\ Len(c) = Len(s) + Len(t)
  BY LenLine, CatLine
<1>2. /\ \A i \in Nat : 1 <= i /\ i <= Len(s) => c[i] = s[i]
      /\ \A i \in Nat : Len(s) < i /\ i <= Len(s) + Len(t) => c[i] = t[i - Len(s)]
  BY CatAt
<1> HIDE DEF c
<1>3. SubSeq(c, 1, Len(s)) = s
  <2> DEFINE a == SubSeq(c, 1, Len(s))
  <2>1. 1 \in Nat /\ 1 <= 1 /\ 1 <= Len(s) + 1 /\ Len(s) <= Len(c) /\ (Len(s) - 1) + 1 = Len(s)
    BY <1>1
  <2>2. /\ a \in Line /\ Len(a) = (Len(s) - 1) + 1
        /\ \A i \in 1 .. (Len(s) - 1) + 1 : a[i] = c[(1 + i) - 1]
    BY <1>1, <2>1, SubLine, Zenon
  <2> HIDE DEF a
  <2>3. ASSUME NEW i \in 1 .. Len(s)  PROVE a[i] = s[i]
    <3>1. i \in Nat /\ 1 <= i /\ i <= Len(s) /\ (1 + i) - 1 = i /\ i \in 1 .. (Len(s) - 1) + 1
      BY <1>1
    <3>2. a[i] = c[(1 + i) - 1]
      BY <2>2, <3>1, Zenon
    <3> QED BY <1>2, <3>1, <3>2
  <2>4. a = s
    BY <2>1, <2>2, <2>3, LineEqual
  <2> QED BY <2>4 DEF a
<1>4. SubSeq(c, Len(s) + 1, Len(c)) = t
  <2> DEFINE a == SubSeq(c, Len(s) + 1, Len(c))
  <2>1. /\ Len(s) + 1 \in Nat /\ 1 <= Len(s) + 1 /\ Len(s) + 1 <= Len(c) + 1 /\ Len(c) <= Len(c)
        /\ Len(c) \in Nat /\ (Len(c) - (Len(s) + 1)) + 1 = Len(t)
    BY <1>1
  <2>2. /\ a \in Line /\ Len(a) = (Len(c) - (Len(s) + 1)) + 1
        /\ \A i \in 1 .. (Len(c) - (Len(s) + 1)) + 1 : a[i] = c[((Len(s) + 1) + i) - 1]
    BY <1>1, <2>1, SubLine, Zenon
  <2> HIDE DEF a
  <2>3. ASSUME NEW i \in 1 .. Len(t)  PROVE a[i] = t[i]
    <3>1. /\ Len(s) + i \in Nat /\ Len(s) < Len(s) + i /\ Len(s) + i <= Len(s) + Len(t)
          /\ ((Len(s) + 1) + i) - 1 = Len(s) + i /\ (Len(s) + i) - Len(s) = i
      BY <1>1
    <3>2. a[i] = c[((Len(s) + 1) + i) - 1]
      BY <2>1, <2>2, Zenon
    <3>3. c[Len(s) + i] = t[(Len(s) + i) - Len(s)]
      BY <1>2, <3>1, Zenon
    <3> QED BY <3>1, <3>2, <3>3
  <2>4. a = t
    BY <2>1, <2>2, <2>3, LineEqual
  <2> QED BY <2>4 DEF a
<1> QED BY <1>3, <1>4 DEF c

(* The tail of a word and a line is the line. *)
LEMMA TailIs ==
  ASSUME NEW w \in Words, NEW t \in Line
  PROVE  Tail(Cat(Single(w), t)) = t
<1> DEFINE c == Cat(Single(w), t)
<1>1. c \in Line /\ Len(c) = Len(t) + 1 /\ Len(t) \in Nat
  BY RestCat, LenLine
<1>2. Single(w) \in Line /\ Len(Single(w)) = 1
  BY SingleLine
<1>3. SubSeq(c, 1 + 1, Len(c)) = t
  BY <1>2, SubCat, ZenonT(40)
<1> HIDE DEF c
<1>4. Tail(c) = SubSeq(c, 2, Len(c))
  BY <1>1 DEF Line
<1> QED BY <1>3, <1>4 DEF c

(* The first word of two lines put together. *)
LEMMA FirstCat ==
  ASSUME NEW s \in Line, NEW t \in Line, Len(s) >= 1
  PROVE  Cat(s, t)[1] = s[1]
<1>1. 1 \in Nat /\ 1 <= 1 /\ 1 <= Len(s)
  BY LenLine
<1> QED BY <1>1, CatAt

(* FirstIs, for a word without marks. *)
LEMMA FirstWord ==
  ASSUME NEW ws \in Line, Len(ws) >= 1, NEW text, ws[1] = Plainly(text), NEW texts
  PROVE  FirstIs(ws, texts) <=> text \in texts
<1>1. ws # <<>>
  BY NilLine
<1>2. Plainly(text).text = text /\ Plainly(text).left = "" /\ Plainly(text).right = ""
  BY DEF Plainly, Word
<1> QED BY <1>1, <1>2, Zenon DEF FirstIs, Unmarked

-----------------------------------------------------------------------------
(* The line that is converted, texts in quotes and lambdas with colons. *)

(* The line that ConvertLine passes on. *)
Ready(s) == ConvertLambda(ConvertBracketStrings(Source(s)))

(* The words of the statement are as they were; ConvertLambda has seen the *)
(* expressions only.                                                       *)
LEMMA ReadyIs ==
  ASSUME NEW s \in Statements, NoLambdas(s.words)
  PROVE  /\ Ready(s) = Cat(Bare(s.words), ConvertLambda(Speech(s)))
         /\ ConvertLambda(Speech(s)) \in Line /\ Len(ConvertLambda(Speech(s))) = Len(Speech(s))
         /\ Ready(s) \in Line /\ Len(Ready(s)) = Len(s.words) + Len(Speech(s))
<1>1. /\ Bare(s.words) \in Line /\ Speech(s) \in Line /\ Len(Bare(s.words)) = Len(s.words)
      /\ ConvertBracketStrings(Source(s)) = Cat(Bare(s.words), Speech(s))
  BY SourceIs, Zenon
<1>2. Still(Bare(s.words))
  BY NoLambdaStill, StatementParts
<1>3. Ready(s) = Cat(Bare(s.words), ConvertLambda(Speech(s)))
  BY <1>1, <1>2, LambdaAfter, Zenon DEF Ready
<1>4. ConvertLambda(Speech(s)) \in Line /\ Len(ConvertLambda(Speech(s))) = Len(Speech(s))
  BY <1>1, LambdaLine DEF OrColons
<1> QED BY <1>1, <1>3, <1>4, CatLine, Zenon

(* The words that a block begins with, of those that are no definitions. *)
Headers == {"else", "try", "finally", "except", "elif", "if", "while", "for", "with"}

(* ConvertLine, with its line named. *)
LEMMA LineIs ==
  ASSUME NEW s \in Statements, Source(s) # <<>>
  PROVE  ConvertLine(Source(s)) =
           IF FirstIs(Source(s), {"print"}) /\ Len(Source(s)) > 1 THEN ConvertPrint(Ready(s))
           ELSE IF FirstIs(Ready(s), {"def", "class"}) /\ Len(Ready(s)) > 1
             THEN ConvertDefinition(Ready(s))
           ELSE IF FirstIs(Ready(s), Headers) THEN ConvertBlockHeader(Ready(s))
           ELSE ConvertAssignmentOrExpression(Ready(s))
BY Zenon DEF ConvertLine, Ready, Headers

(* The first word decides what is done with the line. *)
LEMMA FirstOf ==
  ASSUME NEW s \in Statements, NoLambdas(s.words), Len(s.words) >= 1
  PROVE  /\ Source(s) # <<>> /\ Len(Source(s)) >= 1 /\ Len(Ready(s)) >= 1
         /\ Ready(s)[1] = Plainly(s.words[1])
         /\ \A texts : FirstIs(Source(s), texts) <=> s.words[1] \in texts
         /\ \A texts : FirstIs(Ready(s), texts) <=> s.words[1] \in texts
<1>1. /\ Bare(s.words) \in Line /\ Len(Bare(s.words)) = Len(s.words)
      /\ \A k \in 1 .. Len(s.words) : Bare(s.words)[k] = Plainly(s.words[k])
      /\ Speech(s) \in Line
      /\ Source(s) \in Line /\ Len(Source(s)) = Len(s.words) + Len(Speech(s))
  BY SourceIs, Zenon
<1>2. Len(s.words) \in Nat /\ Len(Speech(s)) \in Nat
  BY <1>1, StatementParts, LenLine
<1>3. 1 \in 1 .. Len(s.words) /\ Len(Source(s)) >= 1
  <2>1. \A i, j \in Nat : i >= 1 => 1 \in 1 .. i /\ i + j >= 1
    OBVIOUS
  <2> QED BY <1>1, <1>2, <2>1, Zenon
<1>4. /\ Ready(s) = Cat(Bare(s.words), ConvertLambda(Speech(s)))
      /\ ConvertLambda(Speech(s)) \in Line
      /\ Ready(s) \in Line /\ Len(Ready(s)) = Len(Source(s))
  BY <1>1, ReadyIs, Zenon
<1>5. Bare(s.words)[1] = Plainly(s.words[1])
  BY <1>1, <1>3, Zenon
<1>6. Ready(s)[1] = Plainly(s.words[1])
  <2>1. Bare(s.words) \in Line /\ Len(Bare(s.words)) >= 1
    BY <1>1
  <2>2. Cat(Bare(s.words), ConvertLambda(Speech(s)))[1] = Bare(s.words)[1]
    BY <1>4, <2>1, FirstCat
  <2> QED BY <1>4, <1>5, <2>2, Zenon
<1>7. Source(s)[1] = Plainly(s.words[1])
  <2> DEFINE x == FlattenSeq(ExprSources(s.exprs))
  <2>1. Source(s) = Cat(Bare(s.words), x)
    BY Zenon DEF Source, ExprSources, Cat
  <2>2. s.exprs \in Seq(Expressions)
    BY StatementParts
  <2>3. x \in Line
    BY <2>2, SpokensType, FlatLine, Zenon
  <2>4. Bare(s.words) \in Line /\ Len(Bare(s.words)) >= 1
    BY <1>1
  <2>5. Cat(Bare(s.words), x)[1] = Bare(s.words)[1]
    BY <2>3, <2>4, FirstCat
  <2> QED BY <1>5, <2>1, <2>5, Zenon
<1>8. Source(s) # <<>>
  BY <1>3, NilLine
<1>9. Len(Ready(s)) >= 1
  BY <1>3, <1>4, Zenon
<1>10. \A texts : FirstIs(Source(s), texts) <=> s.words[1] \in texts
  BY <1>1, <1>3, <1>7, FirstWord, Zenon
<1>11. \A texts : FirstIs(Ready(s), texts) <=> s.words[1] \in texts
  BY <1>4, <1>6, <1>9, FirstWord, Zenon
<1> QED BY <1>3, <1>6, <1>8, <1>9, <1>10, <1>11, Zenon
-----------------------------------------------------------------------------
(* Assignments and returns. *)

(* A name is none of the words that a line is passed on by. *)
LEMMA NameNot ==
  ASSUME NEW text, IsName(text)
  PROVE  /\ text \notin {"print"} /\ text \notin {"def", "class"} /\ text \notin Headers
         /\ text \notin {"return"} /\ text \notin {"end"} /\ text \notin Equals
         /\ text # "==" /\ text # "in" /\ text # "lambda"
BY Zenon DEF IsName, Keywords, Operators, Headers, Equals

(* What becomes of an expression on the right of an equals sign. *)
RightOf(e) == ConvertSimpleCall(ConvertLambda(Spoken(e)))

(* Statements in Python, of the kinds that change their expressions only. *)
LEMMA PythonIs ==
  ASSUME NEW s \in Statements
  PROVE  /\ s.kind \in {"assign", "return", "call", "statement", "end", "blank"} =>
              Python(s) = Cat(Bare(s.words), FlattenSeq(ExprPythons(s.exprs)))
         /\ s.kind \in {"header", "for"} =>
              Python(s) = Cat(Cat(Bare(s.words), FlattenSeq(ExprPythons(s.exprs))), Sign(":"))
<1>1. CASE s.kind \in {"assign", "return", "call", "statement", "end", "blank"}
  <2>1. Python(s) = Bare(s.words) \o FlattenSeq(ExprPythons(s.exprs))
    BY <1>1 DEF Python, ExprPythons
  <2> QED BY <1>1, <2>1 DEF Cat
<1>2. CASE s.kind \in {"header", "for"}
  <2>1. Python(s) = Bare(s.words) \o FlattenSeq(ExprPythons(s.exprs)) \o Bare(<<":">>)
    BY <1>2 DEF Python, ExprPythons
  <2>2. Bare(<<":">>) = Sign(":")
    BY BareOne, Known
  <2> QED BY <1>2, <2>1, <2>2 DEF Cat
<1>3. CASE s.kind \notin {"assign", "return", "call", "statement", "end", "blank", "header", "for"}
  BY <1>3
<1> QED BY <1>1, <1>2, <1>3, Zenon

(* A line that begins with a name or with return goes to                   *)
(* ConvertAssignmentOrExpression.                                          *)
LEMMA ByAssignment ==
  ASSUME NEW s \in Statements, NoLambdas(s.words), Len(s.words) >= 1,
         IsName(s.words[1]) \/ s.words[1] = "return"
  PROVE  ConvertLine(Source(s)) = ConvertAssignmentOrExpression(Ready(s))
<1>1. s.words[1] \notin {"print"} /\ s.words[1] \notin {"def", "class"} /\ s.words[1] \notin Headers
  BY NameNot, Zenon DEF Headers
<1>2. /\ ~FirstIs(Source(s), {"print"}) /\ ~FirstIs(Ready(s), {"def", "class"})
      /\ ~FirstIs(Ready(s), Headers) /\ Source(s) # <<>>
  BY <1>1, FirstOf, Zenon
<1> QED BY <1>2, LineIs, Zenon

(* The equals sign is the second word. *)
LEMMA MinIsHere ==
  ASSUME NEW S \in SUBSET Nat, NEW k \in S, \A j \in S : k <= j
  PROVE  Min(S) = k
<1>1. Min(S) \in S /\ \A y \in S : Min(S) <= y
  BY LeastNat
<1>2. k <= Min(S) /\ Min(S) <= k /\ k \in Nat /\ Min(S) \in Nat
  BY <1>1
<1> QED BY <1>2

(* A line of two words. *)
LEMMA TwoWords ==
  ASSUME NEW b \in Line, Len(b) = 2
  PROVE  /\ b = Cat(Single(b[1]), Single(b[2])) /\ b[1] \in Words /\ b[2] \in Words
<1>1. 1 \in Nat /\ 2 = 1 + 1 /\ 1 \in 1 .. 2 /\ 2 \in 1 .. 2
  OBVIOUS
<1>2. b[1] \in Words /\ b[2] \in Words
  BY <1>1, LenLine
<1>3. Firsts(b, 1) \in Line /\ Len(Firsts(b, 1)) = 1 /\ b = Cat(Firsts(b, 1), Single(b[1 + 1]))
  BY <1>1, LineSnoc
<1>4. Firsts(b, 1)[1] = b[1]
  BY DEF Firsts
<1>5. Single(b[1]) \in Line /\ Len(Single(b[1])) = 1 /\ Single(b[1])[1] = b[1]
  BY <1>2, SingleLine
<1>6. Firsts(b, 1) = Single(b[1])
  BY <1>3, <1>4, <1>5, LineEqual
<1> QED BY <1>1, <1>2, <1>3, <1>6, Zenon

(* An assignment is cut at its equals sign, and the rest is looked at for  *)
(* a call.                                                                 *)
LEMMA AssignmentIs ==
  ASSUME NEW b \in Line, NEW x \in Line, Len(b) = 2, b[1].text \notin Equals, b[2] = Plainly("=")
  PROVE  ConvertAssignment(Cat(b, x)) = Cat(b, ConvertSimpleCall(x))
<1> DEFINE ws == Cat(b, x)
           S == {i \in DOMAIN ws : ws[i].text \in Equals}
<1>1. Len(x) \in Nat /\ ws \in Line /\ Len(ws) = 2 + Len(x) /\ DOMAIN ws = 1 .. Len(ws)
  BY LenLine, CatLine
<1>2. ws[1] = b[1] /\ ws[2] = b[2]
  <2>1. 1 \in Nat /\ 2 \in Nat /\ 1 <= 1 /\ 1 <= 2 /\ 2 <= 2
    OBVIOUS
  <2> QED BY <2>1, CatAt
<1>3. Plainly("=").text = "="
  BY DEF Plainly, Word
<1>4. Min(S) = 2
  <2>1. 2 \in S
    <3>1. 2 \in DOMAIN ws
      BY <1>1
    <3> QED BY <1>2, <1>3, <3>1 DEF Equals
  <2>2. S \in SUBSET Nat
    BY <1>1
  <2>3. \A j \in S : 2 <= j
    <3>1. ASSUME NEW j \in S  PROVE 2 <= j
      <4>1. j \in Nat /\ j >= 1 /\ ws[j].text \in Equals
        BY <1>1
      <4>2. j # 1
        BY <1>2, <4>1
      <4> QED BY <4>1, <4>2
    <3> QED BY <3>1
  <2> HIDE DEF S
  <2> QED BY <2>1, <2>2, <2>3, MinIsHere
<1>5. ws[2].text = "="
  BY <1>2, <1>3
<1>6. b[1] \in Words /\ b = Cat(Single(b[1]), Sign("=")) /\ Single(b[1]) \in Line
      /\ Len(Single(b[1])) = 1
  BY TwoWords, SingleLine DEF Sign
<1>7. Sign("=") \in Line
  BY SignLine, Known
<1>8. ws = Cat(Single(b[1]), Cat(Sign("="), x))
  <2>1. Cat(Cat(Single(b[1]), Sign("=")), x) = Cat(Single(b[1]), Cat(Sign("="), x))
    BY <1>6, <1>7, CatAssoc
  <2>2. ws = Cat(Cat(Single(b[1]), Sign("=")), x)
    BY <1>6
  <2> QED BY <2>1, <2>2
<1>9. SubSeq(ws, 1, 1) = Single(b[1])
  <2>1. Cat(Sign("="), x) \in Line
    BY <1>7, CatLine
  <2>2. SubSeq(Cat(Single(b[1]), Cat(Sign("="), x)), 1, Len(Single(b[1]))) = Single(b[1])
    BY <1>6, <2>1, SubCat
  <2> QED BY <1>6, <1>8, <2>2, Zenon
<1>10. SubSeq(ws, 2 + 1, Len(ws)) = x
  <2>1. SubSeq(Cat(b, x), Len(b) + 1, Len(Cat(b, x))) = x
    BY SubCat
  <2> QED BY <2>1
<1>11. ConvertAssignment(ws)
         = SubSeq(ws, 1, 2 - 1) \o <<>> \o Bare(<<"=">>)
             \o ConvertSimpleCall(SubSeq(ws, 2 + 1, Len(ws)))
  <2> DEFINE k == Min(S)
             cut == CASE ws[k].text = "=" -> <<>>
                      [] ws[k].text = "+=" -> Bare(<<"+">>)
                      [] ws[k].text = "<=" -> Bare(<<"<">>)
  <2>1. ConvertAssignment(ws)
          = SubSeq(ws, 1, k - 1) \o cut \o Bare(<<"=">>)
              \o ConvertSimpleCall(SubSeq(ws, k + 1, Len(ws)))
    BY DEF ConvertAssignment
  <2>2. cut = <<>>
    BY <1>4, <1>5
  <2> HIDE DEF cut, k
  <2>3. k = 2
    BY <1>4 DEF k
  <2> QED BY <2>1, <2>2, <2>3, Zenon
<1>12. 2 - 1 = 1
  OBVIOUS
<1>13. Bare(<<"=">>) = Sign("=")
  BY BareOne, Known
<1> HIDE DEF ws, S
<1>14. ConvertAssignment(ws) = Cat(Cat(Cat(Single(b[1]), <<>>), Sign("=")), ConvertSimpleCall(x))
  BY <1>9, <1>10, <1>11, <1>12, <1>13, Zenon DEF Cat
<1>15. Cat(Single(b[1]), <<>>) = Single(b[1])
  BY <1>6, CatNil
<1> QED BY <1>6, <1>14, <1>15, Zenon DEF ws

(* A line with a symbol is left as it is. *)
LEMMA AssignOrNot ==
  ASSUME NEW b \in Line, NEW x \in Line, Len(b) = 2, b[1].text \notin Equals, b[2] = Plainly("="),
         ~FirstIs(Cat(b, x), {"return"})
  PROVE  ConvertAssignmentOrExpression(Cat(b, x)) = Cat(b, ConvertSimpleCall(x))
<1> DEFINE ws == Cat(b, x)
           texts == {ws[k].text : k \in DOMAIN ws}
<1>1. Len(x) \in Nat /\ ws \in Line /\ Len(ws) = 2 + Len(x) /\ DOMAIN ws = 1 .. Len(ws)
  BY LenLine, CatLine
<1>2. /\ \A i \in Nat : 1 <= i /\ i <= Len(b) => ws[i] = b[i]
      /\ \A i \in Nat : Len(b) < i /\ i <= Len(b) + Len(x) => ws[i] = x[i - Len(b)]
  BY CatAt
<1> HIDE DEF ws
<1>3. ws[1] = b[1] /\ ws[2] = b[2] /\ ws[2].text = "=" /\ b[2].text = "="
  <2>1. Plainly("=").text = "="
    BY DEF Plainly, Word
  <2>2. ws[1] = b[1] /\ ws[2] = b[2]
    BY <1>2
  <2> QED BY <2>1, <2>2
<1>4. texts \cap Equals # {}
  <2>1. 2 \in DOMAIN ws
    BY <1>1
  <2>2. "=" \in texts /\ "=" \in Equals
    BY <1>3, <2>1 DEF Equals
  <2> HIDE DEF texts
  <2> QED BY <2>2
<1>5. CASE "==" \notin texts
  <2>1. ConvertAssignmentOrExpression(ws) = ConvertAssignment(ws)
    <3>1. ~FirstIs(ws, {"return"})
      BY DEF ws
    <3> QED BY <1>4, <1>5, <3>1, Zenon DEF ConvertAssignmentOrExpression
  <2> QED BY <2>1, AssignmentIs, Zenon DEF ws
<1>6. CASE "==" \in texts
  <2>1. PICK i \in 1 .. Len(ws) : ws[i].text = "=="
    BY <1>1, <1>6
  <2>2. i # 1 /\ i # 2
    <3>1. "==" \in Equals /\ "==" # "="
      BY DEF Equals
    <3> QED BY <1>3, <2>1, <3>1
  <2>3. i - 2 \in 1 .. Len(x) /\ i \in Nat /\ 2 < i /\ i <= 2 + Len(x)
    BY <1>1, <2>2
  <2>4. x[i - 2].text = "=="
    BY <1>2, <2>1, <2>3
  <2>5. ~Found(x)
    <3>1. Symbolic(x[i - 2])
      BY <2>4 DEF Symbolic, Symbols, Equals
    <3> QED BY <2>3, <3>1 DEF Found
  <2>6. ConvertSimpleCall(x) = x
    BY <2>5, SimpleCallIs, Zenon
  <2>7. ~WordArg(ws[2])
    BY <1>3 DEF WordArg, Symbols, Equals
  <2>8. 2 \in DOMAIN ws
    BY <1>1
  <2>9. ConvertAssignmentOrExpression(ws) = ws
    <3>1. ~FirstIs(ws, {"return"})
      BY DEF ws
    <3> QED BY <1>6, <2>7, <2>8, <3>1, Zenon DEF ConvertAssignmentOrExpression
  <2> QED BY <2>6, <2>9 DEF ws
<1> QED BY <1>5, <1>6

(* More words that the language gives a meaning. *)
LEMMA KnownMore ==
  "in" \in Texts /\ "return" \in Texts /\ "==" \in Texts /\ "+=" \in Texts /\ "<=" \in Texts
BY DEF Texts, Keywords, Operators

(* What becomes of an assignment, and what should. *)
LEMMA AssignLine ==
  ASSUME NEW s \in Statements, IsStatement(s), s.kind = "assign"
  PROVE  /\ s.exprs[1] \in Expressions /\ IsExpression(s.exprs[1])
         /\ Bare(s.words) \in Line /\ Len(Bare(s.words)) >= 1
         /\ ConvertLine(Source(s)) = Cat(Bare(s.words), RightOf(s.exprs[1]))
         /\ Python(s) = Cat(Bare(s.words), ExprPython(s.exprs[1]))
<1>1. Len(s.exprs) = 1 /\ Len(s.words) = 2 /\ IsName(s.words[1]) /\ s.words[2] = "="
  BY KindAssign
<1> DEFINE e == s.exprs[1]
           x == ConvertLambda(Spoken(e))
<1>2. e \in Expressions /\ IsExpression(e) /\ Speech(s) = Spoken(e)
      /\ FlattenSeq(ExprPythons(s.exprs)) = ExprPython(e)
  BY <1>1, OneSpeech, OnePython, Zenon
<1>3. NoLambdas(s.words)
  <2>1. \A k \in 1 .. 2 : k = 1 \/ k = 2
    OBVIOUS
  <2>2. "=" # "lambda"
    BY Zenon
  <2> QED BY <1>1, <2>1, <2>2, NameNot, Zenon DEF NoLambdas
<1>4. /\ Bare(s.words) \in Line /\ Len(Bare(s.words)) = 2
      /\ Bare(s.words)[1] = Plainly(s.words[1]) /\ Bare(s.words)[2] = Plainly("=")
  BY <1>1, SourceIs
<1>5. x \in Line /\ Ready(s) = Cat(Bare(s.words), x)
  BY <1>2, <1>3, ReadyIs, Zenon
<1> HIDE DEF x
<1>6. Len(s.words) >= 1
  BY <1>1
<1>7. ~FirstIs(Ready(s), {"return"})
  BY <1>1, <1>3, <1>6, NameNot, FirstOf, Zenon
<1>8. Bare(s.words)[1].text \notin Equals
  <2>1. Plainly(s.words[1]).text = s.words[1]
    BY DEF Plainly, Word
  <2> QED BY <1>1, <1>4, <2>1, NameNot, Zenon
<1>9. ConvertAssignmentOrExpression(Ready(s)) = Cat(Bare(s.words), ConvertSimpleCall(x))
  BY <1>4, <1>5, <1>7, <1>8, AssignOrNot, Zenon
<1>10. ConvertLine(Source(s)) = ConvertAssignmentOrExpression(Ready(s))
  BY <1>1, <1>3, <1>6, ByAssignment, Zenon
<1>11. Python(s) = Cat(Bare(s.words), ExprPython(e))
  <2>1. Python(s) = Cat(Bare(s.words), FlattenSeq(ExprPythons(s.exprs)))
    BY PythonIs
  <2> QED BY <1>2, <2>1, Zenon
<1>12. Len(Bare(s.words)) >= 1
  BY <1>4
<1> QED BY <1>2, <1>4, <1>9, <1>10, <1>11, <1>12, Zenon DEF RightOf, x

(* What becomes of a return, and what should. *)
LEMMA ReturnLine ==
  ASSUME NEW s \in Statements, IsStatement(s), s.kind = "return"
  PROVE  /\ s.exprs[1] \in Expressions /\ IsExpression(s.exprs[1])
         /\ Bare(s.words) \in Line /\ Len(Bare(s.words)) >= 1
         /\ ConvertLine(Source(s)) = Cat(Bare(s.words), RightOf(s.exprs[1]))
         /\ Python(s) = Cat(Bare(s.words), ExprPython(s.exprs[1]))
<1>1. Len(s.exprs) = 1 /\ s.words = <<"return">>
  BY KindReturn
<1> DEFINE e == s.exprs[1]
           x == ConvertLambda(Spoken(e))
<1>2. e \in Expressions /\ IsExpression(e) /\ Speech(s) = Spoken(e)
      /\ FlattenSeq(ExprPythons(s.exprs)) = ExprPython(e)
  BY <1>1, OneSpeech, OnePython, Zenon
<1>3. Len(s.words) = 1 /\ s.words[1] = "return" /\ Len(s.words) >= 1
  BY <1>1
<1>4. NoLambdas(s.words)
  <2>1. \A k \in 1 .. 1 : k = 1
    OBVIOUS
  <2>2. "return" # "lambda"
    BY Zenon
  <2> QED BY <1>3, <2>1, <2>2, Zenon DEF NoLambdas
<1>5. Bare(s.words) = Single(Plainly("return")) /\ Plainly("return") \in Words
  <2>1. Bare(<<"return">>) = Sign("return") /\ Plainly("return") \in Words
    BY BareOne, KnownMore, PlainlyWord
  <2> QED BY <1>1, <2>1, Zenon DEF Sign
<1>6. x \in Line /\ Ready(s) = Cat(Single(Plainly("return")), x) /\ Len(x) = Len(Spoken(e))
  BY <1>2, <1>4, <1>5, ReadyIs, Zenon
<1>7. Len(Spoken(e)) \in Nat /\ Len(Spoken(e)) >= 1
  BY <1>2, ExprLines
<1> HIDE DEF x
<1>8. Len(Ready(s)) = Len(x) + 1 /\ Ready(s)[1] = Plainly("return") /\ Tail(Ready(s)) = x
  <2>1. Ready(s) = Cat(Single(Plainly("return")), x) /\ x \in Line /\ Plainly("return") \in Words
    BY <1>5, <1>6
  <2>2. /\ Len(Cat(Single(Plainly("return")), x)) = Len(x) + 1
        /\ Cat(Single(Plainly("return")), x)[1] = Plainly("return")
        /\ Tail(Cat(Single(Plainly("return")), x)) = x
    BY <2>1, RestCat, TailIs
  <2> QED BY <2>1, <2>2
<1>9. Len(Ready(s)) > 1
  BY <1>6, <1>7, <1>8
<1>10. FirstIs(Ready(s), {"return"})
  <2>1. s.words[1] \in {"return"}
    BY <1>3
  <2> QED BY <1>3, <1>4, <2>1, FirstOf, Zenon
<1>11. ConvertAssignmentOrExpression(Ready(s))
         = <<Ready(s)[1]>> \o ConvertSimpleCall(Tail(Ready(s)))
  BY <1>9, <1>10, Zenon DEF ConvertAssignmentOrExpression
<1>12. ConvertAssignmentOrExpression(Ready(s)) = Cat(Bare(s.words), ConvertSimpleCall(x))
  BY <1>5, <1>8, <1>11, Zenon DEF Cat, Single
<1>13. ConvertLine(Source(s)) = ConvertAssignmentOrExpression(Ready(s))
  BY <1>3, <1>4, ByAssignment, Zenon
<1>14. Python(s) = Cat(Bare(s.words), ExprPython(e))
  <2>1. Python(s) = Cat(Bare(s.words), FlattenSeq(ExprPythons(s.exprs)))
    BY PythonIs
  <2> QED BY <1>2, <2>1, Zenon
<1>15. Bare(s.words) \in Line /\ Len(Bare(s.words)) >= 1
  BY <1>5, SingleLine
<1> QED BY <1>2, <1>12, <1>13, <1>14, <1>15, Zenon DEF RightOf, x

(* No expression of the statement speaks of a lambda. *)
ForEach(s) == \A k \in 1 .. Len(s.exprs) : NoSpeech(s.exprs[k])

(* Translatable, with this named. *)
LEMMA TranslatableIs ==
  ASSUME NEW s \in Statements
  PROVE  Translatable(s) <=>
           /\ ForEach(s)
           /\ CASE s.kind \in {"assign", "return", "for"} -> FoundRight(s.exprs[1])
                [] s.kind = "print"     -> \A k \in DOMAIN s.exprs : FoundInPrint(s.exprs[k])
                [] s.kind = "header"    -> \A k \in DOMAIN s.exprs : s.exprs[k].form # "call"
                [] s.kind = "call"      -> \A k \in DOMAIN s.exprs[1].items : ~s.exprs[1].items[k].literal
                [] s.kind = "statement" -> /\ Len(s.words) > 1 => HasSymbol(s.words)
                                           /\ \/ \E k \in DOMAIN s.words : s.words[k] = "=="
                                              \/ \A k \in DOMAIN s.words : s.words[k] \notin {"+=", "<="}
                [] OTHER -> TRUE
<1>1. (\A k \in DOMAIN s.exprs : \A i \in DOMAIN s.exprs[k].items : ~SpeaksOfLambda(s.exprs[k].items[i]))
        <=> ForEach(s)
  <2>1. DOMAIN s.exprs = 1 .. Len(s.exprs)
        /\ \A k \in 1 .. Len(s.exprs) : DOMAIN s.exprs[k].items = 1 .. Len(s.exprs[k].items)
    BY StatementParts, ExprParts
  <2> QED BY <2>1, Zenon DEF ForEach, NoSpeech
<1> QED BY <1>1, Zenon DEF Translatable

(* Assignments and returns are right if they are translatable, and only    *)
(* then.                                                                   *)
LEMMA AssignIs ==
  ASSUME NEW s \in Statements, IsStatement(s), s.kind \in {"assign", "return"}
  PROVE  ConvertLine(Source(s)) = Python(s) <=> Translatable(s)
<1> DEFINE e == s.exprs[1]
<1>1. /\ e \in Expressions /\ IsExpression(e) /\ Bare(s.words) \in Line
      /\ ConvertLine(Source(s)) = Cat(Bare(s.words), RightOf(e))
      /\ Python(s) = Cat(Bare(s.words), ExprPython(e))
  BY AssignLine, ReturnLine
<1>2. RightOf(e) \in Line /\ ExprPython(e) \in Line
  BY <1>1, ExprLines DEF RightOf
<1>3. ConvertLine(Source(s)) = Python(s) <=> RightOf(e) = ExprPython(e)
  BY <1>1, <1>2, CatCancelLeft, Zenon
<1>4. RightOf(e) = ExprPython(e) <=> FoundRight(e) /\ NoSpeech(e)
  BY <1>1, RightIs DEF RightOf
<1>5. Len(s.exprs) = 1
  BY KindAssign, KindReturn
<1>6. Translatable(s) <=> ForEach(s) /\ FoundRight(e)
  BY TranslatableIs
<1>7. ForEach(s) <=> NoSpeech(e)
  BY <1>5 DEF ForEach
<1> QED BY <1>3, <1>4, <1>6, <1>7, Zenon
-----------------------------------------------------------------------------
(* For and the other block headers. *)

(* A for is cut at its in, and the rest is looked at for a call. *)
LEMMA ForIs ==
  ASSUME NEW b \in Line, NEW x \in Line, Len(b) = 3, b[3] = Plainly("in"), Len(x) >= 1
  PROVE  ConvertFor(Cat(b, x)) = Cat(Cat(b, ConvertSimpleCall(x)), Sign(":"))
<1> DEFINE ws == Cat(b, x)
           S == {k \in 3 .. Len(ws) - 1 : Unmarked(ws[k]) /\ ws[k].text = "in"}
<1>1. Len(x) \in Nat /\ ws \in Line /\ Len(ws) = 3 + Len(x)
  BY LenLine, CatLine
<1>2. ws[3] = b[3]
  <2>1. 3 \in Nat /\ 1 <= 3 /\ 3 <= 3
    OBVIOUS
  <2> QED BY <2>1, CatAt
<1>3. /\ SubSeq(ws, 1, 3) = b /\ SubSeq(ws, 3 + 1, Len(ws)) = x
  <2>1. SubSeq(Cat(b, x), 1, Len(b)) = b /\ SubSeq(Cat(b, x), Len(b) + 1, Len(Cat(b, x))) = x
    BY SubCat
  <2> QED BY <2>1
<1> HIDE DEF ws
<1>4. 3 \in S
  <2>1. Unmarked(ws[3]) /\ ws[3].text = "in"
    <3>1. /\ Plainly("in").text = "in" /\ Plainly("in").left = "" /\ Plainly("in").right = ""
      BY Zenon DEF Plainly, Word
    <3>2. ws[3] = Plainly("in")
      BY <1>2
    <3> QED BY <3>1, <3>2, Zenon DEF Unmarked
  <2>2. 3 \in 3 .. Len(ws) - 1
    BY <1>1
  <2> QED BY <2>1, <2>2
<1>5. Min(S) = 3
  <2>1. S \in SUBSET Nat /\ \A j \in S : 3 <= j
    BY <1>1
  <2> HIDE DEF S
  <2> QED BY <1>4, <2>1, MinIsHere
<1>6. ConvertFor(ws)
        = (SubSeq(ws, 1, 3) \o ConvertSimpleCall(SubSeq(ws, 3 + 1, Len(ws)))) \o Bare(<<":">>)
  <2> DEFINE k == Min(S)
  <2>1. ConvertFor(ws)
          = (IF S = {} THEN ws
              ELSE SubSeq(ws, 1, k) \o ConvertSimpleCall(SubSeq(ws, k + 1, Len(ws))))
                           \o Bare(<<":">>)
    BY DEF ConvertFor
  <2>2. S # {}
    BY <1>4
  <2> HIDE DEF S
  <2> QED BY <1>5, <2>1, <2>2, Zenon
<1>7. Bare(<<":">>) = Sign(":")
  BY BareOne, Known
<1> QED BY <1>3, <1>6, <1>7, Zenon DEF Cat, ws

(* What becomes of a for, and what should. *)
LEMMA ForLine ==
  ASSUME NEW s \in Statements, IsStatement(s), s.kind = "for"
  PROVE  /\ s.exprs[1] \in Expressions /\ IsExpression(s.exprs[1]) /\ Len(s.exprs) = 1
         /\ Bare(s.words) \in Line
         /\ ConvertLine(Source(s)) = Cat(Cat(Bare(s.words), RightOf(s.exprs[1])), Sign(":"))
         /\ Python(s) = Cat(Cat(Bare(s.words), ExprPython(s.exprs[1])), Sign(":"))
<1>1. Len(s.exprs) = 1 /\ Len(s.words) = 3 /\ IsName(s.words[2])
      /\ s.words[1] = "for" /\ s.words[3] = "in"
  BY KindFor
<1> DEFINE e == s.exprs[1]
           x == ConvertLambda(Spoken(e))
<1>2. e \in Expressions /\ IsExpression(e) /\ Speech(s) = Spoken(e)
      /\ FlattenSeq(ExprPythons(s.exprs)) = ExprPython(e)
  BY <1>1, OneSpeech, OnePython, Zenon
<1>3. NoLambdas(s.words)
  <2>1. \A k \in 1 .. 3 : k = 1 \/ k = 2 \/ k = 3
    OBVIOUS
  <2>2. "for" # "lambda" /\ "in" # "lambda"
    BY Zenon
  <2> QED BY <1>1, <2>1, <2>2, NameNot, Zenon DEF NoLambdas
<1>4. Bare(s.words) \in Line /\ Len(Bare(s.words)) = 3 /\ Bare(s.words)[3] = Plainly("in")
  BY <1>1, SourceIs
<1>5. x \in Line /\ Ready(s) = Cat(Bare(s.words), x) /\ Len(x) = Len(Spoken(e))
  BY <1>2, <1>3, ReadyIs, Zenon
<1>6. Len(Spoken(e)) \in Nat /\ Len(Spoken(e)) >= 1
  BY <1>2, ExprLines
<1> HIDE DEF x
<1>7. Len(s.words) >= 1
  BY <1>1
<1>8. /\ Source(s) # <<>> /\ ~FirstIs(Source(s), {"print"}) /\ ~FirstIs(Ready(s), {"def", "class"})
      /\ FirstIs(Ready(s), Headers) /\ FirstIs(Ready(s), {"for"})
      /\ ~FirstIs(Ready(s), {"except", "elif", "with", "if", "while"})
  <2>1. /\ s.words[1] \notin {"print"} /\ s.words[1] \notin {"def", "class"}
        /\ s.words[1] \in Headers
        /\ s.words[1] \notin {"except", "elif", "with", "if", "while"} /\ s.words[1] \in {"for"}
    BY <1>1, Zenon DEF Headers
  <2> QED BY <1>3, <1>7, <2>1, FirstOf, Zenon
<1>9. Len(Ready(s)) # 1
  <2>1. Len(Ready(s)) = 3 + Len(x)
    BY <1>4, <1>5, CatLine
  <2> QED BY <1>5, <1>6, <2>1
<1>10. ConvertLine(Source(s)) = ConvertFor(Ready(s))
  BY <1>8, <1>9, LineIs, Zenon DEF ConvertBlockHeader
<1>11. ConvertFor(Cat(Bare(s.words), x)) = Cat(Cat(Bare(s.words), ConvertSimpleCall(x)), Sign(":"))
  BY <1>4, <1>5, <1>6, ForIs
<1>12. Python(s) = Cat(Cat(Bare(s.words), ExprPython(e)), Sign(":"))
  <2>1. Python(s) = Cat(Cat(Bare(s.words), FlattenSeq(ExprPythons(s.exprs))), Sign(":"))
    BY PythonIs
  <2> QED BY <1>2, <2>1, Zenon
<1> QED BY <1>1, <1>2, <1>4, <1>5, <1>10, <1>11, <1>12, Zenon DEF RightOf, x

(* A for is right if it is translatable, and only then. *)
LEMMA ForTranslates ==
  ASSUME NEW s \in Statements, IsStatement(s), s.kind = "for"
  PROVE  ConvertLine(Source(s)) = Python(s) <=> Translatable(s)
<1> DEFINE e == s.exprs[1]
<1>1. /\ e \in Expressions /\ IsExpression(e) /\ Bare(s.words) \in Line /\ Len(s.exprs) = 1
      /\ ConvertLine(Source(s)) = Cat(Cat(Bare(s.words), RightOf(e)), Sign(":"))
      /\ Python(s) = Cat(Cat(Bare(s.words), ExprPython(e)), Sign(":"))
  BY ForLine
<1>2. RightOf(e) \in Line /\ ExprPython(e) \in Line /\ Sign(":") \in Line
  BY <1>1, ExprLines, SignLine, Known DEF RightOf
<1>3. Cat(Bare(s.words), RightOf(e)) \in Line /\ Cat(Bare(s.words), ExprPython(e)) \in Line
  BY <1>1, <1>2, CatLine
<1>4. ConvertLine(Source(s)) = Python(s) <=> RightOf(e) = ExprPython(e)
  BY <1>1, <1>2, <1>3, CatCancelLeft, CatCancelRight, Zenon
<1>5. RightOf(e) = ExprPython(e) <=> FoundRight(e) /\ NoSpeech(e)
  BY <1>1, RightIs DEF RightOf
<1>6. Translatable(s) <=> ForEach(s) /\ FoundRight(e)
  BY TranslatableIs
<1>7. ForEach(s) <=> NoSpeech(e)
  BY <1>1 DEF ForEach
<1> QED BY <1>4, <1>5, <1>6, <1>7, Zenon

(* A header gets its colon, and its expression stays as it is. *)
LEMMA HeaderLine ==
  ASSUME NEW s \in Statements, IsStatement(s), s.kind = "header"
  PROVE  /\ Bare(s.words) \in Line /\ ConvertLambda(Speech(s)) \in Line
         /\ ConvertLine(Source(s)) = Cat(Cat(Bare(s.words), ConvertLambda(Speech(s))), Sign(":"))
<1>0. \/ /\ s.exprs = <<>>
         /\ s.words \in {<<w>> : w \in {"else", "try", "except", "finally"}}
      \/ /\ Len(s.exprs) = 1
         /\ s.words \in {<<w>> : w \in {"if", "elif", "while", "with", "except"}}
  BY KindHeader
<1>1. Len(s.words) = 1 /\ Len(s.words) >= 1
      /\ \/ s.exprs = <<>> /\ s.words[1] \in {"else", "try", "except", "finally"}
         \/ Len(s.exprs) = 1 /\ s.words[1] \in {"if", "elif", "while", "with", "except"}
  <2>1. ASSUME s.exprs = <<>>, s.words \in {<<w>> : w \in {"else", "try", "except", "finally"}}
        PROVE  Len(s.words) = 1 /\ s.words[1] \in {"else", "try", "except", "finally"}
    <3>1. PICK w \in {"else", "try", "except", "finally"} : s.words = <<w>>
      BY <2>1, Zenon
    <3> QED BY <3>1
  <2>2. ASSUME s.words \in {<<w>> : w \in {"if", "elif", "while", "with", "except"}}
        PROVE  Len(s.words) = 1 /\ s.words[1] \in {"if", "elif", "while", "with", "except"}
    <3>1. PICK w \in {"if", "elif", "while", "with", "except"} : s.words = <<w>>
      BY <2>2, Zenon
    <3> QED BY <3>1
  <2>3. Len(s.words) = 1 => Len(s.words) >= 1
    OBVIOUS
  <2> QED BY <1>0, <2>1, <2>2, <2>3, Zenon
<1>2. NoLambdas(s.words)
  <2>1. \A k \in 1 .. 1 : k = 1
    OBVIOUS
  <2>2. s.words[1] # "lambda"
    BY <1>1, Zenon
  <2> QED BY <1>1, <2>1, <2>2, Zenon DEF NoLambdas
<1>3. /\ Bare(s.words) \in Line /\ Speech(s) \in Line
      /\ Ready(s) = Cat(Bare(s.words), ConvertLambda(Speech(s)))
      /\ ConvertLambda(Speech(s)) \in Line
      /\ Ready(s) \in Line /\ Len(Ready(s)) = Len(s.words) + Len(Speech(s))
  BY <1>2, SourceIs, ReadyIs, Zenon
<1>4. /\ Source(s) # <<>> /\ ~FirstIs(Source(s), {"print"}) /\ ~FirstIs(Ready(s), {"def", "class"})
      /\ FirstIs(Ready(s), Headers) /\ ~FirstIs(Ready(s), {"for"})
  <2>1. /\ s.words[1] \notin {"print"} /\ s.words[1] \notin {"def", "class"}
        /\ s.words[1] \in Headers
        /\ s.words[1] \notin {"for"}
    BY <1>1, Zenon DEF Headers
  <2> QED BY <1>1, <1>2, <2>1, FirstOf, Zenon
<1>5. ConvertLine(Source(s)) = ConvertBlockHeader(Ready(s))
  BY <1>4, LineIs, Zenon
<1>6. ConvertBlockHeader(Ready(s)) = Ready(s) \o Bare(<<":">>)
  <2>1. CASE s.exprs = <<>> /\ s.words[1] \in {"else", "try", "except", "finally"}
    <3>1. Len(Ready(s)) = 1
      <4>1. Speech(s) = <<>>
        BY <2>1, NoSpeechAtAll
      <4> QED BY <1>1, <1>3, <4>1, NilLine
    <3>2. FirstIs(Ready(s), {"else", "finally", "except", "try"})
      <4>1. s.words[1] \in {"else", "finally", "except", "try"}
        BY <2>1
      <4> QED BY <1>1, <1>2, <4>1, FirstOf, Zenon
    <3> QED BY <3>1, <3>2, Zenon DEF ConvertBlockHeader
  <2>2. CASE Len(s.exprs) = 1 /\ s.words[1] \in {"if", "elif", "while", "with", "except"}
    <3>1. Len(Ready(s)) # 1
      <4>1. s.exprs[1] \in Expressions /\ IsExpression(s.exprs[1]) /\ Speech(s) = Spoken(s.exprs[1])
        BY <2>2, OneSpeech, OnePython, Zenon
      <4>2. Len(Speech(s)) \in Nat /\ Len(Speech(s)) >= 1
        BY <4>1, ExprLines
      <4>3. Len(Ready(s)) = 1 + Len(Speech(s))
        BY <1>1, <1>3
      <4> QED BY <4>2, <4>3
    <3>2. FirstIs(Ready(s), {"except", "elif", "with", "if", "while"})
      <4>1. s.words[1] \in {"except", "elif", "with", "if", "while"}
        BY <2>2
      <4> QED BY <1>1, <1>2, <4>1, FirstOf, Zenon
    <3> QED BY <3>1, <3>2, Zenon DEF ConvertBlockHeader
  <2> QED BY <1>1, <2>1, <2>2, Zenon
<1>7. Bare(<<":">>) = Sign(":")
  BY BareOne, Known
<1> QED BY <1>3, <1>5, <1>6, <1>7, Zenon DEF Cat

(* A header is right if it is translatable, and only then. *)
LEMMA HeaderTranslates ==
  ASSUME NEW s \in Statements, IsStatement(s), s.kind = "header"
  PROVE  ConvertLine(Source(s)) = Python(s) <=> Translatable(s)
<1> DEFINE p == FlattenSeq(ExprPythons(s.exprs))
<1>1. /\ Bare(s.words) \in Line /\ ConvertLambda(Speech(s)) \in Line
      /\ ConvertLine(Source(s)) = Cat(Cat(Bare(s.words), ConvertLambda(Speech(s))), Sign(":"))
  BY HeaderLine
<1>2. Python(s) = Cat(Cat(Bare(s.words), p), Sign(":"))
  BY PythonIs
<1>3. Sign(":") \in Line
  BY SignLine, Known
<1>4. Translatable(s) <=> ForEach(s) /\ \A k \in DOMAIN s.exprs : s.exprs[k].form # "call"
  BY TranslatableIs
<1>5. DOMAIN s.exprs = 1 .. Len(s.exprs)
  BY StatementParts
<1>6. CASE s.exprs = <<>>
  <2>1. Speech(s) = <<>> /\ p = <<>>
    BY <1>6, NoSpeechAtAll
  <2>2. ConvertLambda(<<>>) = <<>>
    BY NilLine, StillNil, LambdaStill
  <2>3. ConvertLine(Source(s)) = Python(s)
    BY <1>1, <1>2, <2>1, <2>2
  <2>4. Len(s.exprs) = 0 /\ 1 .. 0 = {}
    BY <1>6
  <2>5. Translatable(s)
    BY <1>4, <1>5, <2>4 DEF ForEach
  <2> QED BY <2>3, <2>5
<1>7. CASE s.exprs # <<>>
  <2>1. Len(s.exprs) = 1 /\ s.exprs[1].form # "lambda"
    BY <1>7, KindHeader
  <2> DEFINE e == s.exprs[1]
  <2>2. e \in Expressions /\ IsExpression(e) /\ Speech(s) = Spoken(e) /\ p = ExprPython(e)
    BY <2>1, OneSpeech, OnePython, Zenon
  <2>3. ExprPython(e) \in Line
    BY <2>2, ExprLines
  <2>4. /\ Cat(Bare(s.words), ConvertLambda(Speech(s))) \in Line
        /\ Cat(Bare(s.words), ExprPython(e)) \in Line
    BY <1>1, <2>3, CatLine
  <2>5. ConvertLine(Source(s)) = Python(s) <=> ConvertLambda(Spoken(e)) = ExprPython(e)
    BY <1>1, <1>2, <1>3, <2>2, <2>3, <2>4, CatCancelLeft, CatCancelRight, ZenonT(40)
  <2>6. ConvertLambda(Spoken(e)) = ExprPython(e) <=> e.form # "call" /\ NoSpeech(e)
    BY <2>1, <2>2, HeaderIs, Zenon
  <2>7. ForEach(s) <=> NoSpeech(e)
    BY <2>1 DEF ForEach
  <2>8. (\A k \in DOMAIN s.exprs : s.exprs[k].form # "call") <=> e.form # "call"
    BY <1>5, <2>1
  <2> QED BY <1>4, <2>5, <2>6, <2>7, <2>8, Zenon
<1> QED BY <1>6, <1>7
-----------------------------------------------------------------------------
(* Definitions and blank lines. *)

(* A statement without expressions is its words. *)
LEMMA WordsOnly ==
  ASSUME NEW s \in Statements, s.exprs = <<>>, NoLambdas(s.words)
  PROVE  Ready(s) = Bare(s.words) /\ Len(Source(s)) = Len(s.words)
<1>1. Speech(s) = <<>>
  BY NoSpeechAtAll
<1>2. ConvertLambda(<<>>) = <<>>
  BY NilLine, StillNil, LambdaStill
<1>3. Bare(s.words) \in Line /\ Len(Source(s)) = Len(s.words) + Len(Speech(s))
  BY SourceIs
<1>4. Ready(s) = Cat(Bare(s.words), ConvertLambda(Speech(s)))
  BY ReadyIs
<1>5. Ready(s) = Bare(s.words)
  BY <1>1, <1>2, <1>3, <1>4, CatNil
<1>6. Len(s.words) + Len(Speech(s)) = Len(s.words)
  BY <1>1, NilLine, StatementParts
<1> QED BY <1>3, <1>5, <1>6, Zenon

(* Bare words: two. *)
LEMMA BareTwo ==
  ASSUME NEW a \in Texts, NEW b \in Texts
  PROVE  Bare(<<a, b>>) = Cat(Sign(a), Sign(b))
<1>1. <<a, b>> \in Seq(Texts) /\ Len(<<a, b>>) = 2 /\ <<a, b>>[1] = a /\ <<a, b>>[2] = b
  OBVIOUS
<1>2. 1 \in 1 .. 2 /\ 2 \in 1 .. 2
  OBVIOUS
<1>3. Bare(<<a, b>>) \in Line /\ Len(Bare(<<a, b>>)) = 2
  BY <1>1, BareLine, Zenon
<1>4. Bare(<<a, b>>)[1] = Plainly(a) /\ Bare(<<a, b>>)[2] = Plainly(b)
  <2>1. \A k \in 1 .. Len(<<a, b>>) : Bare(<<a, b>>)[k] = Plainly(<<a, b>>[k])
    BY <1>1, BareLine, Zenon
  <2> QED BY <1>1, <1>2, <2>1, Zenon
<1>5. Bare(<<a, b>>) = Cat(Single(Bare(<<a, b>>)[1]), Single(Bare(<<a, b>>)[2]))
  BY <1>3, TwoWords
<1> QED BY <1>4, <1>5, Zenon DEF Sign

(* A part of a sequence of texts. *)
LEMMA SubTexts ==
  ASSUME NEW s \in Seq(Texts), NEW m \in Nat, NEW n \in Nat, 1 <= m, m <= n + 1, n <= Len(s)
  PROVE  /\ SubSeq(s, m, n) \in Seq(Texts) /\ Len(SubSeq(s, m, n)) = (n - m) + 1
         /\ \A i \in 1 .. (n - m) + 1 : SubSeq(s, m, n)[i] = s[(m + i) - 1]
<1>0. /\ Len(s) \in Nat /\ m \in 1 .. Len(s) + 1 /\ n \in m - 1 .. Len(s)
      /\ (n - m) + 1 = n - m + 1 /\ \A i \in m .. n : s[i] \in Texts
  BY LenProperties, ElementOfSeq
<1>1. SubSeq(s, m, n) \in Seq(Texts) /\ Len(SubSeq(s, m, n)) = n - m + 1
  BY <1>0, SubSeqProperties
<1>2. \A i \in 1 .. n - m + 1 : SubSeq(s, m, n)[i] = s[m + i - 1]
  BY <1>0, SubSeqProperties
<1> QED BY <1>0, <1>1, <1>2

(* The parameters or bases of a definition. *)
DefineNames(s) == [k \in 1 .. Len(s.words) - 2 |-> Single(Plainly(s.words[k + 2]))]

(* What becomes of a definition, and what should. *)
LEMMA DefineLine ==
  ASSUME NEW s \in Statements, IsStatement(s), s.kind = "define"
  PROVE  /\ Called(Bare(SubSeq(s.words, 1, 2)), Comma(DefineNames(s))) \in Line
         /\ ConvertLine(Source(s))
              = Cat(Called(Bare(SubSeq(s.words, 1, 2)), Comma(DefineNames(s))), Sign(":"))
         /\ Python(s) = Cat(Called(Bare(SubSeq(s.words, 1, 2)), Comma(DefineNames(s))), Sign(":"))
         /\ DefineNames(s) \in Pieces(Len(s.words) - 2) /\ Len(s.words) - 2 \in Nat
<1>1. /\ s.exprs = <<>> /\ Len(s.words) > 1 /\ s.words[1] \in {"def", "class"}
      /\ \A k \in 2 .. Len(s.words) : IsName(s.words[k])
  BY KindDefine, Zenon
<1>2. /\ s.words \in Seq(Texts) /\ Len(s.words) \in Nat /\ Len(s.words) - 2 \in Nat
      /\ 2 \in 2 .. Len(s.words) /\ 2 \in 1 .. Len(s.words) /\ Len(s.words) >= 1
      /\ \A k \in 1 .. Len(s.words) : k = 1 \/ k \in 2 .. Len(s.words)
      /\ \A k \in 1 .. Len(s.words) - 2 : k + 2 \in 1 .. Len(s.words)
  <2>1. s.words \in Seq(Texts) /\ Len(s.words) \in Nat
    BY StatementParts
  <2>2. \A n \in Nat : n > 1 =>
          /\ n - 2 \in Nat /\ 2 \in 2 .. n /\ 2 \in 1 .. n /\ n >= 1
          /\ \A k \in 1 .. n : k = 1 \/ k \in 2 .. n
          /\ \A k \in 1 .. n - 2 : k + 2 \in 1 .. n
    OBVIOUS
  <2> QED BY <1>1, <2>1, <2>2, Zenon
<1>3. NoLambdas(s.words)
  <2>1. s.words[1] # "lambda"
    BY <1>1, Zenon
  <2> QED BY <1>1, <1>2, <2>1, NameNot, Zenon DEF NoLambdas
<1> DEFINE b == Bare(s.words)
           n == Len(s.words) - 2
           f == DefineNames(s)
           a == Bare(SubSeq(s.words, 1, 2))
<1>4. Ready(s) = b /\ Len(Source(s)) = Len(s.words)
  BY <1>1, <1>3, WordsOnly
<1>5. b \in Line /\ Len(b) = Len(s.words) /\ \A k \in 1 .. Len(s.words) : b[k] = Plainly(s.words[k])
  BY SourceIs
<1>6. /\ Source(s) # <<>> /\ ~FirstIs(Source(s), {"print"}) /\ FirstIs(b, {"def", "class"})
  <2>1. s.words[1] \notin {"print"}
    BY <1>1, Zenon
  <2> QED BY <1>1, <1>2, <1>3, <1>4, <2>1, FirstOf, Zenon
<1>7. ConvertLine(Source(s)) = ConvertDefinition(b)
  BY <1>1, <1>4, <1>5, <1>6, LineIs, Zenon
<1>8. Identifier(b[2])
  BY <1>1, <1>2, <1>5, NameWord, Zenon
<1>9. f \in Pieces(n)
  <2>1. \A k \in 1 .. n : Single(Plainly(s.words[k + 2])) \in Line
    BY <1>2, StatementParts, PlainlyWord, SingleLine
  <2> QED BY <2>1 DEF DefineNames, Pieces
<1>10. a = SubSeq(b, 1, 2) /\ a \in Line
  <2>1. SubSeq(s.words, 1, 2) \in Seq(Texts) /\ Len(SubSeq(s.words, 1, 2)) = 2
        /\ \A i \in 1 .. 2 : SubSeq(s.words, 1, 2)[i] = s.words[i]
    <3>1. 1 \in Nat /\ 2 \in Nat /\ 1 <= 1 /\ 1 <= 2 + 1 /\ 2 <= Len(s.words)
      BY <1>1, <1>2
    <3>2. /\ SubSeq(s.words, 1, 2) \in Seq(Texts)
          /\ Len(SubSeq(s.words, 1, 2)) = (2 - 1) + 1
          /\ \A i \in 1 .. (2 - 1) + 1 : SubSeq(s.words, 1, 2)[i] = s.words[(1 + i) - 1]
      BY <1>2, <3>1, SubTexts, Zenon
    <3>3. (2 - 1) + 1 = 2 /\ \A i \in 1 .. 2 : (1 + i) - 1 = i
      OBVIOUS
    <3> QED BY <3>2, <3>3
  <2>2. a \in Line /\ Len(a) = 2 /\ \A i \in 1 .. 2 : a[i] = Plainly(s.words[i])
    <3> DEFINE w == SubSeq(s.words, 1, 2)
    <3>1. w \in Seq(Texts) /\ Len(w) = 2 /\ \A i \in 1 .. 2 : w[i] = s.words[i]
      BY <2>1
    <3> HIDE DEF w
    <3>2. Bare(w) \in Line /\ Len(Bare(w)) = 2 /\ \A i \in 1 .. 2 : Bare(w)[i] = Plainly(w[i])
      BY <3>1, BareLine
    <3> QED BY <3>1, <3>2 DEF w
  <2>3. /\ 1 \in Nat /\ 2 \in Nat /\ 1 <= 1 /\ 1 <= 2 + 1 /\ 2 <= Len(b) /\ (2 - 1) + 1 = 2
        /\ \A i \in 1 .. 2 : (1 + i) - 1 = i /\ i \in 1 .. Len(s.words)
    BY <1>1, <1>2, <1>5
  <2>4. /\ SubSeq(b, 1, 2) \in Line /\ Len(SubSeq(b, 1, 2)) = (2 - 1) + 1
        /\ \A i \in 1 .. (2 - 1) + 1 : SubSeq(b, 1, 2)[i] = b[(1 + i) - 1]
    BY <1>5, <2>3, SubLine, Zenon
  <2>5. \A i \in 1 .. 2 : SubSeq(b, 1, 2)[i] = Plainly(s.words[i])
    BY <1>5, <2>3, <2>4
  <2>6. a = SubSeq(b, 1, 2)
    <3>1. Len(SubSeq(b, 1, 2)) = 2 /\ SubSeq(b, 1, 2) \in Line
      BY <2>3, <2>4
    <3> DEFINE c == SubSeq(b, 1, 2)
    <3> HIDE DEF a, c
    <3>2. c \in Line /\ Len(c) = 2 /\ \A i \in 1 .. 2 : c[i] = a[i]
      BY <2>2, <2>5, <3>1 DEF c
    <3>3. a = c
      BY <2>2, <3>2, LineEqual
    <3> QED BY <3>3 DEF c
  <2> QED BY <2>2, <2>6
<1>11. [k \in 1 .. Len(b) - 2 |-> <<b[k + 2]>>] = f
  <2>1. \A k \in 1 .. Len(s.words) - 2 : b[k + 2] = Plainly(s.words[k + 2])
    BY <1>2, <1>5
  <2> QED BY <1>5, <2>1 DEF DefineNames, Single
<1>12. Comma(f) \in Line /\ Sign("(") \in Line /\ Sign(")") \in Line /\ Sign(":") \in Line
  BY <1>2, <1>9, CommaLine, SignLine, Known
<1>13. ConvertDefinition(b) = Cat(Cat(Cat(a, Sign("(")), Comma(f)), Cat(Sign(")"), Sign(":")))
  <2>1. ConvertDefinition(b) = SubSeq(b, 1, 2) \o Bare(<<"(">>)
           \o Comma([k \in 1 .. Len(b) - 2 |-> <<b[k + 2]>>]) \o Bare(<<")", ":">>)
    BY <1>8, Zenon DEF ConvertDefinition
  <2>2. Bare(<<"(">>) = Sign("(") /\ Bare(<<")", ":">>) = Cat(Sign(")"), Sign(":"))
    BY BareOne, BareTwo, Known
  <2> HIDE DEF a, f, b
  <2> QED BY <1>10, <1>11, <2>1, <2>2, Zenon DEF Cat
<1>14. Cat(Cat(a, Sign("(")), Comma(f)) \in Line
  <2>1. Cat(a, Sign("(")) \in Line
    BY <1>10, <1>12, CatLine
  <2> QED BY <1>12, <2>1, CatLine
<1>15. ConvertDefinition(b) = Cat(Called(a, Comma(f)), Sign(":"))
  <2>1. Cat(Cat(Cat(Cat(a, Sign("(")), Comma(f)), Sign(")")), Sign(":"))
          = Cat(Cat(Cat(a, Sign("(")), Comma(f)), Cat(Sign(")"), Sign(":")))
    BY <1>12, <1>14, CatAssoc, Zenon
  <2> QED BY <1>13, <2>1, Zenon DEF Called
<1>16. Python(s) = Cat(Called(a, Comma(f)), Sign(":"))
  <2> DEFINE names == SubSeq(s.words, 3, Len(s.words))
             items == [k \in DOMAIN names |-> Plain(<<names[k]>>)]
  <2>1. Python(s) = Bare(SubSeq(s.words, 1, 2)) \o NamesPython(names) \o Bare(<<":">>)
    BY DEF Python
  <2>2. NamesPython(names) = Cat(Cat(Sign("("), Comma(Pythons(items))), Sign(")"))
    <3>1. Bare(<<"(">>) = Sign("(") /\ Bare(<<")">>) = Sign(")")
      BY BareOne, Known
    <3> QED BY <3>1, Zenon DEF NamesPython, ArgumentsPython, Pythons, Cat
  <2>3. Pythons(items) = f
    <3>1. 3 \in Nat /\ 1 <= 3 /\ 3 <= Len(s.words) + 1 /\ Len(s.words) <= Len(s.words)
      BY <1>1, <1>2
    <3>2. /\ names \in Seq(Texts)
          /\ Len(names) = (Len(s.words) - 3) + 1
          /\ \A i \in 1 .. (Len(s.words) - 3) + 1 : names[i] = s.words[(3 + i) - 1]
      BY <1>2, <3>1, SubTexts, Zenon
    <3>3. Len(s.words) \in Nat
      BY <1>2
    <3>4. \A l \in Nat : (l - 3) + 1 = l - 2 /\ \A i \in 1 .. l - 2 : (3 + i) - 1 = i + 2
      OBVIOUS
    <3> HIDE DEF names
    <3>5. Len(names) = n /\ \A i \in 1 .. n : names[i] = s.words[i + 2]
      BY <3>2, <3>3, <3>4
    <3>6. DOMAIN names = 1 .. n
      <4>1. DOMAIN names = 1 .. Len(names)
        BY <3>2, LenProperties
      <4> QED BY <3>5, <4>1
    <3>7. ASSUME NEW k \in 1 .. n  PROVE ItemPython(Plain(<<names[k]>>))
            = Single(Plainly(s.words[k + 2]))
      <4>1. names[k] = s.words[k + 2] /\ s.words[k + 2] \in Texts
        BY <1>2, <3>5, StatementParts
      <4>2. ItemPython(Plain(<<names[k]>>)) = Bare(<<names[k]>>)
        BY DEF ItemPython, Plain
      <4> QED BY <4>1, <4>2, BareOne DEF Sign
    <3>8. DOMAIN items = 1 .. n /\ \A k \in 1 .. n : items[k] = Plain(<<names[k]>>)
      BY <3>6
    <3> HIDE DEF items
    <3>9. \A k \in 1 .. n : ItemPython(items[k]) = Single(Plainly(s.words[k + 2]))
      BY <3>7, <3>8
    <3> QED BY <3>8, <3>9 DEF Pythons, DefineNames
  <2>4. Bare(<<":">>) = Sign(":")
    BY BareOne, Known
  <2> HIDE DEF names, items
  <2>5. Python(s) = Cat(Cat(a, Cat(Cat(Sign("("), Comma(f)), Sign(")"))), Sign(":"))
    BY <2>1, <2>2, <2>3, <2>4, Zenon DEF Cat
  <2>6. Cat(a, Cat(Cat(Sign("("), Comma(f)), Sign(")"))) = Called(a, Comma(f))
    BY <1>10, <1>12, CalledIs
  <2> QED BY <2>5, <2>6, Zenon
<1>17. Called(a, Comma(f)) \in Line
  BY <1>10, <1>12, CalledLine
<1> QED BY <1>2, <1>7, <1>9, <1>15, <1>16, <1>17, Zenon

(* A blank line stays blank. *)
LEMMA BlankLine ==
  ASSUME NEW s \in Statements, IsStatement(s), s.kind = "blank"
  PROVE  ConvertLine(Source(s)) = <<>> /\ Python(s) = <<>> /\ Translatable(s)
<1>1. s.exprs = <<>> /\ s.words = <<>>
  BY KindEnd
<1>2. NoLambdas(s.words)
  <2>1. 1 .. Len(<<>>) = {}
    BY NilLine
  <2> QED BY <1>1, <2>1, Zenon DEF NoLambdas
<1>3. Bare(<<>>) = <<>>
  <2>1. <<>> \in Seq(Texts)
    OBVIOUS
  <2>2. Bare(<<>>) \in Line /\ Len(Bare(<<>>)) = 0
    BY <2>1, BareLine, NilLine
  <2> QED BY <2>2, NilLine, LineEqual
<1>4. Source(s) = <<>>
  <2>1. Len(Source(s)) = 0 /\ Source(s) \in Line
    BY <1>1, <1>2, WordsOnly, SourceIs, NilLine
  <2> QED BY <2>1, NilLine, LineEqual
<1>5. ConvertLine(Source(s)) = <<>>
  BY <1>4, Zenon DEF ConvertLine
<1>6. Python(s) = <<>>
  <2>1. Python(s) = Cat(Bare(s.words), FlattenSeq(ExprPythons(s.exprs)))
    BY PythonIs
  <2>2. FlattenSeq(ExprPythons(s.exprs)) = <<>>
    BY <1>1, NoSpeechAtAll
  <2> QED BY <1>1, <1>3, <2>1, <2>2, CatNil, NilLine
<1>7. ForEach(s)
  <2>1. Len(s.exprs) = 0 /\ 1 .. 0 = {}
    BY <1>1
  <2> QED BY <2>1 DEF ForEach
<1>8. Translatable(s)
  BY <1>7, TranslatableIs
<1> QED BY <1>5, <1>6, <1>8

(* A definition is always right. *)
LEMMA DefineTranslates ==
  ASSUME NEW s \in Statements, IsStatement(s), s.kind = "define"
  PROVE  ConvertLine(Source(s)) = Python(s) /\ Translatable(s)
<1>1. ConvertLine(Source(s)) = Python(s)
  BY DefineLine, Zenon
<1>2. s.exprs = <<>>
  BY KindDefine
<1>3. ForEach(s)
  <2>1. Len(s.exprs) = 0 /\ 1 .. 0 = {}
    BY <1>2
  <2> QED BY <2>1 DEF ForEach
<1>4. Translatable(s)
  BY <1>3, TranslatableIs
<1> QED BY <1>1, <1>4
=============================================================================
