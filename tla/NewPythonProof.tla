--------------------------- MODULE NewPythonProof ---------------------------
(***************************************************************************)
(* What the run checks of the NewPython front end, for every program of    *)
(* the language: which lines become the Python that they stand for         *)
(* (Translation), the blocks that the output has (OutputInv) and which     *)
(* files are refused (EndRule).                                            *)
(*                                                                         *)
(* In this order: the end rule; assignments that are cut and plain         *)
(* statements; print, whose expressions are converted all at once; then the*)
(* file.                                                                   *)
(***************************************************************************)
EXTENDS NewPythonLineProof

-----------------------------------------------------------------------------
(* The life of a file, and the end rule. *)

(* The lines of a file. *)
Sourced(p) == [k \in DOMAIN p |-> Source(p[k].statement)]

(* What the parser has done is what it does to the whole file. *)
Settled ==
  /\ program \in Programs
  /\ outcome \in {"given", "refused", "converted"}
  /\ outcome # "converted" => converted = <<>>
  /\ outcome = "refused" => Refused(Sourced(program))
  /\ outcome = "converted" => ~Refused(Sourced(program)) /\ converted = ParseNewpython

(* This is so in every state. *)
THEOREM IsSettled == Spec => []Settled
<1>1. Init => Settled
  BY DEF Init, Settled
<1>2. Settled /\ [Next]_vars => Settled'
  <2> SUFFICES ASSUME Settled, [Next]_vars  PROVE Settled'
    OBVIOUS
  <2>1. CASE Refuse
    BY <2>1, Zenon DEF Settled, Refuse, Sourced
  <2>2. CASE Convert
    <3>1. program' = program /\ outcome' = "converted" /\ converted' = ParseNewpython
          /\ ~Refused(Sourced(program))
      BY <2>2, Zenon DEF Convert, Sourced
    <3>2. ParseNewpython' = ParseNewpython
      BY <3>1 DEF ParseNewpython, Kept
    <3> QED BY <3>1, <3>2 DEF Settled
  <2>3. CASE UNCHANGED vars
    <3>1. program' = program /\ outcome' = outcome /\ converted' = converted
      BY <2>3 DEF vars
    <3>2. ParseNewpython' = ParseNewpython
      BY <3>1 DEF ParseNewpython, Kept
    <3> QED BY <3>1, <3>2 DEF Settled
  <2> QED BY <2>1, <2>2, <2>3 DEF Next
<1> QED BY <1>1, <1>2, PTL DEF Spec

(* The types of a file and its lines. *)
LEMMA ProgramIs ==
  ASSUME NEW p \in Programs
  PROVE  /\ Len(p) \in Nat /\ DOMAIN p = 1 .. Len(p)
         /\ DOMAIN Sourced(p) = 1 .. Len(p) /\ Len(Sourced(p)) = Len(p)
         /\ \A k \in 1 .. Len(p) : /\ p[k] \in [indent : Nat, statement : Statements]
                                   /\ p[k].indent \in Nat /\ p[k].statement \in Statements
                                   /\ IsStatement(p[k].statement)
                                   /\ Sourced(p)[k] = Source(p[k].statement)
<1> DEFINE L == [indent : Nat, statement : Statements]
<1>1. p \in Seq(L)
  BY ParserAssumption
<1>2. Len(p) \in Nat /\ DOMAIN p = 1 .. Len(p)
      /\ \A k \in 1 .. Len(p) : p[k] \in L
  <2> HIDE DEF L
  <2> QED BY <1>1
<1>3. \A k \in 1 .. Len(p) : IsStatement(p[k].statement)
  BY <1>2, ParserAssumption
<1>4. DOMAIN Sourced(p) = 1 .. Len(p)
      /\ \A k \in 1 .. Len(p) : Sourced(p)[k] = Source(p[k].statement)
  BY <1>2 DEF Sourced
<1>5. Len(Sourced(p)) = Len(p)
  BY <1>2 DEF Sourced
<1>6. \A k \in 1 .. Len(p) : p[k].indent \in Nat /\ p[k].statement \in Statements
  BY <1>2
<1> QED BY <1>2, <1>3, <1>4, <1>5, <1>6

(* Refused, with the lines numbered. *)
LEMMA EndsIs ==
  ASSUME NEW p \in Programs
  PROVE  LET n == Len(p)
             ends == {k \in 1 .. n : IsEnd(Source(p[k].statement))} IN
         Refused(Sourced(p)) <=> \/ n = 0 \/ n > MaxLines \/ Cardinality(ends) > 1
                                 \/ ends # {} /\ n \notin ends
<1> DEFINE n == Len(p)
           ends == {k \in 1 .. n : IsEnd(Source(p[k].statement))}
           found == {k \in DOMAIN Sourced(p) : IsEnd(Sourced(p)[k])}
<1>1. n \in Nat /\ DOMAIN Sourced(p) = 1 .. n /\ Len(Sourced(p)) = n
      /\ \A k \in 1 .. n : Sourced(p)[k] = Source(p[k].statement)
  BY ProgramIs
<1>2. found = ends
  BY <1>1
<1>3. Sourced(p) = <<>> <=> n = 0
  <2>1. Sourced(p) = <<>> => Len(Sourced(p)) = 0
    BY NilLine, Zenon
  <2>2. ASSUME n = 0  PROVE Sourced(p) = <<>>
    <3>1. DOMAIN Sourced(p) = {}
      BY <1>1, <2>2
    <3> QED BY <3>1, <2>2, <1>1 DEF Sourced
  <2> QED BY <1>1, <2>1, <2>2
<1>4. ends # {} => n \in 1 .. n
  BY <1>1
<1>5. Last(Sourced(p)) = Sourced(p)[n]
  BY <1>1, Zenon DEF Last
<1>6. ends # {} => (~IsEnd(Last(Sourced(p))) <=> n \notin ends)
  BY <1>1, <1>4, <1>5
<1>7. Refused(Sourced(p)) <=> \/ Sourced(p) = <<>> \/ Len(Sourced(p)) > MaxLines
                              \/ Cardinality(found) > 1
                              \/ found # {} /\ ~IsEnd(Last(Sourced(p)))
  BY Zenon DEF Refused
<1> HIDE DEF ends, found, n
<1>8. Refused(Sourced(p)) <=> \/ n = 0 \/ n > MaxLines \/ Cardinality(ends) > 1
                              \/ ends # {} /\ n \notin ends
  BY <1>1, <1>2, <1>3, <1>6, <1>7, Zenon
<1> QED BY <1>8 DEF ends, n

(* EndRule for every file: one that is converted keeps the rule or has no  *)
(* end, and one that keeps the rule is converted, but for empty lines      *)
(* after the end and too many lines.                                       *)
THEOREM EndsAreRight == Spec => []EndRule
<1>1. Settled => EndRule
  <2> SUFFICES ASSUME Settled  PROVE EndRule
    OBVIOUS
  <2> DEFINE n == Len(program)
             At(k) == Source(program[k].statement)
             ends == {k \in 1 .. n : IsEnd(At(k))}
             keeps == \E k \in 1 .. n : ends = {k} /\ \A j \in k + 1 .. n : At(j) = <<>>
  <2>1. n \in Nat /\ DOMAIN program = 1 .. n
    BY ProgramIs DEF Settled
  <2>2. Refused(Sourced(program)) <=> \/ n = 0 \/ n > MaxLines \/ Cardinality(ends) > 1
                                      \/ ends # {} /\ n \notin ends
    BY EndsIs DEF Settled
  <2>3. outcome = "converted" => keeps \/ ends = {}
    <3> SUFFICES ASSUME outcome = "converted", ends # {}  PROVE keeps
      OBVIOUS
    <3>1. ~(Cardinality(ends) > 1) /\ n \in ends
      BY <2>2 DEF Settled
    <3>2. IsFiniteSet(ends)
      <4>1. IsFiniteSet(1 .. n)
        BY <2>1, FS_Interval
      <4> QED BY <4>1, FS_Subset
    <3>3. \A k \in ends : k = n
      <4> SUFFICES ASSUME NEW k \in ends, k # n  PROVE FALSE
        OBVIOUS
      <4> HIDE DEF ends
      <4>1. {k, n} \in SUBSET ends
        BY <3>1
      <4>2. Cardinality({k, n}) <= Cardinality(ends)
        BY <3>2, <4>1, FS_Subset
      <4>3. IsFiniteSet({n}) /\ Cardinality({n}) = 1
        BY FS_Singleton
      <4>4. Cardinality({n} \cup {k}) = Cardinality({n}) + 1
        BY <4>3, FS_AddElement
      <4>5. {n} \cup {k} = {k, n}
        OBVIOUS
      <4>6. Cardinality(ends) \in Nat
        BY <3>2, FS_CardinalityType
      <4>7. Cardinality({k, n}) = 2
        <5>1. k \notin {n}
          OBVIOUS
        <5>2. Cardinality({n} \cup {k}) = 1 + 1
          BY <4>3, <4>4, <5>1
        <5>3. 1 + 1 = 2
          OBVIOUS
        <5> QED BY <4>5, <5>2, <5>3, Zenon
      <4>8. \A a \in Nat : 2 <= a => a > 1
        OBVIOUS
      <4> QED BY <3>1, <4>2, <4>6, <4>7, <4>8, Zenon
    <3>4. ends = {n} /\ n \in 1 .. n
      BY <3>1, <3>3
    <3>5. \A j \in n + 1 .. n : At(j) = <<>>
      BY <2>1
    <3> QED BY <3>4, <3>5
  <2>4. outcome = "refused" /\ keeps => At(n) = <<>> \/ n > MaxLines
    <3> SUFFICES ASSUME outcome = "refused", keeps, ~(n > MaxLines)  PROVE At(n) = <<>>
      OBVIOUS
    <3>1. PICK k \in 1 .. n : ends = {k} /\ \A j \in k + 1 .. n : At(j) = <<>>
      BY Zenon
    <3>2. Cardinality(ends) = 1 /\ n # 0
      <4>1. Cardinality({k}) = 1
        BY FS_Singleton
      <4>2. n # 0
        <5> HIDE DEF n
        <5> QED BY <2>1
      <4> QED BY <3>1, <4>1, <4>2, Zenon
    <3> HIDE DEF ends, At
    <3>3. n \notin ends
      <4>1. Refused(Sourced(program))
        BY DEF Settled
      <4> QED BY <2>2, <3>2, <4>1
    <3>4. n \in k + 1 .. n
      <4>1. k # n
        BY <3>1, <3>3
      <4> HIDE DEF n
      <4> QED BY <2>1, <4>1
    <3> QED BY <3>1, <3>4, Zenon
  <2> HIDE DEF n
  <2>5. EndRule <=> /\ outcome = "converted" => keeps \/ ends = {}
                    /\ outcome = "refused" /\ keeps => At(n) = <<>> \/ n > MaxLines
    BY <2>1, Zenon DEF EndRule, n
  <2> QED BY <2>3, <2>4, <2>5, Zenon
<1> QED BY <1>1, IsSettled, PTL
-----------------------------------------------------------------------------
(* The cut at the first equals sign. *)

(* The first word with an equals sign. *)
FirstEquals(ws, k) ==
  /\ k \in 1 .. Len(ws) /\ ws[k].text \in Equals
  /\ \A j \in 1 .. Len(ws) : ws[j].text \in Equals => k <= j

(* What ConvertAssignment leaves of it. *)
Cut(text) == CASE text = "=" -> <<>> [] text = "+=" -> Sign("+") [] text = "<=" -> Sign("<")

(* The words before it. *)
Ahead(ws, k) == SubSeq(ws, 1, k - 1)

(* The words after it. *)
Behind(ws, k)  == SubSeq(ws, k + 1, Len(ws))

(* One character, or nothing. *)
LEMMA CutLine ==
  ASSUME NEW text, text \in Equals, text # "=="
  PROVE  /\ Cut(text) \in Line /\ Len(Cut(text)) \in {0, 1}
         /\ Len(Cut(text)) = 0 => text = "="
         /\ Len(Cut(text)) = 1 => Cut(text)[1] \in {Plainly("+"), Plainly("<")}
<1>1. CASE text = "="
  BY <1>1, NilLine DEF Cut
<1>2. CASE text = "+="
  <2>1. Cut(text) = Sign("+")
    BY <1>2 DEF Cut
  <2>2. Sign("+") \in Line /\ Len(Sign("+")) = 1 /\ Sign("+")[1] = Plainly("+")
    BY SignLine, Known
  <2> QED BY <2>1, <2>2
<1>3. CASE text = "<="
  <2>1. Cut(text) = Sign("<")
    BY <1>3 DEF Cut
  <2>2. Sign("<") \in Line /\ Len(Sign("<")) = 1 /\ Sign("<")[1] = Plainly("<")
    BY SignLine, Known
  <2> QED BY <2>1, <2>2
<1> QED BY <1>1, <1>2, <1>3 DEF Equals

(* The words on the two sides. *)
LEMMA SidesLine ==
  ASSUME NEW ws \in Line, NEW k \in 1 .. Len(ws)
  PROVE  /\ k \in Nat /\ Len(ws) \in Nat
         /\ Ahead(ws, k) \in Line /\ Len(Ahead(ws, k)) = k - 1
         /\ \A i \in 1 .. k - 1 : Ahead(ws, k)[i] = ws[i]
         /\ Behind(ws, k) \in Line /\ Len(Behind(ws, k)) = Len(ws) - k
         /\ \A i \in 1 .. Len(ws) - k : Behind(ws, k)[i] = ws[k + i]
<1>1. Len(ws) \in Nat /\ k \in Nat
  BY LenLine
<1>2. /\ 1 \in Nat /\ 1 <= 1 /\ k - 1 \in Nat /\ 1 <= (k - 1) + 1 /\ k - 1 <= Len(ws)
      /\ ((k - 1) - 1) + 1 = k - 1
  BY <1>1
<1>3. /\ k + 1 \in Nat /\ 1 <= k + 1 /\ k + 1 <= Len(ws) + 1 /\ Len(ws) <= Len(ws)
      /\ (Len(ws) - (k + 1)) + 1 = Len(ws) - k
  BY <1>1
<1>4. /\ Ahead(ws, k) \in Line /\ Len(Ahead(ws, k)) = ((k - 1) - 1) + 1
      /\ \A i \in 1 .. ((k - 1) - 1) + 1 : Ahead(ws, k)[i] = ws[(1 + i) - 1]
  BY <1>2, SubLine, Zenon DEF Ahead
<1>5. /\ Behind(ws, k) \in Line /\ Len(Behind(ws, k)) = (Len(ws) - (k + 1)) + 1
      /\ \A i \in 1 .. (Len(ws) - (k + 1)) + 1 : Behind(ws, k)[i] = ws[((k + 1) + i) - 1]
  BY <1>1, <1>3, SubLine, Zenon DEF Behind
<1>6. ASSUME NEW i \in 1 .. k - 1  PROVE Ahead(ws, k)[i] = ws[i]
  <2>1. (1 + i) - 1 = i /\ i \in 1 .. ((k - 1) - 1) + 1
    BY <1>1
  <2> QED BY <1>4, <2>1
<1>7. ASSUME NEW i \in 1 .. Len(ws) - k  PROVE Behind(ws, k)[i] = ws[k + i]
  <2>1. ((k + 1) + i) - 1 = k + i /\ i \in 1 .. (Len(ws) - (k + 1)) + 1
    BY <1>1
  <2> QED BY <1>5, <2>1
<1> QED BY <1>1, <1>2, <1>3, <1>4, <1>5, <1>6, <1>7, Zenon

(* There is no equals sign or there is a first one. *)
LEMMA EqualsCases ==
  ASSUME NEW ws \in Line
  PROVE  \/ \A j \in 1 .. Len(ws) : ws[j].text \notin Equals
         \/ \E k : FirstEquals(ws, k)
<1> DEFINE S == {i \in 1 .. Len(ws) : ws[i].text \in Equals}
<1>1. S \in SUBSET Nat
  BY LenLine
<1>2. CASE S # {}
  <2>1. Min(S) \in S /\ \A y \in S : Min(S) <= y
    <3> HIDE DEF S
    <3> QED BY <1>1, <1>2, LeastNat
  <2>2. FirstEquals(ws, Min(S))
    BY <2>1 DEF FirstEquals
  <2> QED BY <2>2
<1> QED BY <1>2

(* ConvertAssignment, with its parts named. *)
LEMMA CutIs ==
  ASSUME NEW ws \in Line, NEW k, FirstEquals(ws, k), ws[k].text # "=="
  PROVE  ConvertAssignment(ws)
           = Cat(Cat(Cat(Ahead(ws, k), Cut(ws[k].text)), Sign("=")),
             ConvertSimpleCall(Behind(ws, k)))
<1> DEFINE S == {i \in DOMAIN ws : ws[i].text \in Equals}
<1>1. DOMAIN ws = 1 .. Len(ws) /\ Len(ws) \in Nat
  BY LenLine
<1>2. Min(S) = k
  <2>1. S \in SUBSET Nat /\ k \in S /\ \A j \in S : k <= j
    BY <1>1 DEF FirstEquals
  <2> HIDE DEF S
  <2> QED BY <2>1, MinIsHere
<1>3. Bare(<<"=">>) = Sign("=") /\ Bare(<<"+">>) = Sign("+") /\ Bare(<<"<">>) = Sign("<")
  BY BareOne, Known
<1> DEFINE m == Min(S)
           cut == CASE ws[m].text = "=" -> <<>>
                    [] ws[m].text = "+=" -> Bare(<<"+">>)
                    [] ws[m].text = "<=" -> Bare(<<"<">>)
<1>4. ConvertAssignment(ws)
        = SubSeq(ws, 1, m - 1) \o cut \o Bare(<<"=">>)
            \o ConvertSimpleCall(SubSeq(ws, m + 1, Len(ws)))
  BY DEF ConvertAssignment
<1>5. cut = Cut(ws[k].text)
  BY <1>2, <1>3, Zenon DEF Cut
<1> HIDE DEF cut
<1>6. m = k
  BY <1>2
<1> HIDE DEF m
<1> QED BY <1>3, <1>4, <1>5, <1>6, Zenon DEF Cat, Ahead, Behind

(* The line is longer if the equals sign was part of another symbol, and   *)
(* its words up to there are the same.                                     *)
LEMMA CutLen ==
  ASSUME NEW ws \in Line, NEW k, FirstEquals(ws, k), ws[k].text # "=="
  PROVE  /\ ConvertAssignment(ws) \in Line
         /\ ws[k].text # "=" => Len(ConvertAssignment(ws)) > Len(ws)
         /\ \A i \in 1 .. k - 1 : ConvertAssignment(ws)[i] = ws[i]
         /\ ConvertAssignment(ws)[k] \in {Plainly("="), Plainly("+"), Plainly("<")}
<1> DEFINE a == Ahead(ws, k)
           c == Cut(ws[k].text)
           r == ConvertSimpleCall(Behind(ws, k))
           ac == Cat(a, c)
           ace == Cat(ac, Sign("="))
<1>1. k \in 1 .. Len(ws) /\ ws[k].text \in Equals
  BY DEF FirstEquals
<1>2. /\ k \in Nat /\ Len(ws) \in Nat /\ a \in Line /\ Len(a) = k - 1
      /\ \A i \in 1 .. k - 1 : a[i] = ws[i]
      /\ Behind(ws, k) \in Line /\ Len(Behind(ws, k)) = Len(ws) - k
  BY <1>1, SidesLine
<1>3. /\ c \in Line /\ Len(c) \in {0, 1}
      /\ Len(c) = 0 => ws[k].text = "="
      /\ Len(c) = 1 => c[1] \in {Plainly("+"), Plainly("<")}
  BY <1>1, CutLine
<1>4. r \in Line /\ Len(r) >= Len(Behind(ws, k)) /\ Len(r) \in Nat
  <2>1. r \in Line /\ Len(r) \in Nat /\ Len(Behind(ws, k)) \in Nat
    BY <1>2, SimpleCallLen, LenLine
  <2>2. CASE Found(Behind(ws, k))
    <3>1. Len(r) = Len(Behind(ws, k)) + Len(Behind(ws, k))
      BY <1>2, <2>2, SimpleCallLen
    <3> QED BY <2>1, <3>1
  <2>3. CASE ~Found(Behind(ws, k))
    <3>1. r = Behind(ws, k)
      BY <1>2, <2>3, SimpleCallIs, Zenon
    <3> QED BY <2>1, <3>1
  <2> QED BY <2>2, <2>3
<1> HIDE DEF a, c, r
<1>5. ac \in Line /\ Len(ac) = Len(a) + Len(c)
  BY <1>2, <1>3, CatLine
<1>6. Sign("=") \in Line /\ Len(Sign("=")) = 1 /\ Sign("=")[1] = Plainly("=")
  BY SignLine, Known
<1>7. ace \in Line /\ Len(ace) = Len(ac) + 1
  <2> HIDE DEF ac
  <2> QED BY <1>5, <1>6, CatLine
<1>8. ConvertAssignment(ws) = Cat(ace, r)
  BY CutIs, Zenon DEF a, c, r
<1>9. Cat(ace, r) \in Line /\ Len(Cat(ace, r)) = Len(ace) + Len(r)
  <2> HIDE DEF ace
  <2> QED BY <1>4, <1>7, CatLine
<1>10. ws[k].text # "=" => Len(Cat(ace, r)) > Len(ws)
  <2> SUFFICES ASSUME ws[k].text # "="  PROVE Len(Cat(ace, r)) > Len(ws)
    OBVIOUS
  <2>1. Len(c) = 1
    BY <1>3
  <2>2. /\ Len(Cat(ace, r)) = Len(ace) + Len(r) /\ Len(ace) = Len(ac) + 1
        /\ Len(ac) = Len(a) + Len(c)
        /\ Len(a) = k - 1 /\ Len(r) >= Len(ws) - k /\ Len(r) \in Nat /\ k \in Nat /\ Len(ws) \in Nat
    BY <1>2, <1>4, <1>5, <1>7, <1>9, Zenon
  <2> HIDE DEF ace, ac
  <2> QED BY <2>1, <2>2
<1>11. ASSUME NEW i \in 1 .. k - 1  PROVE Cat(ace, r)[i] = ws[i]
  <2>1. i \in Nat /\ 1 <= i /\ i <= Len(a) /\ i <= Len(ac) /\ i <= Len(ace)
    <3>1. Len(a) = k - 1 /\ Len(ac) = Len(a) + Len(c) /\ Len(ace) = Len(ac) + 1 /\ k \in Nat
          /\ Len(c) \in {0, 1}
      BY <1>2, <1>3, <1>5, <1>7, Zenon
    <3> HIDE DEF ace, ac
    <3> QED BY <3>1
  <2>2. ac[i] = a[i]
    BY <1>2, <1>3, <2>1, CatAt
  <2>3. ace[i] = ac[i]
    <3> HIDE DEF ac
    <3> QED BY <1>5, <1>6, <2>1, CatAt
  <2>4. Cat(ace, r)[i] = ace[i]
    <3> HIDE DEF ace
    <3> QED BY <1>4, <1>7, <2>1, CatAt
  <2> QED BY <1>2, <2>2, <2>3, <2>4
<1>12. Cat(ace, r)[k] \in {Plainly("="), Plainly("+"), Plainly("<")}
  <2>1. Len(a) = k - 1 /\ Len(ac) = Len(a) + Len(c) /\ Len(ace) = Len(ac) + 1 /\ k \in Nat /\ k >= 1
        /\ Len(c) \in {0, 1}
    <3>1. k >= 1
      BY <1>1, <1>2
    <3> QED BY <1>2, <1>3, <1>5, <1>7, <3>1, Zenon
  <2>2. 1 <= k /\ k <= Len(ace)
    <3> HIDE DEF ace, ac
    <3> QED BY <2>1
  <2>3. Cat(ace, r)[k] = ace[k]
    <3> HIDE DEF ace
    <3> QED BY <1>4, <1>7, <2>1, <2>2, CatAt
  <2>4. CASE Len(c) = 0
    <3>1. Len(ac) < k /\ k <= Len(ac) + 1 /\ k - Len(ac) = 1
      <4> HIDE DEF ac, ace
      <4> QED BY <2>1, <2>4
    <3>2. ace[k] = Sign("=")[k - Len(ac)]
      <4> HIDE DEF ac
      <4> QED BY <1>5, <1>6, <2>1, <3>1, CatAt
    <3> QED BY <1>6, <2>3, <3>1, <3>2
  <2>5. CASE Len(c) = 1
    <3>1. k <= Len(ac) /\ Len(a) < k /\ k <= Len(a) + Len(c) /\ k - Len(a) = 1
      <4> HIDE DEF ac, ace
      <4> QED BY <2>1, <2>5
    <3>2. ace[k] = ac[k]
      <4> HIDE DEF ac
      <4> QED BY <1>5, <1>6, <2>1, <2>2, <3>1, CatAt
    <3>3. ac[k] = c[k - Len(a)]
      BY <1>2, <1>3, <3>1, CatAt
    <3> QED BY <1>3, <2>3, <2>5, <3>1, <3>2, <3>3
  <2> QED BY <1>3, <2>4, <2>5
<1> HIDE DEF ace, ac
<1> QED BY <1>8, <1>9, <1>10, <1>11, <1>12
-----------------------------------------------------------------------------
(* Plain statements. *)

(* There is an equals sign. *)
HasEquals(ws) == \E k \in 1 .. Len(ws) : ws[k].text \in Equals

(* There is a comparison. *)
HasTest(ws)   == \E k \in 1 .. Len(ws) : ws[k].text = "=="

(* ConvertAssignmentOrExpression, with its conditions named. *)
LEMMA AssignmentCases ==
  ASSUME NEW ws \in Line, ~(FirstIs(ws, {"return"}) /\ Len(ws) > 1)
  PROVE  ConvertAssignmentOrExpression(ws) =
           IF HasEquals(ws) /\ ~HasTest(ws) THEN ConvertAssignment(ws)
           ELSE IF Identifier(ws[1])
               /\ \A k \in 1 .. Len(ws) : WordArg(ws[k]) THEN ConvertSimpleCall(ws)
           ELSE ws
<1> DEFINE texts == {ws[k].text : k \in DOMAIN ws}
<1>1. DOMAIN ws = 1 .. Len(ws)
  BY LenLine
<1>2. (texts \cap Equals # {}) <=> HasEquals(ws)
  BY <1>1 DEF HasEquals
<1>3. ("==" \notin texts) <=> ~HasTest(ws)
  BY <1>1 DEF HasTest
<1>4. ConvertAssignmentOrExpression(ws) =
           IF texts \cap Equals # {} /\ "==" \notin texts THEN ConvertAssignment(ws)
           ELSE IF Identifier(ws[1])
               /\ \A k \in DOMAIN ws : WordArg(ws[k]) THEN ConvertSimpleCall(ws)
           ELSE ws
  BY Zenon DEF ConvertAssignmentOrExpression
<1> HIDE DEF texts
<1> QED BY <1>1, <1>2, <1>3, <1>4, Zenon

(* What becomes of a plain statement: its words are passed on as they are. *)
LEMMA StatementLine ==
  ASSUME NEW s \in Statements, IsStatement(s), s.kind = "statement"
  PROVE  LET ws == Bare(s.words) IN
         /\ s.exprs = <<>> /\ Len(s.words) \in Nat /\ Len(s.words) >= 1
         /\ ws \in Line /\ Len(ws) = Len(s.words)
         /\ \A k \in 1 .. Len(s.words) : /\ ws[k] = Plainly(s.words[k]) /\ ws[k].text = s.words[k]
                                         /\ ws[k].left = "" /\ ws[k].right = ""
                                         /\ s.words[k] # "="
         /\ Identifier(ws[1])
         /\ ConvertLine(Source(s)) = ConvertAssignmentOrExpression(ws)
         /\ ~(FirstIs(ws, {"return"}) /\ Len(ws) > 1)
         /\ Python(s) = ws
<1> DEFINE ws == Bare(s.words)
<1>1. /\ s.exprs = <<>> /\ s.words # <<>>
      /\ (IsName(s.words[1]) \/ s.words = <<"return">>)
      /\ \A k \in DOMAIN s.words : s.words[k] \notin {"lambda", "=", ":"}
  BY KindStatement
<1>2. /\ s.words \in Seq(Texts) /\ Len(s.words) \in Nat /\ DOMAIN s.words = 1 .. Len(s.words)
  BY StatementParts
<1>3. Len(s.words) >= 1 /\ 1 \in 1 .. Len(s.words)
  <2>1. Len(s.words) # 0
    BY <1>1, <1>2, EmptySeq
  <2>2. \A n \in Nat : n # 0 => n >= 1 /\ 1 \in 1 .. n
    OBVIOUS
  <2> QED BY <1>2, <2>1, <2>2, Zenon
<1>4. NoLambdas(s.words)
  BY <1>1, <1>2, Zenon DEF NoLambdas
<1>5. ws \in Line /\ Len(ws) = Len(s.words)
        /\ \A k \in 1 .. Len(s.words) : ws[k] = Plainly(s.words[k])
  BY SourceIs
<1>6. ASSUME NEW k \in 1 .. Len(s.words)
      PROVE  ws[k].text = s.words[k] /\ ws[k].left = "" /\ ws[k].right = "" /\ s.words[k] # "="
  <2>1. s.words[k] \in Texts /\ s.words[k] # "="
    <3>1. s.words[k] \notin {"lambda", "=", ":"}
      BY <1>1, <1>2, Zenon
    <3>2. s.words[k] \in Texts
      BY StatementParts
    <3> QED BY <3>1, <3>2, Zenon
  <2>2. /\ Plainly(s.words[k]).text = s.words[k]
        /\ Plainly(s.words[k]).left = "" /\ Plainly(s.words[k]).right = ""
    BY <2>1, PlainlyWord
  <2> QED BY <1>5, <2>1, <2>2, Zenon
<1>7. IsName(s.words[1]) \/ (s.words[1] = "return" /\ Len(s.words) = 1)
  <2>1. s.words = <<"return">> => s.words[1] = "return" /\ Len(s.words) = 1
    OBVIOUS
  <2> QED BY <1>1, <2>1, Zenon
<1>8. Identifier(ws[1])
  <2>1. ws[1] = Plainly(s.words[1])
    BY <1>3, <1>5, Zenon
  <2>2. CASE IsName(s.words[1])
    BY <2>1, <2>2, NameWord, Zenon
  <2>3. CASE s.words[1] = "return"
    <3>1. ws[1].text = "return" /\ ws[1].left = "" /\ ws[1].right = ""
      BY <1>3, <1>6, <2>3, Zenon
    <3> QED BY <3>1 DEF Identifier, WordArg, Unmarked, Symbols, Equals, Numbers
  <2> QED BY <1>7, <2>2, <2>3, Zenon
<1>9. Ready(s) = ws
  BY <1>1, <1>4, WordsOnly
<1>10. ConvertLine(Source(s)) = ConvertAssignmentOrExpression(ws)
  <2>1. IsName(s.words[1]) \/ s.words[1] = "return"
    BY <1>7, Zenon
  <2> QED BY <1>3, <1>4, <1>9, <2>1, ByAssignment, Zenon
<1>11. ~(FirstIs(ws, {"return"}) /\ Len(ws) > 1)
  <2>1. CASE IsName(s.words[1])
    <3>1. ~FirstIs(Ready(s), {"return"})
      BY <1>3, <1>4, <2>1, FirstOf, NameNot, Zenon
    <3> QED BY <1>9, <3>1, Zenon
  <2>2. CASE Len(s.words) = 1
    <3>1. ~(Len(ws) > 1)
      BY <1>5, <2>2
    <3> QED BY <3>1, Zenon
  <2> QED BY <1>7, <2>1, <2>2, Zenon
<1>12. Python(s) = ws
  <2>1. Python(s) = Cat(Bare(s.words), FlattenSeq(ExprPythons(s.exprs)))
    BY PythonIs
  <2>2. FlattenSeq(ExprPythons(s.exprs)) = <<>>
    BY <1>1, NoSpeechAtAll
  <2> QED BY <1>5, <2>1, <2>2, CatNil, Zenon
<1> QED BY <1>1, <1>2, <1>3, <1>5, <1>6, <1>8, <1>10, <1>11, <1>12, Zenon

(* A plain statement is right if it is translatable, and only then. *)
LEMMA StatementTranslates ==
  ASSUME NEW s \in Statements, IsStatement(s), s.kind = "statement"
  PROVE  ConvertLine(Source(s)) = Python(s) <=> Translatable(s)
<1> DEFINE ws == Bare(s.words)
           n == Len(s.words)
           c == ConvertLine(Source(s))
<1>1. /\ s.exprs = <<>> /\ n \in Nat /\ n >= 1 /\ ws \in Line /\ Len(ws) = n
      /\ \A k \in 1 .. n : /\ ws[k] = Plainly(s.words[k]) /\ ws[k].text = s.words[k]
                           /\ ws[k].left = "" /\ ws[k].right = "" /\ s.words[k] # "="
      /\ Identifier(ws[1])
      /\ c = ConvertAssignmentOrExpression(ws)
      /\ ~(FirstIs(ws, {"return"}) /\ Len(ws) > 1)
      /\ Python(s) = ws
  BY StatementLine, Zenon
<1>2. DOMAIN s.words = 1 .. n
  BY StatementParts
<1>3. ForEach(s)
  <2>1. s.exprs = <<>>
    BY <1>1
  <2>2. Len(s.exprs) = 0 /\ 1 .. 0 = {}
    BY <2>1
  <2> QED BY <2>2 DEF ForEach
<1>4. Translatable(s) <=> /\ n > 1 => HasSymbol(s.words)
                          /\ \/ \E k \in 1 .. n : s.words[k] = "=="
                             \/ \A k \in 1 .. n : s.words[k] \notin {"+=", "<="}
  <2>1. Translatable(s) <=> /\ ForEach(s)
                            /\ n > 1 => HasSymbol(s.words)
                            /\ \/ \E k \in DOMAIN s.words : s.words[k] = "=="
                               \/ \A k \in DOMAIN s.words : s.words[k] \notin {"+=", "<="}
    BY TranslatableIs
  <2> QED BY <1>2, <1>3, <2>1, Zenon
<1>5. HasSymbol(s.words) <=> \E k \in 1 .. n : s.words[k] \in Symbols
  BY <1>2, Zenon DEF HasSymbol
<1> HIDE DEF ws, n, c
<1>6. HasTest(ws) <=> \E k \in 1 .. n : s.words[k] = "=="
  BY <1>1, Zenon DEF HasTest
<1>7. CASE HasEquals(ws) /\ ~HasTest(ws)
  <2>1. c = ConvertAssignment(ws)
    BY <1>1, <1>7, AssignmentCases, Zenon
  <2>2. PICK k : FirstEquals(ws, k)
    BY <1>1, <1>7, EqualsCases, Zenon DEF HasEquals
  <2>3. k \in 1 .. n /\ ws[k].text \in Equals /\ ws[k].text = s.words[k]
        /\ ws[k].text # "==" /\ ws[k].text # "="
    <3>1. k \in 1 .. Len(ws) /\ ws[k].text \in Equals
      BY <2>2 DEF FirstEquals
    <3>2. ws[k].text # "=="
      BY <1>7, <3>1, Zenon DEF HasTest
    <3>3. k \in 1 .. n /\ ws[k].text = s.words[k] /\ s.words[k] # "="
      BY <1>1, <3>1
    <3> QED BY <3>1, <3>2, <3>3
  <2>4. Len(c) > Len(ws)
    BY <1>1, <2>1, <2>2, <2>3, CutLen
  <2>5. c # ws
    <3>1. Len(ws) \in Nat
      BY <1>1
    <3> QED BY <2>4, <3>1
  <2>6. s.words[k] \in {"+=", "<="}
    BY <2>3 DEF Equals
  <2>7. ~Translatable(s)
    BY <1>4, <1>6, <1>7, <2>3, <2>6, Zenon
  <2> QED BY <1>1, <2>5, <2>7 DEF c
<1>8. CASE ~(HasEquals(ws) /\ ~HasTest(ws))
  <2>1. (\E k \in 1 .. n : s.words[k] = "==") \/ (\A k \in 1 .. n : s.words[k] \notin {"+=", "<="})
    <3>1. CASE HasTest(ws)
      BY <1>6, <3>1, Zenon
    <3>2. CASE ~HasEquals(ws)
      <4>1. \A k \in 1 .. n : s.words[k] \notin Equals
        BY <1>1, <3>2 DEF HasEquals
      <4> QED BY <4>1 DEF Equals
    <3> QED BY <1>8, <3>1, <3>2, Zenon
  <2>2. Translatable(s) <=> (n > 1 => HasSymbol(s.words))
    BY <1>4, <2>1, Zenon
  <2>3. \A k \in 1 .. n : /\ WordArg(ws[k]) <=> s.words[k] \notin Symbols
                          /\ Symbolic(ws[k]) <=> s.words[k] \in Symbols
    BY <1>1 DEF WordArg, Unmarked, Symbolic
  <2>4. CASE HasSymbol(s.words)
    <3>1. PICK k \in 1 .. n : s.words[k] \in Symbols
      BY <1>5, <2>4, Zenon
    <3>2. ~WordArg(ws[k])
      BY <2>3, <3>1
    <3>3. c = ws
      BY <1>1, <1>8, <3>1, <3>2, AssignmentCases, Zenon
    <3> QED BY <1>1, <2>2, <2>4, <3>3, Zenon DEF c
  <2>5. CASE ~HasSymbol(s.words)
    <3>1. \A k \in 1 .. n : WordArg(ws[k]) /\ ~Symbolic(ws[k])
      BY <1>5, <2>3, <2>5, Zenon
    <3>2. c = ConvertSimpleCall(ws)
      BY <1>1, <1>8, <3>1, AssignmentCases, Zenon
    <3>3. Found(ws) <=> n > 1
      BY <1>1, <3>1, Zenon DEF Found
    <3>4. CASE n > 1
      <4>1. Len(c) = n + n
        BY <1>1, <3>2, <3>3, <3>4, SimpleCallLen, Zenon
      <4>2. c # ws
        <5>1. n \in Nat /\ Len(ws) = n
          BY <1>1, Zenon
        <5>2. n + n # n
          BY <3>4, <5>1
        <5> QED BY <4>1, <5>1, <5>2, Zenon
      <4> QED BY <1>1, <2>2, <2>5, <3>4, <4>2, Zenon DEF c
    <3>5. CASE ~(n > 1)
      <4>1. c = ws
        BY <1>1, <3>2, <3>3, <3>5, SimpleCallIs, Zenon
      <4> QED BY <1>1, <2>2, <3>5, <4>1, Zenon DEF c
    <3> QED BY <3>4, <3>5, Zenon
  <2> QED BY <2>4, <2>5, Zenon
<1> QED BY <1>7, <1>8, Zenon
-----------------------------------------------------------------------------
(* Calls: the words of the line. *)

(* Where a piece is in the line. *)
LEMMA FlatPlace ==
  ASSUME NEW n \in Nat, NEW f, f \in Pieces(n), NEW k \in 1 .. n
  PROVE  /\ FlattenSeq(f) \in Line
         /\ k - 1 \in Nat /\ n - k \in Nat
         /\ FlattenSeq(Firsts(f, k - 1)) \in Line
         /\ FlattenSeq(Shifted(f, k, n - k)) \in Line
         /\ f[k] \in Line
         /\ FlattenSeq(f)
              = Cat(Cat(FlattenSeq(Firsts(f, k - 1)), f[k]), FlattenSeq(Shifted(f, k, n - k)))
<1>1. /\ k \in Nat /\ k - 1 \in Nat /\ n - k \in Nat /\ k + (n - k) = n /\ (k - 1) + 1 = k
      /\ k <= n /\ k - 1 <= k /\ k - 1 <= n /\ k + (n - k) <= n
      /\ \A i \in 1 .. k - 1 : i \in 1 .. k
  OBVIOUS
<1>2. Firsts(f, k) \in Pieces(k) /\ \A i \in 1 .. k : Firsts(f, k)[i] = f[i]
  <2>1. k \in Nat /\ k <= n
    BY <1>1
  <2> QED BY <2>1, FirstsType
<1>3. Firsts(f, k - 1) \in Pieces(k - 1)
  BY <1>1, FirstsType, Zenon
<1>4. Firsts(Firsts(f, k), k - 1) = Firsts(f, k - 1)
  <2>1. \A i \in 1 .. k - 1 : Firsts(f, k)[i] = f[i]
    BY <1>1, <1>2, Zenon
  <2>2. Firsts(Firsts(f, k), k - 1) = [i \in 1 .. k - 1 |-> Firsts(f, k)[i]]
    BY Zenon DEF Firsts
  <2>3. Firsts(f, k - 1) = [i \in 1 .. k - 1 |-> f[i]]
    BY Zenon DEF Firsts
  <2> QED BY <2>1, <2>2, <2>3
<1>5. Firsts(f, k)[k] = f[k]
  <2>1. k \in 1 .. k
    BY <1>1
  <2> QED BY <1>2, <2>1, Zenon
<1>6. f \in Pieces(k + (n - k))
  BY <1>1, Zenon
<1>7. FlattenSeq(f) = Cat(FlattenSeq(Firsts(f, k)), FlattenSeq(Shifted(f, k, n - k)))
  BY <1>1, <1>6, FlatCat, Zenon
<1>8. FlattenSeq(Firsts(f, k)) = Cat(FlattenSeq(Firsts(f, k - 1)), f[k])
  <2> DEFINE g == Firsts(f, k)
             m == k - 1
  <2>1. m \in Nat /\ g \in Pieces(m + 1) /\ m + 1 = k
    BY <1>1, <1>2, Zenon
  <2> HIDE DEF g, m
  <2>2. FlattenSeq(g) = Cat(FlattenSeq(Firsts(g, m)), g[m + 1])
    BY <2>1, FlatSnoc, Zenon
  <2>3. FlattenSeq(g) = Cat(FlattenSeq(Firsts(g, m)), g[k])
    BY <2>1, <2>2, Zenon
  <2> QED BY <1>4, <1>5, <2>3, Zenon DEF g, m
<1>9. Shifted(f, k, n - k) \in Pieces(n - k)
  BY <1>1, ShiftedType, Zenon
<1>10. f[k] \in Line
  BY PiecesAt
<1>11. /\ FlattenSeq(f) \in Line /\ FlattenSeq(Firsts(f, k - 1)) \in Line
       /\ FlattenSeq(Shifted(f, k, n - k)) \in Line
  BY <1>1, <1>3, <1>9, FlatLine, Zenon
<1> QED BY <1>1, <1>7, <1>8, <1>10, <1>11, Zenon

(* The words of a piece are words of the whole. *)
LEMMA FlatHas ==
  ASSUME NEW n \in Nat, NEW f, f \in Pieces(n), NEW k \in 1 .. n, NEW j \in 1 .. Len(f[k])
  PROVE  LET m == Len(FlattenSeq(Firsts(f, k - 1))) IN
         m \in Nat /\ m + j \in 1 .. Len(FlattenSeq(f)) /\ FlattenSeq(f)[m + j] = f[k][j]
<1> DEFINE a == FlattenSeq(Firsts(f, k - 1))
           b == f[k]
           c == FlattenSeq(Shifted(f, k, n - k))
           m == Len(a)
<1>1. a \in Line /\ b \in Line /\ c \in Line /\ FlattenSeq(f) = Cat(Cat(a, b), c)
  BY FlatPlace, Zenon
<1>2. Cat(a, b) \in Line /\ Len(Cat(a, b)) = Len(a) + Len(b) /\ Len(a) \in Nat /\ Len(b) \in Nat
      /\ Len(c) \in Nat
  BY <1>1, CatLine, LenLine
<1>3. j \in 1 .. Len(b)
  OBVIOUS
<1> HIDE DEF a, b, c
<1>4. Len(Cat(Cat(a, b), c)) = Len(Cat(a, b)) + Len(c)
  BY <1>1, <1>2, CatLine
<1>5. /\ m + j \in Nat /\ m < m + j /\ m + j <= Len(a) + Len(b) /\ (m + j) - Len(a) = j
      /\ 1 <= m + j /\ m + j <= Len(Cat(a, b)) /\ m + j \in 1 .. Len(Cat(Cat(a, b), c))
  BY <1>2, <1>3, <1>4
<1>6. Cat(a, b)[m + j] = b[j]
  BY <1>1, <1>5, CatAt
<1>7. Cat(Cat(a, b), c)[m + j] = Cat(a, b)[m + j]
  <2> DEFINE ab == Cat(a, b)
  <2>1. ab \in Line /\ m + j \in Nat /\ 1 <= m + j /\ m + j <= Len(ab)
    BY <1>2, <1>5
  <2> HIDE DEF ab
  <2>2. Cat(ab, c)[m + j] = ab[m + j]
    BY <1>1, <2>1, CatAt
  <2> QED BY <2>2 DEF ab
<1> HIDE DEF m
<1>8. m \in Nat /\ m + j \in 1 .. Len(FlattenSeq(f)) /\ FlattenSeq(f)[m + j] = b[j]
  BY <1>1, <1>2, <1>5, <1>6, <1>7 DEF m
<1> QED BY <1>8, Zenon DEF m, a, b

(* The first two words of a call in Python. *)
LEMMA CalledWords ==
  ASSUME NEW w \in Words, NEW x \in Line
  PROVE  /\ Called(Single(w), x)[1] = w /\ Called(Single(w), x)[2] = Plainly("(")
         /\ Len(Called(Single(w), x)) = Len(x) + 3
<1> DEFINE a == Cat(Single(w), Sign("("))
           b == Cat(a, x)
<1>1. /\ Single(w) \in Line /\ Len(Single(w)) = 1 /\ Single(w)[1] = w
      /\ Sign("(") \in Line /\ Len(Sign("(")) = 1 /\ Sign("(")[1] = Plainly("(")
      /\ Sign(")") \in Line /\ Len(Sign(")")) = 1
  BY SingleLine, SignLine, Known
<1>2. a \in Line /\ Len(a) = 2 /\ a[1] = w /\ a[2] = Plainly("(")
  <2>1. 1 \in Nat /\ 2 \in Nat /\ 1 <= 1 /\ 1 < 2 /\ 2 <= 1 + 1 /\ 2 - 1 = 1 /\ 1 + 1 = 2
    OBVIOUS
  <2>2. a \in Line /\ Len(a) = 1 + 1
    BY <1>1, CatLine, ZenonT(40)
  <2>3. a[1] = w
    BY <1>1, <2>1, CatAt
  <2>4. a[2] = Sign("(")[2 - 1]
    BY <1>1, <2>1, CatAt
  <2> QED BY <1>1, <2>1, <2>2, <2>3, <2>4
<1> HIDE DEF a
<1>3. Len(x) \in Nat /\ b \in Line /\ Len(b) = 2 + Len(x)
  BY <1>2, CatLine, LenLine
<1>4. b[1] = a[1] /\ b[2] = a[2]
  <2>1. 1 \in Nat /\ 2 \in Nat /\ 1 <= 1 /\ 1 <= 2 /\ 2 <= 2
    OBVIOUS
  <2> QED BY <1>2, <2>1, CatAt
<1> HIDE DEF b
<1>5. Cat(b, Sign(")"))[1] = b[1] /\ Cat(b, Sign(")"))[2] = b[2]
  <2>1. 1 \in Nat /\ 2 \in Nat /\ 1 <= 1 /\ 1 <= 2 /\ 1 <= Len(b) /\ 2 <= Len(b)
    BY <1>3
  <2> QED BY <1>1, <1>3, <2>1, CatAt
<1>6. Called(Single(w), x) = Cat(b, Sign(")"))
  BY Zenon DEF Called, a, b
<1>7. Len(Cat(b, Sign(")"))) = Len(x) + 3
  <2>1. Len(Cat(b, Sign(")"))) = Len(b) + 1
    <3>1. Len(Cat(b, Sign(")"))) = Len(b) + Len(Sign(")"))
      BY <1>1, <1>3, CatLine, Zenon
    <3> QED BY <1>1, <3>1, Zenon
  <2>2. Len(b) = 2 + Len(x) /\ Len(x) \in Nat
    BY <1>3
  <2> QED BY <2>1, <2>2
<1> QED BY <1>2, <1>4, <1>5, <1>6, <1>7, Zenon

(* The line of a call begins with its name. *)
LEMMA CallLine ==
  ASSUME NEW s \in Statements, IsStatement(s), s.kind = "call"
  PROVE  LET e == s.exprs[1]
             v == ConvertLambda(Spoken(e)) IN
         /\ e \in Expressions /\ IsExpression(e) /\ e.form = "call" /\ Len(s.exprs) = 1
         /\ v \in Line /\ Len(v) = Len(Spoken(e)) /\ OrColons(v, Spoken(e))
         /\ v[1].text = e.head[1] /\ IsName(e.head[1])
         /\ ConvertLine(Source(s)) = ConvertAssignmentOrExpression(v)
         /\ ~FirstIs(v, {"return"})
         /\ Python(s) = ExprPython(e)
<1> DEFINE e == s.exprs[1]
           v == ConvertLambda(Spoken(e))
<1>1. Len(s.exprs) = 1 /\ s.words = <<>> /\ e.form = "call"
  BY KindCall
<1>2. /\ e \in Expressions /\ IsExpression(e) /\ Speech(s) = Spoken(e)
      /\ FlattenSeq(ExprPythons(s.exprs)) = ExprPython(e)
  BY <1>1, OneSpeech, OnePython, Zenon
<1>3. NoLambdas(s.words)
  <2>1. 1 .. Len(<<>>) = {}
    BY NilLine
  <2> QED BY <1>1, <2>1, Zenon DEF NoLambdas
<1>4. Bare(s.words) = <<>>
  <2>1. <<>> \in Seq(Texts)
    OBVIOUS
  <2>2. Bare(<<>>) \in Line /\ Len(Bare(<<>>)) = 0
    BY <2>1, BareLine, NilLine
  <2>3. Bare(<<>>) = <<>>
    BY <2>2, NilLine, LineEqual
  <2> QED BY <1>1, <2>3
<1>5. v \in Line /\ Len(v) = Len(Spoken(e)) /\ Spoken(e) \in Line /\ Len(Spoken(e)) >= 1
      /\ Len(Spoken(e)) \in Nat /\ ExprPython(e) \in Line
  BY <1>2, ExprLines, Zenon
<1>6. Ready(s) = v
  BY <1>2, <1>3, <1>4, <1>5, ReadyIs, CatNil, Zenon
<1>7. Spoken(e)[1] = Plainly(e.head[1]) /\ IsName(e.head[1]) /\ e.head[1] \in Texts
  <2>1. /\ Spoken(e) = Cat(Single(Plainly(e.head[1])), Body(e)) /\ Plainly(e.head[1]) \in Words
        /\ 1 \in 1 .. Len(e.head)
    BY <1>1, <1>2, CallForm, Zenon
  <2>2. Body(e) \in Line
    BY <1>2, BodyLine
  <2>3. Cat(Single(Plainly(e.head[1])), Body(e))[1] = Plainly(e.head[1])
    BY <2>1, <2>2, RestCat
  <2> QED BY <1>2, <2>1, <2>3, HeadNames, Zenon
<1>8. OrColons(v, Spoken(e))
  BY <1>5, LambdaLine
<1>9. Plainly(e.head[1]).text = e.head[1]
  BY DEF Plainly, Word
<1>10. v[1].text = e.head[1]
  <2>1. 1 \in 1 .. Len(Spoken(e))
    BY <1>5
  <2>2. v[1].text = Spoken(e)[1].text
    BY <1>8, <2>1, Zenon DEF OrColons, OrColon
  <2> QED BY <1>7, <1>9, <2>2, Zenon
<1>11. /\ Source(s) \in Line /\ Source(s) # <<>> /\ Source(s)[1].text = e.head[1]
  <2>1. /\ Source(s) \in Line /\ Len(Source(s)) = Len(s.words) + Len(Speech(s))
        /\ ConvertBracketStrings(Source(s)) = Cat(Bare(s.words), Speech(s))
    BY SourceIs, Zenon
  <2>2. Len(Source(s)) = Len(Spoken(e))
    <3>1. Len(s.words) = 0
      BY <1>1, NilLine
    <3> QED BY <1>2, <1>5, <2>1, <3>1
  <2>3. ConvertBracketStrings(Source(s)) = Spoken(e)
    BY <1>2, <1>4, <1>5, <2>1, CatNil, Zenon
  <2>4. 1 \in 1 .. Len(Source(s)) /\ Len(Source(s)) # 0
    BY <1>5, <2>2
  <2>5. Spoken(e)[1] = Quoted(Source(s)[1])
    BY <2>1, <2>3, <2>4, QuoteLine, Zenon
  <2>6. Source(s)[1] \in Words
    BY <2>1, <2>4, LenLine, Zenon
  <2>7. Quoted(Source(s)[1]).text = Source(s)[1].text
    BY <2>6, QuotedWord
  <2>8. Source(s) # <<>>
    BY <2>4, NilLine
  <2> QED BY <1>7, <1>9, <2>1, <2>5, <2>7, <2>8, Zenon
<1>12. /\ e.head[1] \notin {"print"} /\ e.head[1] \notin {"def", "class"}
       /\ e.head[1] \notin Headers
       /\ e.head[1] \notin {"return"}
  BY <1>7, NameNot, Zenon
<1>13. /\ ~FirstIs(Source(s), {"print"}) /\ ~FirstIs(v, {"def", "class"}) /\ ~FirstIs(v, Headers)
       /\ ~FirstIs(v, {"return"})
  BY <1>10, <1>11, <1>12, Zenon DEF FirstIs
<1>14. ConvertLine(Source(s)) = ConvertAssignmentOrExpression(v)
  BY <1>6, <1>11, <1>13, LineIs, Zenon
<1>15. Python(s) = ExprPython(e)
  <2>1. Python(s) = Cat(Bare(s.words), FlattenSeq(ExprPythons(s.exprs)))
    BY <1>1, PythonIs
  <2> QED BY <1>2, <1>4, <1>5, <2>1, CatNil, Zenon
<1> QED BY <1>1, <1>2, <1>5, <1>7, <1>8, <1>10, <1>13, <1>14, <1>15, Zenon
-----------------------------------------------------------------------------
(* Calls: which of them are found. *)

(* The expression has no texts. *)
NoLiteral(e) == \A k \in 1 .. Len(e.items) : ~e.items[k].literal

(* A call without texts is found. *)
LEMMA CallFound ==
  ASSUME NEW e \in Expressions, IsExpression(e), e.form = "call", NoLiteral(e)
  PROVE  /\ NoSpeech(e) /\ \A k \in 1 .. Len(e.items) : Closed(e.items[k])
         /\ ConvertLambda(Spoken(e)) = Spoken(e) /\ Still(Spoken(e))
         /\ Len(Spoken(e)) = Len(e.items) + 1 /\ Len(e.items) \in Nat
         /\ \A k \in 1 .. Len(Spoken(e)) : /\ WordArg(Spoken(e)[k]) /\ Unmarked(Spoken(e)[k])
                                           /\ Spoken(e)[k].text \notin Symbols
         /\ Identifier(Spoken(e)[1])
         /\ Spoken(e) = Cat(Single(Plainly(e.head[1])), Body(e))
         /\ Pythons(e.items) = Singles(Body(e))
<1>1. /\ Len(e.items) \in Nat /\ Body(e) \in Line /\ Spoken(e) \in Line
      /\ Len(Spoken(e)) = Len(Body(e)) + 1
  BY CallSizes, Zenon
<1>2. /\ \A k \in 1 .. Len(e.items) : IsArgument(e.items[k])
      /\ Plainly(e.head[1]) \in Words
      /\ Spoken(e) = Cat(Single(Plainly(e.head[1])), Body(e))
      /\ IsName(e.head[1])
      /\ Pythons(e.items) \in Pieces(Len(e.items))
  BY CallForm, HeadNames
<1>3. OneEach(e)
  BY <1>2 DEF OneEach, NoLiteral, IsArgument
<1>4. NoSpeech(e)
  BY DEF NoSpeech, NoLiteral, SpeaksOfLambda
<1>5. \A k \in 1 .. Len(e.items) : Closed(e.items[k])
  BY DEF NoLiteral, Closed
<1>6. /\ Len(Body(e)) = Len(e.items) /\ Pythons(e.items) = Singles(Body(e))
      /\ \A k \in 1 .. Len(e.items) : Body(e)[k] = Plainly(e.items[k].texts[1])
  BY <1>3, OneWords DEF NoLiteral
<1>7. ASSUME NEW k \in 1 .. Len(e.items)  PROVE WordArg(Body(e)[k])
        /\ Body(e)[k].text \notin Symbols
  <2>1. IsItem(e.items[k]) /\ Len(e.items[k].texts) = 1 /\ ~e.items[k].literal
          /\ e.items[k] \in Items
    BY <1>3, ExprItems DEF OneEach, NoLiteral
  <2>2. IsAtom(e.items[k].texts[1])
    BY <2>1 DEF IsItem
  <2>3. e.items[k].texts[1] \notin Symbols
    BY <2>2 DEF IsAtom, IsName, Numbers, Operators, Symbols, Equals
  <2>4. Body(e)[k] = Plainly(e.items[k].texts[1])
    BY <1>6
  <2>5. /\ Plainly(e.items[k].texts[1]).text = e.items[k].texts[1]
        /\ Plainly(e.items[k].texts[1]).left = "" /\ Plainly(e.items[k].texts[1]).right = ""
    BY DEF Plainly, Word
  <2> QED BY <2>3, <2>4, <2>5, Zenon DEF WordArg, Unmarked
<1>8. /\ Spoken(e)[1] = Plainly(e.head[1])
      /\ \A k \in 1 .. Len(Body(e)) : Spoken(e)[k + 1] = Body(e)[k]
  <2>1. /\ Cat(Single(Plainly(e.head[1])), Body(e))[1] = Plainly(e.head[1])
        /\ \A k \in 1 .. Len(Body(e)) :
             Cat(Single(Plainly(e.head[1])), Body(e))[k + 1] = Body(e)[k]
    BY <1>1, <1>2, RestCat
  <2> QED BY <1>2, <2>1
<1>9. Identifier(Spoken(e)[1]) /\ WordArg(Spoken(e)[1]) /\ Spoken(e)[1].text \notin Symbols
  <2>1. Identifier(Plainly(e.head[1])) /\ WordArg(Plainly(e.head[1]))
    BY <1>2, NameWord
  <2> QED BY <1>8, <2>1 DEF WordArg
<1>10. ASSUME NEW k \in 1 .. Len(Spoken(e))
       PROVE  WordArg(Spoken(e)[k]) /\ Unmarked(Spoken(e)[k]) /\ Spoken(e)[k].text \notin Symbols
  <2>1. CASE k = 1
    BY <1>9, <2>1 DEF WordArg
  <2>2. CASE k # 1
    <3>1. k - 1 \in 1 .. Len(Body(e)) /\ k - 1 \in 1 .. Len(e.items) /\ (k - 1) + 1 = k
      <4>1. Len(Spoken(e)) = Len(e.items) + 1 /\ Len(e.items) \in Nat /\ Len(Body(e)) = Len(e.items)
        BY <1>1, <1>6
      <4> QED BY <2>2, <4>1
    <3>2. Spoken(e)[k] = Body(e)[k - 1]
      BY <1>8, <3>1
    <3> QED BY <1>7, <3>1, <3>2 DEF WordArg
  <2> QED BY <2>1, <2>2
<1>11. Still(Spoken(e))
  <2>1. Still(Single(Plainly(e.head[1]))) /\ Single(Plainly(e.head[1])) \in Line
    <3>1. Plainly(e.head[1]).text # "lambda"
      <4>1. Plainly(e.head[1]).text = e.head[1]
        BY DEF Plainly, Word
      <4> QED BY <1>2, <4>1, NameWord
    <3>2. /\ Single(Plainly(e.head[1])) \in Line /\ Len(Single(Plainly(e.head[1]))) = 1
          /\ Single(Plainly(e.head[1]))[1] = Plainly(e.head[1])
      BY <1>2, SingleLine
    <3>3. \A k \in 1 .. 1 : k = 1
      OBVIOUS
    <3> QED BY <3>1, <3>2, <3>3, Zenon DEF Still
  <2>2. \A k \in 1 .. Len(e.items) : Still(Pythons(e.items)[k])
    BY <1>4, ExprItems, StillItem DEF NoSpeech
  <2>3. Still(Body(e))
    BY <1>1, <1>2, <2>2, StillFlat DEF Body
  <2> QED BY <1>1, <1>2, <2>1, <2>3, StillCat
<1>12. ConvertLambda(Spoken(e)) = Spoken(e)
  BY <1>1, <1>11, LambdaStill
<1> QED BY <1>1, <1>2, <1>4, <1>5, <1>6, <1>9, <1>10, <1>11, <1>12, Zenon

(* The first word of the arguments of a call is no parenthesis. *)
LEMMA CallSecond ==
  ASSUME NEW e \in Expressions, IsExpression(e), e.form = "call",
         NEW v \in Line, OrColons(v, Spoken(e))
  PROVE  /\ 2 \in 1 .. Len(v) /\ v[2] # Plainly("(") /\ v[2].text \in Texts
         /\ ~NoLiteral(e) => \E k \in 1 .. Len(v) : ~WordArg(v[k])
<1>1. /\ Len(e.items) \in Nat /\ Len(e.items) >= 1 /\ Body(e) \in Line /\ Spoken(e) \in Line
      /\ Len(Spoken(e)) = Len(Body(e)) + 1 /\ Len(Body(e)) \in Nat /\ Len(Body(e)) >= Len(e.items)
  BY CallSizes, Zenon
<1>2. /\ \A k \in 1 .. Len(e.items) : IsArgument(e.items[k])
      /\ Pythons(e.items) \in Pieces(Len(e.items))
      /\ Plainly(e.head[1]) \in Words
      /\ Spoken(e) = Cat(Single(Plainly(e.head[1])), Body(e))
  BY CallForm
<1>3. \A k \in 1 .. Len(Body(e)) : Spoken(e)[k + 1] = Body(e)[k]
  <2>1. \A k \in 1 .. Len(Body(e)) : Cat(Single(Plainly(e.head[1])), Body(e))[k + 1] = Body(e)[k]
    BY <1>1, <1>2, RestCat
  <2> QED BY <1>2, <2>1
<1>4. Len(v) = Len(Body(e)) + 1
  BY <1>1 DEF OrColons
<1>5. ASSUME NEW k \in 1 .. Len(e.items)
      PROVE  \E i \in 1 .. Len(v) : /\ v[i].text = ItemPython(e.items[k])[1].text
                                    /\ v[i].left = ItemPython(e.items[k])[1].left
                                    /\ k = 1 => i = 2
  <2> DEFINE m == Len(FlattenSeq(Firsts(Pythons(e.items), k - 1)))
  <2>1. /\ Pythons(e.items)[k] = ItemPython(e.items[k])
        /\ Len(e.items[k].texts) \in Nat /\ Len(e.items[k].texts) >= 1
        /\ Len(ItemPython(e.items[k])) = Len(e.items[k].texts)
    BY ExprItems
  <2>2. 1 \in 1 .. Len(Pythons(e.items)[k])
    BY <2>1
  <2>3. m \in Nat /\ m + 1 \in 1 .. Len(Body(e)) /\ Body(e)[m + 1] = ItemPython(e.items[k])[1]
    <3> DEFINE f == Pythons(e.items)
               n == Len(e.items)
    <3>1. n \in Nat /\ f \in Pieces(n) /\ k \in 1 .. n /\ 1 \in 1 .. Len(f[k])
      BY <1>1, <1>2, <2>2, Zenon
    <3> HIDE DEF f, n
    <3>2. /\ Len(FlattenSeq(Firsts(f, k - 1))) \in Nat
          /\ Len(FlattenSeq(Firsts(f, k - 1))) + 1 \in 1 .. Len(FlattenSeq(f))
          /\ FlattenSeq(f)[Len(FlattenSeq(Firsts(f, k - 1))) + 1] = f[k][1]
      BY <3>1, FlatHas
    <3> QED BY <2>1, <3>2, Zenon DEF Body, f
  <2>4. k = 1 => m = 0
    <3> SUFFICES ASSUME k = 1  PROVE m = 0
      OBVIOUS
    <3>1. k - 1 = 0 /\ 0 \in Nat /\ 0 <= Len(e.items)
      BY <1>1
    <3>2. Firsts(Pythons(e.items), 0) \in Pieces(0)
      BY <1>1, <1>2, <3>1, FirstsType
    <3>3. FlattenSeq(Firsts(Pythons(e.items), 0)) = <<>>
      BY <3>2, FlatNone
    <3> QED BY <3>1, <3>3, NilLine
  <2> HIDE DEF m
  <2>5. (m + 1) + 1 \in 1 .. Len(v) /\ (m + 1) + 1 \in 1 .. Len(Spoken(e))
          /\ (k = 1 => (m + 1) + 1 = 2)
    <3>1. Len(v) = Len(Body(e)) + 1 /\ Len(Spoken(e)) = Len(Body(e)) + 1 /\ Len(Body(e)) \in Nat
          /\ m \in Nat /\ m + 1 \in 1 .. Len(Body(e))
      BY <1>1, <1>4, <2>3, Zenon
    <3> QED BY <2>4, <3>1
  <2>6. Spoken(e)[(m + 1) + 1] = ItemPython(e.items[k])[1]
    BY <1>3, <2>3, Zenon
  <2>7. v[(m + 1) + 1].text = Spoken(e)[(m + 1) + 1].text
          /\ v[(m + 1) + 1].left = Spoken(e)[(m + 1) + 1].left
    BY <2>5, Zenon DEF OrColons, OrColon
  <2> QED BY <2>5, <2>6, <2>7, Zenon
<1>6. 2 \in 1 .. Len(v) /\ v[2] \in Words
  <2>1. 2 \in 1 .. Len(v)
    BY <1>1, <1>4
  <2> QED BY <2>1, LenLine
<1>7. v[2] # Plainly("(")
  <2>1. 1 \in 1 .. Len(e.items)
    BY <1>1
  <2>2. v[2].text = ItemPython(e.items[1])[1].text /\ v[2].left = ItemPython(e.items[1])[1].left
    BY <1>5, <2>1, Zenon
  <2>3. /\ e.items[1] \in Items /\ IsItem(e.items[1]) /\ IsArgument(e.items[1])
        /\ 1 \in 1 .. Len(e.items[1].texts)
    <3>1. e.items[1] \in Items /\ IsItem(e.items[1]) /\ Len(e.items[1].texts) \in Nat
          /\ Len(e.items[1].texts) >= 1
      BY <2>1, ExprItems
    <3> QED BY <1>2, <2>1, <3>1
  <2>4. Plainly("(").text = "(" /\ Plainly("(").left = ""
    BY DEF Plainly, Word
  <2>5. CASE e.items[1].literal
    <3>1. ItemPython(e.items[1])[1].left = "\""
      BY <2>3, <2>5, LiteralFirst
    <3> QED BY <2>2, <2>4, <3>1
  <2>6. CASE ~e.items[1].literal
    <3>1. Len(e.items[1].texts) = 1
      BY <2>3, <2>6 DEF IsArgument
    <3>2. IsAtom(e.items[1].texts[1])
      BY <2>3, <2>6, <3>1 DEF IsItem
    <3>3. e.items[1].texts[1] # "("
      BY <3>2 DEF IsAtom, IsName, Numbers, Operators
    <3>4. ItemPython(e.items[1])[1].text = e.items[1].texts[1]
      BY <2>3, <2>6, PlainWords
    <3> QED BY <2>2, <2>4, <3>3, <3>4
  <2> QED BY <2>5, <2>6
<1>8. ~NoLiteral(e) => \E k \in 1 .. Len(v) : ~WordArg(v[k])
  <2> SUFFICES ASSUME ~NoLiteral(e)  PROVE \E k \in 1 .. Len(v) : ~WordArg(v[k])
    OBVIOUS
  <2>1. PICK k \in 1 .. Len(e.items) : e.items[k].literal
    BY DEF NoLiteral
  <2>2. ItemPython(e.items[k])[1].left = "\""
    BY <2>1, ExprItems, LiteralFirst
  <2>3. PICK i \in 1 .. Len(v) : v[i].left = ItemPython(e.items[k])[1].left
    BY <1>5, Zenon
  <2>4. ~WordArg(v[i])
    BY <2>2, <2>3 DEF WordArg, Unmarked
  <2> QED BY <2>4
<1>9. v[2].text \in Texts
  BY <1>6 DEF Words
<1> QED BY <1>6, <1>7, <1>8, <1>9

(* A call is right if it is translatable, and only then. *)
LEMMA CallTranslates ==
  ASSUME NEW s \in Statements, IsStatement(s), s.kind = "call"
  PROVE  ConvertLine(Source(s)) = Python(s) <=> Translatable(s)
<1> DEFINE e == s.exprs[1]
           v == ConvertLambda(Spoken(e))
           c == ConvertAssignmentOrExpression(v)
<1>1. /\ e \in Expressions /\ IsExpression(e) /\ e.form = "call" /\ Len(s.exprs) = 1
      /\ v \in Line /\ Len(v) = Len(Spoken(e)) /\ OrColons(v, Spoken(e))
      /\ v[1].text = e.head[1] /\ IsName(e.head[1])
      /\ ConvertLine(Source(s)) = c
      /\ ~FirstIs(v, {"return"})
      /\ Python(s) = ExprPython(e)
  BY CallLine, Zenon
<1>2. Translatable(s) <=> NoLiteral(e)
  <2>1. Translatable(s) <=> ForEach(s) /\ \A k \in DOMAIN e.items : ~e.items[k].literal
    BY KindCall, TranslatableIs
  <2>2. DOMAIN e.items = 1 .. Len(e.items)
    BY <1>1, ExprParts
  <2>3. ForEach(s) <=> NoSpeech(e)
    BY <1>1 DEF ForEach
  <2>4. NoLiteral(e) => NoSpeech(e)
    BY DEF NoSpeech, NoLiteral, SpeaksOfLambda
  <2> QED BY <2>1, <2>2, <2>3, <2>4, Zenon DEF NoLiteral
<1>3. c = IF HasEquals(v) /\ ~HasTest(v) THEN ConvertAssignment(v)
          ELSE IF Identifier(v[1]) /\ \A k \in 1 .. Len(v) : WordArg(v[k]) THEN ConvertSimpleCall(v)
          ELSE v
  BY <1>1, AssignmentCases, Zenon
<1> HIDE DEF c
<1>4. CASE NoLiteral(e)
  <2>1. /\ NoSpeech(e) /\ \A k \in 1 .. Len(e.items) : Closed(e.items[k])
        /\ v = Spoken(e)
        /\ \A k \in 1 .. Len(v) : WordArg(v[k]) /\ v[k].text \notin Symbols
        /\ Identifier(v[1])
    BY <1>1, <1>4, CallFound
  <2>2. ~HasEquals(v)
    BY <2>1 DEF HasEquals, Symbols
  <2>3. c = ConvertSimpleCall(v)
    BY <1>3, <2>1, <2>2, Zenon
  <2>4. ConvertSimpleCall(v) = ExprPython(e)
    BY <1>1, <2>1, CallRight, Zenon
  <2> QED BY <1>1, <1>2, <1>4, <2>3, <2>4, Zenon
<1>5. CASE ~NoLiteral(e)
  <2>1. 2 \in 1 .. Len(v) /\ v[2] # Plainly("(") /\ \E k \in 1 .. Len(v) : ~WordArg(v[k])
    BY <1>1, <1>5, CallSecond, Zenon
  <2>2. ExprPython(e)[2] = Plainly("(")
    <3>1. /\ ExprPython(e) = Called(Single(Plainly(e.head[1])), Comma(Pythons(e.items)))
          /\ Plainly(e.head[1]) \in Words /\ Pythons(e.items) \in Pieces(Len(e.items))
          /\ Len(e.items) \in Nat
      BY <1>1, CallForm, CallSizes
    <3>2. Comma(Pythons(e.items)) \in Line
      BY <3>1, CommaLine
    <3>3. Called(Single(Plainly(e.head[1])), Comma(Pythons(e.items)))[2] = Plainly("(")
      BY <3>1, <3>2, CalledWords
    <3> QED BY <3>1, <3>3, Zenon
  <2>3. CASE HasEquals(v) /\ ~HasTest(v)
    <3>1. c = ConvertAssignment(v)
      BY <1>3, <2>3, Zenon
    <3>2. PICK k : FirstEquals(v, k)
      BY <1>1, <2>3, EqualsCases, Zenon DEF HasEquals
    <3>3. k \in 1 .. Len(v) /\ v[k].text \in Equals /\ v[k].text # "=="
      BY <2>3, <3>2, Zenon DEF HasTest, FirstEquals
    <3>4. k # 1
      BY <1>1, <3>3, NameNot, Zenon
    <3>5. CASE k = 2
      <4>1. c[2] \in {Plainly("="), Plainly("+"), Plainly("<")}
        BY <1>1, <3>1, <3>2, <3>3, <3>5, CutLen, Zenon
      <4>2. Plainly("(") \notin {Plainly("="), Plainly("+"), Plainly("<")}
        BY DEF Plainly, Word
      <4> QED BY <1>1, <1>2, <1>5, <2>2, <4>1, <4>2
    <3>6. CASE k # 2
      <4>1. 2 \in 1 .. k - 1
        <5>1. Len(v) \in Nat
          BY <1>1, LenLine
        <5>2. k \in 1 .. Len(v)
          BY <3>3
        <5> QED BY <3>4, <3>6, <5>1, <5>2
      <4>2. c[2] = v[2]
        BY <1>1, <3>1, <3>2, <3>3, <4>1, CutLen, ZenonT(40)
      <4> QED BY <1>1, <1>2, <1>5, <2>1, <2>2, <4>2
    <3> QED BY <3>5, <3>6
  <2>4. CASE ~(HasEquals(v) /\ ~HasTest(v))
    <3>1. c = v
      BY <1>3, <2>1, <2>4, Zenon
    <3> QED BY <1>1, <1>2, <1>5, <2>1, <2>2, <3>1, Zenon
  <2> QED BY <2>3, <2>4, Zenon
<1> QED BY <1>4, <1>5, Zenon
-----------------------------------------------------------------------------
(* Print: a line is printed token by token.  An edge is a place between    *)
(* two words that no call crosses and that is in no text.                  *)

(* Argument of ConvertPrint: the token may be a name or an argument of a   *)
(* call.                                                                   *)
Arg(ws, k)     == k \in DOMAIN ws /\ WordArg(ws[k]) /\ ~InText(ws, k)

(* Run of ConvertPrint: the tokens from i to k are such. *)
Run(ws, i, k)  == \A j \in i .. k : Arg(ws, j)

(* Called of ConvertPrint: the name at k is called. *)
Calls(ws, k)   == /\ Identifier(ws[k]) /\ Run(ws, k, k + 1)
                  /\ \A i \in 2 .. k - 1 : ~(Identifier(ws[i]) /\ Run(ws, i, k))
(* CallEnds of ConvertPrint: the last argument of a call is at k. *)
CallEnd(ws, k) == ~Arg(ws, k + 1) /\ \E i \in 2 .. k - 1 : Calls(ws, i) /\ Run(ws, i, k)

(* Before of ConvertPrint. *)
Opening(ws, k) == IF k = 2 \/ InText(ws, k) THEN <<>>
                  ELSE IF Calls(ws, k - 1) THEN Sign("(") ELSE Sign(",")
(* After of ConvertPrint. *)
Closing(ws, k) == IF CallEnd(ws, k) THEN Sign(")") ELSE <<>>

(* What a word of the line is printed as. *)
Token(ws, k)   == Cat(Cat(Opening(ws, k), Single(ws[k])), Closing(ws, k))

(* n of these tokens, after the first o. *)
Part(ws, o, n) == [j \in 1 .. n |-> Token(ws, j + o)]

(* ConvertPrint prints its tokens as the arguments of print. *)
LEMMA PrintIs ==
  ASSUME NEW ws
  PROVE  ConvertPrint(ws) = Called(Sign("print"), FlattenSeq(Part(ws, 1, Len(ws) - 1)))
<1> DEFINE Argument(k) == k \in DOMAIN ws /\ WordArg(ws[k]) /\ ~InText(ws, k)
           Runs(i, k) == \A j \in i .. k : Argument(j)
           CallAt(k) == /\ Identifier(ws[k]) /\ Runs(k, k + 1)
                       /\ \A i \in 2 .. k - 1 : ~(Identifier(ws[i]) /\ Runs(i, k))
           CallEnds(k) == ~Argument(k + 1) /\ \E i \in 2 .. k - 1 : CallAt(i) /\ Runs(i, k)
           Before(k) == IF k = 2 \/ InText(ws, k) THEN <<>>
                        ELSE IF CallAt(k - 1) THEN Bare(<<"(">>) ELSE Bare(<<",">>)
           After(k) == IF CallEnds(k) THEN Bare(<<")">>) ELSE <<>>
<1>1. ConvertPrint(ws) =
        Bare(<<"print", "(">>)
          \o FlattenSeq([k \in 1 .. Len(ws) - 1 |-> Before(k + 1) \o <<ws[k + 1]>> \o After(k + 1)])
          \o Bare(<<")">>)
  BY DEF ConvertPrint
<1>2. /\ Bare(<<"(">>) = Sign("(") /\ Bare(<<")">>) = Sign(")") /\ Bare(<<",">>) = Sign(",")
      /\ Bare(<<"print", "(">>) = Cat(Sign("print"), Sign("("))
  BY BareOne, BareTwo, Known
<1>3. \A k : Argument(k) <=> Arg(ws, k)
  BY Zenon DEF Arg
<1> HIDE DEF Argument
<1>4. \A i, k : Runs(i, k) <=> Run(ws, i, k)
  BY <1>3, Zenon DEF Run
<1> HIDE DEF Runs
<1>5. \A k : CallAt(k) <=> Calls(ws, k)
  BY <1>4, Zenon DEF Calls
<1> HIDE DEF CallAt
<1>6. \A k : CallEnds(k) <=> CallEnd(ws, k)
  BY <1>3, <1>4, <1>5, Zenon DEF CallEnd
<1> HIDE DEF CallEnds
<1>7. \A k : Before(k) = Opening(ws, k)
  BY <1>2, <1>5, Zenon DEF Opening
<1>8. \A k : After(k) = Closing(ws, k)
  BY <1>2, <1>6, Zenon DEF Closing
<1> HIDE DEF Before, After
<1>9. \A k : Before(k + 1) \o <<ws[k + 1]>> \o After(k + 1) = Token(ws, k + 1)
  BY <1>7, <1>8, Zenon DEF Token, Cat, Single
<1>10. [k \in 1 .. Len(ws) - 1 |-> Before(k + 1) \o <<ws[k + 1]>> \o After(k + 1)]
         = Part(ws, 1, Len(ws) - 1)
  BY <1>9, Zenon DEF Part
<1> QED BY <1>1, <1>2, <1>10, Zenon DEF Called, Cat

(* A token is a line of words. *)
LEMMA TokenLine ==
  ASSUME NEW ws \in Line, NEW k \in 1 .. Len(ws)
  PROVE  /\ Opening(ws, k) \in Line /\ Closing(ws, k) \in Line /\ Single(ws[k]) \in Line
         /\ Token(ws, k) \in Line
<1>1. Opening(ws, k) \in Line
  BY SignLine, Known, NilLine, Zenon DEF Opening
<1>2. Closing(ws, k) \in Line
  BY SignLine, Known, NilLine, Zenon DEF Closing
<1>3. Single(ws[k]) \in Line
  BY LenLine, SingleLine
<1>4. Cat(Opening(ws, k), Single(ws[k])) \in Line
  BY <1>1, <1>3, CatLine
<1>5. Token(ws, k) \in Line
  BY <1>2, <1>4, CatLine DEF Token
<1> QED BY <1>1, <1>2, <1>3, <1>5

(* So are several. *)
LEMMA PartType ==
  ASSUME NEW ws \in Line, NEW o \in Nat, NEW n \in Nat, o + n <= Len(ws)
  PROVE  /\ Part(ws, o, n) \in Pieces(n) /\ \A j \in 1 .. n : Part(ws, o, n)[j] = Token(ws, j + o)
         /\ FlattenSeq(Part(ws, o, n)) \in Line
<1>1. \A j \in 1 .. n : j + o \in 1 .. Len(ws)
  BY LenLine
<1>2. \A j \in 1 .. n : Token(ws, j + o) \in Line
  BY <1>1, TokenLine
<1>3. Part(ws, o, n) \in Pieces(n)
  BY <1>2 DEF Part, Pieces
<1>4. \A j \in 1 .. n : Part(ws, o, n)[j] = Token(ws, j + o)
  BY DEF Part
<1> QED BY <1>3, <1>4, FlatLine

(* The tokens of a part are printed in two parts. *)
LEMMA PartCat ==
  ASSUME NEW ws \in Line, NEW o \in Nat, NEW m \in Nat, NEW n \in Nat, (o + m) + n <= Len(ws)
  PROVE  FlattenSeq(Part(ws, o, m + n))
           = Cat(FlattenSeq(Part(ws, o, m)), FlattenSeq(Part(ws, o + m, n)))
<1>1. o + (m + n) <= Len(ws) /\ m + n \in Nat /\ m <= m + n /\ Len(ws) \in Nat
      /\ (\A j \in 1 .. m : j \in 1 .. m + n)
      /\ \A j \in 1 .. n : m + j \in 1 .. m + n /\ (m + j) + o = j + (o + m)
  BY LenLine
<1> DEFINE f == Part(ws, o, m + n)
<1>2. f \in Pieces(m + n) /\ \A j \in 1 .. m + n : f[j] = Token(ws, j + o)
  BY <1>1, PartType, Zenon
<1> HIDE DEF f
<1>3. FlattenSeq(f) = Cat(FlattenSeq(Firsts(f, m)), FlattenSeq(Shifted(f, m, n)))
  BY <1>2, FlatCat
<1>4. Firsts(f, m) = Part(ws, o, m)
  <2>1. \A j \in 1 .. m : f[j] = Token(ws, j + o)
    BY <1>1, <1>2, Zenon
  <2> QED BY <2>1 DEF Firsts, Part
<1>5. Shifted(f, m, n) = Part(ws, o + m, n)
  <2>1. ASSUME NEW j \in 1 .. n  PROVE f[m + j] = Token(ws, j + (o + m))
    <3>1. m + j \in 1 .. m + n /\ (m + j) + o = j + (o + m)
      BY <1>1
    <3>2. f[m + j] = Token(ws, (m + j) + o)
      BY <1>2, <3>1, Zenon
    <3> QED BY <3>1, <3>2, Zenon
  <2> QED BY <2>1 DEF Shifted, Part
<1> QED BY <1>3, <1>4, <1>5, Zenon DEF f

(* A text goes on until a word has a mark on the right. *)
LEMMA InsideStep ==
  ASSUME NEW ws, NEW k \in Nat, k >= 1
  PROVE  InText(ws, k + 1) <=> (InText(ws, k) \/ ws[k].left = "\"") /\ ws[k].right # "\""
<1>1. \A i, j \in Nat : /\ (k + 1) - 1 = k /\ k \in Nat
                        /\ i \in 1 .. k <=> i \in 1 .. k - 1 \/ i = k
                        /\ j \in i .. k <=> j \in i .. k - 1 \/ (j = k /\ i <= k)
  OBVIOUS
<1>2. ASSUME InText(ws, k + 1)
      PROVE  (InText(ws, k) \/ ws[k].left = "\"") /\ ws[k].right # "\""
  <2>1. PICK i \in 1 .. k : ws[i].left = "\"" /\ \A j \in i .. k : ws[j].right # "\""
    <3>1. \E i \in 1 .. (k + 1) - 1 : ws[i].left = "\""
            /\ \A j \in i .. (k + 1) - 1 : ws[j].right # "\""
      BY <1>2, Zenon DEF InText
    <3> QED BY <1>1, <3>1
  <2>2. k \in i .. k /\ \A j \in i .. k - 1 : j \in i .. k
    OBVIOUS
  <2>3. ws[k].right # "\""
    BY <2>1, <2>2, Zenon
  <2>4. CASE i = k
    BY <2>1, <2>3, <2>4, Zenon
  <2>5. CASE i # k
    <3>1. i \in 1 .. k - 1
      BY <2>5
    <3> QED BY <2>1, <2>2, <2>3, <3>1, Zenon DEF InText
  <2> QED BY <2>4, <2>5
<1>3. ASSUME InText(ws, k) \/ ws[k].left = "\"", ws[k].right # "\""
      PROVE  InText(ws, k + 1)
  <2>1. CASE InText(ws, k)
    <3>1. PICK i \in 1 .. k - 1 : ws[i].left = "\"" /\ \A j \in i .. k - 1 : ws[j].right # "\""
      BY <2>1, Zenon DEF InText
    <3>2. i \in 1 .. (k + 1) - 1 /\ \A j \in i .. (k + 1) - 1 : j \in i .. k - 1 \/ j = k
      OBVIOUS
    <3> QED BY <1>3, <3>1, <3>2, Zenon DEF InText
  <2>2. CASE ws[k].left = "\""
    <3>1. k \in 1 .. (k + 1) - 1 /\ \A j \in k .. (k + 1) - 1 : j = k
      OBVIOUS
    <3> QED BY <1>3, <2>2, <3>1, Zenon DEF InText
  <2> QED BY <1>3, <2>1, <2>2
<1> QED BY <1>2, <1>3

(* No call goes over the edge. *)
Edge(ws, o) == ~InText(ws, o + 1) /\ (o = 1 \/ ~(Arg(ws, o) /\ Arg(ws, o + 1)))

(* The comma of the first token after it. *)
Sep(o) == IF o = 1 THEN <<>> ELSE Sign(",")

(* It is a line. *)
LEMMA SepLine ==
  ASSUME NEW o
  PROVE  Sep(o) \in Line
BY SignLine, Known, NilLine, Zenon DEF Sep

(* No run of names and arguments crosses an edge. *)
LEMMA EdgeRun ==
  ASSUME NEW ws, NEW o \in Nat, o >= 1, Edge(ws, o), NEW i \in 2 .. o, NEW k \in Nat, o + 1 <= k
  PROVE  ~Run(ws, i, k)
<1>1. o # 1 /\ o \in i .. k /\ o + 1 \in i .. k
  OBVIOUS
<1> QED BY <1>1 DEF Edge, Run

(* The first token after an edge: a comma, if it is not the first of all,  *)
(* and no end of a call before it.                                         *)
LEMMA EdgeToken ==
  ASSUME NEW ws \in Line, NEW o \in Nat, o >= 1, Edge(ws, o), o + 1 <= Len(ws)
  PROVE  /\ Token(ws, o + 1) = Cat(Sep(o), Single(ws[o + 1]))
         /\ ~CallEnd(ws, o + 1)
<1>1. ~CallEnd(ws, o + 1)
  <2>1. \A i \in 2 .. (o + 1) - 1 : ~Run(ws, i, o + 1)
    <3>1. \A i \in 2 .. (o + 1) - 1 : i \in 2 .. o
      OBVIOUS
    <3>2. o + 1 \in Nat /\ o + 1 <= o + 1
      OBVIOUS
    <3> QED BY <3>1, <3>2, EdgeRun
  <2> QED BY <2>1, Zenon DEF CallEnd
<1>2. Opening(ws, o + 1) = Sep(o)
  <2>1. ~InText(ws, o + 1) /\ (o + 1 = 2 <=> o = 1) /\ (o + 1) - 1 = o
    BY DEF Edge
  <2>2. CASE o = 1
    BY <2>1, <2>2 DEF Opening, Sep
  <2>3. CASE o # 1
    <3>1. ~Calls(ws, o)
      <4>1. o \in o .. o + 1 /\ o + 1 \in o .. o + 1
        OBVIOUS
      <4> QED BY <2>3, <4>1, Zenon DEF Calls, Run, Edge
    <3> QED BY <2>1, <2>3, <3>1 DEF Opening, Sep
  <2> QED BY <2>2, <2>3
<1>3. Token(ws, o + 1) = Cat(Cat(Sep(o), Single(ws[o + 1])), <<>>)
  BY <1>1, <1>2, Zenon DEF Token, Closing
<1>4. Cat(Sep(o), Single(ws[o + 1])) \in Line
  <2>1. o + 1 \in 1 .. Len(ws)
    BY LenLine
  <2> QED BY <2>1, SepLine, TokenLine, CatLine
<1> QED BY <1>1, <1>3, <1>4, CatNil
-----------------------------------------------------------------------------
(* A text between two edges is printed as it is. *)

(* The words of x are in ws, after the first o. *)
Here(ws, o, x) ==
  /\ o \in Nat /\ o >= 1 /\ x \in Line /\ o + Len(x) <= Len(ws)
  /\ \A j \in 1 .. Len(x) : ws[j + o] = x[j]

(* The first of them. *)
LEMMA HereIs ==
  ASSUME NEW ws \in Line, NEW o, NEW x, Here(ws, o, x), Len(x) >= 1
  PROVE  /\ o \in Nat /\ o >= 1 /\ x \in Line /\ Len(x) \in Nat /\ Len(ws) \in Nat
         /\ o + Len(x) <= Len(ws) /\ o + 1 <= Len(ws) /\ Len(x) - 1 \in Nat
         /\ 1 + (Len(x) - 1) = Len(x) /\ (o + 1) + (Len(x) - 1) <= Len(ws)
         /\ ws[o + 1] = x[1] /\ x[1] \in Words /\ 1 \in 1 .. Len(x)
<1>1. o \in Nat /\ o >= 1 /\ x \in Line /\ o + Len(x) <= Len(ws)
  BY DEF Here
<1>2. Len(x) \in Nat /\ Len(ws) \in Nat
  BY <1>1, LenLine
<1>3. 1 + o = o + 1 /\ 1 \in 1 .. Len(x)
  BY <1>1, <1>2
<1>4. ws[o + 1] = x[1]
  <2>1. ws[1 + o] = x[1]
    BY <1>3 DEF Here
  <2> QED BY <1>3, <2>1
<1>5. x[1] \in Words
  BY <1>1, <1>3, LenLine
<1>6. /\ o + 1 <= Len(ws) /\ Len(x) - 1 \in Nat /\ 1 + (Len(x) - 1) = Len(x)
      /\ (o + 1) + (Len(x) - 1) <= Len(ws)
  BY <1>1, <1>2
<1> QED BY <1>1, <1>2, <1>3, <1>4, <1>5, <1>6, Zenon

(* The first token, and the other ones. *)
LEMMA PartCons ==
  ASSUME NEW ws \in Line, NEW o, NEW x, Here(ws, o, x), Len(x) >= 1, Edge(ws, o)
  PROVE  /\ FlattenSeq(Part(ws, o, 1)) = Cat(Sep(o), Single(x[1]))
         /\ FlattenSeq(Part(ws, o, Len(x)))
              = Cat(Cat(Sep(o), Single(x[1])), FlattenSeq(Part(ws, o + 1, Len(x) - 1)))
<1>1. /\ o \in Nat /\ o >= 1 /\ o + 1 <= Len(ws) /\ Len(x) - 1 \in Nat
      /\ 1 + (Len(x) - 1) = Len(x) /\ (o + 1) + (Len(x) - 1) <= Len(ws)
      /\ ws[o + 1] = x[1]
  BY HereIs
<1>2. Token(ws, o + 1) = Cat(Sep(o), Single(x[1]))
  <2>1. Token(ws, o + 1) = Cat(Sep(o), Single(ws[o + 1]))
    BY <1>1, EdgeToken
  <2> QED BY <1>1, <2>1
<1>3. FlattenSeq(Part(ws, o, 1)) = Token(ws, o + 1)
  <2>1. 1 \in Nat /\ 1 \in 1 .. 1 /\ 1 + o = o + 1
    BY <1>1
  <2>2. Part(ws, o, 1) \in Pieces(1) /\ Part(ws, o, 1)[1] = Token(ws, 1 + o)
    BY <1>1, <2>1, PartType
  <2> QED BY <2>1, <2>2, FlatOne
<1>4. 1 \in Nat
  OBVIOUS
<1>5. FlattenSeq(Part(ws, o, 1 + (Len(x) - 1)))
        = Cat(FlattenSeq(Part(ws, o, 1)), FlattenSeq(Part(ws, o + 1, Len(x) - 1)))
  BY <1>1, <1>4, PartCat, Zenon
<1> QED BY <1>1, <1>2, <1>3, <1>5, Zenon

(* x begins with a quote, and has none on the right before its last word. *)
Begun(x) == x[1].left = "\"" /\ \A k \in 1 .. Len(x) - 1 : x[k].right # "\""

(* A text after an edge is printed as it is, and the place after it is in  *)
(* no text.                                                                *)
LEMMA TextPart ==
  ASSUME NEW ws \in Line, NEW o, NEW x, Here(ws, o, x), Len(x) >= 1, Edge(ws, o), Begun(x)
  PROVE  /\ FlattenSeq(Part(ws, o, Len(x))) = Cat(Sep(o), x)
         /\ x[Len(x)].right = "\"" => ~InText(ws, (o + Len(x)) + 1)
<1>1. /\ o \in Nat /\ o >= 1 /\ x \in Line /\ Len(x) \in Nat /\ Len(ws) \in Nat
      /\ o + Len(x) <= Len(ws) /\ o + 1 <= Len(ws) /\ Len(x) - 1 \in Nat
      /\ (o + 1) + (Len(x) - 1) <= Len(ws)
      /\ ws[o + 1] = x[1] /\ x[1] \in Words
  BY HereIs
<1>0. /\ o \in Nat /\ o >= 1 /\ Len(x) \in Nat /\ Len(ws) \in Nat /\ Len(x) >= 1
      /\ o + Len(x) <= Len(ws)
  BY <1>1, Zenon
<1>2. ASSUME NEW j \in 2 .. Len(x)
      PROVE  Token(ws, j + o) = Single(x[j]) /\ x[j] \in Words
  <2>1. /\ o + 1 \in 1 .. (j + o) - 1 /\ j \in 1 .. Len(x) /\ j + o # 2 /\ j + o \in 1 .. Len(ws)
        /\ \A m \in o + 1 .. (j + o) - 1 : m - o \in 1 .. Len(x) - 1 /\ m - o \in 1 .. Len(x)
                                           /\ (m - o) + o = m
    BY <1>0
  <2>2. \A m \in o + 1 .. (j + o) - 1 : ws[m].right # "\""
    <3> SUFFICES ASSUME NEW m \in o + 1 .. (j + o) - 1  PROVE ws[m].right # "\""
      OBVIOUS
    <3>1. ws[(m - o) + o] = x[m - o] /\ (m - o) + o = m /\ x[m - o].right # "\""
      BY <2>1, Zenon DEF Here, Begun
    <3> QED BY <3>1
  <2>3. InText(ws, j + o)
    <3>1. ws[o + 1].left = "\""
      BY <1>1 DEF Begun
    <3> QED BY <2>1, <2>2, <3>1, Zenon DEF InText
  <2>4. ~CallEnd(ws, j + o)
    <3>1. ASSUME NEW i \in 2 .. (j + o) - 1  PROVE ~Run(ws, i, j + o)
      <4>1. j + o \in i .. j + o
        BY <1>0
      <4> QED BY <2>3, <4>1, Zenon DEF Run, Arg
    <3> QED BY <3>1, Zenon DEF CallEnd
  <2>5. ws[j + o] = x[j] /\ x[j] \in Words
    <3>1. x[j] \in Words
      BY <1>1, <2>1, LenLine
    <3> QED BY <2>1, <3>1, Zenon DEF Here
  <2>6. Token(ws, j + o) = Cat(Cat(<<>>, Single(x[j])), <<>>)
    BY <2>3, <2>4, <2>5, Zenon DEF Token, Opening, Closing
  <2>7. Cat(Cat(<<>>, Single(x[j])), <<>>) = Single(x[j])
    <3>1. Single(x[j]) \in Line
      BY <2>5, SingleLine
    <3> QED BY <3>1, CatNil, Zenon
  <2> QED BY <2>5, <2>6, <2>7, Zenon
<1>3. Part(ws, o + 1, Len(x) - 1) = Singles(Rest(x))
  <2>1. /\ Rest(x) \in Line /\ Len(Rest(x)) = Len(x) - 1
        /\ \A k \in 1 .. Len(x) - 1 : Rest(x)[k] = x[k + 1]
    BY <1>1, RestLine
  <2>2. ASSUME NEW k \in 1 .. Len(x) - 1  PROVE Token(ws, k + (o + 1)) = Single(Rest(x)[k])
    <3>1. k + 1 \in 2 .. Len(x) /\ (k + 1) + o = k + (o + 1)
      BY <1>0
    <3>2. Token(ws, (k + 1) + o) = Single(x[k + 1])
      BY <1>2, <3>1, Zenon
    <3> QED BY <2>1, <3>1, <3>2, Zenon
  <2> QED BY <2>1, <2>2, Zenon DEF Part, Singles
<1>4. FlattenSeq(Part(ws, o + 1, Len(x) - 1)) = Rest(x)
  <2>1. Rest(x) \in Line
    BY <1>1, RestLine
  <2> QED BY <1>3, <2>1, FlatSingles
<1>5. FlattenSeq(Part(ws, o, Len(x))) = Cat(Cat(Sep(o), Single(x[1])), Rest(x))
  BY <1>4, PartCons
<1>6. Cat(Cat(Sep(o), Single(x[1])), Rest(x)) = Cat(Sep(o), Cat(Single(x[1]), Rest(x)))
  <2>1. Single(x[1]) \in Line /\ Rest(x) \in Line /\ Sep(o) \in Line
    BY <1>1, SingleLine, RestLine, SepLine
  <2> QED BY <2>1, CatAssoc
<1>7. Cat(Single(x[1]), Rest(x)) = x
  BY <1>1, LineCons
<1>8. x[Len(x)].right = "\"" => ~InText(ws, (o + Len(x)) + 1)
  <2>1. o + Len(x) \in Nat /\ o + Len(x) >= 1 /\ Len(x) \in 1 .. Len(x) /\ Len(x) + o = o + Len(x)
    BY <1>0
  <2>2. ws[o + Len(x)] = x[Len(x)]
    BY <2>1, Zenon DEF Here
  <2> QED BY <2>1, <2>2, InsideStep
<1> QED BY <1>5, <1>6, <1>7, <1>8, Zenon

(* None of the words begins a text. *)
NoneBegun(ws, o, n) == \A j \in 1 .. n : ws[j + o].left # "\""

(* Then none of them is in a text. *)
LEMMA NotInside ==
  ASSUME NEW ws, NEW o \in Nat, o >= 1, NEW n \in Nat, ~InText(ws, o + 1), NoneBegun(ws, o, n)
  PROVE  \A j \in 1 .. n + 1 : ~InText(ws, j + o)
<1> SUFFICES ASSUME NEW j \in 1 .. n + 1, InText(ws, j + o)  PROVE FALSE
  OBVIOUS
<1>0. \A a, b \in Nat : \A d \in 1 .. b + 1 : \A c \in 1 .. (d + a) - 1 : c \in Nat
  OBVIOUS
<1>1. PICK i \in 1 .. (j + o) - 1 : ws[i].left = "\""
        /\ \A m \in i .. (j + o) - 1 : ws[m].right # "\""
  BY Zenon DEF InText
<1>2. i <= o
  <2> SUFFICES ASSUME ~(i <= o)  PROVE FALSE
    OBVIOUS
  <2>1. i - o \in 1 .. n /\ (i - o) + o = i
    <3>1. \A a, b, c \in Nat : \A d \in 1 .. b + 1 : c \in 1 .. (d + a) - 1 /\ ~(c <= a) =>
            c - a \in 1 .. b /\ (c - a) + a = c
      OBVIOUS
    <3>2. i \in Nat
      BY <1>0, Zenon
    <3> QED BY <3>1, <3>2, Zenon
  <2> QED BY <1>1, <2>1 DEF NoneBegun
<1>3. i \in 1 .. (o + 1) - 1 /\ \A m \in i .. (o + 1) - 1 : m \in i .. (j + o) - 1
  <2>1. \A a, b, c \in Nat : \A d \in 1 .. b + 1 : c \in 1 .. (d + a) - 1 /\ c <= a =>
          c \in 1 .. (a + 1) - 1 /\ \A m \in c .. (a + 1) - 1 : m \in c .. (d + a) - 1
    OBVIOUS
  <2>2. i \in Nat
    BY <1>0, Zenon
  <2> QED BY <1>2, <2>1, <2>2, Zenon
<1> QED BY <1>1, <1>3, Zenon DEF InText

(* Pieces between p and q. *)
LEMMA FlatWrapped ==
  ASSUME NEW m \in Nat, m >= 1, NEW c, c \in Pieces(m), NEW g, g \in Pieces(m),
         NEW p \in Line, NEW q \in Line,
         \A j \in 1 .. m : g[j]
             = Cat(Cat(IF j = 1 THEN p ELSE <<>>, c[j]), IF j = m THEN q ELSE <<>>)
  PROVE  FlattenSeq(g) = Cat(Cat(p, FlattenSeq(c)), q)
<1> DEFINE h == [j \in 1 .. m |-> Cat(IF j = 1 THEN p ELSE <<>>, c[j])]
<1>0. \A j \in 1 .. m : c[j] \in Line
  BY PiecesAt
<1>1. h \in Pieces(m) /\ \A j \in 1 .. m : h[j] = Cat(IF j = 1 THEN p ELSE <<>>, c[j])
  <2>1. \A j \in 1 .. m : Cat(IF j = 1 THEN p ELSE <<>>, c[j]) \in Line
    BY <1>0, NilLine, CatLine
  <2> QED BY <2>1 DEF Pieces
<1> HIDE DEF h
<1>2. FlattenSeq(h) = Cat(p, FlattenSeq(c))
  <2> DEFINE n == m - 1
  <2>1. n \in Nat /\ 1 + n = m /\ 1 \in 1 .. m /\ 1 \in Nat /\ 1 + n <= m
          /\ \A k \in 1 .. n : 1 + k \in 1 .. m /\ 1 + k # 1
    OBVIOUS
  <2> HIDE DEF n
  <2>2. h \in Pieces(1 + n) /\ c \in Pieces(1 + n)
    BY <1>1, <2>1, Zenon
  <2>3. FlattenSeq(h) = Cat(h[1], FlattenSeq(Shifted(h, 1, n)))
    BY <2>1, <2>2, FlatCons, Zenon
  <2>4. FlattenSeq(c) = Cat(c[1], FlattenSeq(Shifted(c, 1, n)))
    BY <2>1, <2>2, FlatCons, Zenon
  <2>5. ASSUME NEW k \in 1 .. n  PROVE h[1 + k] = c[1 + k]
    <3>1. h[1 + k] = Cat(<<>>, c[1 + k]) /\ c[1 + k] \in Line
      BY <1>0, <1>1, <2>1, Zenon
    <3> QED BY <3>1, CatNil, Zenon
  <2>6. Shifted(h, 1, n) = Shifted(c, 1, n)
    BY <2>5, Zenon DEF Shifted
  <2>7. h[1] = Cat(p, c[1])
    BY <1>1, <2>1, Zenon
  <2>8. c[1] \in Line
    BY <1>0, <2>1, Zenon
  <2>9. Shifted(c, 1, n) \in Pieces(n)
    BY <2>1, ShiftedType, Zenon
  <2>10. FlattenSeq(Shifted(c, 1, n)) \in Line
    BY <2>1, <2>9, FlatLine, Zenon
  <2>11. Cat(Cat(p, c[1]), FlattenSeq(Shifted(c, 1, n)))
           = Cat(p, Cat(c[1], FlattenSeq(Shifted(c, 1, n))))
    BY <2>8, <2>10, CatAssoc
  <2> QED BY <2>3, <2>4, <2>6, <2>7, <2>11, Zenon
<1>3. FlattenSeq(g) = Cat(FlattenSeq(h), q)
  <2> DEFINE n == m - 1
  <2>1. n \in Nat /\ n + 1 = m /\ m \in 1 .. m /\ n <= m /\ \A k \in 1 .. n : k \in 1 .. m /\ k # m
    OBVIOUS
  <2> HIDE DEF n
  <2>2. h \in Pieces(n + 1) /\ g \in Pieces(n + 1)
    BY <1>1, <2>1, Zenon
  <2>3. FlattenSeq(h) = Cat(FlattenSeq(Firsts(h, n)), h[m])
    <3>1. FlattenSeq(h) = Cat(FlattenSeq(Firsts(h, n)), h[n + 1])
      BY <2>1, <2>2, FlatSnoc, Zenon
    <3> QED BY <2>1, <3>1, Zenon
  <2>4. FlattenSeq(g) = Cat(FlattenSeq(Firsts(g, n)), g[m])
    <3>1. FlattenSeq(g) = Cat(FlattenSeq(Firsts(g, n)), g[n + 1])
      BY <2>1, <2>2, FlatSnoc, Zenon
    <3> QED BY <2>1, <3>1, Zenon
  <2>5. \A k \in 1 .. m : h[k] \in Line
    BY <1>1, PiecesAt
  <2>6. ASSUME NEW k \in 1 .. n  PROVE g[k] = h[k]
    <3>1. k \in 1 .. m /\ k # m
      BY <2>1, Zenon
    <3>2. g[k] = Cat(h[k], <<>>) /\ h[k] \in Line
      BY <1>1, <2>5, <3>1, Zenon
    <3> QED BY <3>2, CatNil, Zenon
  <2>7. Firsts(g, n) = Firsts(h, n)
    BY <2>6, Zenon DEF Firsts
  <2>8. g[m] = Cat(h[m], q) /\ h[m] \in Line
    BY <1>1, <2>1, <2>5, Zenon
  <2>9. Firsts(h, n) \in Pieces(n)
    BY <1>1, <2>1, FirstsType, Zenon
  <2>10. FlattenSeq(Firsts(h, n)) \in Line
    BY <2>1, <2>9, FlatLine, Zenon
  <2>11. Cat(Cat(FlattenSeq(Firsts(h, n)), h[m]), q) = Cat(FlattenSeq(Firsts(h, n)), Cat(h[m], q))
    BY <2>8, <2>10, CatAssoc
  <2> QED BY <2>3, <2>4, <2>7, <2>8, <2>11, Zenon
<1> QED BY <1>2, <1>3, Zenon
-----------------------------------------------------------------------------
(* Words between two edges are printed as a call of the first. *)

(* All words may be arguments. *)
AllArgs(x) == \A k \in 1 .. Len(x) : WordArg(x[k])

(* After an edge they are arguments, and the place behind them is in no    *)
(* text.                                                                   *)
LEMMA ArgsHere ==
  ASSUME NEW ws \in Line, NEW o, NEW x, Here(ws, o, x), Len(x) >= 1, Edge(ws, o), AllArgs(x)
  PROVE  /\ \A j \in 1 .. Len(x) : Arg(ws, j + o)
         /\ ~InText(ws, (o + Len(x)) + 1)
<1>1. /\ o \in Nat /\ o >= 1 /\ x \in Line /\ Len(x) \in Nat /\ Len(ws) \in Nat
      /\ o + Len(x) <= Len(ws)
  BY HereIs, Zenon
<1>2. \A j \in 1 .. Len(x) : j + o \in 1 .. Len(ws) /\ j \in 1 .. Len(x) + 1
  BY <1>1
<1>3. DOMAIN ws = 1 .. Len(ws)
  BY LenLine
<1>4. NoneBegun(ws, o, Len(x))
  <2>1. ASSUME NEW j \in 1 .. Len(x)  PROVE ws[j + o].left # "\""
    <3>1. ws[j + o] = x[j] /\ WordArg(x[j])
      BY Zenon DEF Here, AllArgs
    <3> QED BY <3>1 DEF WordArg, Unmarked
  <2> QED BY <2>1 DEF NoneBegun
<1>5. \A j \in 1 .. Len(x) + 1 : ~InText(ws, j + o)
  BY <1>1, <1>4, NotInside, Zenon DEF Edge
<1>6. ASSUME NEW j \in 1 .. Len(x)  PROVE Arg(ws, j + o)
  <2>1. ws[j + o] = x[j] /\ WordArg(x[j])
    BY Zenon DEF Here, AllArgs
  <2> QED BY <1>2, <1>3, <1>5, <2>1, Zenon DEF Arg
<1>7. ~InText(ws, (o + Len(x)) + 1)
  <2>1. Len(x) + 1 \in 1 .. Len(x) + 1 /\ (Len(x) + 1) + o = (o + Len(x)) + 1
    BY <1>1
  <2> QED BY <1>5, <2>1, Zenon
<1> QED BY <1>6, <1>7

(* So they are a run. *)
LEMMA RunHere ==
  ASSUME NEW ws, NEW o \in Nat, NEW n \in Nat, \A j \in 1 .. n : Arg(ws, j + o),
         NEW k \in Nat, k <= n
  PROVE  Run(ws, o + 1, k + o)
<1>1. ASSUME NEW j \in o + 1 .. k + o  PROVE Arg(ws, j)
  <2>1. \A a, b, c \in Nat : \A d \in a + 1 .. c + a : c <= b => d - a \in 1 .. b /\ (d - a) + a = d
    OBVIOUS
  <2>2. j - o \in 1 .. n /\ (j - o) + o = j
    BY <2>1, Zenon
  <2> QED BY <2>2
<1> QED BY <1>1 DEF Run

(* What is around the j-th word of a call of n words. *)
Around(j, n, s) ==
  Cat(Cat(IF j = 2 THEN Sign("(") ELSE Sign(","), s), IF j = n THEN Sign(")") ELSE <<>>)

(* The tokens of such words between two edges are those of a call. *)
LEMMA CallTokens ==
  ASSUME NEW ws \in Line, NEW o, NEW x, Here(ws, o, x), Len(x) >= 2, Edge(ws, o),
         Edge(ws, o + Len(x)),
         AllArgs(x), Identifier(x[1]), NEW j \in 2 .. Len(x)
  PROVE  Token(ws, j + o) = Around(j, Len(x), Single(x[j]))
<1> DEFINE n == Len(x)
<1>0. /\ o \in Nat /\ o >= 1 /\ x \in Line /\ n \in Nat /\ Len(ws) \in Nat
      /\ o + n <= Len(ws) /\ n >= 1 /\ ws[o + 1] = x[1]
  <2>1. n >= 1 /\ n \in Nat
    <3>1. n \in Nat
      BY LenLine DEF Here
    <3> QED BY <3>1
  <2> QED BY <2>1, HereIs, Zenon
<1>1. \A i \in 1 .. n : Arg(ws, i + o)
  BY <1>0, ArgsHere, Zenon
<1> HIDE DEF n
<1>2. /\ o \in Nat /\ o >= 1 /\ n \in Nat /\ n >= 2 /\ j \in 2 .. n /\ j \in Nat /\ o + n \in Nat
  <2>1. o \in Nat /\ o >= 1 /\ n \in Nat
    BY <1>0, Zenon
  <2> QED BY <2>1 DEF n
<1>3. /\ j \in 1 .. n /\ j + o # 2 /\ (j + o) - 1 = (j - 1) + o /\ j - 1 \in Nat /\ j - 1 \in 1 .. n
      /\ (j + o) + 1 = (j + 1) + o /\ o + 1 \in Nat /\ o + 1 \in 2 .. (j + o) - 1 /\ j <= n
      /\ (o + 1) + 1 = 2 + o /\ 2 <= n /\ j - 1 <= n /\ o + n # 1 /\ n \in 1 .. n
      /\ n + o = o + n /\ (j = 2 => (j + o) - 1 = o + 1)
      /\ (j # n => j + 1 \in 1 .. n) /\ (j # 2 => o + 1 \in 2 .. (j - 1 + o) - 1)
  BY <1>2
<1>4. Identifier(ws[o + 1])
  BY <1>0
<1>5. ws[j + o] = x[j]
  BY <1>3, Zenon DEF Here, n
<1>6. Calls(ws, o + 1)
  <2>1. Run(ws, o + 1, (o + 1) + 1)
    <3>1. 2 \in Nat
      OBVIOUS
    <3>2. Run(ws, o + 1, 2 + o)
      BY <1>1, <1>2, <1>3, <3>1, RunHere, Zenon
    <3> QED BY <1>3, <3>2, Zenon
  <2>2. ASSUME NEW i \in 2 .. (o + 1) - 1  PROVE ~Run(ws, i, o + 1)
    <3>1. i \in 2 .. o /\ o + 1 \in Nat /\ o + 1 <= o + 1
      BY <1>2
    <3> QED BY <1>2, <3>1, EdgeRun
  <2> QED BY <1>4, <2>1, <2>2, Zenon DEF Calls
<1>7. Opening(ws, j + o) = IF j = 2 THEN Sign("(") ELSE Sign(",")
  <2>1. ~InText(ws, j + o)
    BY <1>1, <1>3, Zenon DEF Arg
  <2>2. CASE j = 2
    BY <1>3, <1>6, <2>1, <2>2, Zenon DEF Opening
  <2>3. CASE j # 2
    <3>1. Run(ws, o + 1, (j - 1) + o)
      BY <1>1, <1>2, <1>3, RunHere, Zenon
    <3>2. ~Calls(ws, (j - 1) + o)
      BY <1>3, <1>4, <2>3, <3>1, Zenon DEF Calls
    <3> QED BY <1>3, <2>1, <2>3, <3>2, Zenon DEF Opening
  <2> QED BY <2>2, <2>3
<1>8. Closing(ws, j + o) = IF j = n THEN Sign(")") ELSE <<>>
  <2>1. CASE j = n
    <3>1. Arg(ws, o + n)
      BY <1>1, <1>3, Zenon
    <3>2. ~Arg(ws, (o + n) + 1)
      BY <1>3, <3>1, Zenon DEF Edge, n
    <3>3. (j + o) + 1 = (o + n) + 1
      BY <1>2, <2>1
    <3>4. Run(ws, o + 1, j + o)
      BY <1>1, <1>2, <1>3, RunHere, Zenon
    <3>5. CallEnd(ws, j + o)
      BY <1>3, <1>6, <3>2, <3>3, <3>4, Zenon DEF CallEnd
    <3> QED BY <2>1, <3>5, Zenon DEF Closing
  <2>2. CASE j # n
    <3>1. Arg(ws, (j + o) + 1)
      BY <1>1, <1>3, <2>2, Zenon
    <3> QED BY <2>2, <3>1, Zenon DEF Closing, CallEnd
  <2> QED BY <2>1, <2>2
<1> QED BY <1>5, <1>7, <1>8, Zenon DEF Token, Around, n

(* Such words between two edges are printed as a call of the first. *)
LEMMA CallPart ==
  ASSUME NEW ws \in Line, NEW o, NEW x, Here(ws, o, x), Len(x) >= 2, Edge(ws, o),
         Edge(ws, o + Len(x)),
         AllArgs(x), Identifier(x[1])
  PROVE  FlattenSeq(Part(ws, o, Len(x)))
           = Cat(Sep(o), Called(Single(x[1]), Comma(Singles(Rest(x)))))
<1> DEFINE m == Len(x) - 1
           s == Singles(Rest(x))
           g == Part(ws, o + 1, m)
<1>0. Len(x) >= 1
  <2>1. Len(x) \in Nat
    BY LenLine DEF Here
  <2> QED BY <2>1
<1>1. /\ o \in Nat /\ o >= 1 /\ x \in Line /\ Len(x) \in Nat /\ Len(ws) \in Nat
      /\ m \in Nat /\ (o + 1) + m <= Len(ws) /\ x[1] \in Words
  BY <1>0, HereIs, Zenon
<1>2. /\ o \in Nat /\ m \in Nat /\ m >= 1 /\ o + 1 \in Nat
      /\ \A j \in 1 .. m : /\ j + 1 \in 2 .. Len(x) /\ (j + 1) + o = j + (o + 1)
                           /\ (j + 1 = 2 <=> j = 1) /\ (j + 1 = Len(x) <=> j = m)
  <2>1. o \in Nat /\ Len(x) \in Nat
    BY <1>1, Zenon
  <2> QED BY <2>1
<1>3. /\ Rest(x) \in Line /\ Len(Rest(x)) = m /\ \A k \in 1 .. m : Rest(x)[k] = x[k + 1]
  BY <1>0, <1>1, RestLine
<1> HIDE DEF m
<1>4. s \in Pieces(m) /\ \A k \in 1 .. m : s[k] = Single(x[k + 1])
  BY <1>3, SinglesType
<1> HIDE DEF s
<1>5. /\ Commas(s) \in Pieces(m)
      /\ \A k \in 1 .. m : Commas(s)[k] = IF k = 1 THEN s[k] ELSE Cat(Sign(","), s[k])
  <2>1. m \in Nat /\ s \in Pieces(m)
    BY <1>2, <1>4, Zenon
  <2> QED BY <2>1, CommasType
<1>6. g \in Pieces(m) /\ \A j \in 1 .. m : g[j] = Token(ws, j + (o + 1))
  <2>1. m \in Nat /\ o + 1 \in Nat /\ (o + 1) + m <= Len(ws)
    BY <1>1, <1>2, Zenon
  <2> QED BY <2>1, PartType
<1> HIDE DEF g
<1>7. ASSUME NEW j \in 1 .. m
      PROVE  g[j] = Cat(Cat(IF j = 1 THEN Sign("(") ELSE <<>>, Commas(s)[j]),
                        IF j = m THEN Sign(")") ELSE <<>>)
  <2>1. g[j] = Cat(Cat(IF j = 1 THEN Sign("(") ELSE Sign(","), Single(x[j + 1])),
                   IF j = m THEN Sign(")") ELSE <<>>)
    <3>1. j + 1 \in 2 .. Len(x) /\ (j + 1) + o = j + (o + 1)
          /\ (j + 1 = 2 <=> j = 1) /\ (j + 1 = Len(x) <=> j = m)
      BY <1>2, Zenon
    <3>2. Token(ws, (j + 1) + o) = Around(j + 1, Len(x), Single(x[j + 1]))
      <4> DEFINE k == j + 1
      <4>1. k \in 2 .. Len(x)
        BY <3>1, Zenon
      <4> HIDE DEF k
      <4>2. Token(ws, k + o) = Around(k, Len(x), Single(x[k]))
        BY <4>1, CallTokens
      <4> QED BY <4>2, Zenon DEF k
    <3>3. Around(j + 1, Len(x), Single(x[j + 1]))
            = Cat(Cat(IF j = 1 THEN Sign("(") ELSE Sign(","), Single(x[j + 1])),
                  IF j = m THEN Sign(")") ELSE <<>>)
      BY <3>1, Zenon DEF Around
    <3> QED BY <1>6, <3>1, <3>2, <3>3, Zenon
  <2>2. s[j] = Single(x[j + 1]) /\ s[j] \in Line
    BY <1>2, <1>4, PiecesAt, Zenon
  <2>3. CASE j = 1
    BY <1>5, <2>1, <2>2, <2>3, Zenon
  <2>4. CASE j # 1
    <3>1. Cat(<<>>, Commas(s)[j]) = Cat(Sign(","), Single(x[j + 1]))
      <4>1. Commas(s)[j] = Cat(Sign(","), Single(x[j + 1]))
        BY <1>5, <2>2, <2>4, Zenon
      <4>2. Commas(s)[j] \in Line
        BY <1>2, <1>5, PiecesAt, Zenon
      <4> QED BY <4>1, <4>2, CatNil, Zenon
    <3> QED BY <2>1, <2>4, <3>1, Zenon
  <2> QED BY <2>3, <2>4
<1>8. Sign("(") \in Line /\ Sign(")") \in Line
  BY SignLine, Known
<1>9. FlattenSeq(g) = Cat(Cat(Sign("("), Comma(s)), Sign(")"))
  <2> DEFINE c == Commas(s)
             p == Sign("(")
             q == Sign(")")
  <2>1. m \in Nat /\ m >= 1 /\ c \in Pieces(m) /\ g \in Pieces(m) /\ p \in Line /\ q \in Line
    BY <1>2, <1>5, <1>6, <1>8, Zenon
  <2>2. \A j \in 1 .. m : g[j]
          = Cat(Cat(IF j = 1 THEN p ELSE <<>>, c[j]), IF j = m THEN q ELSE <<>>)
    BY <1>7, Zenon
  <2> HIDE DEF c, p, q
  <2>3. FlattenSeq(g) = Cat(Cat(p, FlattenSeq(c)), q)
    BY <2>1, <2>2, FlatWrapped
  <2> QED BY <2>3, CommaIs, Zenon DEF c, p, q
<1>10. FlattenSeq(Part(ws, o, Len(x))) = Cat(Cat(Sep(o), Single(x[1])), FlattenSeq(g))
  BY <1>0, PartCons, Zenon DEF g, m
<1>11. Single(x[1]) \in Line /\ Sep(o) \in Line /\ Comma(s) \in Line
  BY <1>1, <1>2, <1>4, SingleLine, SepLine, CommaLine, Zenon
<1>12. Cat(Cat(Sign("("), Comma(s)), Sign(")")) \in Line
  <2>1. Cat(Sign("("), Comma(s)) \in Line
    BY <1>8, <1>11, CatLine
  <2> QED BY <1>8, <2>1, CatLine
<1>13. Cat(Cat(Sep(o), Single(x[1])), Cat(Cat(Sign("("), Comma(s)), Sign(")")))
         = Cat(Sep(o), Cat(Single(x[1]), Cat(Cat(Sign("("), Comma(s)), Sign(")"))))
  BY <1>11, <1>12, CatAssoc
<1>14. Cat(Single(x[1]), Cat(Cat(Sign("("), Comma(s)), Sign(")"))) = Called(Single(x[1]), Comma(s))
  BY <1>11, CalledIs
<1> QED BY <1>9, <1>10, <1>13, <1>14, Zenon DEF s
-----------------------------------------------------------------------------
(* So an expression between two edges becomes what it means, if it is one  *)
(* of those that are found in a print.                                     *)

(* The three sorts of expressions that print takes. *)
IsQuote(e, x) == /\ IsText(e) /\ Begun(x) /\ x[Len(x)].right = "\"" /\ x[1].left = "\""
                 /\ ExprPython(e) = x
(* x is a single word, and means itself. *)
IsOne(e, x)   == ~IsText(e) /\ AllArgs(x) /\ Len(x) = 1 /\ ExprPython(e) = x

(* x is a call of its first word, and means that. *)
IsCall(e, x)  == /\ ~IsText(e) /\ AllArgs(x) /\ Len(x) >= 2 /\ Identifier(x[1])
                 /\ ExprPython(e) = Called(Single(x[1]), Comma(Singles(Rest(x))))

(* A text is one. *)
LEMMA TextShape ==
  ASSUME NEW e \in Expressions, IsExpression(e), IsText(e)
  PROVE  IsQuote(e, Spoken(e))
<1>1. e.form = "value" /\ e.items[1].literal
  BY DEF IsText
<1>2. /\ 1 \in 1 .. Len(e.items) /\ Spoken(e) = ItemPython(e.items[1])
      /\ ExprPython(e) = ItemPython(e.items[1])
  BY <1>1, ValueForm
<1> DEFINE item == e.items[1]
           n == Len(item.texts)
<1>3. item \in Items /\ item.literal /\ n \in Nat /\ n >= 1 /\ Len(ItemPython(item)) = n
  BY <1>1, <1>2, ExprItems
<1> HIDE DEF item
<1>4. \A k \in 1 .. n : /\ ItemPython(item)[k].left = IF k = 1 THEN "\"" ELSE ""
                        /\ ItemPython(item)[k].right = IF k = n THEN "\"" ELSE ""
  BY <1>3, TextWords, Zenon
<1>5. 1 \in 1 .. n /\ n \in 1 .. n /\ \A k \in 1 .. n - 1 : k \in 1 .. n /\ k # n
  BY <1>3
<1>6. ItemPython(item)[1].left = "\"" /\ ItemPython(item)[n].right = "\""
  BY <1>4, <1>5, Zenon
<1>7. \A k \in 1 .. n - 1 : ItemPython(item)[k].right # "\""
  <2>1. "" # "\""
    OBVIOUS
  <2> QED BY <1>4, <1>5, <2>1, Zenon
<1> QED BY <1>2, <1>3, <1>6, <1>7, Zenon DEF IsQuote, Begun, item

(* An expression that is found in a print is one of the three. *)
LEMMA FoundShape ==
  ASSUME NEW e \in Expressions, IsExpression(e), FoundInPrint(e)
  PROVE  IsQuote(e, Spoken(e)) \/ IsOne(e, Spoken(e)) \/ IsCall(e, Spoken(e))
<1>1. CASE IsText(e)
  BY <1>1, TextShape
<1>2. CASE e.form = "value" /\ ~IsText(e)
  <2>1. /\ 1 \in 1 .. Len(e.items) /\ Spoken(e) = ItemPython(e.items[1])
        /\ ExprPython(e) = ItemPython(e.items[1])
    BY <1>2, ValueForm
  <2> DEFINE item == e.items[1]
  <2>2. item \in Items /\ IsItem(item) /\ Len(ItemPython(item)) = Len(item.texts)
    BY <2>1, ExprItems
  <2>3. ~item.literal /\ Len(item.texts) = 1
    BY <1>2 DEF IsText, FoundInPrint
  <2>4. IsAtom(item.texts[1])
    BY <2>2, <2>3 DEF IsItem
  <2>5. item.texts[1] \notin Symbols
    BY <2>4 DEF IsAtom, IsName, Numbers, Operators, Symbols, Equals
  <2>6. 1 \in 1 .. Len(item.texts)
    BY <2>3
  <2> HIDE DEF item
  <2>7. ItemPython(item)[1].text = item.texts[1]
        /\ ItemPython(item)[1].left = "" /\ ItemPython(item)[1].right = ""
    BY <2>2, <2>3, <2>6, PlainWords
  <2>8. WordArg(ItemPython(item)[1])
    BY <2>5, <2>7 DEF WordArg, Unmarked
  <2>9. AllArgs(ItemPython(item))
    <3>1. \A k \in 1 .. 1 : k = 1
      OBVIOUS
    <3> QED BY <2>2, <2>3, <2>8, <3>1, Zenon DEF AllArgs
  <2>10. IsOne(e, ItemPython(item))
    BY <1>2, <2>1, <2>2, <2>3, <2>9, Zenon DEF IsOne, item
  <2> QED BY <2>1, <2>10, Zenon DEF item
<1>3. CASE e.form = "call"
  <2>1. NoLiteral(e)
    <3>1. DOMAIN e.items = 1 .. Len(e.items)
      BY ExprParts
    <3> QED BY <1>3, <3>1 DEF NoLiteral, FoundInPrint
  <2>2. /\ Len(Spoken(e)) = Len(e.items) + 1 /\ Len(e.items) \in Nat
        /\ \A k \in 1 .. Len(Spoken(e)) : WordArg(Spoken(e)[k])
        /\ Identifier(Spoken(e)[1])
        /\ Spoken(e) = Cat(Single(Plainly(e.head[1])), Body(e))
        /\ Pythons(e.items) = Singles(Body(e))
    BY <1>3, <2>1, CallFound, Zenon
  <2>3. /\ Len(e.items) >= 1 /\ Plainly(e.head[1]) \in Words
        /\ ExprPython(e) = Called(Single(Plainly(e.head[1])), Comma(Pythons(e.items)))
    BY <1>3, CallForm
  <2>4. Len(Spoken(e)) >= 2
    BY <2>2, <2>3
  <2>5. Spoken(e)[1] = Plainly(e.head[1]) /\ Rest(Spoken(e)) = Body(e)
    <3>1. Body(e) \in Line
      BY BodyLine
    <3>2. /\ Cat(Single(Plainly(e.head[1])), Body(e))[1] = Plainly(e.head[1])
          /\ Rest(Cat(Single(Plainly(e.head[1])), Body(e))) = Body(e)
      BY <2>3, <3>1, RestCat
    <3> QED BY <2>2, <3>2, Zenon
  <2>6. ~IsText(e)
    BY <1>3 DEF IsText
  <2>7. ExprPython(e) = Called(Single(Spoken(e)[1]), Comma(Singles(Rest(Spoken(e)))))
    BY <2>2, <2>3, <2>5, Zenon
  <2>8. AllArgs(Spoken(e))
    BY <2>2, Zenon DEF AllArgs
  <2> QED BY <2>2, <2>4, <2>6, <2>7, <2>8, Zenon DEF IsCall
<1>4. e.form \in {"value", "call"}
  <2>1. e.form \in {"value", "call", "lambda"}
    BY ExprParts
  <2>2. e.form # "lambda"
    BY DEF FoundInPrint
  <2> QED BY <2>1, <2>2, Zenon
<1> QED BY <1>1, <1>2, <1>3, <1>4, Zenon

(* After an expression no text is open. *)
LEMMA ExprOut ==
  ASSUME NEW ws \in Line, NEW o, NEW e \in Expressions, IsExpression(e), FoundInPrint(e),
         Here(ws, o, Spoken(e)), Edge(ws, o)
  PROVE  ~InText(ws, (o + Len(Spoken(e))) + 1)
<1>1. Len(Spoken(e)) >= 1
  BY ExprLines
<1>2. CASE IsQuote(e, Spoken(e))
  BY <1>1, <1>2, TextPart, Zenon DEF IsQuote
<1>3. CASE AllArgs(Spoken(e))
  BY <1>1, <1>3, ArgsHere, Zenon
<1> QED BY <1>2, <1>3, FoundShape, Zenon DEF IsOne, IsCall

(* The tokens of an expression are its Python. *)
LEMMA ExprPart ==
  ASSUME NEW ws \in Line, NEW o, NEW e \in Expressions, IsExpression(e), FoundInPrint(e),
         Here(ws, o, Spoken(e)), Edge(ws, o), Edge(ws, o + Len(Spoken(e)))
  PROVE  FlattenSeq(Part(ws, o, Len(Spoken(e)))) = Cat(Sep(o), ExprPython(e))
<1>1. Len(Spoken(e)) >= 1 /\ Spoken(e) \in Line
  BY ExprLines
<1>2. CASE IsQuote(e, Spoken(e))
  BY <1>1, <1>2, TextPart, Zenon DEF IsQuote
<1>3. CASE IsOne(e, Spoken(e))
  <2> DEFINE x == Spoken(e)
  <2>1. x \in Line /\ Len(x) = 1 /\ ExprPython(e) = x
    BY <1>1, <1>3, Zenon DEF IsOne
  <2>2. FlattenSeq(Part(ws, o, 1)) = Cat(Sep(o), Single(x[1]))
    BY <1>1, PartCons
  <2>3. Single(x[1]) = x
    <3> HIDE DEF x
    <3>1. 1 \in 1 .. Len(x) /\ \A k \in 1 .. Len(x) : k = 1
      BY <2>1
    <3>2. x[1] \in Words
      BY <2>1, <3>1, LenLine
    <3>3. Single(x[1]) \in Line /\ Len(Single(x[1])) = 1 /\ Single(x[1])[1] = x[1]
      BY <3>2, SingleLine
    <3>4. \A k \in 1 .. Len(Single(x[1])) : Single(x[1])[k] = x[k]
      BY <2>1, <3>1, <3>3, Zenon
    <3> QED BY <2>1, <3>3, <3>4, LineEqual
  <2> QED BY <2>1, <2>2, <2>3, Zenon
<1>4. CASE IsCall(e, Spoken(e))
  <2>1. /\ AllArgs(Spoken(e)) /\ Len(Spoken(e)) >= 2 /\ Identifier(Spoken(e)[1])
        /\ ExprPython(e) = Called(Single(Spoken(e)[1]), Comma(Singles(Rest(Spoken(e)))))
    BY <1>4, Zenon DEF IsCall
  <2>2. FlattenSeq(Part(ws, o, Len(Spoken(e))))
          = Cat(Sep(o), Called(Single(Spoken(e)[1]), Comma(Singles(Rest(Spoken(e))))))
    BY <2>1, CallPart
  <2> QED BY <2>1, <2>2, Zenon
<1> QED BY <1>2, <1>3, <1>4, FoundShape, Zenon
-----------------------------------------------------------------------------
(* Expressions one after the other. *)

(* All of the expressions are legal. *)
Legal(exprs) == \A k \in 1 .. Len(exprs) : IsExpression(exprs[k])

(* The words of the first k expressions. *)
Until(exprs, k) == FlattenSeq(Firsts(Spokens(exprs), k))

(* How many they are. *)
Reach(exprs, k) == Len(Until(exprs, k))

(* The first k expressions in Python, with commas between them. *)
Meant(exprs, k) == Comma(Firsts(ExprPythons(exprs), k))

(* The first m of the first n. *)
LEMMA FirstsAgain ==
  ASSUME NEW f, NEW m \in Nat, NEW n \in Nat, m <= n
  PROVE  Firsts(Firsts(f, n), m) = Firsts(f, m)
<1>1. \A k \in 1 .. m : k \in 1 .. n
  OBVIOUS
<1>2. \A k \in 1 .. m : Firsts(f, n)[k] = f[k]
  BY <1>1 DEF Firsts
<1>3. Firsts(Firsts(f, n), m) = [k \in 1 .. m |-> Firsts(f, n)[k]]
  BY Zenon DEF Firsts
<1>4. Firsts(f, m) = [k \in 1 .. m |-> f[k]]
  BY Zenon DEF Firsts
<1> QED BY <1>2, <1>3, <1>4

(* The first k + 1 are the first k and another. *)
LEMMA FirstsSnoc ==
  ASSUME NEW n \in Nat, NEW f, f \in Pieces(n), NEW k \in Nat, k + 1 <= n
  PROVE  /\ Firsts(f, k) \in Pieces(k) /\ Firsts(f, k + 1) \in Pieces(k + 1) /\ f[k + 1] \in Line
         /\ Firsts(Firsts(f, k + 1), k) = Firsts(f, k) /\ Firsts(f, k + 1)[k + 1] = f[k + 1]
<1>1. /\ k <= n /\ k + 1 \in Nat /\ k <= k + 1 /\ k + 1 \in 1 .. k + 1 /\ k + 1 \in 1 .. n
  OBVIOUS
<1>2. Firsts(f, k) \in Pieces(k)
  BY <1>1, FirstsType
<1>3. Firsts(f, k + 1) \in Pieces(k + 1) /\ Firsts(f, k + 1)[k + 1] = f[k + 1]
  <2> DEFINE m == k + 1
  <2>1. m \in Nat /\ m <= n /\ m \in 1 .. m
    BY <1>1
  <2> HIDE DEF m
  <2>2. Firsts(f, m) \in Pieces(m) /\ Firsts(f, m)[m] = f[m]
    BY <2>1, FirstsType
  <2> QED BY <2>2, Zenon DEF m
<1>4. f[k + 1] \in Line
  BY <1>1, PiecesAt
<1>5. Firsts(Firsts(f, k + 1), k) = Firsts(f, k)
  <2> DEFINE m == k + 1
  <2>1. m \in Nat /\ k <= m
    BY <1>1
  <2> HIDE DEF m
  <2>2. Firsts(Firsts(f, m), k) = Firsts(f, k)
    BY <2>1, FirstsAgain
  <2> QED BY <2>2, Zenon DEF m
<1> QED BY <1>2, <1>3, <1>4, <1>5

(* From k expressions to k + 1. *)
LEMMA ReachStep ==
  ASSUME NEW exprs \in Seq(Expressions), NEW k \in Nat, k + 1 <= Len(exprs)
  PROVE  /\ Until(exprs, k) \in Line /\ Until(exprs, k + 1) \in Line
         /\ Reach(exprs, k) \in Nat /\ Reach(exprs, k + 1) \in Nat
         /\ exprs[k + 1] \in Expressions /\ Spoken(exprs[k + 1]) \in Line
         /\ Until(exprs, k + 1) = Cat(Until(exprs, k), Spoken(exprs[k + 1]))
         /\ Reach(exprs, k + 1) = Reach(exprs, k) + Len(Spoken(exprs[k + 1]))
<1> DEFINE f == Spokens(exprs)
           n == Len(exprs)
<1>1. n \in Nat /\ f \in Pieces(n) /\ \A i \in 1 .. n : exprs[i] \in Expressions
        /\ f[i] = Spoken(exprs[i])
  BY SpokensType
<1> HIDE DEF f
<1>2. k + 1 \in 1 .. n /\ k + 1 \in Nat /\ k + 1 <= n
  BY <1>1
<1> HIDE DEF n
<1>3. /\ Firsts(f, k) \in Pieces(k) /\ Firsts(f, k + 1) \in Pieces(k + 1) /\ f[k + 1] \in Line
      /\ Firsts(Firsts(f, k + 1), k) = Firsts(f, k) /\ Firsts(f, k + 1)[k + 1] = f[k + 1]
  BY <1>1, <1>2, FirstsSnoc, ZenonT(40)
<1>4. FlattenSeq(Firsts(f, k + 1)) = Cat(FlattenSeq(Firsts(f, k)), f[k + 1])
  <2> DEFINE g == Firsts(f, k + 1)
  <2>1. g \in Pieces(k + 1)
    BY <1>3
  <2> HIDE DEF g
  <2>2. FlattenSeq(g) = Cat(FlattenSeq(Firsts(g, k)), g[k + 1])
    BY <2>1, FlatSnoc
  <2> QED BY <1>3, <2>2, Zenon DEF g
<1>5. FlattenSeq(Firsts(f, k)) \in Line
  BY <1>3, FlatLine
<1>6. f[k + 1] = Spoken(exprs[k + 1]) /\ exprs[k + 1] \in Expressions
  BY <1>1, <1>2, Zenon
<1>7. /\ Cat(FlattenSeq(Firsts(f, k)), f[k + 1]) \in Line
      /\ Len(Cat(FlattenSeq(Firsts(f, k)), f[k + 1]))
           = Len(FlattenSeq(Firsts(f, k))) + Len(f[k + 1])
  BY <1>3, <1>5, CatLine
<1>8. /\ Until(exprs, k) = FlattenSeq(Firsts(f, k))
      /\ Until(exprs, k + 1) = Cat(FlattenSeq(Firsts(f, k)), Spoken(exprs[k + 1]))
      /\ Reach(exprs, k) = Len(FlattenSeq(Firsts(f, k)))
      /\ Reach(exprs, k + 1) = Len(Cat(FlattenSeq(Firsts(f, k)), Spoken(exprs[k + 1])))
  BY <1>4, <1>6, Zenon DEF Until, Reach, f
<1>9. Reach(exprs, k) \in Nat /\ Reach(exprs, k + 1) \in Nat
  BY <1>5, <1>6, <1>7, <1>8, LenLine, Zenon
<1> QED BY <1>3, <1>5, <1>6, <1>7, <1>8, <1>9, Zenon

(* No expressions, no words. *)
LEMMA ReachNone ==
  ASSUME NEW exprs \in Seq(Expressions)
  PROVE  Until(exprs, 0) = <<>> /\ Reach(exprs, 0) = 0
<1>1. /\ Len(exprs) \in Nat /\ Spokens(exprs) \in Pieces(Len(exprs))
  BY SpokensType, Zenon
<1>2. 0 \in Nat /\ 0 <= Len(exprs)
  BY <1>1
<1>3. Firsts(Spokens(exprs), 0) \in Pieces(0)
  BY <1>1, <1>2, FirstsType
<1>4. FlattenSeq(Firsts(Spokens(exprs), 0)) = <<>>
  BY <1>3, FlatNone
<1> QED BY <1>4, NilLine DEF Until, Reach

(* There are words. *)
LEMMA ReachPositive ==
  ASSUME NEW exprs \in Seq(Expressions), Legal(exprs), NEW k \in 1 .. Len(exprs)
  PROVE  Reach(exprs, k) >= 1
<1>1. Len(exprs) \in Nat
  BY SpokensType
<1>2. k - 1 \in Nat /\ (k - 1) + 1 <= Len(exprs) /\ (k - 1) + 1 = k
  BY <1>1
<1>3. /\ Reach(exprs, k - 1) \in Nat /\ exprs[(k - 1) + 1] \in Expressions
      /\ Reach(exprs, (k - 1) + 1) = Reach(exprs, k - 1) + Len(Spoken(exprs[(k - 1) + 1]))
  BY <1>2, ReachStep
<1>4. IsExpression(exprs[k])
  BY DEF Legal
<1>5. Len(Spoken(exprs[k])) \in Nat /\ Len(Spoken(exprs[k])) >= 1
  BY <1>2, <1>3, <1>4, ExprLines
<1>6. \A a, b \in Nat : b >= 1 => a + b >= 1
  OBVIOUS
<1> QED BY <1>2, <1>3, <1>5, <1>6, Zenon

(* The expressions in Python are lines. *)
LEMMA PythonsAre ==
  ASSUME NEW exprs \in Seq(Expressions), Legal(exprs)
  PROVE  /\ Len(exprs) \in Nat /\ ExprPythons(exprs) \in Pieces(Len(exprs))
         /\ \A k \in 1 .. Len(exprs) : ExprPythons(exprs)[k] = ExprPython(exprs[k])
<1>1. Len(exprs) \in Nat /\ \A i \in 1 .. Len(exprs) : exprs[i] \in Expressions
  BY SpokensType
<1>2. DOMAIN exprs = 1 .. Len(exprs)
  BY LenProperties
<1>3. \A k \in 1 .. Len(exprs) : ExprPython(exprs[k]) \in Line
  BY <1>1, ExprLines DEF Legal
<1>4. ExprPythons(exprs) \in Pieces(Len(exprs))
  BY <1>2, <1>3 DEF ExprPythons, Pieces
<1>5. \A k \in 1 .. Len(exprs) : ExprPythons(exprs)[k] = ExprPython(exprs[k])
  BY <1>2 DEF ExprPythons
<1> QED BY <1>1, <1>4, <1>5, Zenon

(* From k expressions in Python to k + 1: a comma comes in between, unless *)
(* it is the first.                                                        *)
LEMMA MeantStep ==
  ASSUME NEW exprs \in Seq(Expressions), Legal(exprs), NEW k \in Nat, k + 1 <= Len(exprs)
  PROVE  /\ Meant(exprs, k) \in Line
         /\ Meant(exprs, k + 1)
              = Cat(Meant(exprs, k), Cat(Sep(1 + Reach(exprs, k)), ExprPython(exprs[k + 1])))
<1> DEFINE f == ExprPythons(exprs)
           n == Len(exprs)
<1>1. n \in Nat /\ f \in Pieces(n) /\ \A i \in 1 .. n : f[i] = ExprPython(exprs[i])
  BY PythonsAre
<1> HIDE DEF f, n
<1>2. k + 1 \in 1 .. n /\ k + 1 \in Nat /\ k + 1 <= n
  <2>1. k + 1 <= n
    BY DEF n
  <2> QED BY <1>1, <2>1
<1>3. /\ Firsts(f, k) \in Pieces(k) /\ Firsts(f, k + 1) \in Pieces(k + 1) /\ f[k + 1] \in Line
      /\ Firsts(Firsts(f, k + 1), k) = Firsts(f, k) /\ Firsts(f, k + 1)[k + 1] = f[k + 1]
  BY <1>1, <1>2, FirstsSnoc, ZenonT(40)
<1>4. Comma(Firsts(f, k)) \in Line
  BY <1>3, CommaLine
<1>5. f[k + 1] = ExprPython(exprs[k + 1])
  BY <1>1, <1>2, Zenon
<1>6. CASE k = 0
  <2>1. Comma(Firsts(f, 0)) = <<>>
    <3>1. Firsts(f, 0) \in Pieces(0) /\ 0 \in Nat
      BY <1>3, <1>6
    <3>2. Commas(Firsts(f, 0)) \in Pieces(0)
      BY <3>1, CommasType
    <3> QED BY <3>2, FlatNone, CommaIs, Zenon
  <2>2. Comma(Firsts(f, 1)) = f[1]
    <3>1. Firsts(f, 1) \in Pieces(1) /\ Firsts(f, 1)[1] = f[1]
      <4>1. k + 1 = 1
        BY <1>6
      <4> QED BY <1>3, <4>1, Zenon
    <3> QED BY <3>1, CommaOne
  <2>3. Sep(1 + Reach(exprs, 0)) = <<>>
    <3>1. 1 + Reach(exprs, 0) = 1
      BY ReachNone
    <3> QED BY <3>1 DEF Sep
  <2>4. k + 1 = 1
    BY <1>6
  <2>5. Cat(<<>>, Cat(<<>>, f[1])) = f[1]
    BY <1>3, <2>4, CatNil
  <2> QED BY <1>4, <1>5, <1>6, <2>1, <2>2, <2>3, <2>4, <2>5, Zenon DEF Meant, f
<1>7. CASE k # 0
  <2>1. k \in Nat \ {0}
    BY <1>7
  <2>2. Comma(Firsts(f, k + 1)) = Cat(Comma(Firsts(f, k)), Cat(Sign(","), f[k + 1]))
    <3> DEFINE g == Firsts(f, k + 1)
    <3>1. g \in Pieces(k + 1)
      BY <1>3
    <3> HIDE DEF g
    <3>2. Comma(g) = Cat(Comma(Firsts(g, k)), Cat(Sign(","), g[k + 1]))
      BY <2>1, <3>1, CommaSnoc
    <3> QED BY <1>3, <3>2, Zenon DEF g
  <2>3. Sep(1 + Reach(exprs, k)) = Sign(",")
    <3>1. k \in 1 .. Len(exprs)
      <4>1. Len(exprs) \in Nat /\ k + 1 <= Len(exprs)
        BY <1>1, <1>2 DEF n
      <4> QED BY <2>1, <4>1
    <3>2. Reach(exprs, k) >= 1 /\ Reach(exprs, k) \in Nat
      BY <3>1, ReachPositive, ReachStep
    <3>3. 1 + Reach(exprs, k) # 1
      BY <3>2
    <3> QED BY <3>3 DEF Sep
  <2> QED BY <1>4, <1>5, <2>2, <2>3, Zenon DEF Meant, f
<1> QED BY <1>6, <1>7
-----------------------------------------------------------------------------
(* Expressions that are found and whose words the line has are printed as  *)
(* they should be.                                                         *)

(* The words of ws from the second on begin with those of K expressions    *)
(* that print takes.                                                       *)
Apart(ws, o) == o = 1 \/ ~(Arg(ws, o) /\ Arg(ws, o + 1))

(* The first K expressions are found, their words are in ws, and they are  *)
(* apart.                                                                  *)
Fits(ws, exprs, K) ==
  /\ K \in Nat /\ K <= Len(exprs)
  /\ \A k \in 1 .. K : FoundInPrint(exprs[k])
  /\ \A k \in Nat : k + 1 <= K => Here(ws, 1 + Reach(exprs, k), Spoken(exprs[k + 1]))
  /\ \A k \in Nat : k <= K => Apart(ws, 1 + Reach(exprs, k))
  /\ ~InText(ws, 2)

(* That, for one of them. *)
LEMMA FitsAt ==
  ASSUME NEW ws \in Line, NEW exprs \in Seq(Expressions), Legal(exprs), NEW K, Fits(ws, exprs, K),
         NEW k \in Nat, k + 1 <= K
  PROVE  /\ k <= K /\ k + 1 <= Len(exprs)
         /\ exprs[k + 1] \in Expressions /\ IsExpression(exprs[k + 1]) /\ FoundInPrint(exprs[k + 1])
         /\ Here(ws, 1 + Reach(exprs, k), Spoken(exprs[k + 1]))
         /\ Reach(exprs, k) \in Nat /\ Reach(exprs, k + 1) \in Nat
         /\ Spoken(exprs[k + 1]) \in Line /\ Len(Spoken(exprs[k + 1])) \in Nat
         /\ Reach(exprs, k + 1) = Reach(exprs, k) + Len(Spoken(exprs[k + 1]))
         /\ 1 + Reach(exprs, k + 1) = (1 + Reach(exprs, k)) + Len(Spoken(exprs[k + 1]))
<1>1. K \in Nat /\ K <= Len(exprs)
  BY Zenon DEF Fits
<1>2. Len(exprs) \in Nat
  BY SpokensType
<1>3. k <= K /\ k + 1 <= Len(exprs) /\ k + 1 \in 1 .. K /\ k + 1 \in 1 .. Len(exprs)
  <2>1. \A a, b, c \in Nat : a + 1 <= b /\ b <= c =>
          a <= b /\ a + 1 <= c /\ a + 1 \in 1 .. b /\ a + 1 \in 1 .. c
    OBVIOUS
  <2> QED BY <1>1, <1>2, <2>1, Zenon
<1>4. /\ Reach(exprs, k) \in Nat /\ Reach(exprs, k + 1) \in Nat
      /\ exprs[k + 1] \in Expressions /\ Spoken(exprs[k + 1]) \in Line
      /\ Reach(exprs, k + 1) = Reach(exprs, k) + Len(Spoken(exprs[k + 1]))
  BY <1>3, ReachStep, Zenon
<1>5. IsExpression(exprs[k + 1])
  BY <1>3, Zenon DEF Legal
<1>6. FoundInPrint(exprs[k + 1]) /\ Here(ws, 1 + Reach(exprs, k), Spoken(exprs[k + 1]))
  BY <1>3, Zenon DEF Fits
<1>7. Len(Spoken(exprs[k + 1])) \in Nat
  BY <1>4, LenLine, Zenon
<1>8. \A a, b, c \in Nat : c = a + b => 1 + c = (1 + a) + b
  OBVIOUS
<1> QED BY <1>3, <1>4, <1>5, <1>6, <1>7, <1>8, ZenonT(40)

(* Between these expressions there are edges. *)
LEMMA EdgeAll ==
  ASSUME NEW ws \in Line, NEW exprs \in Seq(Expressions), Legal(exprs), NEW K, Fits(ws, exprs, K),
         NEW k \in Nat, k <= K
  PROVE  Edge(ws, 1 + Reach(exprs, k))
<1> DEFINE X == {i \in Nat : i <= K => ~InText(ws, (1 + Reach(exprs, i)) + 1)}
<1>0. K \in Nat /\ \A i \in Nat : i <= K => Apart(ws, 1 + Reach(exprs, i))
  BY Zenon DEF Fits
<1>1. 0 \in X
  <2>1. ~InText(ws, 2)
    BY Zenon DEF Fits
  <2>2. (1 + Reach(exprs, 0)) + 1 = 2
    BY ReachNone
  <2>3. 0 \in Nat
    OBVIOUS
  <2> QED BY <2>1, <2>2, <2>3, Zenon
<1>2. \A i \in Nat : i \in X => i + 1 \in X
  <2> SUFFICES ASSUME NEW i \in Nat, i \in X, i + 1 <= K
               PROVE  ~InText(ws, (1 + Reach(exprs, i + 1)) + 1)
    <3>1. \A j \in Nat : j + 1 \in Nat
      OBVIOUS
    <3> QED BY <3>1, Zenon
  <2>1. /\ i <= K
        /\ exprs[i + 1] \in Expressions /\ IsExpression(exprs[i + 1]) /\ FoundInPrint(exprs[i + 1])
        /\ Here(ws, 1 + Reach(exprs, i), Spoken(exprs[i + 1]))
        /\ 1 + Reach(exprs, i + 1) = (1 + Reach(exprs, i)) + Len(Spoken(exprs[i + 1]))
    BY FitsAt, ZenonT(40)
  <2>2. Edge(ws, 1 + Reach(exprs, i))
    BY <1>0, <2>1, Zenon DEF Edge, Apart
  <2>3. ~InText(ws, ((1 + Reach(exprs, i)) + Len(Spoken(exprs[i + 1]))) + 1)
    BY <2>1, <2>2, ExprOut, Zenon
  <2> QED BY <2>1, <2>3, Zenon
<1> HIDE DEF X
<1>3. Nat \subseteq X
  BY <1>1, <1>2, NatInSet
<1>4. k \in X
  BY <1>3
<1>5. ~InText(ws, (1 + Reach(exprs, k)) + 1)
  BY <1>4, Zenon DEF X
<1> QED BY <1>0, <1>5, Zenon DEF Edge, Apart

(* What print makes of the words of the first k expressions. *)
LEMMA Printed ==
  ASSUME NEW ws \in Line, Len(ws) >= 1, NEW exprs \in Seq(Expressions), Legal(exprs),
         NEW K, Fits(ws, exprs, K), NEW k \in Nat, k <= K
  PROVE  /\ Reach(exprs, k) \in Nat /\ 1 + Reach(exprs, k) <= Len(ws)
         /\ FlattenSeq(Part(ws, 1, Reach(exprs, k))) = Meant(exprs, k)
<1> DEFINE X == {i \in Nat : i <= K => /\ Reach(exprs, i) \in Nat /\ 1 + Reach(exprs, i) <= Len(ws)
                                       /\ FlattenSeq(Part(ws, 1, Reach(exprs, i)))
                                            = Meant(exprs, i)}
<1>1. 0 \in X
  <2>1. Reach(exprs, 0) = 0
    BY ReachNone
  <2>2. Len(ws) \in Nat /\ 1 + 0 <= Len(ws) /\ 0 \in Nat /\ 1 \in Nat
    BY LenLine
  <2>3. Part(ws, 1, 0) \in Pieces(0)
    BY <2>2, PartType
  <2>4. FlattenSeq(Part(ws, 1, 0)) = <<>>
    BY <2>3, FlatNone
  <2>5. Meant(exprs, 0) = <<>>
    <3>1. Len(exprs) \in Nat /\ ExprPythons(exprs) \in Pieces(Len(exprs))
      BY PythonsAre
    <3>2. 0 <= Len(exprs)
      BY <3>1
    <3>3. Firsts(ExprPythons(exprs), 0) \in Pieces(0)
      BY <2>2, <3>1, <3>2, FirstsType
    <3>4. Commas(Firsts(ExprPythons(exprs), 0)) \in Pieces(0)
      BY <2>2, <3>3, CommasType
    <3> QED BY <3>4, FlatNone, CommaIs, Zenon DEF Meant
  <2> QED BY <2>1, <2>2, <2>4, <2>5, Zenon
<1>2. \A i \in Nat : i \in X => i + 1 \in X
  <2> SUFFICES ASSUME NEW i \in Nat, i \in X, i + 1 <= K
               PROVE  /\ Reach(exprs, i + 1) \in Nat /\ 1 + Reach(exprs, i + 1) <= Len(ws)
                      /\ FlattenSeq(Part(ws, 1, Reach(exprs, i + 1))) = Meant(exprs, i + 1)
    <3>1. \A j \in Nat : j + 1 \in Nat
      OBVIOUS
    <3> QED BY <3>1, Zenon
  <2> DEFINE e == exprs[i + 1]
             r == Reach(exprs, i)
             n == Len(Spoken(e))
  <2>1. /\ i <= K /\ i + 1 <= Len(exprs)
        /\ e \in Expressions /\ IsExpression(e) /\ FoundInPrint(e)
        /\ Here(ws, 1 + r, Spoken(e))
        /\ r \in Nat /\ Reach(exprs, i + 1) \in Nat /\ n \in Nat
        /\ Reach(exprs, i + 1) = r + n
        /\ 1 + Reach(exprs, i + 1) = (1 + r) + n
    <3> HIDE DEF X
    <3> QED BY FitsAt
  <2>2. Edge(ws, 1 + r)
    BY <2>1, EdgeAll, Zenon
  <2>3. Edge(ws, (1 + r) + n)
    <3>1. i + 1 \in Nat
      OBVIOUS
    <3>2. Edge(ws, 1 + Reach(exprs, i + 1))
      BY <3>1, EdgeAll, Zenon
    <3> QED BY <2>1, <3>2, Zenon
  <2>4. FlattenSeq(Part(ws, 1 + r, n)) = Cat(Sep(1 + r), ExprPython(e))
    BY <2>1, <2>2, <2>3, ExprPart, Zenon
  <2>5. (1 + r) + n <= Len(ws)
    BY <2>1, Zenon DEF Here
  <2>6. FlattenSeq(Part(ws, 1, r)) = Meant(exprs, i)
    BY <2>1, Zenon
  <2>7. FlattenSeq(Part(ws, 1, r + n))
          = Cat(FlattenSeq(Part(ws, 1, r)), FlattenSeq(Part(ws, 1 + r, n)))
    <3>1. r \in Nat /\ n \in Nat /\ 1 \in Nat /\ (1 + r) + n <= Len(ws)
      BY <2>1, <2>5
    <3> HIDE DEF r, n
    <3> QED BY <3>1, PartCat
  <2>8. Meant(exprs, i + 1) = Cat(Meant(exprs, i), Cat(Sep(1 + r), ExprPython(e)))
    BY <2>1, MeantStep, Zenon
  <2> QED BY <2>1, <2>4, <2>5, <2>6, <2>7, <2>8, Zenon
<1> HIDE DEF X
<1>3. Nat \subseteq X
  BY <1>1, <1>2, NatInSet
<1>4. k \in X
  BY <1>3
<1> QED BY <1>4, Zenon DEF X
-----------------------------------------------------------------------------
(* The line of a print. *)

(* All expressions after ConvertLambda. *)
Voice(s) == ConvertLambda(Speech(s))

(* All expressions in Python. *)
LEMMA MeantAll ==
  ASSUME NEW exprs \in Seq(Expressions), Legal(exprs)
  PROVE  /\ Meant(exprs, Len(exprs)) = Comma(ExprPythons(exprs))
         /\ Until(exprs, Len(exprs)) = FlattenSeq(Spokens(exprs))
<1>1. /\ Len(exprs) \in Nat /\ ExprPythons(exprs) \in Pieces(Len(exprs))
      /\ Spokens(exprs) \in Pieces(Len(exprs))
  BY PythonsAre, SpokensType, Zenon
<1>2. \A n \in Nat : \A f \in Pieces(n) : Firsts(f, n) = f
  BY DEF Firsts, Pieces
<1> QED BY <1>1, <1>2, Zenon DEF Meant, Until

(* What becomes of a print, and what should. *)
LEMMA PrintLine ==
  ASSUME NEW s \in Statements, IsStatement(s), s.kind = "print"
  PROVE  /\ s.exprs \in Seq(Expressions) /\ Len(s.exprs) \in Nat /\ Len(s.exprs) >= 1
         /\ Legal(s.exprs)
         /\ Speech(s) \in Line /\ Voice(s) \in Line /\ Len(Voice(s)) \in Nat
         /\ OrColons(Voice(s), Speech(s)) /\ Len(Voice(s)) = Reach(s.exprs, Len(s.exprs))
         /\ Ready(s) = Cat(Single(Plainly("print")), Voice(s))
         /\ Ready(s) \in Line /\ Len(Ready(s)) = Len(Voice(s)) + 1
         /\ Ready(s)[1] = Plainly("print")
         /\ \A k \in 1 .. Len(Voice(s)) : Ready(s)[k + 1] = Voice(s)[k]
         /\ ~InText(Ready(s), 2)
         /\ ConvertLine(Source(s))
              = Called(Sign("print"), FlattenSeq(Part(Ready(s), 1, Len(Voice(s)))))
         /\ Python(s) = Called(Sign("print"), Meant(s.exprs, Len(s.exprs)))
<1>1. s.words = <<"print">> /\ s.exprs # <<>>
  BY KindPrint
<1>2. s.exprs \in Seq(Expressions) /\ Len(s.exprs) \in Nat
  BY StatementParts, Zenon
<1>3. Len(s.exprs) >= 1
  BY <1>1, <1>2
<1>4. Legal(s.exprs)
  <2>1. DOMAIN s.exprs = 1 .. Len(s.exprs)
    BY StatementParts
  <2> QED BY <2>1, Kinds, Zenon DEF Legal
<1>5. Speech(s) \in Line /\ Speech(s) = Until(s.exprs, Len(s.exprs))
  BY <1>2, <1>4, SourceIs, MeantAll, Zenon DEF Speech
<1>6. OrColons(Voice(s), Speech(s)) /\ Voice(s) \in Line
  <2>1. OrColons(Voice(s), Speech(s))
    BY <1>5, LambdaLine, Zenon DEF Voice
  <2> QED BY <2>1, Zenon DEF OrColons
<1>7. Len(Voice(s)) \in Nat /\ Len(Voice(s)) = Reach(s.exprs, Len(s.exprs))
  <2>1. Len(Voice(s)) = Len(Speech(s))
    BY <1>6, Zenon DEF OrColons
  <2> QED BY <1>5, <1>6, <2>1, LenLine, Zenon DEF Reach
<1>8. Len(s.words) = 1 /\ s.words[1] = "print" /\ Len(s.words) >= 1
  BY <1>1
<1>9. NoLambdas(s.words)
  <2>1. \A k \in 1 .. 1 : k = 1
    OBVIOUS
  <2>2. "print" # "lambda"
    BY Zenon
  <2> QED BY <1>8, <2>1, <2>2, Zenon DEF NoLambdas
<1>10. Bare(s.words) = Single(Plainly("print")) /\ Plainly("print") \in Words
  <2>1. Bare(<<"print">>) = Sign("print") /\ Plainly("print") \in Words
    BY BareOne, Known, PlainlyWord
  <2> QED BY <1>1, <2>1, Zenon DEF Sign
<1>11. Ready(s) = Cat(Single(Plainly("print")), Voice(s))
  BY <1>9, <1>10, ReadyIs, Zenon DEF Voice
<1>12. /\ Ready(s) \in Line /\ Len(Ready(s)) = Len(Voice(s)) + 1
       /\ Ready(s)[1] = Plainly("print")
       /\ \A k \in 1 .. Len(Voice(s)) : Ready(s)[k + 1] = Voice(s)[k]
  <2>1. LET ws == Cat(Single(Plainly("print")), Voice(s)) IN
          /\ ws \in Line /\ Len(ws) = Len(Voice(s)) + 1
          /\ ws[1] = Plainly("print")
          /\ \A k \in 1 .. Len(Voice(s)) : ws[k + 1] = Voice(s)[k]
    BY <1>6, <1>10, RestCat
  <2> QED BY <1>11, <2>1, Zenon
<1>13. ~InText(Ready(s), 2)
  <2>1. 1 \in Nat /\ 1 >= 1 /\ 1 + 1 = 2 /\ 1 .. 1 - 1 = {}
    OBVIOUS
  <2>2. InText(Ready(s), 1 + 1) <=> /\ InText(Ready(s), 1) \/ Ready(s)[1].left = "\""
                                    /\ Ready(s)[1].right # "\""
    BY <2>1, InsideStep, Zenon
  <2>3. ~InText(Ready(s), 1)
    BY <2>1, Zenon DEF InText
  <2>4. Plainly("print").left = "" /\ "" # "\""
    BY DEF Plainly, Word
  <2>5. Ready(s)[1].left # "\""
    BY <1>12, <2>4, Zenon
  <2> QED BY <2>1, <2>2, <2>3, <2>5, Zenon
<1>14. Len(Voice(s)) >= 1
  <2>1. Len(s.exprs) \in 1 .. Len(s.exprs)
    BY <1>2, <1>3
  <2> QED BY <1>2, <1>4, <1>7, <2>1, ReachPositive, Zenon
<1>15. ConvertLine(Source(s)) = ConvertPrint(Ready(s))
  <2>1. Source(s) # <<>> /\ FirstIs(Source(s), {"print"})
    <3>1. s.words[1] \in {"print"}
      BY <1>8
    <3> QED BY <1>8, <1>9, <3>1, FirstOf, Zenon
  <2>2. Len(Source(s)) > 1
    <3>1. Len(Source(s)) = Len(s.words) + Len(Speech(s)) /\ Len(Voice(s)) = Len(Speech(s))
      BY <1>6, SourceIs, Zenon DEF OrColons
    <3>2. \A a, b \in Nat : b >= 1 /\ a = 1 + b => a > 1
      OBVIOUS
    <3>3. Len(Source(s)) \in Nat
      BY SourceIs, LenLine, Zenon
    <3> QED BY <1>7, <1>8, <1>14, <3>1, <3>2, <3>3, Zenon
  <2> QED BY <2>1, <2>2, LineIs, Zenon
<1>16. ConvertLine(Source(s)) = Called(Sign("print"), FlattenSeq(Part(Ready(s), 1, Len(Voice(s)))))
  <2>1. ConvertPrint(Ready(s))
          = Called(Sign("print"), FlattenSeq(Part(Ready(s), 1, Len(Ready(s)) - 1)))
    BY PrintIs
  <2>2. \A a, b \in Nat : a = b + 1 => a - 1 = b
    OBVIOUS
  <2>3. Len(Ready(s)) - 1 = Len(Voice(s))
    BY <1>7, <1>12, <2>2, LenLine, Zenon
  <2> QED BY <1>15, <2>1, <2>3, Zenon
<1>17. Python(s) = Called(Sign("print"), Meant(s.exprs, Len(s.exprs)))
  <2>1. Python(s) = Bare(<<"print", "(">>) \o Comma(ExprPythons(s.exprs)) \o Bare(<<")">>)
    BY DEF Python, ExprPythons
  <2>2. Bare(<<"print", "(">>) = Cat(Sign("print"), Sign("(")) /\ Bare(<<")">>) = Sign(")")
    BY BareOne, BareTwo, Known
  <2>3. Meant(s.exprs, Len(s.exprs)) = Comma(ExprPythons(s.exprs))
    BY <1>2, <1>4, MeantAll
  <2> QED BY <2>1, <2>2, <2>3, Zenon DEF Called, Cat
<1> QED BY <1>2, <1>3, <1>4, <1>5, <1>6, <1>7, <1>11, <1>12, <1>13, <1>16, <1>17, Zenon

(* The word j of expression k + 1, as print sees it. *)
LEMMA PrintWord ==
  ASSUME NEW s \in Statements, IsStatement(s), s.kind = "print",
         NEW k \in Nat, k + 1 <= Len(s.exprs), NEW j \in 1 .. Len(Spoken(s.exprs[k + 1]))
  PROVE  /\ Reach(s.exprs, k) \in Nat /\ j \in Nat
         /\ Reach(s.exprs, k) + j \in 1 .. Len(Voice(s))
         /\ Speech(s)[Reach(s.exprs, k) + j] = Spoken(s.exprs[k + 1])[j]
         /\ Ready(s)[j + (1 + Reach(s.exprs, k))] = Voice(s)[Reach(s.exprs, k) + j]
         /\ OrColon(Ready(s)[j + (1 + Reach(s.exprs, k))], Spoken(s.exprs[k + 1])[j])
<1> DEFINE exprs == s.exprs
           n == Len(exprs)
           f == Spokens(exprs)
           r == Reach(exprs, k)
<1>1. /\ exprs \in Seq(Expressions) /\ n \in Nat
      /\ OrColons(Voice(s), Speech(s))
      /\ \A i \in 1 .. Len(Voice(s)) : Ready(s)[i + 1] = Voice(s)[i]
  BY PrintLine, Zenon
<1>2. f \in Pieces(n) /\ \A i \in 1 .. n : f[i] = Spoken(exprs[i])
  BY <1>1, SpokensType, Zenon
<1>3. k + 1 \in 1 .. n /\ (k + 1) - 1 = k
  BY <1>1
<1>4. f[k + 1] = Spoken(exprs[k + 1])
  BY <1>2, <1>3, Zenon
<1> HIDE DEF f, n
<1>5. r \in Nat /\ r + j \in 1 .. Len(FlattenSeq(f))
        /\ FlattenSeq(f)[r + j] = Spoken(exprs[k + 1])[j]
  <2> DEFINE i == k + 1
  <2>1. i \in 1 .. n /\ i - 1 = k /\ f[i] = Spoken(exprs[i]) /\ j \in 1 .. Len(f[i])
    BY <1>3, <1>4
  <2> HIDE DEF i
  <2>2. LET m == Len(FlattenSeq(Firsts(f, i - 1))) IN
          m \in Nat /\ m + j \in 1 .. Len(FlattenSeq(f)) /\ FlattenSeq(f)[m + j] = f[i][j]
    <3>1. n \in Nat /\ f \in Pieces(n) /\ i \in 1 .. n /\ j \in 1 .. Len(f[i])
      BY <1>1, <1>2, <2>1, Zenon
    <3> QED BY <3>1, FlatHas
  <2>3. Len(FlattenSeq(Firsts(f, i - 1))) = r
    BY <2>1, Zenon DEF Reach, Until, f
  <2>4. f[i] = Spoken(exprs[k + 1])
    BY <1>4, Zenon DEF i
  <2> QED BY <2>2, <2>3, <2>4, Zenon
<1>6. FlattenSeq(f) = Speech(s)
  BY Zenon DEF Speech, f
<1>7. Len(Voice(s)) = Len(Speech(s)) /\ OrColon(Voice(s)[r + j], Speech(s)[r + j])
  BY <1>1, <1>5, <1>6, Zenon DEF OrColons
<1>8. r + j \in 1 .. Len(Voice(s)) /\ Speech(s)[r + j] = Spoken(exprs[k + 1])[j]
  BY <1>5, <1>6, <1>7, Zenon
<1>9. j + (1 + r) = (r + j) + 1 /\ j \in Nat
  <2>1. Len(Spoken(exprs[k + 1])) \in Nat
    <3>1. f[k + 1] \in Line
      BY <1>1, <1>2, <1>3, PiecesAt
    <3> QED BY <1>4, <3>1, LenLine
  <2>2. j \in Nat
    BY <2>1
  <2> HIDE DEF r
  <2> QED BY <1>5, <2>2
<1>10. Ready(s)[(r + j) + 1] = Voice(s)[r + j]
  BY <1>1, <1>8, Zenon
<1> QED BY <1>5, <1>7, <1>8, <1>9, <1>10, Zenon
-----------------------------------------------------------------------------
(* The search for lambda leaves the good expressions alone. *)

(* The expression is found in a print, and speaks of no lambda. *)
Good(e) == FoundInPrint(e) /\ NoSpeech(e)

(* The first K expressions are good. *)
FirstGood(exprs, K) == K \in Nat /\ K <= Len(exprs) /\ \A k \in 1 .. K : Good(exprs[k])

(* The words of the others. *)
Later(exprs, K) == FlattenSeq(Shifted(Spokens(exprs), K, Len(exprs) - K))

(* A good expression has no lambda to be found. *)
LEMMA GoodStill ==
  ASSUME NEW e \in Expressions, IsExpression(e), Good(e)
  PROVE  Still(Spoken(e))
<1>1. e.form \in {"value", "call", "lambda"} /\ e.form # "lambda"
  BY ExprParts DEF Good, FoundInPrint
<1>2. CASE e.form = "value"
  <2>1. 1 \in 1 .. Len(e.items) /\ Spoken(e) = ItemPython(e.items[1])
    BY <1>2, ValueForm
  <2>2. e.items[1] \in Items /\ IsItem(e.items[1])
    BY <2>1, ExprItems
  <2>3. ~SpeaksOfLambda(e.items[1])
    BY <2>1, Zenon DEF Good, NoSpeech
  <2> QED BY <2>1, <2>2, <2>3, StillItem, Zenon
<1>3. CASE e.form = "call"
  <2>1. NoLiteral(e)
    <3>1. DOMAIN e.items = 1 .. Len(e.items)
      BY ExprParts
    <3> QED BY <1>3, <3>1 DEF NoLiteral, FoundInPrint, Good
  <2> QED BY <1>3, <2>1, CallFound, Zenon
<1> QED BY <1>1, <1>2, <1>3, Zenon

(* Nor have several. *)
LEMMA GoodUntil ==
  ASSUME NEW exprs \in Seq(Expressions), Legal(exprs), NEW K, FirstGood(exprs, K)
  PROVE  /\ Until(exprs, K) \in Line /\ Later(exprs, K) \in Line /\ Still(Until(exprs, K))
         /\ FlattenSeq(Spokens(exprs)) = Cat(Until(exprs, K), Later(exprs, K))
<1> DEFINE f == Spokens(exprs)
           n == Len(exprs)
           g == Firsts(f, K)
<1>1. n \in Nat /\ f \in Pieces(n) /\ \A i \in 1 .. n : exprs[i] \in Expressions
        /\ f[i] = Spoken(exprs[i])
  BY SpokensType
<1>2. K \in Nat /\ K <= n /\ \A k \in 1 .. K : Good(exprs[k])
  BY Zenon DEF FirstGood
<1>3. /\ n - K \in Nat /\ K + (n - K) = n /\ K + (n - K) <= n
      /\ \A k \in 1 .. K : k \in 1 .. n
  <2> HIDE DEF n
  <2>1. n \in Nat /\ K \in Nat /\ K <= n
    BY <1>1, <1>2, Zenon
  <2> QED BY <2>1
<1>4. \A k \in 1 .. n : IsExpression(exprs[k])
  BY Zenon DEF Legal
<1> HIDE DEF f, n
<1>5. g \in Pieces(K) /\ \A k \in 1 .. K : g[k] = f[k]
  BY <1>1, <1>2, FirstsType
<1> HIDE DEF g
<1>6. \A k \in 1 .. K : Still(g[k])
  BY <1>1, <1>2, <1>3, <1>4, <1>5, GoodStill, Zenon
<1>7. Still(FlattenSeq(g)) /\ FlattenSeq(g) \in Line
  BY <1>2, <1>5, <1>6, StillFlat, FlatLine
<1>8. FlattenSeq(Shifted(f, K, n - K)) \in Line
  <2>1. Shifted(f, K, n - K) \in Pieces(n - K)
    BY <1>1, <1>2, <1>3, ShiftedType
  <2> QED BY <1>3, <2>1, FlatLine
<1>9. FlattenSeq(f) = Cat(FlattenSeq(g), FlattenSeq(Shifted(f, K, n - K)))
  <2> DEFINE m == n - K
  <2>1. m \in Nat /\ K \in Nat /\ f \in Pieces(K + m)
    BY <1>1, <1>2, <1>3
  <2> HIDE DEF m
  <2>2. FlattenSeq(f) = Cat(FlattenSeq(Firsts(f, K)), FlattenSeq(Shifted(f, K, m)))
    BY <2>1, FlatCat
  <2> QED BY <2>2, Zenon DEF g, m
<1> QED BY <1>7, <1>8, <1>9, Zenon DEF Until, Later, f, g, n

(* The words of each are words of all. *)
LEMMA UntilWord ==
  ASSUME NEW exprs \in Seq(Expressions), NEW K \in Nat, K <= Len(exprs),
         NEW k \in Nat, k + 1 <= K, NEW j \in 1 .. Len(Spoken(exprs[k + 1]))
  PROVE  /\ Reach(exprs, k) \in Nat
         /\ Reach(exprs, k) + j \in 1 .. Reach(exprs, K)
         /\ Until(exprs, K)[Reach(exprs, k) + j] = Spoken(exprs[k + 1])[j]
<1> DEFINE n == Len(exprs)
           f == Firsts(Spokens(exprs), K)
           i == k + 1
<1>1. n \in Nat /\ Spokens(exprs) \in Pieces(n)
        /\ \A a \in 1 .. n : Spokens(exprs)[a] = Spoken(exprs[a])
  BY SpokensType
<1> HIDE DEF n
<1>2. i \in 1 .. K /\ i \in 1 .. n /\ i - 1 = k /\ k <= K
  <2>1. K <= n
    BY DEF n
  <2> QED BY <1>1, <2>1
<1>3. f \in Pieces(K) /\ f[i] = Spoken(exprs[i])
  <2>1. K <= n
    BY DEF n
  <2>2. f \in Pieces(K) /\ \A a \in 1 .. K : f[a] = Spokens(exprs)[a]
    BY <1>1, <2>1, FirstsType
  <2> HIDE DEF f
  <2> QED BY <1>1, <1>2, <2>2, Zenon
<1>4. Firsts(f, k) = Firsts(Spokens(exprs), k)
  BY <1>2, FirstsAgain
<1>5. j \in 1 .. Len(f[i])
  BY <1>3
<1> HIDE DEF f, i
<1>6. LET m == Len(FlattenSeq(Firsts(f, i - 1))) IN
        m \in Nat /\ m + j \in 1 .. Len(FlattenSeq(f)) /\ FlattenSeq(f)[m + j] = f[i][j]
  <2>1. K \in Nat /\ f \in Pieces(K) /\ i \in 1 .. K /\ j \in 1 .. Len(f[i])
    BY <1>2, <1>3, <1>5, Zenon
  <2> QED BY <2>1, FlatHas, ZenonT(40)
<1>7. Len(FlattenSeq(Firsts(f, i - 1))) = Reach(exprs, k)
  BY <1>2, <1>4, Zenon DEF Reach, Until
<1>8. Len(FlattenSeq(f)) = Reach(exprs, K) /\ FlattenSeq(f) = Until(exprs, K)
  BY Zenon DEF Reach, Until, f
<1>9. f[i] = Spoken(exprs[k + 1])
  BY <1>3, Zenon DEF i
<1> QED BY <1>6, <1>7, <1>8, <1>9, Zenon

(* ConvertLambda leaves the good expressions as they are, up to the first  *)
(* that is not good.                                                       *)
LEMMA GoodVoice ==
  ASSUME NEW s \in Statements, IsStatement(s), s.kind = "print", NEW K, FirstGood(s.exprs, K)
  PROVE  /\ Voice(s) = Cat(Until(s.exprs, K), ConvertLambda(Later(s.exprs, K)))
         /\ \A k \in Nat : k + 1 <= K
              => Here(Ready(s), 1 + Reach(s.exprs, k), Spoken(s.exprs[k + 1]))
<1> DEFINE exprs == s.exprs
<1>1. /\ exprs \in Seq(Expressions) /\ Len(exprs) \in Nat /\ Legal(exprs)
      /\ Ready(s) \in Line /\ Len(Ready(s)) = Len(Voice(s)) + 1 /\ Voice(s) \in Line
  BY PrintLine, Zenon
<1>2. /\ Until(exprs, K) \in Line /\ Later(exprs, K) \in Line /\ Still(Until(exprs, K))
      /\ Speech(s) = Cat(Until(exprs, K), Later(exprs, K))
  BY <1>1, GoodUntil, Zenon DEF Speech
<1>3. Voice(s) = Cat(Until(exprs, K), ConvertLambda(Later(exprs, K)))
  BY <1>2, LambdaAfter, Zenon DEF Voice
<1>4. ConvertLambda(Later(exprs, K)) \in Line
  <2>1. OrColons(ConvertLambda(Later(exprs, K)), Later(exprs, K))
    BY <1>2, LambdaLine
  <2> QED BY <2>1, Zenon DEF OrColons
<1>5. K \in Nat /\ K <= Len(exprs)
  BY Zenon DEF FirstGood
<1>6. Len(Until(exprs, K)) = Reach(exprs, K)
  BY Zenon DEF Reach
<1>7. Len(Voice(s)) = Reach(exprs, K) + Len(ConvertLambda(Later(exprs, K)))
      /\ Reach(exprs, K) \in Nat /\ Len(ConvertLambda(Later(exprs, K))) \in Nat
  BY <1>2, <1>3, <1>4, <1>6, CatLine, LenLine, Zenon
<1>8. \A i \in 1 .. Reach(exprs, K) : Voice(s)[i] = Until(exprs, K)[i]
  <2> SUFFICES ASSUME NEW i \in 1 .. Reach(exprs, K)  PROVE Voice(s)[i] = Until(exprs, K)[i]
    OBVIOUS
  <2>1. i \in Nat /\ 1 <= i /\ i <= Len(Until(exprs, K))
    BY <1>6, <1>7
  <2>2. Cat(Until(exprs, K), ConvertLambda(Later(exprs, K)))[i] = Until(exprs, K)[i]
    BY <1>2, <1>4, <2>1, CatAt, Zenon
  <2> QED BY <1>3, <2>2, Zenon
<1>9. ASSUME NEW k \in Nat, k + 1 <= K
      PROVE  Here(Ready(s), 1 + Reach(exprs, k), Spoken(exprs[k + 1]))
  <2> DEFINE x == Spoken(exprs[k + 1])
             r == Reach(exprs, k)
  <2>1. k + 1 <= Len(exprs) /\ Len(exprs) \in Nat
    <3>1. \A a, b, c \in Nat : a + 1 <= b /\ b <= c => a + 1 <= c
      OBVIOUS
    <3> QED BY <1>1, <1>5, <1>9, <3>1, Zenon
  <2>2. /\ r \in Nat /\ x \in Line /\ exprs[k + 1] \in Expressions
        /\ Reach(exprs, k + 1) = r + Len(x)
    BY <1>1, <2>1, ReachStep, Zenon
  <2>3. Len(x) \in Nat /\ Len(x) \in 1 .. Len(x)
    <3>1. IsExpression(exprs[k + 1])
      <4>1. k + 1 \in 1 .. Len(exprs)
        BY <2>1
      <4> QED BY <1>1, <4>1, Zenon DEF Legal
    <3>2. Len(x) \in Nat /\ Len(x) >= 1
      BY <2>2, <3>1, ExprLines, Zenon
    <3> HIDE DEF x
    <3> QED BY <3>2
  <2>4. \A j \in 1 .. Len(x) : r + j \in 1 .. Reach(exprs, K) /\ Until(exprs, K)[r + j] = x[j]
    BY <1>1, <1>5, <1>9, UntilWord, Zenon
  <2>5. \A j \in 1 .. Len(x) : Ready(s)[j + (1 + r)] = x[j]
    <3>1. \A j \in 1 .. Len(x) : Ready(s)[j + (1 + r)] = Voice(s)[r + j]
      BY <2>1, PrintWord, Zenon
    <3> QED BY <1>8, <2>4, <3>1, Zenon
  <2>6. (1 + r) + Len(x) <= Len(Ready(s)) /\ 1 + r \in Nat /\ 1 + r >= 1
    <3>1. r + Len(x) \in 1 .. Reach(exprs, K)
      BY <2>3, <2>4, Zenon
    <3>2. \A a, b, c, d, e, g \in Nat : a + b \in 1 .. c /\ e = c + d /\ g = e + 1 =>
            (1 + a) + b <= g /\ 1 + a \in Nat /\ 1 + a >= 1
      OBVIOUS
    <3>3. Len(Ready(s)) \in Nat /\ Len(Voice(s)) \in Nat
      BY <1>1, LenLine, Zenon
    <3> QED BY <1>1, <1>7, <2>2, <2>3, <3>1, <3>2, <3>3, Zenon
  <2> QED BY <2>2, <2>5, <2>6, Zenon DEF Here
<1> QED BY <1>3, <1>9, Zenon
-----------------------------------------------------------------------------
(* A print all of whose expressions are good is right. *)

(* The last word of a text, and the first one. *)
LEMMA TextEnds ==
  ASSUME NEW e \in Expressions, IsExpression(e), IsText(e)
  PROVE  LET x == Spoken(e) IN
         /\ Len(x) \in 1 .. Len(x) /\ 1 \in 1 .. Len(x)
         /\ x[Len(x)].right = "\"" /\ x[1].left = "\""
<1>1. Len(Spoken(e)) \in Nat /\ Len(Spoken(e)) >= 1
  BY ExprLines
<1>2. Len(Spoken(e)) \in 1 .. Len(Spoken(e)) /\ 1 \in 1 .. Len(Spoken(e))
  BY <1>1
<1> QED BY <1>2, TextShape, Zenon DEF IsQuote

(* The good expressions of a print fit its line: next to a text there is   *)
(* an edge.                                                                *)
LEMMA FitsPrint ==
  ASSUME NEW s \in Statements, IsStatement(s), s.kind = "print", NEW K, FirstGood(s.exprs, K)
  PROVE  Fits(Ready(s), s.exprs, K)
<1> DEFINE exprs == s.exprs
           ws == Ready(s)
           n == Len(exprs)
<1>1. /\ exprs \in Seq(Expressions) /\ n \in Nat /\ Legal(exprs)
      /\ ws \in Line /\ Len(ws) = Len(Voice(s)) + 1 /\ Len(Voice(s)) \in Nat
      /\ Len(Voice(s)) = Reach(exprs, n)
      /\ ~InText(ws, 2)
  BY PrintLine, Zenon
<1>2. K \in Nat /\ K <= n /\ \A k \in 1 .. K : Good(exprs[k])
  BY Zenon DEF FirstGood
<1>3. \A k \in Nat : k + 1 <= K => Here(ws, 1 + Reach(exprs, k), Spoken(exprs[k + 1]))
  BY GoodVoice, Zenon
<1>4. ASSUME NEW k \in Nat, k <= K  PROVE Apart(ws, 1 + Reach(exprs, k))
  <2> DEFINE o == 1 + Reach(exprs, k)
  <2>1. CASE k = 0
    <3>1. 1 + Reach(exprs, 0) = 1
      BY <1>1, ReachNone
    <3> QED BY <2>1, <3>1, Zenon DEF Apart
  <2>2. CASE k = n
    <3>1. o + 1 = Len(ws) + 1 /\ DOMAIN ws = 1 .. Len(ws) /\ Len(ws) \in Nat
      <4>1. DOMAIN ws = 1 .. Len(ws) /\ Len(ws) \in Nat
        BY <1>1, LenLine, Zenon
      <4>2. \A a, b, c : b \in Nat /\ a = b + 1 /\ b = c => (1 + c) + 1 = a + 1
        OBVIOUS
      <4>3. Len(Voice(s)) = Reach(exprs, k)
        BY <1>1, <2>2, Zenon
      <4> QED BY <1>1, <4>1, <4>2, <4>3, Zenon
    <3>2. o + 1 \notin DOMAIN ws
      <4>1. \A a \in Nat : a + 1 \notin 1 .. a
        OBVIOUS
      <4> QED BY <3>1, <4>1, Zenon
    <3> QED BY <3>2, Zenon DEF Apart, Arg
  <2>3. CASE k # 0 /\ k # n
    <3>1. /\ k \in 1 .. n - 1 /\ k - 1 \in Nat /\ (k - 1) + 1 = k /\ k <= n /\ k + 1 <= n
          /\ k \in 1 .. n /\ k + 1 \in 1 .. n /\ (k - 1) + 1 <= n /\ (k - 1) + 1 <= K
      <4> HIDE DEF n
      <4>1. n \in Nat /\ K \in Nat /\ K <= n
        BY <1>1, <1>2, Zenon
      <4> QED BY <1>4, <2>3, <4>1
    <3>2. IsText(exprs[k]) \/ IsText(exprs[k + 1])
      BY <3>1, KindPrint, Zenon
    <3>3. /\ exprs[k] \in Expressions /\ exprs[k + 1] \in Expressions
          /\ IsExpression(exprs[k]) /\ IsExpression(exprs[k + 1])
      BY <1>1, <3>1, SpokensType, Zenon DEF Legal
    <3>4. CASE IsText(exprs[k])
      <4> DEFINE i == k - 1
                 x == Spoken(exprs[k])
      <4>1. i \in Nat /\ i + 1 = k /\ i + 1 <= n /\ i + 1 <= K
        BY <3>1, Zenon
      <4>2. Here(ws, 1 + Reach(exprs, i), x)
        BY <1>3, <4>1, Zenon
      <4>3. /\ Reach(exprs, i) \in Nat /\ Reach(exprs, k) = Reach(exprs, i) + Len(x)
            /\ x \in Line /\ Reach(exprs, k) \in Nat
        <5> HIDE DEF i, x
        <5>1. /\ Reach(exprs, i) \in Nat /\ Reach(exprs, i + 1) \in Nat
              /\ Spoken(exprs[i + 1]) \in Line
              /\ Reach(exprs, i + 1) = Reach(exprs, i) + Len(Spoken(exprs[i + 1]))
          BY <1>1, <4>1, ReachStep
        <5> QED BY <4>1, <5>1, Zenon DEF x
      <4>4. Len(x) \in 1 .. Len(x) /\ x[Len(x)].right = "\""
        BY <3>3, <3>4, TextEnds, Zenon
      <4>5. ws[Len(x) + (1 + Reach(exprs, i))] = x[Len(x)]
        BY <4>2, <4>4, Zenon DEF Here
      <4>6. Len(x) + (1 + Reach(exprs, i)) = o
        <5>1. \A a, b, c : a \in Nat /\ b \in Nat /\ c = b + a => a + (1 + b) = 1 + c
          OBVIOUS
        <5>2. Len(x) \in Nat
          BY <4>3, LenLine
        <5> QED BY <4>3, <5>1, <5>2, ZenonT(40)
      <4>7. ws[o].right = "\""
        BY <4>4, <4>5, <4>6, Zenon
      <4>8. ~WordArg(ws[o])
        BY <4>7 DEF WordArg, Unmarked
      <4> QED BY <4>8, Zenon DEF Apart, Arg
    <3>5. CASE IsText(exprs[k + 1])
      <4> DEFINE x == Spoken(exprs[k + 1])
      <4>1. 1 \in 1 .. Len(x) /\ x[1].left = "\""
        BY <3>3, <3>5, TextEnds, Zenon
      <4>2. /\ Reach(exprs, k) \in Nat /\ OrColon(ws[1 + (1 + Reach(exprs, k))], x[1])
        BY <3>1, <4>1, PrintWord, Zenon
      <4>3. 1 + (1 + Reach(exprs, k)) = o + 1
        BY <4>2
      <4>4. ws[o + 1].left = "\""
        BY <4>1, <4>2, <4>3, Zenon DEF OrColon
      <4>5. ~WordArg(ws[o + 1])
        BY <4>4 DEF WordArg, Unmarked
      <4> QED BY <4>5, Zenon DEF Apart, Arg
    <3> QED BY <3>2, <3>4, <3>5, Zenon
  <2> QED BY <2>1, <2>2, <2>3, Zenon
<1> QED BY <1>1, <1>2, <1>3, <1>4, Zenon DEF Fits, Good

(* If print takes every expression, its line is translated. *)
LEMMA PrintRight ==
  ASSUME NEW s \in Statements, IsStatement(s), s.kind = "print", FirstGood(s.exprs, Len(s.exprs))
  PROVE  ConvertLine(Source(s)) = Python(s)
<1> DEFINE exprs == s.exprs
           ws == Ready(s)
           n == Len(exprs)
<1>1. /\ exprs \in Seq(Expressions) /\ n \in Nat /\ Legal(exprs)
      /\ ws \in Line /\ Len(ws) = Len(Voice(s)) + 1 /\ Len(Voice(s)) \in Nat
      /\ Len(Voice(s)) = Reach(exprs, n)
      /\ ConvertLine(Source(s)) = Called(Sign("print"), FlattenSeq(Part(ws, 1, Len(Voice(s)))))
      /\ Python(s) = Called(Sign("print"), Meant(exprs, n))
  BY PrintLine, Zenon
<1>2. Fits(ws, exprs, n)
  BY FitsPrint, Zenon
<1>3. Len(ws) >= 1 /\ n <= n
  <2>1. Len(ws) >= 1
    BY <1>1
  <2>2. \A a \in Nat : a <= a
    OBVIOUS
  <2> QED BY <1>1, <2>1, <2>2, Zenon
<1>4. FlattenSeq(Part(ws, 1, Reach(exprs, n))) = Meant(exprs, n)
  BY <1>1, <1>2, <1>3, Printed, Zenon
<1> QED BY <1>1, <1>4, Zenon
-----------------------------------------------------------------------------
(* Now the other direction: the first expression that is not good is not   *)
(* printed as it should be.                                                *)

(* Calls of the same name with different arguments are different. *)
LEMMA CalledCancel ==
  ASSUME NEW h \in Line, NEW x \in Line, NEW y \in Line, Called(h, x) = Called(h, y)
  PROVE  x = y
<1>1. Sign("(") \in Line /\ Sign(")") \in Line
  BY SignLine, Known
<1> DEFINE p == Cat(h, Sign("("))
<1>2. p \in Line
  BY <1>1, CatLine
<1>3. Cat(Cat(p, x), Sign(")")) = Cat(Cat(p, y), Sign(")"))
  BY Zenon DEF Called
<1> HIDE DEF p
<1>4. Cat(p, x) \in Line /\ Cat(p, y) \in Line
  BY <1>2, CatLine
<1>5. Cat(p, x) = Cat(p, y)
  <2> DEFINE a == Cat(p, x)
             b == Cat(p, y)
  <2>1. a \in Line /\ b \in Line /\ Cat(a, Sign(")")) = Cat(b, Sign(")")) /\ Sign(")") \in Line
    BY <1>1, <1>3, <1>4, Zenon
  <2> HIDE DEF a, b
  <2>2. a = b
    BY <2>1, CatCancelRight
  <2> QED BY <2>2, Zenon DEF a, b
<1> QED BY <1>2, <1>5, CatCancelLeft, Zenon

(* What the Python of k + 1 expressions is that of all begins with. *)
LEMMA MeantFrom ==
  ASSUME NEW exprs \in Seq(Expressions), Legal(exprs), NEW k \in Nat, k + 1 <= Len(exprs)
  PROVE  \E t \in Line : Meant(exprs, Len(exprs)) = Cat(Meant(exprs, k + 1), t)
<1> DEFINE n == Len(exprs)
           X == {i \in Nat : (k + 1) + i <= n =>
                   /\ Meant(exprs, (k + 1) + i) \in Line
                   /\ \E t \in Line : Meant(exprs, (k + 1) + i) = Cat(Meant(exprs, k + 1), t)}
<1>0. n \in Nat
  BY SpokensType
<1>1. \A i \in Nat : i + 1 <= n =>
        /\ Meant(exprs, i) \in Line /\ Meant(exprs, i + 1) \in Line
        /\ \E t \in Line : Meant(exprs, i + 1) = Cat(Meant(exprs, i), t)
  <2> SUFFICES ASSUME NEW i \in Nat, i + 1 <= n
               PROVE  /\ Meant(exprs, i) \in Line /\ Meant(exprs, i + 1) \in Line
                      /\ \E t \in Line : Meant(exprs, i + 1) = Cat(Meant(exprs, i), t)
    OBVIOUS
  <2> DEFINE t == Cat(Sep(1 + Reach(exprs, i)), ExprPython(exprs[i + 1]))
  <2>1. Meant(exprs, i) \in Line /\ Meant(exprs, i + 1) = Cat(Meant(exprs, i), t)
    BY MeantStep
  <2>2. t \in Line
    <3>1. i + 1 \in 1 .. n
      BY <1>0
    <3>2. ExprPython(exprs[i + 1]) \in Line
      BY <3>1, SpokensType, ExprLines, Zenon DEF Legal
    <3>3. Sep(1 + Reach(exprs, i)) \in Line
      BY SepLine
    <3> QED BY <3>2, <3>3, CatLine
  <2> HIDE DEF t
  <2>3. Cat(Meant(exprs, i), t) \in Line
    BY <2>1, <2>2, CatLine
  <2> QED BY <2>1, <2>2, <2>3, Zenon
<1>2. 0 \in X
  <2>1. (k + 1) + 0 = k + 1
    OBVIOUS
  <2>2. k + 1 <= n
    OBVIOUS
  <2>3. Meant(exprs, k + 1) \in Line
    BY <1>1, <2>2, Zenon
  <2>4. Meant(exprs, k + 1) = Cat(Meant(exprs, k + 1), <<>>) /\ <<>> \in Line
    BY <2>3, CatNil, NilLine
  <2>5. 0 \in Nat
    OBVIOUS
  <2> QED BY <2>1, <2>3, <2>4, <2>5, Zenon
<1>3. \A i \in Nat : i \in X => i + 1 \in X
  <2> SUFFICES ASSUME NEW i \in Nat, i \in X, (k + 1) + (i + 1) <= n
               PROVE  /\ Meant(exprs, (k + 1) + (i + 1)) \in Line
                      /\ \E t \in Line : Meant(exprs, (k + 1) + (i + 1))
                           = Cat(Meant(exprs, k + 1), t)
    <3>1. \A j \in Nat : j + 1 \in Nat
      OBVIOUS
    <3> QED BY <3>1, Zenon
  <2> DEFINE m == (k + 1) + i
  <2>1. m \in Nat /\ m + 1 = (k + 1) + (i + 1) /\ m + 1 <= n /\ m <= n
    <3>1. (k + 1) + (i + 1) <= n /\ n \in Nat
      BY <1>0, Zenon
    <3> HIDE DEF X, n
    <3> QED BY <3>1
  <2>2. PICK t \in Line : Meant(exprs, m) = Cat(Meant(exprs, k + 1), t)
    BY <2>1, Zenon
  <2>3. /\ Meant(exprs, m + 1) \in Line
        /\ \E u \in Line : Meant(exprs, m + 1) = Cat(Meant(exprs, m), u)
    BY <1>1, <2>1, Zenon
  <2>4. PICK u \in Line : Meant(exprs, m + 1) = Cat(Meant(exprs, m), u)
    BY <2>3, Zenon
  <2>5. Meant(exprs, k + 1) \in Line
    <3>1. k + 1 <= n
      OBVIOUS
    <3> QED BY <1>1, <3>1, Zenon
  <2>6. Cat(Cat(Meant(exprs, k + 1), t), u) = Cat(Meant(exprs, k + 1), Cat(t, u))
          /\ Cat(t, u) \in Line
    BY <2>5, CatAssoc, CatLine
  <2> QED BY <2>1, <2>2, <2>3, <2>4, <2>6, Zenon
<1>4. Nat \subseteq X
  <2> HIDE DEF X
  <2> QED BY <1>2, <1>3, NatInSet
<1>5. n - (k + 1) \in Nat /\ (k + 1) + (n - (k + 1)) = n /\ n <= n
  BY <1>0
<1> HIDE DEF n
<1>6. n - (k + 1) \in X
  <2> HIDE DEF X
  <2> QED BY <1>4, <1>5
<1>7. \E t \in Line : Meant(exprs, n) = Cat(Meant(exprs, k + 1), t)
  BY <1>5, <1>6, Zenon
<1> QED BY <1>7, Zenon DEF n
-----------------------------------------------------------------------------
(* What the tokens of that expression would have to be. *)

(* Where the words of expression K + 1 begin, the word print counted. *)
Spot(s, K) == 1 + Reach(s.exprs, K)

(* The first bad expression begins at an edge. *)
LEMMA PrintSplit ==
  ASSUME NEW s \in Statements, IsStatement(s), s.kind = "print",
         NEW K, FirstGood(s.exprs, K), K + 1 <= Len(s.exprs)
  PROVE  LET e == s.exprs[K + 1]
             x == Spoken(e) IN
         /\ e \in Expressions /\ IsExpression(e) /\ K \in Nat
         /\ Ready(s) \in Line /\ Spot(s, K) \in Nat /\ Spot(s, K) >= 1 /\ Edge(Ready(s), Spot(s, K))
         /\ Len(x) \in Nat /\ Spot(s, K) + Len(x) <= Len(Ready(s))
         /\ \A j \in 1 .. Len(x) : OrColon(Ready(s)[j + Spot(s, K)], x[j])
<1> DEFINE exprs == s.exprs
           ws == Ready(s)
           n == Len(exprs)
           e == exprs[K + 1]
           x == Spoken(e)
           o == Spot(s, K)
<1>1. /\ exprs \in Seq(Expressions) /\ n \in Nat /\ Legal(exprs)
      /\ ws \in Line /\ Len(ws) = Len(Voice(s)) + 1 /\ Len(Voice(s)) \in Nat
  BY PrintLine, Zenon
<1>2. K \in Nat /\ K <= n
  BY Zenon DEF FirstGood
<1>3. K + 1 \in 1 .. n /\ K <= K
  BY <1>1, <1>2
<1>4. e \in Expressions /\ IsExpression(e)
  BY <1>1, <1>3, SpokensType, Zenon DEF Legal
<1>5. Len(x) \in Nat /\ Len(x) >= 1
  BY <1>4, ExprLines
<1>6. Edge(ws, o)
  BY <1>1, <1>2, <1>3, FitsPrint, EdgeAll, Zenon DEF Spot
<1>7. \A j \in 1 .. Len(x) : /\ Reach(exprs, K) \in Nat
                             /\ Reach(exprs, K) + j \in 1 .. Len(Voice(s))
                             /\ OrColon(ws[j + (1 + Reach(exprs, K))], x[j])
  BY <1>2, PrintWord, Zenon
<1>8. o \in Nat /\ o >= 1 /\ o + Len(x) <= Len(ws)
  <2>1. Len(x) \in 1 .. Len(x)
    <3> HIDE DEF x
    <3> QED BY <1>5
  <2>2. Reach(exprs, K) \in Nat /\ Reach(exprs, K) + Len(x) \in 1 .. Len(Voice(s))
    BY <1>7, <2>1, Zenon
  <2>3. \A a, b, c, d \in Nat : a + b \in 1 .. c /\ d = c + 1 =>
          1 + a \in Nat /\ 1 + a >= 1 /\ (1 + a) + b <= d
    OBVIOUS
  <2>4. Len(ws) \in Nat
    BY <1>1, LenLine, Zenon
  <2> QED BY <1>1, <1>5, <2>2, <2>3, <2>4, Zenon DEF Spot
<1>9. \A j \in 1 .. Len(x) : OrColon(ws[j + o], x[j])
  BY <1>7, Zenon DEF Spot
<1> QED BY <1>1, <1>2, <1>4, <1>5, <1>6, <1>8, <1>9, Zenon

(* If a line of print is translated, what stands for the first words of an *)
(* expression is its Python.                                               *)
LEMMA PrintRival ==
  ASSUME NEW s \in Statements, IsStatement(s), s.kind = "print",
         NEW K, FirstGood(s.exprs, K), K + 1 <= Len(s.exprs),
         ConvertLine(Source(s)) = Python(s),
         NEW l \in Nat, Spot(s, K) + l <= Len(Ready(s)),
         NEW z \in Line, FlattenSeq(Part(Ready(s), Spot(s, K), l)) = Cat(Sep(Spot(s, K)), z),
         NEW i \in Nat, 1 <= i, i <= Len(z), i <= Len(ExprPython(s.exprs[K + 1]))
  PROVE  z[i] = ExprPython(s.exprs[K + 1])[i]
<1> DEFINE exprs == s.exprs
           ws == Ready(s)
           n == Len(exprs)
           e == exprs[K + 1]
           p == ExprPython(e)
           o == Spot(s, K)
           r == Reach(exprs, K)
           v == Len(Voice(s))
           M == v - r
           q == M - l
<1>1. /\ exprs \in Seq(Expressions) /\ n \in Nat /\ Legal(exprs)
      /\ ws \in Line /\ Len(ws) = v + 1 /\ v \in Nat
      /\ v = Reach(exprs, n)
      /\ ConvertLine(Source(s)) = Called(Sign("print"), FlattenSeq(Part(ws, 1, v)))
      /\ Python(s) = Called(Sign("print"), Meant(exprs, n))
  BY PrintLine, Zenon
<1>2. K \in Nat /\ K <= n /\ K <= K /\ e \in Expressions /\ IsExpression(e) /\ o \in Nat
  <2>1. K \in Nat /\ K <= n
    BY Zenon DEF FirstGood
  <2>2. e \in Expressions /\ IsExpression(e) /\ o \in Nat
    BY PrintSplit, Zenon
  <2>3. \A a \in Nat : a <= a
    OBVIOUS
  <2> QED BY <2>1, <2>2, <2>3, Zenon
<1>3. Fits(ws, exprs, K)
  BY FitsPrint, Zenon
<1>4. Len(ws) \in Nat /\ Len(ws) >= 1
  <2>1. Len(ws) \in Nat
    BY <1>1, LenLine
  <2>2. \A a, b \in Nat : a = b + 1 => a >= 1
    OBVIOUS
  <2> QED BY <1>1, <2>1, <2>2, Zenon
<1>5. r \in Nat /\ 1 + r <= Len(ws) /\ FlattenSeq(Part(ws, 1, r)) = Meant(exprs, K)
  <2>1. /\ ws \in Line /\ Len(ws) >= 1 /\ exprs \in Seq(Expressions) /\ Legal(exprs)
        /\ Fits(ws, exprs, K) /\ K \in Nat /\ K <= K
    BY <1>1, <1>2, <1>3, <1>4, Zenon
  <2> HIDE DEF ws, exprs
  <2> QED BY <2>1, Printed
<1>6. /\ o = 1 + r /\ M \in Nat /\ q \in Nat /\ r + M = v /\ l + q = M
      /\ (1 + r) + M <= Len(ws) /\ (o + l) + q <= Len(ws) /\ 1 + v <= Len(ws)
  <2>1. o = 1 + r /\ o + l <= Len(ws)
    BY DEF Spot
  <2> HIDE DEF o, r, v
  <2>2. r \in Nat /\ v \in Nat /\ l \in Nat /\ Len(ws) = v + 1 /\ 1 + r <= Len(ws)
          /\ (1 + r) + l <= v + 1
    BY <1>1, <1>5, <2>1, Zenon
  <2>3. \A a, b, c, d : a \in Nat /\ b \in Nat /\ c \in Nat /\ d = b + 1 /\ (1 + a) + c <= b + 1 =>
          /\ b - a \in Nat /\ (b - a) - c \in Nat /\ a + (b - a) = b /\ c + ((b - a) - c) = b - a
          /\ (1 + a) + (b - a) <= d /\ ((1 + a) + c) + ((b - a) - c) <= d /\ 1 + b <= d
    OBVIOUS
  <2> QED BY <2>1, <2>2, <2>3, Zenon
<1>7. p \in Line /\ Sep(o) \in Line /\ Meant(exprs, K) \in Line
  <2>1. p \in Line /\ Sep(o) \in Line
    BY <1>2, ExprLines, SepLine, Zenon
  <2>2. Meant(exprs, K) \in Line
    BY <1>1, <1>2, MeantStep, Zenon
  <2> QED BY <2>1, <2>2
<1> HIDE DEF p, v, M, q
<1>8. FlattenSeq(Part(ws, 1, v)) = Cat(Meant(exprs, K), FlattenSeq(Part(ws, o, M)))
  <2>1. FlattenSeq(Part(ws, 1, r + M))
          = Cat(FlattenSeq(Part(ws, 1, r)), FlattenSeq(Part(ws, 1 + r, M)))
    <3>1. r \in Nat /\ M \in Nat /\ 1 \in Nat /\ (1 + r) + M <= Len(ws) /\ ws \in Line
      BY <1>1, <1>5, <1>6
    <3> HIDE DEF r, ws
    <3> QED BY <3>1, PartCat
  <2> QED BY <1>5, <1>6, <2>1, Zenon
<1> HIDE DEF o
<1>9. FlattenSeq(Part(ws, o, M)) = Cat(Cat(Sep(o), z), FlattenSeq(Part(ws, o + l, q)))
      /\ FlattenSeq(Part(ws, o + l, q)) \in Line /\ FlattenSeq(Part(ws, 1, v)) \in Line
      /\ FlattenSeq(Part(ws, o, M)) \in Line
  <2>1. o \in Nat /\ l \in Nat /\ q \in Nat /\ (o + l) + q <= Len(ws) /\ ws \in Line
          /\ o + l \in Nat
    <3>1. /\ o \in Nat /\ l \in Nat /\ q \in Nat /\ (o + l) + q <= Len(ws)
      BY <1>2, <1>6, Zenon
    <3>2. \A a, b \in Nat : a + b \in Nat
      OBVIOUS
    <3> QED BY <1>1, <3>1, <3>2, Zenon
  <2>2. v \in Nat /\ M \in Nat /\ 1 + v <= Len(ws) /\ o + M <= Len(ws) /\ 1 \in Nat
    BY <1>1, <1>6
  <2>3. FlattenSeq(Part(ws, o, l)) = Cat(Sep(o), z)
    BY DEF o
  <2> HIDE DEF ws
  <2>4. FlattenSeq(Part(ws, o, l + q))
          = Cat(FlattenSeq(Part(ws, o, l)), FlattenSeq(Part(ws, o + l, q)))
    BY <2>1, PartCat
  <2>5. /\ FlattenSeq(Part(ws, o + l, q)) \in Line /\ FlattenSeq(Part(ws, 1, v)) \in Line
        /\ FlattenSeq(Part(ws, o, M)) \in Line
    BY <2>1, <2>2, PartType
  <2> QED BY <1>6, <2>3, <2>4, <2>5, Zenon
<1>10. PICK t \in Line : Meant(exprs, n) = Cat(Meant(exprs, K), Cat(Cat(Sep(o), p), t))
  <2>1. PICK t \in Line : Meant(exprs, n) = Cat(Meant(exprs, K + 1), t)
    BY <1>1, <1>2, MeantFrom, Zenon
  <2>2. Meant(exprs, K + 1) = Cat(Meant(exprs, K), Cat(Sep(o), p))
    BY <1>1, <1>2, <1>6, MeantStep, Zenon DEF p
  <2>3. Cat(Sep(o), p) \in Line
    BY <1>7, CatLine
  <2>4. Cat(Cat(Meant(exprs, K), Cat(Sep(o), p)), t) = Cat(Meant(exprs, K), Cat(Cat(Sep(o), p), t))
    BY <1>7, <2>3, CatAssoc
  <2> QED BY <2>1, <2>2, <2>4, Zenon
<1> DEFINE w == FlattenSeq(Part(ws, o + l, q))
<1>11. Cat(z, w) = Cat(p, t)
  <2>1. /\ Cat(Sep(o), p) \in Line /\ Cat(Cat(Sep(o), p), t) \in Line /\ Cat(p, t) \in Line
        /\ Cat(z, w) \in Line /\ w \in Line
    BY <1>7, <1>9, CatLine
  <2>2. Meant(exprs, n) \in Line
    BY <1>7, <1>10, <2>1, CatLine
  <2>3. Sign("print") \in Line
    BY SignLine, Known
  <2>4. FlattenSeq(Part(ws, 1, v)) = Meant(exprs, n)
    BY <1>1, <1>9, <2>2, <2>3, CalledCancel, Zenon
  <2>5. Cat(Meant(exprs, K), FlattenSeq(Part(ws, o, M)))
          = Cat(Meant(exprs, K), Cat(Cat(Sep(o), p), t))
    BY <1>8, <1>10, <2>4, Zenon
  <2>6. FlattenSeq(Part(ws, o, M)) = Cat(Cat(Sep(o), p), t)
    <3> DEFINE a == FlattenSeq(Part(ws, o, M))
               b == Cat(Cat(Sep(o), p), t)
               c == Meant(exprs, K)
    <3>1. a \in Line /\ b \in Line /\ c \in Line /\ Cat(c, a) = Cat(c, b)
      BY <1>7, <1>9, <2>1, <2>5, Zenon
    <3> HIDE DEF a, b, c
    <3>2. a = b
      BY <3>1, CatCancelLeft
    <3> QED BY <3>2, Zenon DEF a, b
  <2> HIDE DEF w
  <2>7. Cat(Sep(o), Cat(z, w)) = Cat(Sep(o), Cat(p, t))
    <3>1. Cat(Cat(Sep(o), z), w) = Cat(Sep(o), Cat(z, w))
      BY <1>7, <2>1, CatAssoc
    <3>2. Cat(Cat(Sep(o), p), t) = Cat(Sep(o), Cat(p, t))
      BY <1>7, CatAssoc
    <3> QED BY <1>9, <2>6, <3>1, <3>2, Zenon DEF w
  <2> DEFINE a == Cat(z, w)
             b == Cat(p, t)
  <2>8. a \in Line /\ b \in Line /\ Cat(Sep(o), a) = Cat(Sep(o), b)
    BY <2>1, <2>7, Zenon
  <2> HIDE DEF a, b
  <2>9. a = b
    BY <1>7, <2>8, CatCancelLeft
  <2> QED BY <2>9, Zenon DEF a, b
<1>12. w \in Line
  BY <1>9
<1> HIDE DEF w
<1>13. Cat(z, w)[i] = z[i]
  BY <1>12, CatAt, Zenon
<1>14. i <= Len(p)
  BY DEF p
<1>15. Cat(p, t)[i] = p[i]
  BY <1>7, <1>14, CatAt, Zenon
<1> QED BY <1>11, <1>13, <1>15, Zenon DEF p
-----------------------------------------------------------------------------
(* It is enough to look at its second word ... *)

(* The word begins a text. *)
Opens(w) == w.left = "\""

(* One token. *)
LEMMA OneToken ==
  ASSUME NEW ws \in Line, NEW o \in Nat, o + 1 <= Len(ws)
  PROVE  FlattenSeq(Part(ws, o, 1)) = Token(ws, o + 1) /\ Token(ws, o + 1) \in Line
<1>1. 1 \in Nat /\ 1 \in 1 .. 1 /\ 1 + o = o + 1
  OBVIOUS
<1>2. Part(ws, o, 1) \in Pieces(1) /\ Part(ws, o, 1)[1] = Token(ws, 1 + o)
  BY <1>1, PartType
<1>3. FlattenSeq(Part(ws, o, 1)) = Token(ws, o + 1)
  BY <1>1, <1>2, FlatOne, Zenon
<1>4. Token(ws, 1 + o) \in Line
  BY <1>1, <1>2, PiecesAt, Zenon
<1> QED BY <1>1, <1>3, <1>4, Zenon

(* Between the first two words of an expression there is a parenthesis or  *)
(* a comma, unless they are in a text.                                     *)
LEMMA SecondToken ==
  ASSUME NEW ws \in Line, NEW o \in Nat, o >= 1, Edge(ws, o), o + 2 <= Len(ws),
         ~Opens(ws[o + 1])
  PROVE  \E z \in Line : /\ FlattenSeq(Part(ws, o, 2)) = Cat(Sep(o), z) /\ 2 <= Len(z)
                         /\ z[2] \in {Plainly("("), Plainly(",")}
                         /\ ~Arg(ws, o + 2) => z[2] = Plainly(",")
<1> DEFINE k == o + 2
           w == ws[o + 1]
           c == Opening(ws, k)
           d == Cat(Single(ws[k]), Closing(ws, k))
           z == Cat(Single(w), Cat(c, d))
<1>1. /\ o + 1 \in Nat /\ k \in Nat /\ k # 2 /\ k - 1 = o + 1 /\ (o + 1) + 1 = k /\ Len(ws) \in Nat
      /\ o + 1 \in 1 .. Len(ws) /\ k \in 1 .. Len(ws) /\ o + 1 <= Len(ws) /\ o + 1 >= 1
      /\ (o + 1) + 1 <= Len(ws)
  BY LenLine
<1>2. ~InText(ws, k)
  <2>1. InText(ws, (o + 1) + 1) <=> (InText(ws, o + 1) \/ ws[o + 1].left = "\"")
          /\ ws[o + 1].right # "\""
    BY <1>1, InsideStep
  <2> QED BY <1>1, <2>1, Zenon DEF Edge, Opens
<1> HIDE DEF k
<1>3. c = IF Calls(ws, o + 1) THEN Sign("(") ELSE Sign(",")
  BY <1>1, <1>2, Zenon DEF Opening
<1>4. ~Arg(ws, k) => c = Sign(",")
  <2>1. k \in o + 1 .. (o + 1) + 1
    BY <1>1
  <2>2. ~Arg(ws, k) => ~Calls(ws, o + 1)
    BY <2>1, Zenon DEF Calls, Run
  <2> QED BY <1>3, <2>2, Zenon
<1>5. c \in {Sign("("), Sign(",")}
  BY <1>3, Zenon
<1> HIDE DEF c
<1>6. c \in Line /\ Len(c) = 1 /\ c[1] \in {Plainly("("), Plainly(",")}
      /\ (~Arg(ws, k) => c[1] = Plainly(","))
  <2>1. /\ Sign("(") \in Line /\ Len(Sign("(")) = 1 /\ Sign("(")[1] = Plainly("(")
        /\ Sign(",") \in Line /\ Len(Sign(",")) = 1 /\ Sign(",")[1] = Plainly(",")
    BY SignLine, Known
  <2>2. CASE c = Sign("(")
    <3>1. ~Arg(ws, k) => c[1] = Plainly(",")
      BY <1>4, <2>1, Zenon
    <3>2. c[1] = Plainly("(")
      BY <2>1, <2>2, Zenon
    <3>3. c[1] \in {Plainly("("), Plainly(",")}
      BY <3>2, Zenon
    <3> QED BY <2>1, <2>2, <3>1, <3>3, Zenon
  <2>3. CASE c = Sign(",")
    <3>2. c[1] = Plainly(",")
      BY <2>1, <2>3, Zenon
    <3>3. c[1] \in {Plainly("("), Plainly(",")}
      BY <3>2, Zenon
    <3> QED BY <2>1, <2>3, <3>2, <3>3, Zenon
  <2> QED BY <1>5, <2>2, <2>3, Zenon
<1>7. /\ Single(w) \in Line /\ w \in Words /\ Single(ws[k]) \in Line /\ Closing(ws, k) \in Line
  <2>1. Single(ws[k]) \in Line /\ Closing(ws, k) \in Line
    BY <1>1, TokenLine
  <2>2. w \in Words
    BY <1>1, LenLine
  <2> QED BY <2>1, <2>2, SingleLine
<1>8. d \in Line
  BY <1>7, CatLine
<1>9. Token(ws, k) = Cat(c, d)
  <2>1. Cat(Cat(c, Single(ws[k])), Closing(ws, k)) = Cat(c, Cat(Single(ws[k]), Closing(ws, k)))
    BY <1>6, <1>7, CatAssoc, ZenonT(40)
  <2> QED BY <2>1, Zenon DEF Token, c
<1>10. FlattenSeq(Part(ws, o, 2)) = Cat(Sep(o), z)
  <2>1. FlattenSeq(Part(ws, o, 1 + 1))
          = Cat(FlattenSeq(Part(ws, o, 1)), FlattenSeq(Part(ws, o + 1, 1)))
    <3>1. 1 \in Nat
      OBVIOUS
    <3> QED BY <1>1, <3>1, PartCat
  <2>2. FlattenSeq(Part(ws, o, 1)) = Cat(Sep(o), Single(w))
    <3>1. FlattenSeq(Part(ws, o, 1)) = Token(ws, o + 1)
      BY <1>1, OneToken
    <3>2. Token(ws, o + 1) = Cat(Sep(o), Single(ws[o + 1]))
      BY <1>1, EdgeToken
    <3> QED BY <3>1, <3>2, Zenon
  <2>3. FlattenSeq(Part(ws, o + 1, 1)) = Token(ws, k)
    <3>1. FlattenSeq(Part(ws, o + 1, 1)) = Token(ws, (o + 1) + 1)
      BY <1>1, OneToken
    <3> QED BY <1>1, <3>1, Zenon
  <2>4. Cat(Cat(Sep(o), Single(w)), Cat(c, d)) = Cat(Sep(o), z)
    <3>1. Cat(c, d) \in Line /\ Sep(o) \in Line
      BY <1>6, <1>8, CatLine, SepLine
    <3> QED BY <1>7, <3>1, CatAssoc
  <2>5. 1 + 1 = 2
    OBVIOUS
  <2> QED BY <1>9, <2>1, <2>2, <2>3, <2>4, <2>5, Zenon
<1> HIDE DEF d
<1>11. z \in Line /\ 2 <= Len(z) /\ z[2] = c[1]
  <2>1. Cat(c, d) \in Line /\ Len(Cat(c, d)) = 1 + Len(d) /\ Len(d) \in Nat
    BY <1>6, <1>8, CatLine, LenLine, ZenonT(40)
  <2>2. z \in Line /\ Len(z) = Len(Cat(c, d)) + 1
          /\ \A i \in 1 .. Len(Cat(c, d)) : z[i + 1] = Cat(c, d)[i]
    BY <1>7, <2>1, RestCat
  <2>3. 1 \in 1 .. Len(Cat(c, d)) /\ 1 + 1 = 2 /\ 2 <= Len(Cat(c, d)) + 1
    BY <2>1
  <2>4. Cat(c, d)[1] = c[1]
    <3>1. c \in Line /\ Len(c) = 1
      BY <1>6, Zenon
    <3>2. \A a : a = 1 => a >= 1
      OBVIOUS
    <3>3. Len(c) >= 1
      BY <3>1, <3>2, Zenon
    <3> QED BY <1>8, <3>1, <3>3, FirstCat, Zenon
  <2> HIDE DEF z
  <2> QED BY <2>2, <2>3, <2>4, Zenon
<1> HIDE DEF z
<1> QED BY <1>6, <1>10, <1>11, Zenon DEF k

(* b cannot be what is printed after the word a. *)
Strange(a, b) == b.text \notin {"(", ","} \/ (b = Plainly("(") /\ Opens(a))

(* An expression whose second word is none of them, or whose second word   *)
(* is no argument but called, is not translated.                           *)
LEMMA PrintTwo ==
  ASSUME NEW s \in Statements, IsStatement(s), s.kind = "print",
         NEW K, FirstGood(s.exprs, K), K + 1 <= Len(s.exprs),
         Len(Spoken(s.exprs[K + 1])) >= 2, ~Opens(Spoken(s.exprs[K + 1])[1]),
         Len(ExprPython(s.exprs[K + 1])) >= 2,
         Strange(Spoken(s.exprs[K + 1])[2], ExprPython(s.exprs[K + 1])[2])
  PROVE  ConvertLine(Source(s)) # Python(s)
<1> DEFINE e == s.exprs[K + 1]
           x == Spoken(e)
           ws == Ready(s)
           o == Spot(s, K)
           p == ExprPython(e)
<1>1. /\ ws \in Line /\ o \in Nat /\ o >= 1 /\ Edge(ws, o) /\ Len(x) \in Nat
      /\ o + Len(x) <= Len(ws)
      /\ \A j \in 1 .. Len(x) : OrColon(ws[j + o], x[j])
  BY PrintSplit, Zenon
<1> HIDE DEF x, ws, o, p
<1>2. /\ 1 \in 1 .. Len(x) /\ 2 \in 1 .. Len(x) /\ 1 + o = o + 1 /\ 2 + o = o + 2
      /\ o + 2 <= Len(ws)
  <2>1. Len(x) >= 2
    BY DEF x
  <2>2. o \in Nat /\ Len(x) \in Nat /\ Len(ws) \in Nat /\ o + Len(x) <= Len(ws)
    BY <1>1, LenLine, Zenon
  <2> QED BY <2>1, <2>2
<1>3. (Opens(ws[o + 1]) <=> Opens(x[1])) /\ (Opens(ws[o + 2]) <=> Opens(x[2]))
  <2>1. ws[o + 1].left = x[1].left /\ ws[o + 2].left = x[2].left
    BY <1>1, <1>2, Zenon DEF OrColon
  <2> QED BY <2>1, Zenon DEF Opens
<1>4. ~Opens(ws[o + 1])
  BY <1>3 DEF x
<1>5. PICK z \in Line : /\ FlattenSeq(Part(ws, o, 2)) = Cat(Sep(o), z) /\ 2 <= Len(z)
                        /\ z[2] \in {Plainly("("), Plainly(",")}
                        /\ ~Arg(ws, o + 2) => z[2] = Plainly(",")
  BY <1>1, <1>2, <1>4, SecondToken, Zenon
<1> SUFFICES ASSUME ConvertLine(Source(s)) = Python(s)  PROVE FALSE
  OBVIOUS
<1>6. z[2] = p[2]
  <2>1. 2 \in Nat /\ 1 <= 2 /\ 2 <= Len(p)
    BY DEF p
  <2> QED BY <1>2, <1>5, <2>1, PrintRival, Zenon DEF ws, o, p
<1>7. Plainly("(").text = "(" /\ Plainly(",").text = "," /\ Plainly("(") # Plainly(",")
  BY DEF Plainly, Word
<1>8. CASE p[2].text \notin {"(", ","}
  BY <1>5, <1>6, <1>7, <1>8
<1>9. CASE p[2] = Plainly("(") /\ Opens(x[2])
  <2>1. ~Arg(ws, o + 2)
    <3>1. Opens(ws[o + 2])
      BY <1>3, <1>9, Zenon
    <3>2. ~WordArg(ws[o + 2])
      BY <3>1 DEF WordArg, Unmarked, Opens
    <3> QED BY <3>2, Zenon DEF Arg
  <2> QED BY <1>5, <1>6, <1>7, <1>9, <2>1, Zenon
<1> QED BY <1>8, <1>9, Zenon DEF Strange, x, p
-----------------------------------------------------------------------------
(* ... if it is a formula, a lambda, or a call whose first argument is a   *)
(* text.                                                                   *)

(* The first word of several lines is that of the first. *)
LEMMA FlatFirst ==
  ASSUME NEW n \in Nat, n >= 1, NEW f, f \in Pieces(n), Len(f[1]) >= 1
  PROVE  FlattenSeq(f)[1] = f[1][1] /\ Len(FlattenSeq(f)) >= 1
<1> DEFINE m == n - 1
<1>1. m \in Nat /\ 1 + m = n /\ 1 \in 1 .. n /\ 1 + m <= n /\ 1 \in Nat
  OBVIOUS
<1> HIDE DEF m
<1>2. f[1] \in Line
  BY <1>1, PiecesAt
<1>3. FlattenSeq(f) = Cat(f[1], FlattenSeq(Shifted(f, 1, m)))
  <2>1. f \in Pieces(1 + m)
    BY <1>1
  <2> QED BY <1>1, <2>1, FlatCons
<1>4. FlattenSeq(Shifted(f, 1, m)) \in Line
  <2>1. Shifted(f, 1, m) \in Pieces(m)
    BY <1>1, ShiftedType
  <2> QED BY <1>1, <2>1, FlatLine
<1>5. Cat(f[1], FlattenSeq(Shifted(f, 1, m)))[1] = f[1][1]
  BY <1>2, <1>4, FirstCat
<1>6. Len(Cat(f[1], FlattenSeq(Shifted(f, 1, m)))) >= 1
  <2>1. /\ Len(Cat(f[1], FlattenSeq(Shifted(f, 1, m))))
             = Len(f[1]) + Len(FlattenSeq(Shifted(f, 1, m)))
        /\ Len(f[1]) \in Nat /\ Len(FlattenSeq(Shifted(f, 1, m))) \in Nat
    BY <1>2, <1>4, CatLine, LenLine
  <2> QED BY <2>1
<1> QED BY <1>3, <1>5, <1>6, Zenon

(* This is so for a formula: no comma should follow. *)
LEMMA TwoOfValue ==
  ASSUME NEW e \in Expressions, IsExpression(e), e.form = "value",
         ~e.items[1].literal, Len(e.items[1].texts) # 1
  PROVE  /\ Len(Spoken(e)) >= 2 /\ ~Opens(Spoken(e)[1]) /\ Len(ExprPython(e)) >= 2
         /\ Strange(Spoken(e)[2], ExprPython(e)[2])
<1> DEFINE item == e.items[1]
<1>1. 1 \in 1 .. Len(e.items) /\ Spoken(e) = ItemPython(item) /\ ExprPython(e) = ItemPython(item)
  BY ValueForm
<1>2. /\ item \in Items /\ IsItem(item) /\ Len(item.texts) \in Nat /\ Len(item.texts) >= 1
      /\ Len(ItemPython(item)) = Len(item.texts)
  BY <1>1, ExprItems
<1>3. ~item.literal /\ Len(item.texts) # 1
  OBVIOUS
<1> HIDE DEF item
<1>4. 1 \in 1 .. Len(item.texts) /\ 2 \in 1 .. Len(item.texts) /\ Len(ItemPython(item)) >= 2
  <2>1. /\ Len(item.texts) \in Nat /\ Len(item.texts) >= 1 /\ Len(item.texts) # 1
        /\ Len(ItemPython(item)) = Len(item.texts)
    BY <1>2, <1>3, Zenon
  <2>2. \A a \in Nat : \A b : a >= 1 /\ a # 1 /\ b = a => 1 \in 1 .. a /\ 2 \in 1 .. a /\ b >= 2
    OBVIOUS
  <2> QED BY <2>1, <2>2, Zenon
<1>5. item.texts[2] \notin {"lambda", "=", "+=", "(", ")", ",", ":"}
  BY <1>2, <1>3, <1>4, PlainItem, Zenon
<1>6. ItemPython(item)[1].left = "" /\ ItemPython(item)[2].text = item.texts[2]
  BY <1>2, <1>3, <1>4, PlainWords, Zenon
<1>7. ~Opens(ItemPython(item)[1])
  BY <1>6 DEF Opens
<1>8. Strange(ItemPython(item)[2], ItemPython(item)[2])
  BY <1>5, <1>6, Zenon DEF Strange
<1> QED BY <1>1, <1>4, <1>7, <1>8, Zenon

(* And for a lambda. *)
LEMMA TwoOfLambda ==
  ASSUME NEW e \in Expressions, IsExpression(e), e.form = "lambda"
  PROVE  /\ Len(Spoken(e)) >= 2 /\ ~Opens(Spoken(e)[1]) /\ Len(ExprPython(e)) >= 2
         /\ Strange(Spoken(e)[2], ExprPython(e)[2])
<1> DEFINE b == Cat(Bare(e.head), Body(e))
           q == ParametersPython(e.head)
           f == Params(e.head)
           y == BodyPython(e.items)
<1>1. /\ Len(e.head) >= 1 /\ 1 \in 1 .. Len(e.head)
      /\ Bare(e.head) \in Line /\ Len(Bare(e.head)) = Len(e.head)
      /\ Spoken(e) = Cat(Sign("lambda"), b)
      /\ ExprPython(e) = Cat(Cat(Sign("lambda"), q), y)
  BY LambdaForm
<1>2. e.head \in Seq(Texts) /\ Len(e.head) \in Nat
  BY ExprParts
<1>3. Body(e) \in Line /\ Len(Body(e)) \in Nat /\ y \in Line
  BY BodyLine, LenLine, LambdaBody
<1>4. q = Comma(f) /\ f \in Pieces(Len(e.head)) /\ q \in Line
  BY <1>1, <1>2, ParamsType, Zenon
<1>5. b \in Line /\ Len(b) = Len(e.head) + Len(Body(e))
  BY <1>1, <1>3, CatLine, Zenon
<1>6. Len(b) >= 1
  BY <1>1, <1>2, <1>3, <1>5
<1>7. /\ Sign("lambda") = Single(Plainly("lambda")) /\ Plainly("lambda") \in Words
      /\ Plainly("lambda").left = ""
  BY PlainlyWord, Known, Zenon DEF Sign
<1>8. f[1] = Single(Word(e.head[1], "", IF 1 = Len(e.head) THEN ":" ELSE ""))
  <2>1. DOMAIN e.head = 1 .. Len(e.head)
    BY ExprParts
  <2> QED BY <1>1, <2>1 DEF Params
<1> DEFINE w == Word(e.head[1], "", IF 1 = Len(e.head) THEN ":" ELSE "")
<1>9. w.text = e.head[1]
  BY DEF Word
<1>10. w \in Words /\ Len(f[1]) = 1 /\ f[1][1] = w /\ Len(f[1]) >= 1
  <2> HIDE DEF w
  <2>1. f[1] = <<w>>
    BY <1>8, Zenon DEF Single, w
  <2>2. Len(f[1]) = 1 /\ f[1][1] = w
    <3>1. Len(<<w>>) = 1 /\ <<w>>[1] = w
      OBVIOUS
    <3> QED BY <2>1, <3>1, Zenon
  <2>3. f[1] \in Line
    BY <1>1, <1>2, <1>4, PiecesAt
  <2>4. 1 \in 1 .. Len(f[1])
    BY <2>2
  <2>5. w \in Words
    BY <2>2, <2>3, <2>4, LenLine, Zenon
  <2>6. \A a : a = 1 => a >= 1
    OBVIOUS
  <2> QED BY <2>2, <2>5, <2>6, Zenon
<1> HIDE DEF f, w, b
<1>11. q[1] = w /\ Len(q) >= 1
  <2>1. Commas(f) \in Pieces(Len(e.head)) /\ Commas(f)[1] = f[1]
    BY <1>1, <1>2, <1>4, CommasType, Zenon
  <2>2. FlattenSeq(Commas(f))[1] = Commas(f)[1][1] /\ Len(FlattenSeq(Commas(f))) >= 1
    <3>1. Len(Commas(f)[1]) >= 1
      BY <1>10, <2>1, Zenon
    <3> QED BY <1>1, <1>2, <2>1, <3>1, FlatFirst, Zenon
  <2> QED BY <1>4, <1>10, <2>1, <2>2, CommaIs, Zenon
<1> HIDE DEF q, y
<1>12. Spoken(e)[1] = Plainly("lambda") /\ Len(Spoken(e)) = Len(b) + 1
  <2> DEFINE z == Cat(Single(Plainly("lambda")), b)
  <2>1. z[1] = Plainly("lambda") /\ Len(z) = Len(b) + 1
    BY <1>5, <1>7, RestCat, Zenon
  <2>2. Spoken(e) = z
    BY <1>1, <1>7, Zenon
  <2> QED BY <2>1, <2>2, Zenon
<1>13. ExprPython(e)[2] = w /\ Len(ExprPython(e)) >= 2
  <2>1. Cat(Cat(Sign("lambda"), q), y) = Cat(Single(Plainly("lambda")), Cat(q, y))
    <3>1. Sign("lambda") \in Line
      BY SignLine, Known
    <3> DEFINE l == Sign("lambda")
    <3>2. l \in Line /\ l = Single(Plainly("lambda"))
      BY <1>7, <3>1, Zenon
    <3> HIDE DEF l
    <3>3. Cat(Cat(l, q), y) = Cat(l, Cat(q, y))
      BY <1>3, <1>4, <3>2, CatAssoc
    <3> QED BY <3>2, <3>3, Zenon DEF l
  <2>2. Cat(q, y) \in Line /\ Len(Cat(q, y)) = Len(q) + Len(y) /\ Len(q) \in Nat /\ Len(y) \in Nat
    BY <1>3, <1>4, CatLine, LenLine
  <2>3. Cat(q, y)[1] = w
    <3>1. Cat(q, y)[1] = q[1]
      BY <1>3, <1>4, <1>11, FirstCat, Zenon
    <3> QED BY <1>11, <3>1, Zenon
  <2> DEFINE z == Cat(Single(Plainly("lambda")), Cat(q, y))
  <2>4. Len(z) = Len(Cat(q, y)) + 1 /\ \A i \in 1 .. Len(Cat(q, y)) : z[i + 1] = Cat(q, y)[i]
    BY <1>7, <2>2, RestCat
  <2> HIDE DEF z
  <2>5. 1 \in 1 .. Len(Cat(q, y)) /\ 1 + 1 = 2 /\ Len(Cat(q, y)) + 1 >= 2
    <3>1. Len(q) >= 1 /\ Len(Cat(q, y)) = Len(q) + Len(y) /\ Len(q) \in Nat /\ Len(y) \in Nat
      BY <1>11, <2>2, Zenon
    <3> QED BY <3>1
  <2>6. z[2] = w /\ Len(z) >= 2
    BY <2>3, <2>4, <2>5, Zenon
  <2> QED BY <1>1, <2>1, <2>6, Zenon DEF z
<1>14. Strange(Spoken(e)[2], ExprPython(e)[2])
  <2>1. IsName(e.head[1])
    BY <1>1, HeadNames
  <2>2. e.head[1] \notin {"(", ","}
    BY <2>1 DEF IsName, Operators
  <2> QED BY <1>9, <1>13, <2>2, Zenon DEF Strange, w
<1>15. ~Opens(Spoken(e)[1])
  BY <1>7, <1>12 DEF Opens
<1>16. Len(Spoken(e)) >= 2
  <2>1. \A a, c \in Nat : c >= 1 /\ a = c + 1 => a >= 2
    OBVIOUS
  <2>2. Len(b) \in Nat /\ Len(Spoken(e)) \in Nat
    BY <1>5, LenLine, ExprLines, Zenon
  <2> QED BY <1>6, <1>12, <2>1, <2>2, Zenon
<1> QED BY <1>13, <1>14, <1>15, <1>16, Zenon

(* And for a call whose first argument is a text: there is no parenthesis  *)
(* between a name and a text.                                              *)
LEMMA TwoOfCall ==
  ASSUME NEW e \in Expressions, IsExpression(e), e.form = "call", e.items[1].literal
  PROVE  /\ Len(Spoken(e)) >= 2 /\ ~Opens(Spoken(e)[1]) /\ Len(ExprPython(e)) >= 2
         /\ Strange(Spoken(e)[2], ExprPython(e)[2])
<1> DEFINE h == Plainly(e.head[1])
           f == Pythons(e.items)
           c == Comma(f)
<1>1. /\ Len(e.items) >= 1 /\ f \in Pieces(Len(e.items)) /\ h \in Words
      /\ Spoken(e) = Cat(Single(h), Body(e))
      /\ ExprPython(e) = Called(Single(h), c)
  BY CallForm
<1>2. Len(e.items) \in Nat
  BY ExprParts
<1>3. 1 \in 1 .. Len(e.items)
  BY <1>1, <1>2
<1>4. /\ e.items[1] \in Items /\ IsItem(e.items[1]) /\ Len(ItemPython(e.items[1])) >= 1
      /\ f[1] = ItemPython(e.items[1])
  BY <1>3, ExprItems
<1>5. Opens(ItemPython(e.items[1])[1])
  BY <1>4, LiteralFirst DEF Opens
<1>6. Body(e)[1] = ItemPython(e.items[1])[1] /\ Len(Body(e)) >= 1
  <2> HIDE DEF f
  <2>1. FlattenSeq(f)[1] = f[1][1] /\ Len(FlattenSeq(f)) >= 1
    BY <1>1, <1>2, <1>4, FlatFirst, Zenon
  <2> QED BY <1>4, <2>1, Zenon DEF Body, f
<1>7. c \in Line
  BY <1>1, <1>2, CommaLine
<1>8. Body(e) \in Line
  BY BodyLine
<1>9. h.left = ""
  BY DEF Plainly, Word
<1> HIDE DEF c, h, f
<1>10. ExprPython(e)[2] = Plainly("(") /\ Len(ExprPython(e)) = Len(c) + 3 /\ Len(c) \in Nat
  <2> DEFINE z == Called(Single(h), c)
  <2>1. z[2] = Plainly("(") /\ Len(z) = Len(c) + 3
    BY <1>1, <1>7, CalledWords, Zenon
  <2>2. ExprPython(e) = z /\ Len(c) \in Nat
    BY <1>1, <1>7, LenLine, Zenon DEF c
  <2> QED BY <2>1, <2>2, Zenon
<1>11. /\ Spoken(e)[1] = h /\ Len(Spoken(e)) = Len(Body(e)) + 1 /\ Len(Body(e)) \in Nat
       /\ \A k \in 1 .. Len(Body(e)) : Spoken(e)[k + 1] = Body(e)[k]
  <2>1. LET z == Cat(Single(h), Body(e)) IN
        /\ z[1] = h /\ Len(z) = Len(Body(e)) + 1
        /\ \A k \in 1 .. Len(Body(e)) : z[k + 1] = Body(e)[k]
    BY <1>1, <1>8, RestCat
  <2> QED BY <1>1, <1>8, <2>1, LenLine, Zenon
<1>12. 1 \in 1 .. Len(Body(e)) /\ 1 + 1 = 2 /\ Len(Spoken(e)) >= 2
  <2>1. Len(Body(e)) >= 1 /\ Len(Body(e)) \in Nat /\ Len(Spoken(e)) = Len(Body(e)) + 1
    BY <1>6, <1>11, Zenon
  <2> QED BY <2>1
<1>13. Opens(Spoken(e)[2])
  BY <1>5, <1>6, <1>11, <1>12, Zenon
<1>14. Strange(Spoken(e)[2], ExprPython(e)[2])
  BY <1>10, <1>13, Zenon DEF Strange
<1>15. ~Opens(Spoken(e)[1])
  BY <1>9, <1>11 DEF Opens
<1>16. Len(ExprPython(e)) >= 2
  <2>1. Len(ExprPython(e)) = Len(c) + 3 /\ Len(c) \in Nat
    BY <1>10, Zenon
  <2> QED BY <2>1
<1> QED BY <1>12, <1>14, <1>15, <1>16, Zenon
-----------------------------------------------------------------------------
(* The words before a lambda are those of the source. *)

(* The words of the bad expression are those that ConvertLambda makes of   *)
(* the rest of the line.                                                   *)
LEMMA LaterWords ==
  ASSUME NEW s \in Statements, IsStatement(s), s.kind = "print",
         NEW K, FirstGood(s.exprs, K), K + 1 <= Len(s.exprs)
  PROVE  LET x == Spoken(s.exprs[K + 1])
             v == Later(s.exprs, K) IN
         /\ v \in Line /\ Len(v) \in Nat /\ Len(x) <= Len(v)
         /\ \A j \in 1 .. Len(x) : v[j] = x[j]
         /\ \A j \in 1 .. Len(x) : Ready(s)[j + Spot(s, K)] = ConvertLambda(v)[j]
<1> DEFINE exprs == s.exprs
           x == Spoken(exprs[K + 1])
           v == Later(exprs, K)
           r == Reach(exprs, K)
<1>1. /\ exprs \in Seq(Expressions) /\ Legal(exprs) /\ Voice(s) \in Line
      /\ Speech(s) \in Line /\ OrColons(Voice(s), Speech(s)) /\ Len(Voice(s)) \in Nat
  BY PrintLine, Zenon
<1>2. K \in Nat /\ K <= Len(exprs)
  BY Zenon DEF FirstGood
<1>3. /\ Until(exprs, K) \in Line /\ v \in Line /\ Speech(s) = Cat(Until(exprs, K), v)
  BY <1>1, GoodUntil, Zenon DEF Speech
<1>4. Voice(s) = Cat(Until(exprs, K), ConvertLambda(v)) /\ Len(Until(exprs, K)) = r
  BY GoodVoice, Zenon DEF Reach
<1>5. ConvertLambda(v) \in Line /\ Len(ConvertLambda(v)) = Len(v)
  <2>1. OrColons(ConvertLambda(v), v)
    BY <1>3, LambdaLine
  <2> QED BY <2>1, Zenon DEF OrColons
<1>6. r \in Nat /\ Len(v) \in Nat
  BY <1>3, <1>4, LenLine, Zenon
<1>7. Len(Voice(s)) = r + Len(v)
  BY <1>3, <1>4, <1>5, CatLine, ZenonT(40)
<1>8. \A j \in 1 .. Len(x) : /\ r + j \in 1 .. Len(Voice(s)) /\ Speech(s)[r + j] = x[j]
                             /\ Ready(s)[j + Spot(s, K)] = Voice(s)[r + j]
  BY <1>2, PrintWord, Zenon DEF Spot
<1>9. Len(x) \in Nat
  BY PrintSplit, Zenon
<1> HIDE DEF x, v, r, exprs
<1>10. Len(x) <= Len(v)
  <2>1. CASE Len(x) = 0
    BY <1>6, <2>1
  <2>2. CASE Len(x) # 0
    <3>1. Len(x) \in 1 .. Len(x)
      BY <1>9, <2>2
    <3>2. r + Len(x) \in 1 .. Len(Voice(s))
      BY <1>8, <3>1, Zenon
    <3>3. \A a, b, c \in Nat : \A d : d = a + b /\ a + c \in 1 .. d => c <= b
      OBVIOUS
    <3> QED BY <1>6, <1>7, <1>9, <3>2, <3>3, Zenon
  <2> QED BY <2>1, <2>2, Zenon
<1>11. ASSUME NEW t \in Line, Len(t) = Len(v), NEW j \in 1 .. Len(x)
       PROVE  Cat(Until(exprs, K), t)[r + j] = t[j]
  <2>1. /\ r + j \in Nat /\ r < r + j /\ r + j <= r + Len(t) /\ (r + j) - r = j
    <3>1. Len(t) \in Nat /\ Len(x) <= Len(t) /\ r \in Nat /\ Len(x) \in Nat
      BY <1>6, <1>9, <1>10, <1>11, Zenon
    <3>2. j \in Nat /\ 1 <= j /\ j <= Len(x)
      BY <1>9
    <3>3. \A a, b, c, d \in Nat : 1 <= b /\ b <= d /\ d <= c =>
            a + b \in Nat /\ a < a + b /\ a + b <= a + c /\ (a + b) - a = b
      OBVIOUS
    <3> QED BY <3>1, <3>2, <3>3, Zenon
  <2>2. Cat(Until(exprs, K), t)[r + j] = t[(r + j) - r]
    BY <1>3, <1>4, <2>1, CatAt, Zenon
  <2> QED BY <2>1, <2>2, Zenon
<1>12. \A j \in 1 .. Len(x) : v[j] = x[j]
  BY <1>3, <1>8, <1>11, Zenon
<1>13. \A j \in 1 .. Len(x) : Ready(s)[j + Spot(s, K)] = ConvertLambda(v)[j]
  BY <1>4, <1>5, <1>8, <1>11, Zenon
<1> QED BY <1>3, <1>6, <1>10, <1>12, <1>13, Zenon DEF x, v, exprs

(* There is no lambda among the first p words. *)
NoneLambda(x, p) == \A j \in 1 .. p : x[j].text # "lambda"

(* These words, and the next, are those of the source. *)
LEMMA EarlyWords ==
  ASSUME NEW s \in Statements, IsStatement(s), s.kind = "print",
         NEW K, FirstGood(s.exprs, K), K + 1 <= Len(s.exprs),
         NEW p \in Nat, p + 1 <= Len(Spoken(s.exprs[K + 1])), NoneLambda(Spoken(s.exprs[K + 1]), p)
  PROVE  \A j \in 1 .. p + 1 : Ready(s)[j + Spot(s, K)] = Spoken(s.exprs[K + 1])[j]
<1> DEFINE x == Spoken(s.exprs[K + 1])
           v == Later(s.exprs, K)
<1>1. /\ v \in Line /\ Len(v) \in Nat /\ Len(x) <= Len(v)
      /\ \A j \in 1 .. Len(x) : v[j] = x[j]
      /\ \A j \in 1 .. Len(x) : Ready(s)[j + Spot(s, K)] = ConvertLambda(v)[j]
  BY LaterWords, Zenon
<1>2. Len(x) \in Nat /\ p + 1 <= Len(x) /\ NoneLambda(x, p)
  BY PrintSplit, Zenon
<1> HIDE DEF x, v
<1>3. \A j \in 1 .. p + 1 : j \in 1 .. Len(x) /\ j \in 1 .. Len(v)
  BY <1>1, <1>2
<1>4. \A j \in 1 .. p + 1 : ConvertLambda(v)[j] = v[j]
  <2>1. CASE Matches(v) = {}
    BY <2>1, LambdaNone, Zenon
  <2>2. CASE \E m : First(v, m)
    <3>1. PICK m : First(v, m)
      BY <2>2, Zenon
    <3>2. v \in Line
      BY <1>1, Zenon
    <3>3. /\ m \in 1 .. Len(v) - 2
          /\ \A k \in 1 .. Len(v) : ConvertLambda(v)[k] = IF k = m + 1 THEN Colon(v[k]) ELSE v[k]
      BY <3>1, <3>2, LambdaFirst, Zenon
    <3>4. v[m].text = "lambda"
      BY <3>1, Zenon DEF First, Matches, MatchAt
    <3>5. ~(m \in 1 .. p)
      <4>1. SUFFICES ASSUME m \in 1 .. p PROVE FALSE
        OBVIOUS
      <4>2. m \in 1 .. Len(x)
        <5>1. p \in Nat /\ Len(x) \in Nat /\ p + 1 <= Len(x) /\ m \in 1 .. p
          BY <1>2, <4>1, Zenon
        <5> HIDE DEF NoneLambda
        <5>2. \A a, b \in Nat : \A c \in 1 .. a : a + 1 <= b => c \in 1 .. b
          OBVIOUS
        <5> QED BY <5>1, <5>2, Zenon
      <4> QED BY <1>1, <1>2, <3>4, <4>1, <4>2, Zenon DEF NoneLambda
    <3>6. \A j \in 1 .. p + 1 : j # m + 1
      <4>1. \A a, c \in Nat : \A b \in 1 .. c - 2 : ~(b \in 1 .. a)
              => \A j \in 1 .. a + 1 : j # b + 1
        OBVIOUS
      <4> QED BY <1>1, <3>3, <3>5, <4>1, Zenon
    <3> QED BY <1>3, <3>3, <3>6, Zenon
  <2> QED BY <1>1, <2>1, <2>2, LambdaCases, Zenon
<1> QED BY <1>1, <1>3, <1>4, Zenon DEF x
-----------------------------------------------------------------------------
(* A call with a text after the first argument. *)

(* The first q of lines with commas. *)
LEMMA CommasFirsts ==
  ASSUME NEW n \in Nat, NEW q \in Nat, q <= n, NEW f, f \in Pieces(n)
  PROVE  Commas(Firsts(f, q)) = Firsts(Commas(f), q)
<1>1. Firsts(f, q) \in Pieces(q) /\ \A k \in 1 .. q : Firsts(f, q)[k] = f[k]
  BY FirstsType, Zenon
<1>2. /\ Commas(Firsts(f, q)) \in Pieces(q)
      /\ \A k \in 1 .. q : Commas(Firsts(f, q))[k]
           = IF k = 1 THEN Firsts(f, q)[k] ELSE Cat(Sign(","), Firsts(f, q)[k])
  BY <1>1, CommasType, ZenonT(40)
<1>3. /\ Commas(f) \in Pieces(n)
      /\ \A k \in 1 .. n : Commas(f)[k] = IF k = 1 THEN f[k] ELSE Cat(Sign(","), f[k])
  BY CommasType
<1>4. Firsts(Commas(f), q) \in Pieces(q) /\ \A k \in 1 .. q : Firsts(Commas(f), q)[k] = Commas(f)[k]
  <2> DEFINE c == Commas(f)
  <2>1. c \in Pieces(n)
    BY <1>3
  <2> HIDE DEF c
  <2>2. Firsts(c, q) \in Pieces(q) /\ \A k \in 1 .. q : Firsts(c, q)[k] = c[k]
    BY <2>1, FirstsType
  <2> QED BY <2>2, Zenon DEF c
<1> DEFINE a == Commas(Firsts(f, q))
           b == Firsts(Commas(f), q)
           g == Firsts(f, q)
           c == Commas(f)
<1>5. \A k \in 1 .. q : k \in 1 .. n
  OBVIOUS
<1>6. /\ \A k \in 1 .. q : a[k] = IF k = 1 THEN g[k] ELSE Cat(Sign(","), g[k])
      /\ \A k \in 1 .. q : g[k] = f[k] /\ b[k] = c[k]
      /\ \A k \in 1 .. n : c[k] = IF k = 1 THEN f[k] ELSE Cat(Sign(","), f[k])
      /\ a \in Pieces(q) /\ b \in Pieces(q)
  BY <1>1, <1>2, <1>3, <1>4, Zenon
<1> HIDE DEF a, b, c, g
<1>7. \A k \in 1 .. q : a[k] = b[k]
  <2> SUFFICES ASSUME NEW k \in 1 .. q  PROVE a[k] = b[k]
    OBVIOUS
  <2>1. k \in 1 .. n /\ g[k] = f[k] /\ b[k] = c[k]
    BY <1>5, <1>6, Zenon
  <2>2. CASE k = 1
    <3>1. a[k] = g[k] /\ c[k] = f[k]
      BY <1>6, <2>1, <2>2, Zenon
    <3> QED BY <2>1, <3>1, Zenon
  <2>3. CASE k # 1
    <3>1. a[k] = Cat(Sign(","), g[k]) /\ c[k] = Cat(Sign(","), f[k])
      BY <1>6, <2>1, <2>3, Zenon
    <3> QED BY <2>1, <3>1, Zenon
  <2> QED BY <2>2, <2>3, Zenon
<1>8. a = b
  <2>1. a \in [1 .. q -> Line] /\ b \in [1 .. q -> Line]
    BY <1>6 DEF Pieces
  <2> QED BY <1>7, <2>1
<1> QED BY <1>8, Zenon DEF a, b

(* Lines with commas, the first q and the others apart. *)
LEMMA CommaCat ==
  ASSUME NEW q \in Nat, q >= 1, NEW m \in Nat, m >= 1, NEW f, f \in Pieces(q + m)
  PROVE  \E t \in Line : /\ Comma(Firsts(f, q)) \in Line
                         /\ Comma(f) = Cat(Comma(Firsts(f, q)), Cat(Sign(","), t))
<1> DEFINE n == q + m
           c == Commas(f)
           a == FlattenSeq(Firsts(c, q))
           g == Shifted(c, q, m)
           k == q + 1
<1>1. n \in Nat /\ q <= n /\ k \in 1 .. n /\ k # 1 /\ 1 \in 1 .. m /\ q + m = n
  OBVIOUS
<1>2. c \in Pieces(n) /\ c[k] = Cat(Sign(","), f[k]) /\ f[k] \in Line
  <2>1. n \in Nat /\ f \in Pieces(n) /\ k \in 1 .. n /\ k # 1
    BY <1>1, Zenon
  <2> HIDE DEF n, k
  <2>2. c \in Pieces(n) /\ \A i \in 1 .. n : c[i] = IF i = 1 THEN f[i] ELSE Cat(Sign(","), f[i])
    BY <2>1, CommasType
  <2>3. f[k] \in Line
    BY <2>1, PiecesAt
  <2> HIDE DEF c
  <2> QED BY <2>1, <2>2, <2>3
<1>3. FlattenSeq(c) = Cat(a, FlattenSeq(g))
  <2>1. c \in Pieces(q + m)
    BY <1>2
  <2> QED BY <2>1, FlatCat, Zenon
<1>4. g \in Pieces(m) /\ g[1] = c[k]
  <2>1. c \in Pieces(n) /\ n \in Nat /\ q + m <= n
    <3>1. q + m <= n
      OBVIOUS
    <3> QED BY <1>1, <1>2, <3>1, Zenon
  <2> HIDE DEF c, n
  <2>2. Shifted(c, q, m) \in Pieces(m) /\ \A i \in 1 .. m : Shifted(c, q, m)[i] = c[q + i]
    BY <2>1, ShiftedType
  <2> QED BY <1>1, <2>2, Zenon
<1>5. a = Comma(Firsts(f, q)) /\ a \in Line
  <2>1. Firsts(f, q) \in Pieces(q)
    BY <1>1, FirstsType
  <2>2. Comma(Firsts(f, q)) \in Line
    BY <2>1, CommaLine
  <2>3. Commas(Firsts(f, q)) = Firsts(c, q)
    BY <1>1, CommasFirsts, Zenon
  <2> QED BY <2>2, <2>3, CommaIs, Zenon
<1> DEFINE r == FlattenSeq(Shifted(g, 1, m - 1))
<1>6. m - 1 \in Nat /\ 1 + (m - 1) = m /\ 1 \in Nat /\ 1 + (m - 1) <= m
  OBVIOUS
<1>7. r \in Line /\ FlattenSeq(g) = Cat(g[1], r)
  <2> DEFINE d == m - 1
  <2>1. d \in Nat /\ 1 + d = m /\ 1 + d <= m /\ 1 \in Nat /\ g \in Pieces(m)
    BY <1>4, <1>6
  <2> HIDE DEF d, g
  <2>2. Shifted(g, 1, d) \in Pieces(d)
    BY <2>1, ShiftedType
  <2>3. FlattenSeq(Shifted(g, 1, d)) \in Line
    BY <2>1, <2>2, FlatLine
  <2>4. g \in Pieces(1 + d)
    BY <2>1
  <2>5. FlattenSeq(g) = Cat(g[1], FlattenSeq(Shifted(g, 1, d)))
    BY <2>1, <2>4, FlatCons
  <2> QED BY <2>3, <2>5, Zenon DEF d
<1> HIDE DEF r, a, c, g, n, k
<1>8. Cat(Cat(Sign(","), f[k]), r) = Cat(Sign(","), Cat(f[k], r))
  <2>1. Sign(",") \in Line
    BY SignLine, Known
  <2> QED BY <1>2, <1>7, <2>1, CatAssoc
<1>9. Cat(f[k], r) \in Line
  BY <1>2, <1>7, CatLine
<1>10. Comma(f) = FlattenSeq(c)
  BY CommaIs DEF c
<1>11. Comma(f) = Cat(a, Cat(Sign(","), Cat(f[k], r)))
  BY <1>2, <1>3, <1>4, <1>7, <1>8, <1>10, Zenon
<1> QED BY <1>5, <1>9, <1>11, Zenon

(* The first text among the items of e is at q + 1. *)
Late(e, q, m) ==
  /\ q \in Nat /\ q >= 1 /\ m \in Nat /\ m >= 1 /\ Len(e.items) = q + m
  /\ e.items[q + 1].literal /\ \A k \in 1 .. q : ~e.items[k].literal

(* The q items before it are single words, and the text opens. *)
LEMMA LateParts ==
  ASSUME NEW e \in Expressions, IsExpression(e), e.form = "call", NEW q, NEW m, Late(e, q, m)
  PROVE  LET f == Pythons(e.items) 
             a == FlattenSeq(Firsts(f, q)) IN
         /\ f \in Pieces(q + m) /\ a \in Line /\ Len(a) = q
         /\ Firsts(f, q) \in Pieces(q) /\ Firsts(f, q) = Singles(a)
         /\ \A k \in 1 .. q : WordArg(a[k]) /\ a[k].text # "lambda"
         /\ \E b \in Line : Body(e) = Cat(a, b) /\ Len(b) >= 1 /\ Opens(b[1])
<1> DEFINE f == Pythons(e.items)
           g == Firsts(f, q)
           a == FlattenSeq(g)
           h == Shifted(f, q, m)
<1>1. /\ q \in Nat /\ q >= 1 /\ m \in Nat /\ m >= 1 /\ Len(e.items) = q + m
      /\ e.items[q + 1].literal /\ \A k \in 1 .. q : ~e.items[k].literal
  BY DEF Late
<1>2. q + 1 \in 1 .. Len(e.items) /\ (\A k \in 1 .. q : k \in 1 .. Len(e.items))
        /\ q + m \in Nat /\ q <= q + m
      /\ 1 \in 1 .. m
  <2>1. q \in Nat /\ q >= 1 /\ m \in Nat /\ m >= 1 /\ Len(e.items) = q + m
    BY <1>1, Zenon
  <2> QED BY <2>1
<1>3. f \in Pieces(q + m) /\ \A k \in 1 .. Len(e.items) : IsArgument(e.items[k])
  BY <1>1, CallForm
<1>4. \A k \in 1 .. Len(e.items) : /\ e.items[k] \in Items /\ IsItem(e.items[k])
                                   /\ Len(ItemPython(e.items[k])) = Len(e.items[k].texts)
                                   /\ Len(ItemPython(e.items[k])) >= 1
                                   /\ f[k] = ItemPython(e.items[k])
  BY ExprItems
<1>5. g \in Pieces(q) /\ \A k \in 1 .. q : g[k] = f[k]
  BY <1>1, <1>2, <1>3, FirstsType
<1>6. h \in Pieces(m) /\ h[1] = f[q + 1]
  <2>1. q \in Nat /\ m \in Nat /\ q + m \in Nat /\ q + m <= q + m /\ f \in Pieces(q + m)
    BY <1>1, <1>2, <1>3
  <2> HIDE DEF f
  <2>2. Shifted(f, q, m) \in Pieces(m) /\ \A i \in 1 .. m : Shifted(f, q, m)[i] = f[q + i]
    BY <2>1, ShiftedType
  <2> QED BY <1>2, <2>2, Zenon
<1>7. Body(e) = Cat(a, FlattenSeq(h))
  <2>1. FlattenSeq(f) = Cat(FlattenSeq(Firsts(f, q)), FlattenSeq(Shifted(f, q, m)))
    BY <1>1, <1>3, FlatCat, Zenon
  <2> QED BY <2>1, Zenon DEF Body
<1>8. FlattenSeq(h) \in Line /\ Len(FlattenSeq(h)) >= 1 /\ Opens(FlattenSeq(h)[1])
  <2>1. h[1] = ItemPython(e.items[q + 1]) /\ Len(h[1]) >= 1
    BY <1>2, <1>4, <1>6, Zenon
  <2>2. Opens(h[1][1])
    <3>1. ItemPython(e.items[q + 1])[1].left = "\""
      BY <1>1, <1>2, <1>4, LiteralFirst, Zenon
    <3> QED BY <2>1, <3>1, Zenon DEF Opens
  <2> HIDE DEF h
  <2>3. FlattenSeq(h)[1] = h[1][1] /\ Len(FlattenSeq(h)) >= 1
    BY <1>1, <1>6, <2>1, FlatFirst, Zenon
  <2>4. FlattenSeq(h) \in Line
    BY <1>1, <1>6, FlatLine
  <2> QED BY <2>2, <2>3, <2>4, Zenon
<1>9. \A k \in 1 .. q : Len(e.items[k].texts) = 1 /\ Len(g[k]) = 1
  <2> SUFFICES ASSUME NEW k \in 1 .. q  PROVE Len(e.items[k].texts) = 1 /\ Len(g[k]) = 1
    OBVIOUS
  <2>1. k \in 1 .. Len(e.items) /\ ~e.items[k].literal /\ g[k] = f[k]
    BY <1>1, <1>2, <1>5, Zenon
  <2>2. IsArgument(e.items[k])
    BY <1>3, <2>1, Zenon
  <2>3. Len(e.items[k].texts) = 1
    BY <2>1, <2>2, Zenon DEF IsArgument
  <2>4. f[k] = ItemPython(e.items[k]) /\ Len(ItemPython(e.items[k])) = Len(e.items[k].texts)
    BY <1>4, <2>1, Zenon
  <2> QED BY <2>1, <2>3, <2>4, Zenon
<1> HIDE DEF g
<1>10. Len(a) = q /\ g = Singles(a) /\ a \in Line /\ \A k \in 1 .. q : g[k] = Single(a[k])
  <2>1. q \in Nat /\ g \in Pieces(q) /\ \A k \in 1 .. q : Len(g[k]) = 1
    BY <1>1, <1>5, <1>9, Zenon
  <2> QED BY <2>1, FlatOnes, FlatLine, Zenon
<1>11. ASSUME NEW k \in 1 .. q
       PROVE  WordArg(a[k]) /\ a[k].text # "lambda"
  <2> DEFINE item == e.items[k]
             w == a[k]
  <2>1. item \in Items /\ IsItem(item) /\ ~item.literal /\ Len(item.texts) = 1
    BY <1>1, <1>2, <1>4, <1>9, Zenon
  <2>2. ItemPython(item) = Single(a[k])
    BY <1>2, <1>4, <1>5, <1>10, Zenon
  <2>3. ItemPython(item)[1] = w
    <3>1. Single(w)[1] = w
      BY DEF Single
    <3> QED BY <2>2, <3>1, Zenon
  <2> HIDE DEF item, w
  <2>4. IsAtom(item.texts[1])
    BY <2>1 DEF IsItem
  <2>5. 1 \in 1 .. Len(item.texts)
    BY <2>1
  <2>6. w.text = item.texts[1] /\ w.left = "" /\ w.right = ""
    BY <2>1, <2>3, <2>5, PlainWords, Zenon
  <2>7. w.text # "lambda"
    BY <2>4, <2>6, NotLambda, Zenon
  <2>8. w.text \notin Symbols
    BY <2>4, <2>6 DEF IsAtom, IsName, Symbols, Equals, Operators, Numbers
  <2>9. WordArg(w)
    BY <2>6, <2>8, Zenon DEF WordArg, Unmarked
  <2> QED BY <2>7, <2>9, Zenon DEF w
<1> QED BY <1>3, <1>5, <1>7, <1>8, <1>10, <1>11, Zenon DEF g
-----------------------------------------------------------------------------
(* The call is closed before that text. *)

(* The name of the call and these q items. *)
Heading(e, q) == Cat(Single(Plainly(e.head[1])), FlattenSeq(Firsts(Pythons(e.items), q)))

(* They are words that may be a call, and a text follows. *)
LEMMA LateSpoken ==
  ASSUME NEW e \in Expressions, IsExpression(e), e.form = "call", NEW q, NEW m, Late(e, q, m)
  PROVE  LET x == Spoken(e)
             y == Heading(e, q) IN
         /\ y \in Line /\ Len(y) = q + 1 /\ q + 1 \in Nat /\ q + 1 >= 2 /\ (q + 1) + 1 <= Len(x)
         /\ AllArgs(y) /\ Identifier(y[1]) /\ NoneLambda(x, q + 1)
         /\ \A j \in 1 .. q + 1 : x[j] = y[j]
         /\ Opens(x[(q + 1) + 1])
<1> DEFINE w == Plainly(e.head[1])
           x == Spoken(e)
           y == Heading(e, q)
           a == FlattenSeq(Firsts(Pythons(e.items), q))
<1>1. /\ a \in Line /\ Len(a) = q /\ \A k \in 1 .. q : WordArg(a[k]) /\ a[k].text # "lambda"
      /\ \E b \in Line : Body(e) = Cat(a, b) /\ Len(b) >= 1 /\ Opens(b[1])
  BY LateParts, Zenon
<1>2. PICK b \in Line : Body(e) = Cat(a, b) /\ Len(b) >= 1 /\ Opens(b[1])
  BY <1>1, Zenon
<1>3. 1 \in 1 .. Len(e.head) /\ w \in Words /\ x = Cat(Single(w), Body(e))
  BY CallForm, Zenon
<1>4. WordArg(w) /\ Identifier(w) /\ w.text # "lambda"
  <2>1. IsName(e.head[1]) /\ e.head[1] \in Texts
    BY <1>3, HeadNames, Zenon
  <2>2. w.text = e.head[1]
    BY <2>1, PlainlyWord, Zenon
  <2> QED BY <2>1, <2>2, NameWord, Zenon
<1>5. q \in Nat /\ q >= 1
  BY Zenon DEF Late
<1>6. q + 1 \in Nat /\ q + 1 >= 2
  BY <1>5
<1> HIDE DEF w, a
<1>7. /\ Cat(Single(w), a) \in Line /\ Len(Cat(Single(w), a)) = q + 1
      /\ Cat(Single(w), a)[1] = w
      /\ \A k \in 1 .. q : Cat(Single(w), a)[k + 1] = a[k]
  BY <1>1, <1>3, RestCat, ZenonT(40)
<1>8. y = Cat(Single(w), a)
  BY DEF Heading, w, a
<1>9. x = Cat(y, b)
  <2>1. Single(w) \in Line
    BY <1>3, SingleLine
  <2>2. Cat(Cat(Single(w), a), b) = Cat(Single(w), Cat(a, b))
    <3> DEFINE u == Single(w)
    <3>1. u \in Line /\ a \in Line /\ b \in Line
      BY <1>1, <2>1
    <3> HIDE DEF u
    <3>2. Cat(Cat(u, a), b) = Cat(u, Cat(a, b))
      BY <3>1, CatAssoc
    <3> QED BY <3>2, Zenon DEF u
  <2> QED BY <1>2, <1>3, <1>8, <2>2, Zenon
<1> HIDE DEF x, y
<1>10. y \in Line /\ Len(y) = q + 1 /\ Len(b) \in Nat /\ Len(x) = Len(y) + Len(b)
  BY <1>7, <1>8, <1>9, CatLine, LenLine, Zenon
<1>11. (q + 1) + 1 <= Len(x)
  <2>1. Len(b) \in Nat /\ Len(b) >= 1 /\ Len(y) = q + 1 /\ Len(x) = Len(y) + Len(b) /\ q \in Nat
    BY <1>2, <1>5, <1>10, Zenon
  <2> QED BY <2>1
<1>12. \A j \in 1 .. q + 1 : y[j].text # "lambda" /\ WordArg(y[j])
  <2> SUFFICES ASSUME NEW j \in 1 .. q + 1  PROVE y[j].text # "lambda" /\ WordArg(y[j])
    OBVIOUS
  <2>1. CASE j = 1
    BY <1>4, <1>7, <1>8, <2>1, Zenon
  <2>2. CASE j # 1
    <3> DEFINE k == j - 1
    <3>1. k \in 1 .. q /\ k + 1 = j
      <4>1. \A c \in Nat : \A d \in 1 .. c + 1 : d # 1 => d - 1 \in 1 .. c /\ (d - 1) + 1 = d
        OBVIOUS
      <4> QED BY <1>5, <2>2, <4>1, Zenon
    <3> HIDE DEF k
    <3>2. y[j] = a[k]
      BY <1>7, <1>8, <3>1, Zenon
    <3> QED BY <1>1, <3>1, <3>2, Zenon
  <2> QED BY <2>1, <2>2, Zenon
<1>13. Identifier(y[1])
  BY <1>4, <1>7, <1>8, Zenon
<1>14. \A j \in 1 .. q + 1 : x[j] = y[j]
  <2> SUFFICES ASSUME NEW j \in 1 .. q + 1  PROVE x[j] = y[j]
    OBVIOUS
  <2>1. j \in Nat /\ 1 <= j /\ j <= Len(y)
    <3>1. \A c \in Nat : \A d \in 1 .. c : d \in Nat /\ 1 <= d /\ d <= c
      OBVIOUS
    <3> QED BY <1>6, <1>10, <3>1, Zenon
  <2>2. Cat(y, b)[j] = y[j]
    BY <1>10, <2>1, CatAt, Zenon
  <2> QED BY <1>9, <2>2, Zenon
<1>15. x[(q + 1) + 1] = b[1]
  <2> DEFINE i == (q + 1) + 1
  <2>1. i \in Nat /\ Len(y) < i /\ i <= Len(y) + Len(b) /\ i - Len(y) = 1
    <3>1. Len(b) \in Nat /\ Len(b) >= 1 /\ Len(y) = q + 1 /\ q \in Nat
      BY <1>2, <1>5, <1>10, Zenon
    <3> QED BY <3>1
  <2> HIDE DEF i
  <2>2. Cat(y, b)[i] = b[i - Len(y)]
    BY <1>10, <2>1, CatAt, Zenon
  <2> QED BY <1>9, <2>1, <2>2, Zenon DEF i
<1>16. AllArgs(y)
  BY <1>10, <1>12, Zenon DEF AllArgs
<1>17. NoneLambda(x, q + 1)
  BY <1>12, <1>14, Zenon DEF NoneLambda
<1>18. Opens(x[(q + 1) + 1])
  BY <1>2, <1>15, Zenon
<1> QED BY <1>6, <1>10, <1>11, <1>13, <1>14, <1>16, <1>17, <1>18, Zenon DEF x, y

(* In the line they are between two edges. *)
LEMMA LateHere ==
  ASSUME NEW s \in Statements, IsStatement(s), s.kind = "print",
         NEW K, FirstGood(s.exprs, K), K + 1 <= Len(s.exprs),
         s.exprs[K + 1].form = "call", NEW q, NEW m, Late(s.exprs[K + 1], q, m)
  PROVE  LET y == Heading(s.exprs[K + 1], q)
             o == Spot(s, K) IN
         /\ Here(Ready(s), o, y) /\ Edge(Ready(s), o) /\ Edge(Ready(s), o + Len(y))
<1> DEFINE e == s.exprs[K + 1]
           x == Spoken(e)
           y == Heading(e, q)
           o == Spot(s, K)
           ws == Ready(s)
           p == q + 1
<1>1. /\ e \in Expressions /\ IsExpression(e)
      /\ ws \in Line /\ o \in Nat /\ o >= 1 /\ Edge(ws, o)
      /\ Len(x) \in Nat /\ o + Len(x) <= Len(ws)
  BY PrintSplit, Zenon
<1>2. /\ y \in Line /\ Len(y) = p /\ p \in Nat /\ p >= 2 /\ p + 1 <= Len(x)
      /\ AllArgs(y) /\ Identifier(y[1]) /\ NoneLambda(x, p)
      /\ \A j \in 1 .. p : x[j] = y[j]
      /\ Opens(x[p + 1])
  BY <1>1, LateSpoken, Zenon
<1>3. \A j \in 1 .. p + 1 : ws[j + o] = x[j]
  BY <1>2, EarlyWords, Zenon
<1> HIDE DEF e, x, y, o, ws, p
<1>4. Len(ws) \in Nat
  BY <1>1, LenLine
<1>5. /\ o + p <= Len(ws) /\ p + 1 \in 1 .. p + 1 /\ (\A j \in 1 .. p : j \in 1 .. p + 1)
      /\ (p + 1) + o = (o + p) + 1 /\ o + p \in Nat
  <2>1. /\ o \in Nat /\ Len(x) \in Nat /\ o + Len(x) <= Len(ws) /\ Len(ws) \in Nat
        /\ p \in Nat /\ p + 1 <= Len(x)
    BY <1>1, <1>2, <1>4, Zenon
  <2> QED BY <2>1
<1>6. Here(ws, o, y)
  <2>1. \A j \in 1 .. Len(y) : ws[j + o] = y[j]
    BY <1>2, <1>3, <1>5, Zenon
  <2>2. o + Len(y) <= Len(ws)
    BY <1>2, <1>5, Zenon
  <2> QED BY <1>1, <1>2, <2>1, <2>2, Zenon DEF Here
<1>7. ~InText(ws, (o + Len(y)) + 1)
  <2>1. Len(y) >= 1
    <3>1. \A c \in Nat : c >= 2 => c >= 1
      OBVIOUS
    <3> QED BY <1>2, <3>1, Zenon
  <2>2. ws \in Line /\ Here(ws, o, y) /\ Len(y) >= 1 /\ Edge(ws, o) /\ AllArgs(y)
    BY <1>1, <1>2, <1>6, <2>1, Zenon
  <2> QED BY <2>2, ArgsHere, Zenon
<1>8. ~Arg(ws, (o + Len(y)) + 1)
  <2>1. Opens(ws[(o + p) + 1])
    BY <1>2, <1>3, <1>5, Zenon
  <2>2. ~WordArg(ws[(o + p) + 1])
    <3> DEFINE v == ws[(o + p) + 1]
    <3>1. Opens(v)
      BY <2>1
    <3> HIDE DEF v
    <3>2. ~WordArg(v)
      BY <3>1 DEF Opens, WordArg, Unmarked
    <3> QED BY <3>2, Zenon DEF v
  <2> QED BY <1>2, <2>2, Zenon DEF Arg
<1>9. Edge(ws, o + Len(y))
  BY <1>7, <1>8, Zenon DEF Edge
<1> QED BY <1>1, <1>6, <1>9, Zenon DEF e, y, o, ws
-----------------------------------------------------------------------------
(* There is a parenthesis where there should be a comma. *)

(* A call that is closed too early has a parenthesis where another one     *)
(* goes on.                                                                *)
LEMMA CalledMore ==
  ASSUME NEW w \in Words, NEW c \in Line, NEW d \in Line, Len(d) >= 1
  PROVE  LET i == Len(c) + 3
             z == Called(Single(w), c)
             u == Called(Single(w), Cat(c, d)) IN
         /\ i \in Nat /\ 1 <= i /\ z \in Line /\ i <= Len(z) /\ i <= Len(u)
         /\ z[i] = Plainly(")") /\ u[i] = d[1]
<1> DEFINE h == Cat(Single(w), Sign("("))
           r == Sign(")")
           i == Len(c) + 3
<1>1. /\ Single(w) \in Line /\ Len(Single(w)) = 1
      /\ Sign("(") \in Line /\ Len(Sign("(")) = 1
      /\ r \in Line /\ Len(r) = 1 /\ r[1] = Plainly(")")
  BY SingleLine, SignLine, Known
<1>2. h \in Line /\ Len(h) = 2
  <2>1. h \in Line /\ Len(h) = Len(Single(w)) + Len(Sign("("))
    BY <1>1, CatLine, Zenon
  <2>2. h \in Line /\ Len(h) = 1 + 1
    BY <1>1, <2>1, Zenon
  <2>3. 1 + 1 = 2
    OBVIOUS
  <2> QED BY <2>2, <2>3, Zenon
<1> HIDE DEF h, r
<1>3. Called(Single(w), c) = Cat(Cat(h, c), r)
        /\ Called(Single(w), Cat(c, d)) = Cat(Cat(h, Cat(c, d)), r)
  BY Zenon DEF Called, h, r
<1>4. Len(c) \in Nat /\ Len(d) \in Nat
  BY LenLine
<1>5. /\ Cat(h, c) \in Line /\ Len(Cat(h, c)) = 2 + Len(c)
      /\ Cat(c, d) \in Line /\ Len(Cat(c, d)) = Len(c) + Len(d)
  BY <1>2, CatLine
<1>6. Cat(h, Cat(c, d)) \in Line /\ Len(Cat(h, Cat(c, d))) = 2 + Len(Cat(c, d))
  BY <1>2, <1>5, CatLine
<1>7. /\ Cat(Cat(h, c), r) \in Line /\ Len(Cat(Cat(h, c), r)) = Len(Cat(h, c)) + 1
      /\ Cat(Cat(h, Cat(c, d)), r) \in Line
      /\ Len(Cat(Cat(h, Cat(c, d)), r)) = Len(Cat(h, Cat(c, d))) + 1
  <2>1. Cat(Cat(h, c), r) \in Line /\ Len(Cat(Cat(h, c), r)) = Len(Cat(h, c)) + Len(r)
    BY <1>1, <1>5, CatLine, Zenon
  <2>2. /\ Cat(Cat(h, Cat(c, d)), r) \in Line
        /\ Len(Cat(Cat(h, Cat(c, d)), r)) = Len(Cat(h, Cat(c, d))) + Len(r)
    BY <1>1, <1>6, CatLine, Zenon
  <2> QED BY <1>1, <2>1, <2>2, Zenon
<1> DEFINE a == Cat(h, c)
           b == Cat(h, Cat(c, d))
<1>8. /\ i \in Nat /\ 1 <= i /\ i <= Len(a) + 1 /\ Len(a) < i /\ i - Len(a) = 1
      /\ i <= Len(b) /\ i <= Len(b) + 1
  BY <1>4, <1>5, <1>6
<1>9. Cat(a, r)[i] = r[1]
  <2>1. /\ a \in Line /\ r \in Line /\ i \in Nat /\ Len(a) < i /\ i <= Len(a) + Len(r)
        /\ i - Len(a) = 1
    BY <1>1, <1>5, <1>8
  <2> HIDE DEF a, i
  <2>2. Cat(a, r)[i] = r[i - Len(a)]
    BY <2>1, CatAt, Zenon
  <2> QED BY <2>1, <2>2, Zenon
<1>10. Cat(b, r)[i] = b[i]
  <2>1. b \in Line /\ r \in Line /\ i \in Nat /\ 1 <= i /\ i <= Len(b)
    BY <1>1, <1>6, <1>8
  <2> HIDE DEF b, i
  <2> QED BY <2>1, CatAt, Zenon
<1>11. b = Cat(a, d)
  <2>1. Cat(Cat(h, c), d) = Cat(h, Cat(c, d))
    BY <1>2, CatAssoc
  <2> QED BY <2>1, Zenon
<1>12. Cat(a, d)[i] = d[1]
  <2>1. /\ a \in Line /\ i \in Nat /\ Len(a) < i /\ i <= Len(a) + Len(d) /\ i - Len(a) = 1
    BY <1>4, <1>5, <1>8
  <2> HIDE DEF a, i
  <2>2. Cat(a, d)[i] = d[i - Len(a)]
    BY <2>1, CatAt, Zenon
  <2> QED BY <2>1, <2>2, Zenon
<1> HIDE DEF i
<1> DEFINE z == Cat(a, r)
           u == Cat(b, r)
<1>13. z \in Line /\ i <= Len(z) /\ i <= Len(u)
  <2>1. z \in Line /\ Len(z) = Len(a) + 1 /\ Len(u) = Len(b) + 1
    BY <1>7, Zenon
  <2> HIDE DEF z, u, a, b
  <2> QED BY <1>8, <2>1, Zenon
<1>14. z[i] = Plainly(")") /\ u[i] = d[1]
  <2> HIDE DEF a, b
  <2> QED BY <1>1, <1>9, <1>10, <1>11, <1>12, Zenon
<1> QED BY <1>3, <1>8, <1>13, <1>14, Zenon DEF i

(* There should be a comma. *)
LEMMA LatePythons ==
  ASSUME NEW e \in Expressions, IsExpression(e), e.form = "call", NEW q, NEW m, Late(e, q, m)
  PROVE  LET y == Heading(e, q)
             z == Called(Single(y[1]), Comma(Singles(Rest(y)))) IN
         \E i \in Nat : /\ 1 <= i /\ z \in Line /\ i <= Len(z) /\ i <= Len(ExprPython(e))
                        /\ z[i] = Plainly(")") /\ ExprPython(e)[i] = Plainly(",")
<1> DEFINE w == Plainly(e.head[1])
           f == Pythons(e.items)
           g == Firsts(f, q)
           a == FlattenSeq(g)
           c == Comma(g)
           y == Heading(e, q)
<1>1. f \in Pieces(q + m) /\ a \in Line /\ g \in Pieces(q) /\ g = Singles(a)
  BY LateParts, Zenon
<1>2. w \in Words /\ ExprPython(e) = Called(Single(w), Comma(f))
  BY CallForm, Zenon
<1>3. q \in Nat /\ q >= 1 /\ m \in Nat /\ m >= 1
  BY Zenon DEF Late
<1>4. PICK t \in Line : c \in Line /\ Comma(f) = Cat(c, Cat(Sign(","), t))
  BY <1>1, <1>3, CommaCat, Zenon
<1> HIDE DEF w, f, g, a, c
<1>5. y = Cat(Single(w), a)
  BY Zenon DEF Heading, w, a, g, f
<1>6. y[1] = w /\ Rest(y) = a
  <2>1. Cat(Single(w), a)[1] = w /\ Rest(Cat(Single(w), a)) = a
    BY <1>1, <1>2, RestCat, Zenon
  <2> QED BY <1>5, <2>1, Zenon
<1> DEFINE d == Cat(Sign(","), t)
<1>7. d \in Line /\ Len(d) >= 1 /\ d[1] = Plainly(",")
  <2>1. Sign(",") \in Line /\ Len(Sign(",")) = 1 /\ Sign(",")[1] = Plainly(",") /\ Len(t) \in Nat
    BY SignLine, LenLine, Known
  <2>2. d \in Line /\ Len(d) = Len(Sign(",")) + Len(t)
    BY <2>1, CatLine, Zenon
  <2>3. \A k \in Nat : \A j : j = 1 + k => j >= 1
    OBVIOUS
  <2>4. \A k : k = 1 => k >= 1
    OBVIOUS
  <2>5. d[1] = Sign(",")[1]
    BY <2>1, <2>4, FirstCat, Zenon
  <2> QED BY <2>1, <2>2, <2>3, <2>5, Zenon
<1>8. Called(Single(y[1]), Comma(Singles(Rest(y)))) = Called(Single(w), c)
  BY <1>1, <1>6, Zenon DEF c
<1>9. ExprPython(e) = Called(Single(w), Cat(c, d))
  BY <1>2, <1>4, Zenon
<1> HIDE DEF d, y
<1> DEFINE i == Len(c) + 3
<1>10. /\ i \in Nat /\ 1 <= i /\ Called(Single(w), c) \in Line /\ i <= Len(Called(Single(w), c))
       /\ i <= Len(Called(Single(w), Cat(c, d)))
       /\ Called(Single(w), c)[i] = Plainly(")") /\ Called(Single(w), Cat(c, d))[i] = d[1]
  BY <1>2, <1>4, <1>7, CalledMore, Zenon
<1> HIDE DEF i
<1> QED BY <1>7, <1>8, <1>9, <1>10, Zenon DEF y

(* A print with a call that has a text after its first argument is not     *)
(* right.                                                                  *)
LEMMA LateNot ==
  ASSUME NEW s \in Statements, IsStatement(s), s.kind = "print",
         NEW K, FirstGood(s.exprs, K), K + 1 <= Len(s.exprs),
         s.exprs[K + 1].form = "call", NEW q, NEW m, Late(s.exprs[K + 1], q, m)
  PROVE  ConvertLine(Source(s)) # Python(s)
<1> DEFINE e == s.exprs[K + 1]
           y == Heading(e, q)
           o == Spot(s, K)
           ws == Ready(s)
           z == Called(Single(y[1]), Comma(Singles(Rest(y))))
<1>1. e \in Expressions /\ IsExpression(e) /\ ws \in Line
  BY PrintSplit, Zenon
<1>2. y \in Line /\ Len(y) \in Nat /\ Len(y) >= 2 /\ AllArgs(y) /\ Identifier(y[1])
  BY <1>1, LateSpoken, LenLine, Zenon
<1>3. Here(ws, o, y) /\ Edge(ws, o) /\ Edge(ws, o + Len(y))
  BY LateHere, Zenon
<1>4. FlattenSeq(Part(ws, o, Len(y))) = Cat(Sep(o), z)
  BY <1>1, <1>2, <1>3, CallPart, Zenon
<1>5. o + Len(y) <= Len(ws)
  BY <1>3, Zenon DEF Here
<1>6. PICK i \in Nat : /\ 1 <= i /\ z \in Line /\ i <= Len(z) /\ i <= Len(ExprPython(e))
                       /\ z[i] = Plainly(")") /\ ExprPython(e)[i] = Plainly(",")
  BY <1>1, LatePythons, Zenon
<1>7. SUFFICES ASSUME ConvertLine(Source(s)) = Python(s) PROVE FALSE
  OBVIOUS
<1> HIDE DEF z, y
<1>8. z[i] = ExprPython(e)[i]
  BY <1>2, <1>4, <1>5, <1>6, <1>7, PrintRival, Zenon
<1>9. Plainly(")") # Plainly(",")
  <2>1. Plainly(")").text = ")" /\ Plainly(",").text = ","
    BY PlainlyWord, Known
  <2>2. ")" # ","
    OBVIOUS
  <2> QED BY <2>1, <2>2, Zenon
<1> QED BY <1>6, <1>8, <1>9, Zenon
-----------------------------------------------------------------------------
(* A text that speaks of a lambda. *)

(* n words of a line, after the first o. *)
Piece(ws, o, n) == [j \in 1 .. n |-> ws[j + o]]

(* They are there. *)
LEMMA PieceHere ==
  ASSUME NEW ws \in Line, NEW o \in Nat, o >= 1, NEW n \in Nat, o + n <= Len(ws)
  PROVE  /\ Piece(ws, o, n) \in Line /\ Len(Piece(ws, o, n)) = n
         /\ \A j \in 1 .. n : Piece(ws, o, n)[j] = ws[j + o]
         /\ Here(ws, o, Piece(ws, o, n))
<1>1. Len(ws) \in Nat /\ \A i \in 1 .. Len(ws) : ws[i] \in Words
  BY LenLine
<1>2. \A j \in 1 .. n : j + o \in 1 .. Len(ws)
  <2>1. \A a, b, c \in Nat : a >= 1 /\ a + b <= c => \A j \in 1 .. b : j + a \in 1 .. c
    OBVIOUS
  <2> QED BY <1>1, <2>1, Zenon
<1>3. Piece(ws, o, n) \in [1 .. n -> Words]
  <2>1. \A j \in 1 .. n : ws[j + o] \in Words
    BY <1>1, <1>2, Zenon
  <2> QED BY <2>1 DEF Piece
<1>4. Piece(ws, o, n) \in Line /\ Len(Piece(ws, o, n)) = n
  <2> DEFINE f == Piece(ws, o, n)
  <2>1. f \in [1 .. n -> Words]
    BY <1>3
  <2> HIDE DEF f
  <2>2. f \in Seq(Words) /\ Len(f) = n
    BY <2>1, SeqOfFunction, Zenon
  <2> QED BY <2>2, Zenon DEF f, Line
<1>5. \A j \in 1 .. n : Piece(ws, o, n)[j] = ws[j + o]
  BY DEF Piece
<1>6. Here(ws, o, Piece(ws, o, n))
  BY <1>4, <1>5, Zenon DEF Here
<1> QED BY <1>4, <1>5, <1>6, Zenon

(* In a text that speaks of a lambda, and comes first, a word gets a       *)
(* colon.                                                                  *)
LEMMA SpeaksFirst ==
  ASSUME NEW item \in Items, item.literal, SpeaksOfLambda(item),
         NEW v \in Line, Len(item.texts) <= Len(v),
         \A j \in 1 .. Len(item.texts) : v[j] = ItemPython(item)[j]
  PROVE  \E i \in 2 .. Len(item.texts) - 1 : ConvertLambda(v)[i] = Colon(v[i])
<1> DEFINE x == ItemPython(item)
           L == Len(item.texts)
<1>1. PICK k \in 1 .. L - 2 : MatchAt(x, k)
  BY SpeaksMatch
<1>2. L \in Nat /\ Len(v) \in Nat /\ L <= Len(v) /\ \A j \in 1 .. L : v[j] = x[j]
  <2>1. Len(v) \in Nat
    BY LenLine
  <2>2. L \in Nat
    <3>1. item.texts \in Seq(Texts)
      BY DEF Items
    <3> QED BY <3>1
  <2> QED BY <2>1, <2>2, Zenon
<1> HIDE DEF x, L
<1>3. k \in 1 .. L /\ k + 1 \in 1 .. L /\ k \in 1 .. Len(v) - 2 /\ k \in Nat
  <2>1. \A a, b \in Nat : \A c \in 1 .. a - 2 : a <= b =>
          c \in 1 .. a /\ c + 1 \in 1 .. a /\ c \in 1 .. b - 2 /\ c \in Nat
    OBVIOUS
  <2> QED BY <1>2, <2>1, Zenon
<1>4. k \in Matches(v)
  <2>1. v[k] = x[k] /\ v[k + 1] = x[k + 1]
    BY <1>2, <1>3, Zenon
  <2>2. MatchAt(v, k)
    BY <1>1, <2>1, Zenon DEF MatchAt
  <2> QED BY <1>3, <2>2, Zenon DEF Matches
<1>5. PICK m : First(v, m)
  <2>1. Matches(v) # {}
    BY <1>4, Zenon
  <2> QED BY <2>1, LambdaCases, Zenon
<1>6. /\ m \in 1 .. Len(v) - 2
      /\ \A j \in 1 .. Len(v) : ConvertLambda(v)[j] = IF j = m + 1 THEN Colon(v[j]) ELSE v[j]
  BY <1>5, LambdaFirst, Zenon
<1>7. m <= k
  BY <1>4, <1>5, Zenon DEF First
<1> DEFINE i == m + 1
<1>8. i \in 2 .. L - 1 /\ i \in 1 .. Len(v)
  <2>1. \A a, b \in Nat : \A c \in 1 .. a - 2 : \A d \in 1 .. b - 2 : d <= c /\ a <= b =>
          d + 1 \in 2 .. a - 1 /\ d + 1 \in 1 .. b
    OBVIOUS
  <2> QED BY <1>2, <1>6, <1>7, <2>1, Zenon
<1>9. ConvertLambda(v)[i] = Colon(v[i])
  BY <1>6, <1>8, Zenon
<1> HIDE DEF i
<1> QED BY <1>8, <1>9, Zenon DEF L

(* A print with such a text is not right. *)
LEMMA SpeaksNot ==
  ASSUME NEW s \in Statements, IsStatement(s), s.kind = "print",
         NEW K, FirstGood(s.exprs, K), K + 1 <= Len(s.exprs),
         s.exprs[K + 1].form = "value", s.exprs[K + 1].items[1].literal,
         SpeaksOfLambda(s.exprs[K + 1].items[1])
  PROVE  ConvertLine(Source(s)) # Python(s)
<1> DEFINE e == s.exprs[K + 1]
           item == e.items[1]
           x == Spoken(e)
           o == Spot(s, K)
           ws == Ready(s)
           v == Later(s.exprs, K)
           u == ConvertLambda(v)
           L == Len(x)
           y == Piece(ws, o, L)
<1>1. /\ e \in Expressions /\ IsExpression(e)
      /\ ws \in Line /\ o \in Nat /\ o >= 1 /\ Edge(ws, o)
      /\ L \in Nat /\ o + L <= Len(ws)
      /\ \A j \in 1 .. L : OrColon(ws[j + o], x[j])
  BY PrintSplit, Zenon
<1>2. /\ v \in Line /\ L <= Len(v)
      /\ \A j \in 1 .. L : v[j] = x[j]
      /\ \A j \in 1 .. L : ws[j + o] = u[j]
  BY LaterWords, Zenon
<1>3. 1 \in 1 .. Len(e.items) /\ x = ItemPython(item) /\ ExprPython(e) = x
  BY <1>1, ValueForm, Zenon
<1>4. item \in Items /\ IsItem(item) /\ L = Len(item.texts) /\ L >= 1
  BY <1>1, <1>3, ExprItems, Zenon
<1>5. item.literal /\ SpeaksOfLambda(item)
  OBVIOUS
<1>6. \A j \in 1 .. L : /\ x[j].left = IF j = 1 THEN "\"" ELSE ""
                        /\ x[j].right = IF j = L THEN "\"" ELSE ""
  <2> SUFFICES ASSUME NEW j \in 1 .. L
               PROVE  /\ x[j].left = IF j = 1 THEN "\"" ELSE ""
                      /\ x[j].right = IF j = L THEN "\"" ELSE ""
    OBVIOUS
  <2>1. item \in Items /\ item.literal /\ j \in 1 .. Len(item.texts)
    BY <1>4, <1>5, Zenon
  <2>2. x[j] = ItemPython(item)[j] /\ L = Len(item.texts)
    BY <1>3, <1>4, Zenon
  <2> HIDE DEF item, x, L
  <2>3. /\ ItemPython(item)[j].left = IF j = 1 THEN "\"" ELSE ""
        /\ ItemPython(item)[j].right = IF j = Len(item.texts) THEN "\"" ELSE ""
    BY <2>1, TextWords
  <2> QED BY <2>2, <2>3
<1>7. PICK i \in 2 .. L - 1 : u[i] = Colon(v[i])
  <2>1. /\ Len(item.texts) <= Len(v)
        /\ \A j \in 1 .. Len(item.texts) : v[j] = ItemPython(item)[j]
    BY <1>2, <1>3, <1>4, Zenon
  <2>2. \E i \in 2 .. Len(item.texts) - 1 : ConvertLambda(v)[i] = Colon(v[i])
    BY <1>2, <1>4, <1>5, <2>1, SpeaksFirst, Zenon
  <2> QED BY <1>4, <2>2, Zenon
<1>8. /\ y \in Line /\ Len(y) = L /\ \A j \in 1 .. L : y[j] = ws[j + o]
      /\ Here(ws, o, y)
  BY <1>1, PieceHere, Zenon
<1> HIDE DEF y, L, u, v, ws, o, x, item, e
<1>9. i \in 1 .. L /\ i \in Nat /\ 1 <= i /\ i <= L /\ i # L
  <2>1. \A a \in Nat : \A b \in 2 .. a - 1 : b \in 1 .. a /\ b \in Nat /\ 1 <= b /\ b <= a /\ b # a
    OBVIOUS
  <2> QED BY <1>1, <2>1, Zenon
<1>10. Begun(y)
  <2>1. 1 \in 1 .. L
    BY <1>1, <1>4
  <2>2. y[1].left = "\""
    <3>1. OrColon(y[1], x[1]) /\ x[1].left = "\""
      BY <1>1, <1>6, <1>8, <2>1, Zenon
    <3> QED BY <3>1, Zenon DEF OrColon
  <2>3. ASSUME NEW k \in 1 .. L - 1
        PROVE  y[k].right # "\""
    <3>1. k \in 1 .. L /\ k # L
      <4>1. \A a \in Nat : \A b \in 1 .. a - 1 : b \in 1 .. a /\ b # a
        OBVIOUS
      <4> QED BY <1>1, <4>1, Zenon
    <3>2. OrColon(y[k], x[k])
      BY <1>1, <1>8, <3>1, Zenon
    <3>3. x[k].right = ""
      BY <1>6, <3>1, Zenon
    <3> DEFINE p == y[k]
               q == x[k]
    <3>4. OrColon(p, q) /\ q.right = ""
      BY <3>2, <3>3
    <3> HIDE DEF p, q
    <3>5. p.right = "" \/ p.right = ":"
      BY <3>4, Zenon DEF OrColon
    <3>6. p.right # "\""
      BY <3>5
    <3> QED BY <3>6, Zenon DEF p
  <2> QED BY <1>8, <2>2, <2>3, Zenon DEF Begun
<1>11. FlattenSeq(Part(ws, o, L)) = Cat(Sep(o), y)
  BY <1>1, <1>4, <1>8, <1>10, TextPart, Zenon
<1>12. SUFFICES ASSUME ConvertLine(Source(s)) = Python(s) PROVE FALSE
  OBVIOUS
<1>13. y[i] = x[i]
  <2>1. /\ o + L <= Len(ws) /\ L \in Nat /\ y \in Line /\ i \in Nat /\ 1 <= i /\ i <= Len(y)
        /\ i <= Len(ExprPython(e))
    <3>1. Len(x) = L
      BY DEF L
    <3> QED BY <1>1, <1>3, <1>8, <1>9, <3>1, Zenon
  <2>2. y[i] = ExprPython(e)[i]
    BY <1>11, <1>12, <2>1, PrintRival, Zenon DEF ws, o, e
  <2> QED BY <1>3, <2>2, Zenon
<1>14. x[i].right = ""
  BY <1>6, <1>9, Zenon
<1>15. y[i] = Colon(x[i])
  BY <1>2, <1>7, <1>8, <1>9, Zenon
<1>16. Colon(x[i]).right = ":"
  <2>1. x[i] \in Words
    <3>1. x \in Line /\ Len(x) = L
      BY <1>1, ExprLines, Zenon DEF x, L
    <3> QED BY <1>9, <3>1, LenLine, Zenon
  <2> QED BY <2>1, ColonWord, Zenon
<1>17. "" # ":"
  OBVIOUS
<1> QED BY <1>13, <1>14, <1>15, <1>16, <1>17, Zenon
-----------------------------------------------------------------------------
(* So the print is right if, and only if, all of its expressions are good. *)

(* A print is not right if the second word of the first bad expression is  *)
(* not.                                                                    *)
LEMMA TwoNot ==
  ASSUME NEW s \in Statements, IsStatement(s), s.kind = "print",
         NEW K, FirstGood(s.exprs, K), K + 1 <= Len(s.exprs),
         LET e == s.exprs[K + 1] IN
           /\ Len(Spoken(e)) >= 2 /\ ~Opens(Spoken(e)[1]) /\ Len(ExprPython(e)) >= 2
           /\ Strange(Spoken(e)[2], ExprPython(e)[2])
  PROVE  ConvertLine(Source(s)) # Python(s)
BY PrintTwo, Zenon

(* A print whose first bad expression is a value is not right. *)
LEMMA BadValue ==
  ASSUME NEW s \in Statements, IsStatement(s), s.kind = "print",
         NEW K, FirstGood(s.exprs, K), K + 1 <= Len(s.exprs),
         ~Good(s.exprs[K + 1]), s.exprs[K + 1].form = "value"
  PROVE  ConvertLine(Source(s)) # Python(s)
<1> DEFINE e == s.exprs[K + 1]
<1>1. e \in Expressions /\ IsExpression(e)
  BY PrintSplit, Zenon
<1>2. Len(e.items) = 1 /\ e.form = "value" /\ ~Good(e)
  BY <1>1, ValueForm
<1>3. FoundInPrint(e) <=> e.items[1].literal \/ Len(e.items[1].texts) = 1
  <2> HIDE DEF e
  <2> QED BY <1>2 DEF FoundInPrint
<1>4. NoSpeech(e) <=> ~SpeaksOfLambda(e.items[1])
  <2> HIDE DEF e
  <2>1. \A k \in 1 .. 1 : k = 1
    OBVIOUS
  <2>2. 1 \in 1 .. 1
    OBVIOUS
  <2> QED BY <1>2, <2>1, <2>2, Zenon DEF NoSpeech
<1>5. CASE e.items[1].literal
  <2>1. SpeaksOfLambda(e.items[1])
    BY <1>2, <1>3, <1>4, <1>5, Zenon DEF Good
  <2> QED BY <1>2, <1>5, <2>1, SpeaksNot, Zenon
<1>6. CASE ~e.items[1].literal
  <2>1. ~SpeaksOfLambda(e.items[1])
    BY <1>6, Zenon DEF SpeaksOfLambda
  <2>2. Len(e.items[1].texts) # 1
    BY <1>2, <1>3, <1>4, <2>1, Zenon DEF Good
  <2> QED BY <1>1, <1>2, <1>6, <2>2, TwoOfValue, TwoNot, Zenon
<1> QED BY <1>5, <1>6, Zenon

(* A print whose first bad expression is a call is not right. *)
LEMMA BadCall ==
  ASSUME NEW s \in Statements, IsStatement(s), s.kind = "print",
         NEW K, FirstGood(s.exprs, K), K + 1 <= Len(s.exprs),
         ~Good(s.exprs[K + 1]), s.exprs[K + 1].form = "call"
  PROVE  ConvertLine(Source(s)) # Python(s)
<1> DEFINE e == s.exprs[K + 1]
           S == {k \in 1 .. Len(e.items) : e.items[k].literal}
           l == Min(S)
           q == l - 1
           m == Len(e.items) - q
<1>1. e \in Expressions /\ IsExpression(e) /\ e.form = "call" /\ ~Good(e)
  BY PrintSplit, Zenon
<1>2. ~NoLiteral(e)
  <2>1. SUFFICES ASSUME NoLiteral(e) PROVE FALSE
    OBVIOUS
  <2>2. NoSpeech(e)
    BY <1>1, <2>1, CallFound, Zenon
  <2>3. FoundInPrint(e)
    <3>1. DOMAIN e.items = 1 .. Len(e.items)
      BY <1>1, ExprParts
    <3> HIDE DEF e
    <3> QED BY <1>1, <2>1, <3>1 DEF FoundInPrint, NoLiteral
  <2> QED BY <1>1, <2>2, <2>3, Zenon DEF Good
<1>3. S # {} /\ S \in SUBSET Nat
  BY <1>2 DEF NoLiteral
<1>4. l \in S /\ \A y \in S : l <= y
  BY <1>3, LeastNat, Zenon
<1>5. l \in 1 .. Len(e.items) /\ e.items[l].literal /\ Len(e.items) \in Nat
  <2>1. Len(e.items) \in Nat
    BY <1>1, ExprParts
  <2> QED BY <1>4, <2>1, Zenon
<1>6. \A k \in 1 .. q : ~e.items[k].literal
  <2> SUFFICES ASSUME NEW k \in 1 .. q, e.items[k].literal PROVE FALSE
    OBVIOUS
  <2>1. k \in 1 .. Len(e.items) /\ ~(l <= k)
    <3> HIDE DEF l
    <3>1. \A a \in Nat : \A b \in 1 .. a : \A c \in 1 .. b - 1 : c \in 1 .. a /\ ~(b <= c)
      OBVIOUS
    <3> QED BY <1>5, <3>1, Zenon
  <2>2. k \in S
    BY <2>1, Zenon
  <2> QED BY <1>4, <2>1, <2>2, Zenon
<1> HIDE DEF l, S
<1>7. CASE l = 1
  <2>1. e.items[1].literal
    BY <1>5, <1>7, Zenon
  <2> QED BY <1>1, <2>1, TwoOfCall, TwoNot, Zenon
<1>8. CASE l # 1
  <2>1. /\ q \in Nat /\ q >= 1 /\ m \in Nat /\ m >= 1 /\ Len(e.items) = q + m /\ q + 1 = l
    <3>1. \A a \in Nat : \A b \in 1 .. a : b # 1 =>
            /\ b - 1 \in Nat /\ b - 1 >= 1 /\ a - (b - 1) \in Nat /\ a - (b - 1) >= 1
            /\ a = (b - 1) + (a - (b - 1)) /\ (b - 1) + 1 = b
      OBVIOUS
    <3> QED BY <1>5, <1>8, <3>1, Zenon
  <2>2. e.items[q + 1].literal
    BY <1>5, <2>1, Zenon
  <2> HIDE DEF m, q
  <2>3. Late(e, q, m)
    BY <1>6, <2>1, <2>2, Zenon DEF Late
  <2> QED BY <1>1, <2>3, LateNot, Zenon
<1> QED BY <1>7, <1>8, Zenon

(* A print with a bad expression is not right. *)
LEMMA BadNot ==
  ASSUME NEW s \in Statements, IsStatement(s), s.kind = "print",
         NEW K, FirstGood(s.exprs, K), K + 1 <= Len(s.exprs), ~Good(s.exprs[K + 1])
  PROVE  ConvertLine(Source(s)) # Python(s)
<1> DEFINE e == s.exprs[K + 1]
<1>1. e \in Expressions /\ IsExpression(e)
  BY PrintSplit, Zenon
<1>2. e.form = "value" \/ e.form = "call" \/ e.form = "lambda"
  BY <1>1, ExprParts
<1>3. CASE e.form = "lambda"
  BY <1>1, <1>3, TwoOfLambda, TwoNot, Zenon
<1> QED BY <1>2, <1>3, BadValue, BadCall, Zenon

(* A print is right if it is translatable, and only then. *)
LEMMA PrintTranslates ==
  ASSUME NEW s \in Statements, IsStatement(s), s.kind = "print"
  PROVE  ConvertLine(Source(s)) = Python(s) <=> Translatable(s)
<1> DEFINE n == Len(s.exprs)
           S == {k \in 1 .. n : ~Good(s.exprs[k])}
           l == Min(S)
           K == l - 1
<1>1. n \in Nat /\ DOMAIN s.exprs = 1 .. n
  BY StatementParts
<1>2. Translatable(s) <=> S = {}
  <2>1. Translatable(s) <=> ForEach(s) /\ \A k \in DOMAIN s.exprs : FoundInPrint(s.exprs[k])
    <3> DEFINE t == s.kind
    <3>1. t = "print"
      OBVIOUS
    <3> QED BY <3>1, TranslatableIs
  <2>2. (\A k \in 1 .. n : Good(s.exprs[k])) <=> ForEach(s)
          /\ \A k \in 1 .. n : FoundInPrint(s.exprs[k])
    BY Zenon DEF Good, ForEach
  <2>3. S = {} <=> \A k \in 1 .. n : Good(s.exprs[k])
    BY Zenon
  <2> QED BY <1>1, <2>1, <2>2, <2>3, Zenon
<1>3. CASE S = {}
  <2>1. n <= n
    BY <1>1
  <2>2. \A k \in 1 .. n : Good(s.exprs[k])
    BY <1>3, Zenon
  <2>3. FirstGood(s.exprs, n)
    BY <1>1, <2>1, <2>2, Zenon DEF FirstGood
  <2> QED BY <1>2, <1>3, <2>3, PrintRight, Zenon
<1>4. CASE S # {}
  <2>1. S \in SUBSET Nat
    BY <1>1
  <2>2. l \in S /\ \A y \in S : l <= y
    BY <1>4, <2>1, LeastNat, Zenon
  <2>3. l \in 1 .. n /\ ~Good(s.exprs[l])
    BY <2>2, Zenon
  <2>4. \A k \in 1 .. K : Good(s.exprs[k])
    <3> SUFFICES ASSUME NEW k \in 1 .. K, ~Good(s.exprs[k]) PROVE FALSE
      OBVIOUS
    <3>1. k \in 1 .. n /\ ~(l <= k)
      <4> HIDE DEF l
      <4>1. \A a \in Nat : \A b \in 1 .. a : \A c \in 1 .. b - 1 : c \in 1 .. a /\ ~(b <= c)
        OBVIOUS
      <4> QED BY <1>1, <2>3, <4>1, Zenon
    <3>2. k \in S
      BY <3>1, Zenon
    <3> QED BY <2>2, <3>1, <3>2, Zenon
  <2> HIDE DEF l, S
  <2>5. K \in Nat /\ K <= n /\ K + 1 <= n /\ K + 1 = l
    <3>1. \A a \in Nat : \A b \in 1 .. a : b - 1 \in Nat /\ b - 1 <= a /\ (b - 1) + 1 <= a
            /\ (b - 1) + 1 = b
      OBVIOUS
    <3> QED BY <1>1, <2>3, <3>1, Zenon
  <2> HIDE DEF K
  <2>6. FirstGood(s.exprs, K) /\ ~Good(s.exprs[K + 1])
    BY <2>3, <2>4, <2>5, Zenon DEF FirstGood
  <2> QED BY <1>2, <1>4, <2>5, <2>6, BadNot, Zenon
<1> QED BY <1>3, <1>4, Zenon
-----------------------------------------------------------------------------
(* Every line of the file. *)

(* Every line but the end is right if it is translatable, and only then. *)
LEMMA LineTranslates ==
  ASSUME NEW s \in Statements, IsStatement(s), s.kind # "end"
  PROVE  ConvertLine(Source(s)) = Python(s) <=> Translatable(s)
<1>1. s.kind \in {"assign", "return", "call", "header", "for", "print", "define",
                  "statement", "end", "blank"}
  BY Kinds
<1>2. CASE s.kind \in {"assign", "return"}
  BY <1>2, AssignIs
<1>3. CASE s.kind = "call"
  BY <1>3, CallTranslates
<1>4. CASE s.kind = "header"
  BY <1>4, HeaderTranslates
<1>5. CASE s.kind = "for"
  BY <1>5, ForTranslates
<1>6. CASE s.kind = "print"
  BY <1>6, PrintTranslates
<1>7. CASE s.kind = "define"
  BY <1>7, DefineTranslates
<1>8. CASE s.kind = "statement"
  BY <1>8, StatementTranslates
<1>9. CASE s.kind = "blank"
  BY <1>9, BlankLine
<1> QED BY <1>1, <1>2, <1>3, <1>4, <1>5, <1>6, <1>7, <1>8, <1>9

(* An end is a line of its own. *)
LEMMA EndIsEnd ==
  ASSUME NEW s \in Statements, IsStatement(s), s.kind = "end"
  PROVE  IsEnd(Source(s))
<1>1. s.exprs = <<>> /\ s.words = <<"end">>
  BY KindEnd
<1>2. Len(s.words) = 1 /\ s.words[1] = "end"
  BY <1>1
<1>3. NoLambdas(s.words)
  <2>1. \A k \in 1 .. 1 : k = 1
    OBVIOUS
  <2>2. "end" # "lambda"
    BY Zenon
  <2> QED BY <1>2, <2>1, <2>2, Zenon DEF NoLambdas
<1>4. Len(Source(s)) = 1
  <2>1. Len(Source(s)) = Len(s.words)
    BY <1>1, <1>3, WordsOnly, Zenon
  <2> QED BY <1>2, <2>1, Zenon
<1>5. FirstIs(Source(s), {"end"})
  <2>1. Len(s.words) >= 1
    BY <1>2
  <2>2. FirstIs(Source(s), {"end"}) <=> s.words[1] \in {"end"}
    BY <1>3, <2>1, FirstOf, Zenon
  <2> QED BY <1>2, <2>2
<1> QED BY <1>4, <1>5, Zenon DEF IsEnd

(* The lines of files. *)
Lines == [indent : Nat, statement : Statements]

(* A line of a file that is no end. *)
Said(r) == r.indent \in Nat /\ r.statement \in Statements /\ IsStatement(r.statement)
           /\ r.statement.kind # "end"
(* All of the lines are such. *)
AllSaid(q) == \A k \in 1 .. Len(q) : Said(q[k])

(* Sequences of such lines. *)
Sayings == {q \in Seq(Lines) : AllSaid(q)}

(* Two of them make another. *)
LEMMA SayingsCat ==
  ASSUME NEW s \in Sayings, NEW t \in Sayings
  PROVE  s \o t \in Sayings
<1> DEFINE L == Lines
<1>1. s \in Seq(L) /\ t \in Seq(L) /\ AllSaid(s) /\ AllSaid(t)
  BY DEF Sayings
<1> HIDE DEF L
<1>2. s \o t \in Seq(L) /\ Len(s \o t) = Len(s) + Len(t) /\ Len(s) \in Nat /\ Len(t) \in Nat
  BY <1>1
<1>3. AllSaid(s \o t)
  <2> SUFFICES ASSUME NEW k \in 1 .. Len(s \o t)  PROVE Said((s \o t)[k])
    BY DEF AllSaid
  <2>1. CASE k <= Len(s)
    <3>1. k \in 1 .. Len(s) /\ (s \o t)[k] = s[k]
      BY <1>1, <1>2, <2>1
    <3> QED BY <1>1, <3>1 DEF AllSaid
  <2>2. CASE ~(k <= Len(s))
    <3>1. k - Len(s) \in 1 .. Len(t) /\ (s \o t)[k] = t[k - Len(s)]
      BY <1>1, <1>2, <2>2
    <3> QED BY <1>1, <3>1 DEF AllSaid
  <2> QED BY <2>1, <2>2
<1> QED BY <1>2, <1>3 DEF Sayings, L

(* Kept, of any file. *)
KeptOf(p) ==
  FlattenSeq([k \in DOMAIN p |-> IF IsEnd(Source(p[k].statement)) THEN <<>> ELSE <<p[k]>>])

(* No end is kept. *)
LEMMA KeptSaid ==
  ASSUME NEW p \in Programs
  PROVE  KeptOf(p) \in Sayings
<1> DEFINE n == Len(p)
           f == [k \in 1 .. n |-> IF IsEnd(Source(p[k].statement)) THEN <<>> ELSE <<p[k]>>]
<1>1. /\ n \in Nat /\ DOMAIN p = 1 .. n
      /\ \A k \in 1 .. n : /\ p[k] \in Lines /\ p[k].indent \in Nat /\ p[k].statement \in Statements
                           /\ IsStatement(p[k].statement)
  BY ProgramIs DEF Lines
<1>2. <<>> \in Sayings
  <2>1. <<>> \in Seq(Lines) /\ Len(<<>>) = 0 /\ 1 .. 0 = {}
    OBVIOUS
  <2> QED BY <2>1 DEF Sayings, AllSaid
<1>3. f \in [1 .. n -> Sayings]
  <2> SUFFICES ASSUME NEW k \in 1 .. n
               PROVE  (IF IsEnd(Source(p[k].statement)) THEN <<>> ELSE <<p[k]>>) \in Sayings
    OBVIOUS
  <2>1. CASE IsEnd(Source(p[k].statement))
    BY <1>2, <2>1
  <2>2. CASE ~IsEnd(Source(p[k].statement))
    <3>1. Said(p[k])
      BY <1>1, <2>2, EndIsEnd, Zenon DEF Said
    <3> DEFINE r == p[k]
               L == Lines
    <3>2. r \in L /\ Said(r)
      BY <1>1, <3>1
    <3> HIDE DEF r, L
    <3>3. <<r>> \in Seq(L) /\ Len(<<r>>) = 1 /\ <<r>>[1] = r
      BY <3>2
    <3>4. AllSaid(<<r>>)
      <4>1. \A i \in 1 .. 1 : i = 1
        OBVIOUS
      <4> QED BY <3>2, <3>3, <4>1, Zenon DEF AllSaid
    <3>5. <<r>> \in Sayings
      BY <3>3, <3>4, Zenon DEF Sayings, L
    <3> QED BY <2>2, <3>5 DEF r
  <2> QED BY <2>1, <2>2
<1>4. FlattenSeq(f) \in Sayings
  <2>1. Sayings \in SUBSET Seq(Lines)
    BY DEF Sayings
  <2> HIDE DEF f
  <2> QED BY <1>1, <1>2, <1>3, <2>1, SayingsCat, FlatIn, Zenon
<1> QED BY <1>1, <1>4, Zenon DEF KeptOf

(* The lines of the output are those that were kept, each converted. *)
LEMMA ConvertedIs ==
  ASSUME Settled, outcome = "converted"
  PROVE  /\ Kept \in Sayings /\ Len(Kept) \in Nat /\ DOMAIN Kept = 1 .. Len(Kept)
         /\ \A k \in 1 .. Len(Kept) : Said(Kept[k])
         /\ converted = [k \in 1 .. Len(Kept) |->
              [indent |-> Kept[k].indent, words |-> ConvertLine(Source(Kept[k].statement))]]
         /\ Len(converted) = Len(Kept)
<1>1. program \in Programs /\ converted = ParseNewpython
  BY DEF Settled
<1>2. Kept \in Sayings
  BY <1>1, KeptSaid, Zenon DEF Kept, KeptOf
<1> DEFINE q == Kept
<1>3. Kept \in Seq(Lines) /\ AllSaid(Kept)
  BY <1>2 DEF Sayings
<1>4. Len(Kept) \in Nat /\ DOMAIN Kept = 1 .. Len(Kept)
  <2> DEFINE L == Lines
  <2>1. q \in Seq(L)
    BY <1>3
  <2> HIDE DEF q, L
  <2>2. Len(q) \in Nat /\ DOMAIN q = 1 .. Len(q)
    BY <2>1
  <2> QED BY <2>2 DEF q
<1>5. converted = [k \in 1 .. Len(Kept) |->
              [indent |-> Kept[k].indent, words |-> ConvertLine(Source(Kept[k].statement))]]
  BY <1>1, <1>4, Zenon DEF ParseNewpython
<1>6. Len(converted) = Len(Kept)
  <2> DEFINE F(k) == [indent |-> Kept[k].indent, words |-> ConvertLine(Source(Kept[k].statement))]
             g == [k \in 1 .. Len(Kept) |-> F(k)]
  <2>1. \A k \in 1 .. Len(Kept) : F(k) \in {F(i) : i \in 1 .. Len(Kept)}
    OBVIOUS
  <2>2. g \in [1 .. Len(Kept) -> {F(i) : i \in 1 .. Len(Kept)}]
    BY <2>1
  <2> DEFINE T == {F(i) : i \in 1 .. Len(Kept)}
  <2>3. g \in [1 .. Len(Kept) -> T]
    BY <2>2
  <2> HIDE DEF g, T
  <2>4. Len(g) = Len(Kept)
    BY <1>4, <2>3, SeqOfFunction, Zenon
  <2> QED BY <1>5, <2>4 DEF g
<1>7. \A k \in 1 .. Len(Kept) : Said(Kept[k])
  BY <1>3, Zenon DEF AllSaid
<1> QED BY <1>2, <1>4, <1>5, <1>6, <1>7, Zenon

(* Translation for every file: each line of the output is the Python that  *)
(* it stands for if, and only if, it is translatable.                      *)
THEOREM TranslationIsRight == Spec => []Translation
<1>1. Settled => Translation
  <2> SUFFICES ASSUME Settled, outcome = "converted"
               PROVE  /\ Len(converted) = Len(Kept)
                      /\ \A k \in DOMAIN Kept : converted[k].words = Python(Kept[k].statement)
                                                  <=> Translatable(Kept[k].statement)
    BY DEF Translation
  <2>1. /\ DOMAIN Kept = 1 .. Len(Kept) /\ Len(converted) = Len(Kept)
        /\ \A k \in 1 .. Len(Kept) : Said(Kept[k])
        /\ converted = [k \in 1 .. Len(Kept) |->
              [indent |-> Kept[k].indent, words |-> ConvertLine(Source(Kept[k].statement))]]
    BY ConvertedIs, Zenon
  <2>2. ASSUME NEW k \in 1 .. Len(Kept)
        PROVE  converted[k].words = Python(Kept[k].statement) <=> Translatable(Kept[k].statement)
    <3> DEFINE s == Kept[k].statement
    <3>1. s \in Statements /\ IsStatement(s) /\ s.kind # "end"
      BY <2>1, Zenon DEF Said
    <3>2. converted[k].words = ConvertLine(Source(s))
      BY <2>1
    <3> HIDE DEF s
    <3>3. ConvertLine(Source(s)) = Python(s) <=> Translatable(s)
      BY <3>1, LineTranslates, Zenon
    <3> QED BY <3>2, <3>3, Zenon DEF s
  <2> QED BY <2>1, <2>2, Zenon
<1> QED BY <1>1, IsSettled, PTL
-----------------------------------------------------------------------------
(* Types: no bracket is left, whatever is done to a line. *)

(* Words without brackets. *)
NeatWords == [text : Texts, left : {"", "\""}, right : {"", "\"", ":"}]

(* A line without brackets. *)
Tidy(s) == s \in Line /\ \A i \in 1 .. Len(s) : s[i] \in NeatWords

(* So are all of several lines. *)
AllTidy(f, n) == \A k \in 1 .. n : Tidy(f[k])

(* Words without brackets are words with certain marks. *)
LEMMA NeatWord ==
  ASSUME NEW w
  PROVE  /\ w \in NeatWords => w \in Words
         /\ w \in Words /\ w.left \in {"", "\""} /\ w.right \in {"", "\"", ":"} => w \in NeatWords
         /\ w \in NeatWords => w.left \in {"", "\""} /\ w.right \in {"", "\"", ":"}
BY DEF NeatWords, Words

(* A word without marks has no brackets. *)
LEMMA NeatPlainly ==
  ASSUME NEW text \in Texts
  PROVE  Plainly(text) \in NeatWords
<1>1. /\ Plainly(text) \in Words /\ Plainly(text).left = "" /\ Plainly(text).right = ""
  BY PlainlyWord
<1> DEFINE w == Plainly(text)
<1>2. w \in Words /\ w.left \in {"", "\""} /\ w.right \in {"", "\"", ":"}
  BY <1>1
<1> HIDE DEF w
<1>3. w \in NeatWords
  BY <1>2, NeatWord, Zenon
<1> QED BY <1>3, Zenon DEF w

(* Two such lines make another. *)
LEMMA TidyCat ==
  ASSUME NEW s, NEW t, Tidy(s), Tidy(t)
  PROVE  Tidy(Cat(s, t))
<1>1. s \in Line /\ t \in Line /\ \A i \in 1 .. Len(s) : s[i] \in NeatWords
  BY DEF Tidy
<1>2. \A i \in 1 .. Len(t) : t[i] \in NeatWords
  BY DEF Tidy
<1>3. /\ Cat(s, t) \in Line /\ Len(Cat(s, t)) = Len(s) + Len(t) /\ Len(s) \in Nat /\ Len(t) \in Nat
  BY <1>1, CatLine, LenLine, Zenon
<1>4. ASSUME NEW i \in 1 .. Len(s) + Len(t)
      PROVE  Cat(s, t)[i] \in NeatWords
  <2>1. i \in Nat /\ 1 <= i /\ i <= Len(s) + Len(t)
    BY <1>3
  <2>2. CASE i <= Len(s)
    <3>1. i \in 1 .. Len(s)
      BY <1>3, <2>2
    <3>2. Cat(s, t)[i] = s[i]
      BY <1>1, <2>1, <2>2, CatAt, Zenon
    <3> QED BY <1>1, <3>1, <3>2, Zenon
  <2>3. CASE ~(i <= Len(s))
    <3>1. Len(s) < i /\ i - Len(s) \in 1 .. Len(t)
      BY <1>3, <2>3
    <3>2. Cat(s, t)[i] = t[i - Len(s)]
      BY <1>1, <2>1, <3>1, CatAt, Zenon
    <3> QED BY <1>2, <3>1, <3>2, Zenon
  <2> QED BY <2>2, <2>3, Zenon
<1> QED BY <1>3, <1>4, Zenon DEF Tidy

(* The empty line has no brackets. *)
LEMMA TidyNil == Tidy(<<>>)
<1>1. <<>> \in Line /\ Len(<<>>) = 0
  BY NilLine
<1>2. \A i \in 1 .. 0 : FALSE
  OBVIOUS
<1> QED BY <1>1, <1>2, Zenon DEF Tidy

(* Nor has a line of such a word. *)
LEMMA TidySingle ==
  ASSUME NEW w \in NeatWords
  PROVE  Tidy(Single(w))
<1>1. w \in Words
  BY NeatWord, Zenon
<1>2. Single(w) \in Line /\ Len(Single(w)) = 1 /\ Single(w)[1] = w
  BY <1>1, SingleLine
<1>3. \A i \in 1 .. 1 : i = 1
  OBVIOUS
<1> QED BY <1>2, <1>3, Zenon DEF Tidy

(* Nor has a sign. *)
LEMMA TidySign ==
  ASSUME NEW text \in Texts
  PROVE  Tidy(Sign(text))
BY NeatPlainly, TidySingle, Zenon DEF Sign

(* Nor have bare words. *)
LEMMA TidyBare ==
  ASSUME NEW texts \in Seq(Texts)
  PROVE  Tidy(Bare(texts))
<1>1. /\ Bare(texts) \in Line /\ Len(Bare(texts)) = Len(texts)
      /\ \A k \in 1 .. Len(texts) : Bare(texts)[k] = Plainly(texts[k])
  BY BareLine
<1>2. \A k \in 1 .. Len(texts) : texts[k] \in Texts
  OBVIOUS
<1> QED BY <1>1, <1>2, NeatPlainly, Zenon DEF Tidy

(* Nor have several such lines, one after the other. *)
LEMMA TidyFlat ==
  ASSUME NEW n \in Nat, NEW f, f \in Pieces(n), AllTidy(f, n)
  PROVE  Tidy(FlattenSeq(f))
<1> DEFINE P == {s \in Line : Tidy(s)}
<1>1. P \in SUBSET Seq(Words)
  BY DEF Line
<1>2. <<>> \in P
  BY TidyNil, NilLine, Zenon
<1>3. \A s, t \in P : s \o t \in P
  <2> SUFFICES ASSUME NEW s \in P, NEW t \in P  PROVE s \o t \in P
    OBVIOUS
  <2>1. Tidy(Cat(s, t)) /\ Cat(s, t) \in Line
    <3>1. s \in Line /\ t \in Line /\ Tidy(s) /\ Tidy(t)
      OBVIOUS
    <3> QED BY <3>1, TidyCat, CatLine, Zenon
  <2> QED BY <2>1 DEF Cat
<1>4. f \in [1 .. n -> P]
  <2>1. \A k \in 1 .. n : f[k] \in P
    BY Zenon DEF AllTidy, Tidy
  <2> HIDE DEF P
  <2> QED BY <2>1 DEF Pieces
<1>5. FlattenSeq(f) \in P
  <2> HIDE DEF P
  <2> QED BY <1>1, <1>2, <1>3, <1>4, FlatIn, Zenon
<1> QED BY <1>5, Zenon

(* Or with commas between them. *)
LEMMA TidyComma ==
  ASSUME NEW n \in Nat, NEW f, f \in Pieces(n), AllTidy(f, n)
  PROVE  Tidy(Comma(f))
<1>1. /\ Commas(f) \in Pieces(n)
      /\ \A k \in 1 .. n : Commas(f)[k] = IF k = 1 THEN f[k] ELSE Cat(Sign(","), f[k])
  BY CommasType
<1> DEFINE c == Commas(f)
<1>2. AllTidy(c, n)
  <2> SUFFICES ASSUME NEW k \in 1 .. n  PROVE Tidy(c[k])
    BY DEF AllTidy
  <2>1. Tidy(f[k])
    BY Zenon DEF AllTidy
  <2>2. Tidy(Cat(Sign(","), f[k]))
    BY <2>1, TidySign, TidyCat, Known, Zenon
  <2>3. c[k] = f[k] \/ c[k] = Cat(Sign(","), f[k])
    BY <1>1
  <2> QED BY <2>1, <2>2, <2>3, Zenon
<1>3. Tidy(FlattenSeq(c))
  BY <1>1, <1>2, TidyFlat, Zenon
<1> QED BY <1>3, CommaIs, Zenon

(* Nor has a call. *)
LEMMA TidyCalled ==
  ASSUME NEW h, NEW x, Tidy(h), Tidy(x)
  PROVE  Tidy(Called(h, x))
<1>1. Tidy(Sign("(")) /\ Tidy(Sign(")"))
  BY TidySign, Known
<1>2. Tidy(Cat(Cat(h, Sign("(")), x))
  BY <1>1, TidyCat, Zenon
<1> QED BY <1>1, <1>2, TidyCat, Zenon DEF Called

(* Nor have its words with commas between them. *)
LEMMA TidySingles ==
  ASSUME NEW s, Tidy(s)
  PROVE  Tidy(Comma(Singles(s)))
<1>1. s \in Line /\ Len(s) \in Nat
  BY LenLine DEF Tidy
<1>2. Singles(s) \in Pieces(Len(s)) /\ \A k \in 1 .. Len(s) : Singles(s)[k] = Single(s[k])
  BY <1>1, SinglesType
<1>3. AllTidy(Singles(s), Len(s))
  BY <1>2, TidySingle, Zenon DEF AllTidy, Tidy
<1> QED BY <1>1, <1>2, <1>3, TidyComma, Zenon

(* ConvertSimpleCall adds no brackets. *)
LEMMA TidyCall ==
  ASSUME NEW ws, Tidy(ws)
  PROVE  Tidy(ConvertSimpleCall(ws))
<1>1. ws \in Line /\ Len(ws) \in Nat /\ \A i \in 1 .. Len(ws) : ws[i] \in NeatWords
  BY LenLine DEF Tidy
<1>2. CASE Found(ws)
  <2>1. Len(ws) > 1
    BY <1>2 DEF Found
  <2>2. 1 \in 1 .. Len(ws) /\ Len(ws) >= 1 /\ 1 + (Len(ws) - 1) <= Len(ws)
    BY <1>1, <2>1
  <2>3. Rest(ws) \in Line /\ Len(Rest(ws)) = Len(ws) - 1
          /\ \A k \in 1 .. Len(ws) - 1 : Rest(ws)[k] = ws[k + 1]
    BY <1>1, <2>2, RestLine, Zenon
  <2>4. \A k \in 1 .. Len(ws) - 1 : k + 1 \in 1 .. Len(ws)
    BY <1>1
  <2>5. Tidy(Rest(ws))
    BY <1>1, <2>3, <2>4, Zenon DEF Tidy
  <2>6. Tidy(Single(ws[1]))
    BY <1>1, <2>2, TidySingle, Zenon
  <2>7. Tidy(Called(Single(ws[1]), Comma(Singles(Rest(ws)))))
    BY <2>5, <2>6, TidySingles, TidyCalled, Zenon
  <2>8. ConvertSimpleCall(ws) = Called(Single(ws[1]), Comma(Singles(Rest(ws))))
    BY <1>1, <1>2, SimpleCallIs
  <2> QED BY <2>7, <2>8, Zenon
<1>3. CASE ~Found(ws)
  <2>1. ConvertSimpleCall(ws) = ws
    BY <1>1, <1>3, SimpleCallIs
  <2> QED BY <2>1, Zenon
<1> QED BY <1>2, <1>3, Zenon

(* Nor does ConvertLambda. *)
LEMMA TidyColons ==
  ASSUME NEW s, Tidy(s), NEW v, OrColons(v, s)
  PROVE  Tidy(v)
<1>1. /\ v \in Line /\ Len(v) = Len(s) /\ s \in Line
      /\ \A k \in 1 .. Len(s) : OrColon(v[k], s[k]) /\ s[k] \in NeatWords
  BY Zenon DEF OrColons, Tidy
<1>2. \A k \in 1 .. Len(v) : v[k] \in Words
  BY <1>1, LenLine
<1>3. ASSUME NEW k \in 1 .. Len(v)
      PROVE  v[k] \in NeatWords
  <2> DEFINE a == v[k]
             b == s[k]
  <2>1. OrColon(a, b) /\ b \in NeatWords /\ a \in Words
    BY <1>1, <1>2
  <2> HIDE DEF a, b
  <2>2. b.left \in {"", "\""} /\ b.right \in {"", "\"", ":"}
    BY <2>1, NeatWord, Zenon
  <2>3. a.left = b.left /\ (a.right = b.right \/ a.right = ":")
    BY <2>1, Zenon DEF OrColon
  <2>4. a.left \in {"", "\""} /\ a.right \in {"", "\"", ":"}
    BY <2>2, <2>3
  <2>5. a \in NeatWords
    BY <2>1, <2>4, NeatWord, Zenon
  <2> QED BY <2>5, Zenon DEF a
<1> QED BY <1>1, <1>3, Zenon DEF Tidy
-----------------------------------------------------------------------------
(* A line that ends with a colon of its own is a block header.  Nothing    *)
(* else does.                                                              *)

(* What may end a line that begins no block. *)
Loose(w) == w.text # ":" \/ w.right # ""

(* The line has words, and its last one is such. *)
Ends(s) == s \in Line /\ Len(s) >= 1 /\ Loose(s[Len(s)])

(* The last word of two lines put together. *)
LEMMA LastOfCat ==
  ASSUME NEW s \in Line, NEW t \in Line, Len(t) >= 1
  PROVE  LET u == Cat(s, t) IN u \in Line /\ Len(u) >= 1 /\ u[Len(u)] = t[Len(t)]
<1> DEFINE u == Cat(s, t)
           i == Len(s) + Len(t)
<1>1. u \in Line /\ Len(u) = i /\ Len(s) \in Nat /\ Len(t) \in Nat
  BY CatLine, LenLine, Zenon
<1>2. i \in Nat /\ Len(s) < i /\ i <= Len(s) + Len(t) /\ i - Len(s) = Len(t) /\ i >= 1
  BY <1>1
<1> HIDE DEF i, u
<1>3. Cat(s, t)[i] = t[i - Len(s)]
  BY <1>1, <1>2, CatAt, Zenon
<1>4. u[Len(u)] = t[Len(t)]
  BY <1>1, <1>2, <1>3, Zenon DEF u
<1> QED BY <1>1, <1>2, <1>4, Zenon DEF u

(* A line that ends like this does so after another one. *)
LEMMA EndsCat ==
  ASSUME NEW s \in Line, NEW t, Ends(t)
  PROVE  Ends(Cat(s, t))
<1>1. t \in Line /\ Len(t) >= 1 /\ Loose(t[Len(t)])
  BY Zenon DEF Ends
<1> DEFINE u == Cat(s, t)
<1>2. u \in Line /\ Len(u) >= 1 /\ u[Len(u)] = t[Len(t)]
  BY <1>1, LastOfCat, Zenon
<1> HIDE DEF u
<1>3. Ends(u)
  BY <1>1, <1>2, Zenon DEF Ends
<1> QED BY <1>3, Zenon DEF u

(* A sign does, unless it is the colon. *)
LEMMA EndsSign ==
  ASSUME NEW text \in Texts, text # ":"
  PROVE  Ends(Sign(text))
<1>1. Sign(text) \in Line /\ Len(Sign(text)) = 1 /\ Sign(text)[1] = Plainly(text)
  BY SignLine
<1>2. Plainly(text).text = text
  BY PlainlyWord
<1>3. Loose(Plainly(text))
  BY <1>2, Zenon DEF Loose
<1>4. 1 >= 1
  OBVIOUS
<1> QED BY <1>1, <1>3, <1>4, Zenon DEF Ends

(* A call ends with a parenthesis. *)
LEMMA EndsCalled ==
  ASSUME NEW h \in Line, NEW x \in Line
  PROVE  Ends(Called(h, x))
<1>1. ")" \in Texts /\ ")" # ":"
  BY Known
<1>2. Ends(Sign(")"))
  BY <1>1, EndsSign, Zenon
<1>3. Sign("(") \in Line
  BY SignLine, Known
<1>4. Cat(Cat(h, Sign("(")), x) \in Line
  BY <1>3, CatLine, Zenon
<1> QED BY <1>2, <1>4, EndsCat, Zenon DEF Called

(* ConvertSimpleCall keeps it. *)
LEMMA EndsCall ==
  ASSUME NEW ws, Ends(ws)
  PROVE  Ends(ConvertSimpleCall(ws))
<1>1. ws \in Line /\ Len(ws) \in Nat /\ Len(ws) >= 1
  BY LenLine DEF Ends
<1>2. CASE Found(ws)
  <2>1. Rest(ws) \in Line /\ ws[1] \in Words /\ Len(Rest(ws)) \in Nat
    BY <1>1, RestLine, LineCons, LenLine, Zenon
  <2>2. Single(ws[1]) \in Line
    BY <2>1, SingleLine, Zenon
  <2>3. Singles(Rest(ws)) \in Pieces(Len(Rest(ws)))
    BY <2>1, SinglesType, Zenon
  <2>4. Comma(Singles(Rest(ws))) \in Line
    BY <2>1, <2>3, CommaLine, Zenon
  <2>5. Ends(Called(Single(ws[1]), Comma(Singles(Rest(ws)))))
    BY <2>2, <2>4, EndsCalled, Zenon
  <2>6. ConvertSimpleCall(ws) = Called(Single(ws[1]), Comma(Singles(Rest(ws))))
    BY <1>1, <1>2, SimpleCallIs
  <2> QED BY <2>5, <2>6, Zenon
<1>3. CASE ~Found(ws)
  <2>1. ConvertSimpleCall(ws) = ws
    BY <1>1, <1>3, SimpleCallIs
  <2> QED BY <2>1, Zenon
<1> QED BY <1>2, <1>3, Zenon

(* And so does ConvertLambda. *)
LEMMA EndsColons ==
  ASSUME NEW s, Ends(s), NEW v, OrColons(v, s)
  PROVE  Ends(v)
<1>1. /\ v \in Line /\ Len(v) = Len(s) /\ s \in Line /\ Len(s) >= 1 /\ Loose(s[Len(s)])
      /\ \A k \in 1 .. Len(s) : OrColon(v[k], s[k])
  BY Zenon DEF OrColons, Ends
<1>2. Len(s) \in 1 .. Len(s)
  <2>1. Len(s) \in Nat /\ Len(s) >= 1
    BY <1>1, LenLine, Zenon
  <2> QED BY <2>1
<1> DEFINE a == v[Len(s)]
           b == s[Len(s)]
<1>3. OrColon(a, b) /\ Loose(b)
  BY <1>1, <1>2, Zenon
<1> HIDE DEF a, b
<1>4. Loose(a)
  <2>1. ":" # ""
    OBVIOUS
  <2> QED BY <1>3, <2>1, Zenon DEF OrColon, Loose
<1> QED BY <1>1, <1>4, Zenon DEF Ends, a

(* No item ends with a colon of its own, or has brackets in Python. *)
LEMMA ItemEnds ==
  ASSUME NEW item \in Items, IsItem(item)
  PROVE  Ends(ItemPython(item)) /\ Tidy(ItemPython(item))
<1> DEFINE n == Len(item.texts)
<1>1. ItemPython(item) \in Line /\ Len(ItemPython(item)) = n
  BY ItemLine
<1>2. n \in Nat /\ n >= 1
  <2>1. item.texts \in Seq(Texts) /\ item.texts # <<>>
    BY DEF Items, IsItem
  <2> QED BY <2>1
<1>3. n \in 1 .. n
  BY <1>2
<1>4. Loose(ItemPython(item)[n])
  <2>1. CASE item.literal
    <3>1. ItemPython(item)[n].right = IF n = n THEN "\"" ELSE ""
      BY <1>3, <2>1, TextWords
    <3>2. ItemPython(item)[n].right # ""
      BY <3>1
    <3> QED BY <3>2, Zenon DEF Loose
  <2>2. CASE ~item.literal
    <3>1. item.texts[n] # ":"
      <4>1. item.texts[n] \notin {"lambda", "=", "+=", "(", ")", ",", ":"}
        BY <1>3, <2>2, PlainItem, Zenon
      <4> QED BY <4>1, Zenon
    <3>2. ItemPython(item)[n].text = item.texts[n]
      BY <1>3, <2>2, PlainWords, Zenon
    <3> QED BY <3>1, <3>2, Zenon DEF Loose
  <2> QED BY <2>1, <2>2, Zenon
<1>5. Ends(ItemPython(item))
  BY <1>1, <1>2, <1>4, Zenon DEF Ends
<1>6. ASSUME NEW k \in 1 .. n
      PROVE  ItemPython(item)[k] \in NeatWords
  <2> DEFINE w == ItemPython(item)[k]
  <2>1. w \in Words
    BY <1>1, LenLine, Zenon
  <2>2. CASE item.literal
    <3>1. w.left = (IF k = 1 THEN "\"" ELSE "") /\ w.right = (IF k = n THEN "\"" ELSE "")
      BY <2>2, TextWords
    <3> HIDE DEF w
    <3>2. w.left \in {"", "\""} /\ w.right \in {"", "\"", ":"}
      BY <3>1
    <3>3. w \in NeatWords
      BY <2>1, <3>2, NeatWord, Zenon
    <3> QED BY <3>3, Zenon DEF w
  <2>3. CASE ~item.literal
    <3>1. w.left = "" /\ w.right = ""
      BY <2>3, PlainWords, Zenon
    <3> HIDE DEF w
    <3>2. w.left \in {"", "\""} /\ w.right \in {"", "\"", ":"}
      BY <3>1
    <3>3. w \in NeatWords
      BY <2>1, <3>2, NeatWord, Zenon
    <3> QED BY <3>3, Zenon DEF w
  <2> QED BY <2>2, <2>3, Zenon
<1>7. Tidy(ItemPython(item))
  BY <1>1, <1>6, Zenon DEF Tidy
<1> QED BY <1>5, <1>7, Zenon

(* Several lines end like the last. *)
LEMMA FlatEnds ==
  ASSUME NEW n \in Nat, NEW f, f \in Pieces(n + 1), Ends(f[n + 1])
  PROVE  Ends(FlattenSeq(f))
<1>1. FlattenSeq(f) = Cat(FlattenSeq(Firsts(f, n)), f[n + 1])
  BY FlatSnoc, Zenon
<1>2. Firsts(f, n) \in Pieces(n)
  <2> DEFINE m == n + 1
  <2>1. m \in Nat /\ n <= m /\ f \in Pieces(m)
    OBVIOUS
  <2> HIDE DEF m
  <2> QED BY <2>1, FirstsType, Zenon
<1>3. FlattenSeq(Firsts(f, n)) \in Line
  BY <1>2, FlatLine
<1> QED BY <1>1, <1>3, EndsCat, Zenon

(* No expression ends with a colon of its own, or has brackets after       *)
(* ConvertBracketStrings.                                                  *)
LEMMA SpokenEnds ==
  ASSUME NEW e \in Expressions, IsExpression(e)
  PROVE  Ends(Spoken(e)) /\ Tidy(Spoken(e))
<1> DEFINE f == Pythons(e.items)
           n == Len(e.items)
           m == n - 1
<1>1. n \in Nat /\ f \in Pieces(n)
  BY ExprParts, PythonsType
<1>2. \A k \in 1 .. n : Ends(f[k]) /\ Tidy(f[k])
  <2> SUFFICES ASSUME NEW k \in 1 .. n  PROVE Ends(f[k]) /\ Tidy(f[k])
    OBVIOUS
  <2>1. e.items[k] \in Items /\ IsItem(e.items[k]) /\ f[k] = ItemPython(e.items[k])
    BY ExprItems, Zenon
  <2>2. Ends(ItemPython(e.items[k])) /\ Tidy(ItemPython(e.items[k]))
    BY <2>1, ItemEnds, Zenon
  <2> QED BY <2>1, <2>2, Zenon
<1>3. n >= 1
  <2>1. CASE e.form = "value"
    <3>1. Len(e.items) = 1
      BY <2>1, ValueForm
    <3> QED BY <3>1
  <2>2. CASE e.form = "call"
    BY <2>2, CallForm
  <2>3. CASE e.form = "lambda"
    BY <2>3, LambdaForm
  <2> QED BY <2>1, <2>2, <2>3, ExprParts
<1>4. m \in Nat /\ m + 1 = n /\ n \in 1 .. n
  BY <1>1, <1>3
<1> HIDE DEF f, m
<1>5. Ends(FlattenSeq(f)) /\ Tidy(FlattenSeq(f))
  <2>1. f \in Pieces(m + 1) /\ Ends(f[m + 1])
    BY <1>1, <1>2, <1>4, Zenon
  <2>2. AllTidy(f, n)
    BY <1>2, Zenon DEF AllTidy
  <2> QED BY <1>1, <1>4, <2>1, <2>2, FlatEnds, TidyFlat, Zenon
<1>6. Body(e) = FlattenSeq(f)
  BY Zenon DEF Body, f
<1>7. Tidy(Lead(e)) /\ Lead(e) \in Line
  <2>1. Lead(e) \in Line
    BY LeadLine
  <2>2. Tidy(Sign("lambda"))
    BY TidySign, Known, Zenon
  <2>3. Lead(e) = Sign("lambda") \/ Lead(e) = <<>>
    BY DEF Lead
  <2> QED BY <2>1, <2>2, <2>3, TidyNil, Zenon
<1>8. Bare(e.head) \in Line /\ Tidy(Bare(e.head))
  BY ExprParts, BareLine, TidyBare
<1>9. Tidy(Cat(Lead(e), Bare(e.head))) /\ Cat(Lead(e), Bare(e.head)) \in Line
  BY <1>7, <1>8, TidyCat, CatLine, Zenon
<1>10. Ends(Body(e)) /\ Tidy(Body(e))
  BY <1>5, <1>6, Zenon
<1> QED BY <1>9, <1>10, TidyCat, EndsCat, Zenon DEF Spoken
-----------------------------------------------------------------------------
(* No expression ends with such a colon, and no conversion adds one. *)

(* The line is like this, and without brackets. *)
Whole(ws) == Ends(ws) /\ Tidy(ws)

(* A line after one without brackets. *)
LEMMA WholeCat ==
  ASSUME NEW s, Tidy(s), NEW t, Whole(t)
  PROVE  Whole(Cat(s, t))
<1>1. s \in Line /\ Ends(t) /\ Tidy(t)
  BY Zenon DEF Tidy, Whole
<1> QED BY <1>1, TidyCat, EndsCat, Zenon DEF Whole

(* ConvertSimpleCall keeps it. *)
LEMMA WholeCall ==
  ASSUME NEW ws, Whole(ws)
  PROVE  Whole(ConvertSimpleCall(ws))
BY EndsCall, TidyCall, Zenon DEF Whole

(* And so does ConvertLambda. *)
LEMMA WholeColons ==
  ASSUME NEW ws, Whole(ws)
  PROVE  Whole(ConvertLambda(ws))
<1>1. ws \in Line
  BY Zenon DEF Whole, Ends
<1>2. OrColons(ConvertLambda(ws), ws)
  BY <1>1, LambdaLine
<1> QED BY <1>2, EndsColons, TidyColons, Zenon DEF Whole

(* What is left of an equals sign has no brackets. *)
LEMMA TidyCut ==
  ASSUME NEW text, text \in Equals, text # "=="
  PROVE  Tidy(Cut(text)) /\ Cut(text) \in Line
<1>1. /\ Cut(text) \in Line /\ Len(Cut(text)) \in {0, 1}
      /\ Len(Cut(text)) = 1 => Cut(text)[1] \in {Plainly("+"), Plainly("<")}
  BY CutLine
<1>2. Plainly("+") \in NeatWords /\ Plainly("<") \in NeatWords
  BY NeatPlainly, Known
<1> DEFINE c == Cut(text)
<1>3. /\ c \in Line /\ Len(c) \in {0, 1} /\ (Len(c) = 1 => c[1] \in NeatWords)
  BY <1>1, <1>2
<1> HIDE DEF c
<1>4. \A k \in 1 .. Len(c) : c[k] \in NeatWords
  <2>1. (\A k \in 1 .. 1 : k = 1) /\ \A k \in 1 .. 0 : FALSE
    OBVIOUS
  <2>2. CASE Len(c) = 0
    BY <2>1, <2>2, Zenon
  <2>3. CASE Len(c) = 1
    BY <1>3, <2>1, <2>3, Zenon
  <2> QED BY <1>3, <2>2, <2>3
<1> QED BY <1>3, <1>4, Zenon DEF Tidy, c

(* ConvertAssignment keeps it. *)
LEMMA WholeAssignment ==
  ASSUME NEW ws, Whole(ws), HasEquals(ws), ~HasTest(ws)
  PROVE  Whole(ConvertAssignment(ws))
<1>1. ws \in Line /\ Len(ws) \in Nat /\ Len(ws) >= 1 /\ Loose(ws[Len(ws)]) /\ Tidy(ws)
  BY LenLine DEF Whole, Ends
<1>2. PICK k : FirstEquals(ws, k)
  BY <1>1, EqualsCases, Zenon DEF HasEquals
<1>3. k \in 1 .. Len(ws) /\ ws[k].text \in Equals /\ ws[k].text # "=="
  BY <1>2, Zenon DEF FirstEquals, HasTest
<1> DEFINE a == Ahead(ws, k)
           b == Behind(ws, k)
           c == Cut(ws[k].text)
<1>4. /\ k \in Nat
      /\ a \in Line /\ Len(a) = k - 1 /\ \A i \in 1 .. k - 1 : a[i] = ws[i]
      /\ b \in Line /\ Len(b) = Len(ws) - k /\ \A i \in 1 .. Len(ws) - k : b[i] = ws[k + i]
  BY <1>1, <1>3, SidesLine, Zenon
<1>5. Tidy(c) /\ c \in Line
  BY <1>3, TidyCut, Zenon
<1>6. ConvertAssignment(ws) = Cat(Cat(Cat(a, c), Sign("=")), ConvertSimpleCall(b))
  BY <1>1, <1>2, <1>3, CutIs, Zenon
<1> HIDE DEF a, b, c
<1>7. /\ k - 1 \in Nat /\ Len(ws) - k \in Nat
      /\ (\A i \in 1 .. k - 1 : i \in 1 .. Len(ws))
           /\ (\A i \in 1 .. Len(ws) - k : k + i \in 1 .. Len(ws))
  <2>1. \A n \in Nat : \A j \in 1 .. n :
          /\ j - 1 \in Nat /\ n - j \in Nat
          /\ (\A i \in 1 .. j - 1 : i \in 1 .. n) /\ (\A i \in 1 .. n - j : j + i \in 1 .. n)
    OBVIOUS
  <2> QED BY <1>1, <1>3, <2>1, Zenon
<1>8. Tidy(a) /\ Tidy(b)
  BY <1>1, <1>4, <1>7, Zenon DEF Tidy
<1>9. Whole(Sign("="))
  <2>1. "=" \in Texts /\ "=" # ":"
    BY Known
  <2> QED BY <2>1, EndsSign, TidySign, Zenon DEF Whole
<1>10. Tidy(Cat(a, c))
  BY <1>5, <1>8, TidyCat, Zenon
<1>11. Whole(Cat(Cat(a, c), Sign("=")))
  BY <1>9, <1>10, WholeCat, Zenon
<1> DEFINE s == Cat(Cat(a, c), Sign("="))
<1>12. Whole(s)
  BY <1>11
<1> HIDE DEF s
<1>13. CASE Len(b) = 0
  <2>1. b = <<>>
    <3>1. \A i \in 1 .. 0 : FALSE
      OBVIOUS
    <3>2. \A i \in 1 .. Len(b) : b[i] = <<>>[i]
      BY <1>13, <3>1, Zenon
    <3> QED BY <1>4, <1>13, <3>2, NilLine, LineEqual, Zenon
  <2>2. ~Found(b)
    <3>1. ~(0 > 1)
      OBVIOUS
    <3> QED BY <1>13, <3>1, Zenon DEF Found
  <2>3. ConvertSimpleCall(b) = <<>>
    BY <1>4, <2>1, <2>2, SimpleCallIs
  <2>4. Cat(s, <<>>) = s
    BY <1>12, CatNil, Zenon DEF Whole, Ends
  <2> QED BY <1>6, <1>12, <2>3, <2>4, Zenon DEF s
<1>14. CASE Len(b) # 0
  <2>1. Len(b) >= 1 /\ Len(b) \in 1 .. Len(ws) - k /\ k + Len(b) = Len(ws)
    <3>1. \A n \in Nat : \A j \in 1 .. n : n - j # 0 =>
            n - j >= 1 /\ n - j \in 1 .. n - j /\ j + (n - j) = n
      OBVIOUS
    <3> QED BY <1>1, <1>3, <1>4, <1>14, <3>1, Zenon
  <2>2. b[Len(b)] = ws[Len(ws)]
    BY <1>4, <2>1, Zenon
  <2>3. Whole(b)
    BY <1>1, <1>4, <1>8, <2>1, <2>2, Zenon DEF Whole, Ends
  <2>4. Whole(ConvertSimpleCall(b)) /\ Tidy(s)
    BY <1>12, <2>3, WholeCall, Zenon DEF Whole
  <2> QED BY <1>6, <2>4, WholeCat, Zenon DEF s
<1> QED BY <1>13, <1>14, Zenon

(* And so does ConvertAssignmentOrExpression. *)
LEMMA WholeStatement ==
  ASSUME NEW ws, Whole(ws), ~(FirstIs(ws, {"return"}) /\ Len(ws) > 1)
  PROVE  Whole(ConvertAssignmentOrExpression(ws))
<1>1. ws \in Line
  BY Zenon DEF Whole, Ends
<1>2. \/ HasEquals(ws) /\ ~HasTest(ws) /\ ConvertAssignmentOrExpression(ws) = ConvertAssignment(ws)
      \/ ConvertAssignmentOrExpression(ws) = ConvertSimpleCall(ws)
      \/ ConvertAssignmentOrExpression(ws) = ws
  BY <1>1, AssignmentCases
<1> QED BY <1>2, WholeAssignment, WholeCall, Zenon

(* Every expression is like this, on the right of an equals sign and       *)
(* elsewhere.                                                              *)
LEMMA WholeRight ==
  ASSUME NEW e \in Expressions, IsExpression(e)
  PROVE  Whole(RightOf(e)) /\ Whole(ConvertLambda(Spoken(e)))
<1>1. Whole(Spoken(e))
  BY SpokenEnds, Zenon DEF Whole
<1> QED BY <1>1, WholeColons, WholeCall, Zenon DEF RightOf

(* No line has brackets when it is passed on. *)
LEMMA TidySpeech ==
  ASSUME NEW s \in Statements, IsStatement(s)
  PROVE  Tidy(Speech(s)) /\ Tidy(Voice(s)) /\ Tidy(Bare(s.words))
<1>1. /\ s.words \in Seq(Texts) /\ s.exprs \in Seq(Expressions)
      /\ DOMAIN s.exprs = 1 .. Len(s.exprs)
  BY StatementParts
<1>2. /\ Len(s.exprs) \in Nat /\ Spokens(s.exprs) \in Pieces(Len(s.exprs))
      /\ \A k \in 1 .. Len(s.exprs) : /\ s.exprs[k] \in Expressions
                                      /\ Spokens(s.exprs)[k] = Spoken(s.exprs[k])
  BY <1>1, SpokensType
<1>3. \A k \in 1 .. Len(s.exprs) : IsExpression(s.exprs[k])
  BY <1>1, Kinds, Zenon
<1>4. AllTidy(Spokens(s.exprs), Len(s.exprs))
  BY <1>2, <1>3, SpokenEnds, Zenon DEF AllTidy
<1>5. Tidy(Speech(s))
  BY <1>2, <1>4, TidyFlat, Zenon DEF Speech
<1>6. OrColons(ConvertLambda(Speech(s)), Speech(s))
  BY <1>5, LambdaLine, Zenon DEF Tidy
<1> QED BY <1>1, <1>5, <1>6, TidyColons, TidyBare, Zenon DEF Voice
-----------------------------------------------------------------------------
(* The output of each kind of statement. *)

(* The line begins a block: its last word is a colon. *)
Begins(ws) == Len(ws) >= 1 /\ ws[Len(ws)] = Plainly(":")

(* The statement is one that begins a block. *)
Block(s) == s.kind \in {"header", "for", "define"}

(* The statement is an empty line. *)
Blank(s) == s.kind = "blank"

(* What becomes of a statement. *)
Out(s) == ConvertLine(Source(s))

(* A line that ends otherwise begins no block. *)
LEMMA WholeNoBlock ==
  ASSUME NEW ws, Whole(ws)
  PROVE  Tidy(ws) /\ ~Begins(ws)
<1>1. Plainly(":").text = ":" /\ Plainly(":").right = ""
  BY PlainlyWord, Known
<1>2. ~Loose(Plainly(":"))
  BY <1>1, Zenon DEF Loose
<1> QED BY <1>2, Zenon DEF Whole, Ends, Begins

(* And it is not empty, and neither is one that begins a block. *)
LEMMA NotEmpty ==
  ASSUME NEW ws, Whole(ws) \/ Begins(ws)
  PROVE  ws # <<>>
<1>1. Len(ws) >= 1
  BY Zenon DEF Whole, Ends, Begins
<1>2. ~(0 >= 1)
  OBVIOUS
<1> QED BY <1>1, <1>2, NilLine, Zenon

(* A line with a colon behind it does. *)
LEMMA ColonBlock ==
  ASSUME NEW ws, Tidy(ws)
  PROVE  Tidy(Cat(ws, Sign(":"))) /\ Begins(Cat(ws, Sign(":")))
<1>1. /\ Sign(":") \in Line /\ Len(Sign(":")) = 1 /\ Sign(":")[1] = Plainly(":") /\ Tidy(Sign(":"))
  BY SignLine, TidySign, Known
<1>2. ws \in Line
  BY Zenon DEF Tidy
<1>3. Len(Sign(":")) >= 1
  BY <1>1
<1> DEFINE t == Sign(":")
           u == Cat(ws, t)
<1>4. u \in Line /\ Len(u) >= 1 /\ u[Len(u)] = t[Len(t)]
  BY <1>1, <1>2, <1>3, LastOfCat, Zenon
<1>5. t[Len(t)] = Plainly(":")
  BY <1>1, Zenon
<1>6. Tidy(u)
  BY <1>1, TidyCat, Zenon
<1> HIDE DEF u, t
<1>7. Begins(u)
  BY <1>4, <1>5, Zenon DEF Begins
<1> QED BY <1>6, <1>7, Zenon DEF u, t

(* A token of a print has no brackets. *)
LEMMA TidyToken ==
  ASSUME NEW ws, Tidy(ws), NEW k \in 1 .. Len(ws)
  PROVE  Tidy(Token(ws, k))
<1>1. Tidy(Sign("(")) /\ Tidy(Sign(")")) /\ Tidy(Sign(",")) /\ Tidy(<<>>)
  BY TidySign, TidyNil, Known
<1>2. Tidy(Opening(ws, k))
  <2>1. Opening(ws, k) = <<>> \/ Opening(ws, k) = Sign("(") \/ Opening(ws, k) = Sign(",")
    BY DEF Opening
  <2> QED BY <1>1, <2>1, Zenon
<1>3. Tidy(Closing(ws, k))
  <2>1. Closing(ws, k) = <<>> \/ Closing(ws, k) = Sign(")")
    BY DEF Closing
  <2> QED BY <1>1, <2>1, Zenon
<1>4. Tidy(Single(ws[k]))
  BY TidySingle, Zenon DEF Tidy
<1> QED BY <1>2, <1>3, <1>4, TidyCat, Zenon DEF Token

(* A print begins no block. *)
LEMMA PrintOut ==
  ASSUME NEW s \in Statements, IsStatement(s), s.kind = "print"
  PROVE  Whole(Out(s))
<1> DEFINE ws == Ready(s)
           n == Len(Voice(s))
           f == Part(ws, 1, n)
<1>1. /\ Voice(s) \in Line /\ n \in Nat
      /\ ws = Cat(Single(Plainly("print")), Voice(s))
      /\ ws \in Line /\ Len(ws) = n + 1
      /\ Out(s) = Called(Sign("print"), FlattenSeq(f))
  BY PrintLine, Zenon DEF Out
<1>2. Tidy(Sign("print")) /\ Sign("print") \in Line
  BY TidySign, SignLine, Known
<1>3. Tidy(ws)
  BY <1>1, <1>2, TidySpeech, TidyCat, Zenon DEF Sign
<1> HIDE DEF ws, n
<1>4. 1 \in Nat /\ 1 + n <= Len(ws) /\ \A j \in 1 .. n : j + 1 \in 1 .. Len(ws)
  <2>1. n \in Nat /\ Len(ws) = n + 1
    BY <1>1, Zenon
  <2> QED BY <2>1
<1>5. /\ f \in Pieces(n) /\ FlattenSeq(f) \in Line
      /\ \A j \in 1 .. n : f[j] = Token(ws, j + 1)
  BY <1>1, <1>4, PartType, Zenon
<1> HIDE DEF f
<1>6. AllTidy(f, n)
  BY <1>3, <1>4, <1>5, TidyToken, Zenon DEF AllTidy
<1>7. Tidy(FlattenSeq(f))
  BY <1>1, <1>5, <1>6, TidyFlat, Zenon
<1>8. Ends(Called(Sign("print"), FlattenSeq(f))) /\ Tidy(Called(Sign("print"), FlattenSeq(f)))
  BY <1>2, <1>5, <1>7, EndsCalled, TidyCalled, Zenon
<1> QED BY <1>1, <1>8, Zenon DEF Whole

(* Nor does an assignment or a return. *)
LEMMA AssignOut ==
  ASSUME NEW s \in Statements, IsStatement(s), s.kind \in {"assign", "return"}
  PROVE  Whole(Out(s))
<1>1. /\ s.exprs[1] \in Expressions /\ IsExpression(s.exprs[1])
      /\ ConvertLine(Source(s)) = Cat(Bare(s.words), RightOf(s.exprs[1]))
  BY AssignLine, ReturnLine
<1> QED BY <1>1, TidySpeech, WholeRight, WholeCat, Zenon DEF Out

(* Nor does a call. *)
LEMMA CallOut ==
  ASSUME NEW s \in Statements, IsStatement(s), s.kind = "call"
  PROVE  Whole(Out(s))
<1> DEFINE e == s.exprs[1]
           v == ConvertLambda(Spoken(e))
<1>1. /\ e \in Expressions /\ IsExpression(e)
      /\ ConvertLine(Source(s)) = ConvertAssignmentOrExpression(v)
      /\ ~FirstIs(v, {"return"})
  BY CallLine, Zenon
<1>2. Whole(v)
  BY <1>1, WholeRight, Zenon
<1> HIDE DEF v
<1> QED BY <1>1, <1>2, WholeStatement, Zenon DEF Out

(* Nor does a plain statement. *)
LEMMA StatementOut ==
  ASSUME NEW s \in Statements, IsStatement(s), s.kind = "statement"
  PROVE  Whole(Out(s))
<1> DEFINE ws == Bare(s.words)
           n == Len(s.words)
<1>1. /\ n \in Nat /\ n >= 1
      /\ ws \in Line /\ Len(ws) = n
      /\ \A k \in 1 .. n : ws[k].text = s.words[k]
      /\ ConvertLine(Source(s)) = ConvertAssignmentOrExpression(ws)
      /\ ~(FirstIs(ws, {"return"}) /\ Len(ws) > 1)
  BY StatementLine, Zenon
<1>2. \A k \in 1 .. n : s.words[k] # ":"
  <2>1. DOMAIN s.words = 1 .. n
    BY StatementParts
  <2>2. \A k \in DOMAIN s.words : s.words[k] \notin {"lambda", "=", ":"}
    BY KindStatement, Zenon
  <2> QED BY <2>1, <2>2, Zenon
<1>3. Tidy(ws)
  BY TidySpeech, Zenon
<1>4. n \in 1 .. n
  <2>1. n \in Nat /\ n >= 1
    BY <1>1, Zenon
  <2> HIDE DEF n
  <2> QED BY <2>1
<1>5. Loose(ws[n])
  <2>1. ws[n].text # ":"
    BY <1>1, <1>2, <1>4, Zenon
  <2> QED BY <2>1, Zenon DEF Loose
<1> HIDE DEF ws, n
<1>6. Whole(ws)
  BY <1>1, <1>3, <1>5, Zenon DEF Whole, Ends
<1> QED BY <1>1, <1>6, WholeStatement, Zenon DEF Out

(* A definition does. *)
LEMMA DefineOut ==
  ASSUME NEW s \in Statements, IsStatement(s), s.kind = "define"
  PROVE  Tidy(Out(s)) /\ Begins(Out(s))
<1> DEFINE b == SubSeq(s.words, 1, 2)
           m == Len(s.words) - 2
           f == DefineNames(s)
<1>1. /\ ConvertLine(Source(s)) = Cat(Called(Bare(b), Comma(f)), Sign(":"))
      /\ f \in Pieces(m) /\ m \in Nat
  BY DefineLine, Zenon
<1>2. s.words \in Seq(Texts) /\ Len(s.words) \in Nat
        /\ \A k \in 1 .. Len(s.words) : s.words[k] \in Texts
  BY StatementParts
<1>3. 2 <= Len(s.words)
  BY <1>1, <1>2
<1>4. b \in Seq(Texts)
  BY <1>2, <1>3, SubTexts
<1>5. Tidy(Bare(b))
  BY <1>4, TidyBare, Zenon
<1>6. AllTidy(f, m)
  <2> SUFFICES ASSUME NEW k \in 1 .. m  PROVE Tidy(f[k])
    BY DEF AllTidy
  <2>1. k + 2 \in 1 .. Len(s.words)
    BY <1>1, <1>2
  <2>2. f[k] = Single(Plainly(s.words[k + 2]))
    BY DEF DefineNames
  <2> QED BY <1>2, <2>1, <2>2, NeatPlainly, TidySingle, Zenon
<1> HIDE DEF f, b, m
<1>7. Tidy(Called(Bare(b), Comma(f)))
  BY <1>1, <1>5, <1>6, TidyComma, TidyCalled, Zenon
<1> QED BY <1>1, <1>7, ColonBlock, Zenon DEF Out

(* And so does a header. *)
LEMMA HeaderOut ==
  ASSUME NEW s \in Statements, IsStatement(s), s.kind \in {"header", "for"}
  PROVE  Tidy(Out(s)) /\ Begins(Out(s))
<1>1. CASE s.kind = "header"
  <2>1. ConvertLine(Source(s)) = Cat(Cat(Bare(s.words), Voice(s)), Sign(":"))
    BY <1>1, HeaderLine, Zenon DEF Voice
  <2>2. Tidy(Cat(Bare(s.words), Voice(s)))
    BY TidySpeech, TidyCat, Zenon
  <2> QED BY <2>1, <2>2, ColonBlock, Zenon DEF Out
<1>2. CASE s.kind = "for"
  <2>1. /\ s.exprs[1] \in Expressions /\ IsExpression(s.exprs[1])
        /\ ConvertLine(Source(s)) = Cat(Cat(Bare(s.words), RightOf(s.exprs[1])), Sign(":"))
    BY <1>2, ForLine, Zenon
  <2>2. Tidy(RightOf(s.exprs[1]))
    BY <2>1, WholeRight, Zenon DEF Whole
  <2>3. Tidy(Cat(Bare(s.words), RightOf(s.exprs[1])))
    BY <2>2, TidySpeech, TidyCat, Zenon
  <2> QED BY <2>1, <2>3, ColonBlock, Zenon DEF Out
<1> QED BY <1>1, <1>2

(* The output begins a block where the program does, has an empty line     *)
(* where the program does, and no brackets.                                *)
LEMMA LineOut ==
  ASSUME NEW s \in Statements, IsStatement(s), s.kind # "end"
  PROVE  /\ Tidy(Out(s))
         /\ Block(s) <=> Begins(Out(s))
         /\ Blank(s) <=> Out(s) = <<>>
<1>1. s.kind \in {"assign", "return", "call", "header", "for", "print", "define",
                  "statement", "end", "blank"}
  BY Kinds
<1>2. CASE s.kind \in {"header", "for", "define"}
  <2>1. Tidy(Out(s)) /\ Begins(Out(s))
    BY <1>2, HeaderOut, DefineOut
  <2>2. Out(s) # <<>>
    BY <2>1, NotEmpty, Zenon
  <2>3. Block(s) /\ ~Blank(s)
    BY <1>2 DEF Block, Blank
  <2> QED BY <2>1, <2>2, <2>3, Zenon
<1>3. CASE s.kind \in {"assign", "return", "call", "print", "statement"}
  <2>1. Whole(Out(s))
    BY <1>3, AssignOut, CallOut, PrintOut, StatementOut
  <2>2. Tidy(Out(s)) /\ ~Begins(Out(s))
    BY <2>1, WholeNoBlock, Zenon
  <2>3. ~Block(s) /\ ~Blank(s)
    BY <1>3 DEF Block, Blank
  <2>4. Out(s) # <<>>
    BY <2>1, NotEmpty, Zenon
  <2> QED BY <2>2, <2>3, <2>4, Zenon
<1>4. CASE s.kind = "blank"
  <2>1. Out(s) = <<>>
    BY <1>4, BlankLine, Zenon DEF Out
  <2>2. ~Begins(<<>>)
    <3>1. ~(0 >= 1)
      OBVIOUS
    <3> QED BY <3>1, NilLine, Zenon DEF Begins
  <2>3. ~Block(s) /\ Blank(s)
    BY <1>4 DEF Block, Blank
  <2> QED BY <2>1, <2>2, <2>3, TidyNil, Zenon
<1> QED BY <1>1, <1>2, <1>3, <1>4

(* OutputInv for every file: the output has its type, so that no bracket   *)
(* is left, and the blocks that the indentation of the program shows,      *)
(* because line by line it is as deep, begins a block and is empty where   *)
(* the program does and is.                                                *)
THEOREM OutputIsRight == Spec => []OutputInv
<1>1. Settled => OutputInv
  <2> SUFFICES ASSUME Settled  PROVE OutputInv
    OBVIOUS
  <2> DEFINE T == [indent : Nat, words : Seq(NeatWords)]
  <2>1. \A k \in DOMAIN program : program[k].indent \in Nat
    BY ProgramIs DEF Settled
  <2>2. outcome \in {"given", "refused", "converted"}
    BY DEF Settled
  <2>3. CASE outcome # "converted"
    <3>1. converted = <<>>
      BY <2>3 DEF Settled
    <3>2. <<>> \in Seq(T)
      <4> HIDE DEF T
      <4> QED OBVIOUS
    <3>3. TypeOK
      BY <2>1, <2>2, <3>1, <3>2, Zenon DEF TypeOK, T, NeatWords
    <3>4. BlocksKept
      BY <2>3 DEF BlocksKept
    <3> QED BY <3>3, <3>4 DEF OutputInv
  <2>4. CASE outcome = "converted"
    <3> DEFINE n == Len(Kept)
               F(k) == [indent |-> Kept[k].indent, words |-> Out(Kept[k].statement)]
               g == [k \in 1 .. n |-> F(k)]
    <3>1. /\ n \in Nat /\ DOMAIN Kept = 1 .. n
          /\ \A k \in 1 .. n : Said(Kept[k])
          /\ converted = g
      BY <2>4, ConvertedIs, Zenon DEF Out
    <3>2. ASSUME NEW k \in 1 .. n
          PROVE  /\ Kept[k].indent \in Nat /\ Out(Kept[k].statement) \in Seq(NeatWords)
                 /\ Out(Kept[k].statement) \in Line
                 /\ Block(Kept[k].statement) <=> Begins(Out(Kept[k].statement))
                 /\ Blank(Kept[k].statement) <=> Out(Kept[k].statement) = <<>>
      <4> DEFINE s == Kept[k].statement
      <4>1. Kept[k].indent \in Nat /\ s \in Statements /\ IsStatement(s) /\ s.kind # "end"
        BY <3>1, Zenon DEF Said
      <4> HIDE DEF s
      <4>2. /\ Tidy(Out(s))
            /\ Block(s) <=> Begins(Out(s))
            /\ Blank(s) <=> Out(s) = <<>>
        BY <4>1, LineOut, Zenon
      <4>3. Out(s) \in Line /\ Out(s) \in Seq(NeatWords)
        <5> DEFINE u == Out(s)
                   N == NeatWords
        <5>1. u \in Line /\ \A i \in 1 .. Len(u) : u[i] \in N
          BY <4>2, Zenon DEF Tidy
        <5> HIDE DEF u, N
        <5>2. Len(u) \in Nat /\ DOMAIN u = 1 .. Len(u)
          BY <5>1, LenLine, Zenon
        <5>3. u = [i \in 1 .. Len(u) |-> u[i]]
          <6> DEFINE W == Words
          <6>1. u \in Seq(W)
            BY <5>1 DEF Line
          <6> HIDE DEF W
          <6> QED BY <6>1
        <5>4. u \in [1 .. Len(u) -> N]
          BY <5>1, <5>3
        <5>5. u \in Seq(N)
          BY <5>2, <5>4, SeqOfFunction, Zenon
        <5> QED BY <5>1, <5>5, Zenon DEF u, N
      <4> QED BY <4>1, <4>2, <4>3, Zenon DEF s
    <3>3. \A k \in 1 .. n : F(k) \in T
      BY <3>2
    <3>4. g \in [1 .. n -> T]
      BY <3>3
    <3>5. converted \in Seq(T)
      <4> HIDE DEF g, T
      <4>1. g \in Seq(T)
        BY <3>1, <3>4, SeqOfFunction, Zenon
      <4> QED BY <3>1, <4>1, Zenon
    <3>6. TypeOK
      BY <2>1, <2>2, <3>5, Zenon DEF TypeOK, T, NeatWords
    <3>7. \A k \in 1 .. n : converted[k] = F(k)
      BY <3>1
    <3>8. DOMAIN converted = 1 .. n
      <4> HIDE DEF F, n
      <4> QED BY <3>1
    <3>9. ASSUME NEW k \in 1 .. n
          PROVE  /\ converted[k].indent = Kept[k].indent
                 /\ Kept[k].statement.kind \in BlockKinds <=>
                      converted[k].words # <<>> /\ Last(converted[k].words) = Word(":", "", "")
                 /\ Kept[k].statement.kind = "blank" <=> converted[k].words = <<>>
      <4> DEFINE u == Out(Kept[k].statement)
      <4>1. converted[k] = F(k)
        BY <3>7, Zenon
      <4>2. converted[k].indent = Kept[k].indent /\ converted[k].words = u
        BY <4>1
      <4>3. /\ u \in Line
            /\ Block(Kept[k].statement) <=> Begins(u)
            /\ Blank(Kept[k].statement) <=> u = <<>>
        BY <3>2, Zenon
      <4> HIDE DEF u
      <4>4. u # <<>> <=> Len(u) >= 1
        BY <4>3 DEF Line
      <4>5. Begins(u) <=> u # <<>> /\ Last(u) = Word(":", "", "")
        BY <4>4, Zenon DEF Begins, Last, Plainly
      <4> QED BY <4>2, <4>3, <4>5, Zenon DEF Block, Blank, BlockKinds
    <3> HIDE DEF F, g, n
    <3>10. OutputLayout = ProgramLayout
      <4> DEFINE P(k) == [indent |-> Kept[k].indent,
                          opens  |-> Kept[k].statement.kind \in BlockKinds,
                          empty  |-> Kept[k].statement.kind = "blank"]
                 Q(k) == [indent |-> converted[k].indent,
                          opens  |-> /\ converted[k].words # <<>>
                                     /\ Last(converted[k].words) = Word(":", "", ""),
                          empty  |-> converted[k].words = <<>>]
      <4>1. ASSUME NEW k \in 1 .. n  PROVE Q(k) = P(k)
        <5>1. (Kept[k].statement.kind \in BlockKinds) =
                (converted[k].words # <<>> /\ Last(converted[k].words) = Word(":", "", ""))
          <6> DEFINE a == Kept[k].statement.kind \in BlockKinds
                     b == converted[k].words # <<>>
                     c == Last(converted[k].words) = Word(":", "", "")
          <6>1. a <=> b /\ c
            BY <3>9, Zenon
          <6>2. a \in BOOLEAN
            OBVIOUS
          <6> HIDE DEF a, b, c
          <6>3. a = (b /\ c)
            BY <6>1, <6>2
          <6> QED BY <6>3, Zenon DEF a, b, c
        <5>2. (Kept[k].statement.kind = "blank") = (converted[k].words = <<>>)
          BY <3>9, Zenon
        <5>3. converted[k].indent = Kept[k].indent
          BY <3>9, Zenon
        <5> QED BY <5>1, <5>2, <5>3, Zenon
      <4>2. ProgramLayout = [k \in 1 .. n |-> P(k)]
        BY <3>1, Zenon DEF ProgramLayout
      <4>3. OutputLayout = [k \in 1 .. n |-> Q(k)]
        BY <3>8, Zenon DEF OutputLayout
      <4> HIDE DEF P, Q
      <4> QED BY <4>1, <4>2, <4>3
    <3>11. BlocksKept
      BY <3>1, <3>9, <3>10, Zenon DEF BlocksKept
    <3> QED BY <3>6, <3>11, Zenon DEF OutputInv
  <2> QED BY <2>3, <2>4
<1> QED BY <1>1, IsSettled, PTL
=============================================================================
