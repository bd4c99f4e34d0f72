---------------------------- MODULE NewPythonParser ----------------------------
(***************************************************************************)
(* The NewPython front end: newpython_parser.py turns a program, line by   *)
(* line, into Python.  The patterns that it searches a line for are        *)
(* statements about the words of the line.                                 *)
(***************************************************************************)
EXTENDS NewPythonLanguage

CONSTANTS Programs,   \* the files: sequences of lines
          MaxLines    \* bound on the lines of a file

ASSUME ParserAssumption ==
  /\ MaxLines \in Nat
  /\ Programs \subseteq Seq([indent : Nat, statement : Statements])
  /\ \A p \in Programs : \A k \in DOMAIN p : IsStatement(p[k].statement)

VARIABLES program,    \* [indent, statement] for each line of the file
          converted,  \* [indent, words] for each line of the output
          outcome

vars == <<program, converted, outcome>>

(* In particular, no bracket of NewPython is left in the output. *)
TypeOK ==
  /\ \A k \in DOMAIN program : program[k].indent \in Nat
  /\ converted \in Seq([indent : Nat, words : Seq([text : Texts, left : {"", "\""}, right : {"", "\"", ":"}])])
  /\ outcome \in {"given", "refused", "converted"}
-----------------------------------------------------------------------------
(* Definitions named "faulty" are not part of the model: each stands for a *)
(* mistake in the code that the properties are tried against.              *)

(* Words that have one of the characters of SIMPLE_CALL_RE, among them the *)
(* ones with an equals sign.                                               *)
Equals   == {"=", "==", "+=", "<="}
Symbols  == Equals \cup {"+", "<", "(", ")", ",", ":"}

Unmarked(w) == w.left = "" /\ w.right = ""
Symbolic(w) == w.text \in Symbols \/ w.right = ":"

(* WORD_ARG_RE and IDENTIFIER_RE *)
WordArg(w)    == Unmarked(w) /\ w.text \notin Symbols
Identifier(w) == WordArg(w) /\ w.text \notin Numbers

FirstIs(ws, texts) == ws # <<>> /\ Unmarked(ws[1]) /\ ws[1].text \in texts

ConvertBracketStrings(ws) ==
  LET Quote(mark) == IF mark \in {"[", "]"} THEN "\"" ELSE mark IN
  [k \in DOMAIN ws |-> Word(ws[k].text, Quote(ws[k].left), Quote(ws[k].right))]

(* The parameters of LAMBDA_RE are matched with as few names as possible:  *)
(* one, as something always follows.                                       *)
ConvertLambda(ws) ==
  LET matches == {k \in 1 .. Len(ws) - 2 : /\ ws[k].text = "lambda" /\ ws[k].right = ""
                                            /\ Identifier(ws[k + 1])} IN
  IF matches = {} THEN ws ELSE [ws EXCEPT ![Min(matches) + 1].right = ":"]

(* Faulty: a formula is taken for a call. *)
SimpleCallAnyway(ws) ==
  IF Len(ws) <= 1 \/ ~Identifier(ws[1]) THEN ws
  ELSE <<ws[1]>> \o Bare(<<"(">>) \o Comma([k \in 1 .. Len(ws) - 1 |-> <<ws[k + 1]>>]) \o Bare(<<")">>)

ConvertSimpleCall(ws) ==
  IF Len(ws) <= 1 \/ ~Identifier(ws[1]) \/ \E k \in DOMAIN ws : Symbolic(ws[k]) THEN ws
  ELSE <<ws[1]>> \o Bare(<<"(">>) \o Comma([k \in 1 .. Len(ws) - 1 |-> <<ws[k + 1]>>]) \o Bare(<<")">>)

(* The tokens of a print are its texts in quotes and its other words.      *)
InText(ws, k) == \E i \in 1 .. k - 1 : ws[i].left = "\"" /\ \A j \in i .. k - 1 : ws[j].right # "\""

(* A name that a word follows is called with all the words up to the next  *)
(* token of another sort.                                                  *)
ConvertPrint(ws) ==
  LET Argument(k) == k \in DOMAIN ws /\ WordArg(ws[k]) /\ ~InText(ws, k)
      Run(i, k) == \A j \in i .. k : Argument(j)
      Called(k) == /\ Identifier(ws[k]) /\ Run(k, k + 1)
                   /\ \A i \in 2 .. k - 1 : ~(Identifier(ws[i]) /\ Run(i, k))
      CallEnds(k) == ~Argument(k + 1) /\ \E i \in 2 .. k - 1 : Called(i) /\ Run(i, k)
      Before(k) == IF k = 2 \/ InText(ws, k) THEN <<>>
                   ELSE IF Called(k - 1) THEN Bare(<<"(">>) ELSE Bare(<<",">>)
      After(k) == IF CallEnds(k) THEN Bare(<<")">>) ELSE <<>> IN
  Bare(<<"print", "(">>)
    \o FlattenSeq([k \in 1 .. Len(ws) - 1 |-> Before(k + 1) \o <<ws[k + 1]>> \o After(k + 1)])
    \o Bare(<<")">>)

(* convert_def and convert_class *)
ConvertDefinition(ws) ==
  IF ~Identifier(ws[2]) THEN ws
  ELSE SubSeq(ws, 1, 2) \o Bare(<<"(">>) \o Comma([k \in 1 .. Len(ws) - 2 |-> <<ws[k + 2]>>])
         \o Bare(<<")", ":">>)

ConvertFor(ws) ==
  LET ins == {k \in 3 .. Len(ws) - 1 : Unmarked(ws[k]) /\ ws[k].text = "in"}
      k == Min(ins) IN
  (IF ins = {} THEN ws ELSE SubSeq(ws, 1, k) \o ConvertSimpleCall(SubSeq(ws, k + 1, Len(ws))))
    \o Bare(<<":">>)

ConvertBlockHeader(ws) ==
  IF Len(ws) = 1
    THEN IF FirstIs(ws, {"else", "finally", "except", "try"}) THEN ws \o Bare(<<":">>) ELSE ws
  ELSE IF FirstIs(ws, {"except", "elif", "with", "if", "while"}) THEN ws \o Bare(<<":">>)
  ELSE IF FirstIs(ws, {"for"}) THEN ConvertFor(ws)
  ELSE ws

(* The line is cut at the first equals sign, be it part of another symbol. *)
ConvertAssignment(ws) ==
  LET k == Min({i \in DOMAIN ws : ws[i].text \in Equals})
      cut == CASE ws[k].text = "=" -> <<>>
               [] ws[k].text = "+=" -> Bare(<<"+">>)
               [] ws[k].text = "<=" -> Bare(<<"<">>) IN
  SubSeq(ws, 1, k - 1) \o cut \o Bare(<<"=">>) \o ConvertSimpleCall(SubSeq(ws, k + 1, Len(ws)))

ConvertAssignmentOrExpression(ws) ==
  LET texts == {ws[k].text : k \in DOMAIN ws} IN
  IF FirstIs(ws, {"return"}) /\ Len(ws) > 1 THEN <<ws[1]>> \o ConvertSimpleCall(Tail(ws))
  ELSE IF texts \cap Equals # {} /\ "==" \notin texts THEN ConvertAssignment(ws)
  ELSE IF Identifier(ws[1]) /\ \A k \in DOMAIN ws : WordArg(ws[k]) THEN ConvertSimpleCall(ws)
  ELSE ws

(* Faulty: calls are looked for before the keywords. *)
CallsFirst(source) ==
  LET ws == ConvertLambda(ConvertBracketStrings(source)) IN
  IF source = <<>> THEN source ELSE ConvertAssignmentOrExpression(ws)

ConvertLine(source) ==
  LET ws == ConvertLambda(ConvertBracketStrings(source)) IN
  IF source = <<>> THEN source
  ELSE IF FirstIs(source, {"print"}) /\ Len(source) > 1 THEN ConvertPrint(ws)
  ELSE IF FirstIs(ws, {"def", "class"}) /\ Len(ws) > 1 THEN ConvertDefinition(ws)
  ELSE IF FirstIs(ws, {"else", "try", "finally", "except", "elif", "if", "while", "for", "with"})
    THEN ConvertBlockHeader(ws)
  ELSE ConvertAssignmentOrExpression(ws)

IsEnd(ws) == Len(ws) = 1 /\ FirstIs(ws, {"end"})

(* Faulty: an end that is not the last line is accepted. *)
CountsEndsOnly(sources) ==
  \/ sources = <<>> \/ Len(sources) > MaxLines
  \/ Cardinality({k \in DOMAIN sources : IsEnd(sources[k])}) > 1

(* validate_source, and the checks at the beginning of parse_newpython *)
Refused(sources) ==
  LET ends == {k \in DOMAIN sources : IsEnd(sources[k])} IN
  \/ sources = <<>> \/ Len(sources) > MaxLines
  \/ Cardinality(ends) > 1
  \/ ends # {} /\ ~IsEnd(Last(sources))

Kept == FlattenSeq([k \in DOMAIN program |->
          IF IsEnd(Source(program[k].statement)) THEN <<>> ELSE <<program[k]>>])

ParseNewpython ==
  [k \in DOMAIN Kept |-> [indent |-> Kept[k].indent, words |-> ConvertLine(Source(Kept[k].statement))]]

Init == program \in Programs /\ converted = <<>> /\ outcome = "given"

Refuse ==
  /\ outcome = "given" /\ Refused([k \in DOMAIN program |-> Source(program[k].statement)])
  /\ outcome' = "refused"
  /\ UNCHANGED <<program, converted>>

Convert ==
  /\ outcome = "given" /\ ~Refused([k \in DOMAIN program |-> Source(program[k].statement)])
  /\ outcome' = "converted"
  /\ converted' = ParseNewpython
  /\ UNCHANGED program

Next == Refuse \/ Convert

Spec == Init /\ [][Next]_vars
-----------------------------------------------------------------------------
(* Properties *)

HasSymbol(texts) == \E k \in DOMAIN texts : texts[k] \in Symbols

(* A text whose blanks and symbols nobody takes for those of the line.     *)
Closed(item) == item.literal => Len(item.texts) = 1 /\ ~HasSymbol(item.texts)

(* A value that is not taken for a call of its first word.                 *)
NoCall(item) ==
  item.literal \/ Len(item.texts) = 1 \/ HasSymbol(item.texts) \/ item.texts[1] \in Numbers

(* On the right of an equals sign, in a return and after the "in" of a for *)
(* a call is found if its texts are closed.                                *)
FoundRight(e) ==
  CASE e.form = "value"  -> NoCall(e.items[1])
    [] e.form = "call"   -> \A k \in DOMAIN e.items : Closed(e.items[k])
    [] e.form = "lambda" -> Len(e.head) = 1 /\ Len(e.items) = 1

(* Among the arguments of print, a call is found if it has no text, and a  *)
(* formula falls into its words.                                           *)
FoundInPrint(e) ==
  CASE e.form = "value"  -> e.items[1].literal \/ Len(e.items[1].texts) = 1
    [] e.form = "call"   -> \A k \in DOMAIN e.items : ~e.items[k].literal
    [] e.form = "lambda" -> FALSE

(* The search for lambda looks into the texts, too. *)
SpeaksOfLambda(item) ==
  item.literal /\ \E k \in 1 .. Len(item.texts) - 2 :
                    item.texts[k] = "lambda" /\ item.texts[k + 1] \notin Symbols \cup Numbers

Translatable(s) ==
  /\ \A k \in DOMAIN s.exprs : \A i \in DOMAIN s.exprs[k].items : ~SpeaksOfLambda(s.exprs[k].items[i])
  /\ CASE s.kind \in {"assign", "return", "for"} -> FoundRight(s.exprs[1])
       [] s.kind = "print"     -> \A k \in DOMAIN s.exprs : FoundInPrint(s.exprs[k])
       [] s.kind = "header"    -> \A k \in DOMAIN s.exprs : s.exprs[k].form # "call"
       [] s.kind = "call"      -> \A k \in DOMAIN s.exprs[1].items : ~s.exprs[1].items[k].literal
       [] s.kind = "statement" -> /\ Len(s.words) > 1 => HasSymbol(s.words)
                                  /\ \/ \E k \in DOMAIN s.words : s.words[k] = "=="
                                     \/ \A k \in DOMAIN s.words : s.words[k] \notin {"+=", "<="}
       [] OTHER -> TRUE

(* "The parser removes the final end and produces valid Python": a line    *)
(* becomes the Python that it stands for if, and only if, it is one of the *)
(* translatable ones.  The rest, formulas and texts of several words as    *)
(* arguments, lambdas with two parameters, plain statements of Python, are *)
(* changed into something else or left as they are.                        *)
Translation ==
  outcome = "converted" =>
    /\ Len(converted) = Len(Kept)
    /\ \A k \in DOMAIN Kept :
         converted[k].words = Python(Kept[k].statement) <=> Translatable(Kept[k].statement)

(* What the lines of the program, and those of the output, show of blocks. *)
BlockKinds == {"header", "for", "define"}

ProgramLayout ==
  [k \in DOMAIN Kept |-> [indent |-> Kept[k].indent,
                          opens  |-> Kept[k].statement.kind \in BlockKinds,
                          empty  |-> Kept[k].statement.kind = "blank"]]

OutputLayout ==
  [k \in DOMAIN converted |->
     LET ws == converted[k].words IN
     [indent |-> converted[k].indent,
      opens  |-> ws # <<>> /\ Last(ws) = Word(":", "", ""),
      empty  |-> ws = <<>>]]

(* Each line that opens a block, with the lines of the block: those after  *)
(* it up to the first that is not deeper, empty lines aside.               *)
Extents(lines) ==
  [k \in {l \in DOMAIN lines : lines[l].opens} |->
     {j \in DOMAIN lines :
        /\ k < j /\ ~lines[j].empty
        /\ \A i \in k + 1 .. j : lines[i].empty \/ lines[i].indent > lines[k].indent}]

(* "Indentation defines the extent of each block" (LANGUAGE_SPEC.md:29):   *)
(* whatever happens to its expressions, the output has, in Python's eyes,  *)
(* the blocks that the indentation of the program shows, at the same       *)
(* depths, and no others.  For a program in flat style (README.md:180)     *)
(* that is no line in any block: the parser does not work out the blocks   *)
(* that its final end is said to close.                                    *)
BlocksKept ==
  outcome = "converted" =>
    /\ \A k \in DOMAIN Kept : converted[k].indent = Kept[k].indent
    /\ Extents(OutputLayout) = Extents(ProgramLayout)

(* "Every file with block headers must end with exactly one end line [...] *)
(* the final non-empty line of the file": a file with other ends is        *)
(* refused, and one that keeps the rule is not, unless it has empty lines  *)
(* after the end or too many lines.  (A file without an end is accepted.)  *)
EndRule ==
  LET At(k) == Source(program[k].statement)
      ends == {k \in DOMAIN program : IsEnd(At(k))}
      keepsRule == \E k \in DOMAIN program : ends = {k} /\ \A j \in k + 1 .. Len(program) : At(j) = <<>> IN
  /\ outcome = "converted" => keepsRule \/ ends = {}
  /\ outcome = "refused" /\ keepsRule => At(Len(program)) = <<>> \/ Len(program) > MaxLines

(* The variables keep their types, and the output the blocks that          *)
(* indentation shows.                                                      *)
OutputInv == TypeOK /\ BlocksKept
=============================================================================
