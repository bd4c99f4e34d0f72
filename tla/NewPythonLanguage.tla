--------------------------- MODULE NewPythonLanguage ---------------------------
(***************************************************************************)
(* The statements of NewPython as its users think of them, each with the   *)
(* words it is written in and the words it means in Python.  This is what  *)
(* newpython_parser.py is compared with; it models no code.                *)
(*                                                                         *)
(* A line is a sequence of words.  Marks are the brackets or quotes that   *)
(* are attached to a word: a text of two words is written [hello you], and *)
(* the first has a mark on the left, the second one on the right.  White   *)
(* space is left out, but for the indentation.                             *)
(***************************************************************************)
EXTENDS Naturals, SequencesExt

(* Words; the ones that the language gives a meaning are listed.           *)
Keywords  == {"print", "def", "class", "if", "elif", "else", "while", "for", "in", "with", "try",
              "except", "finally", "return", "lambda", "end"}
Numbers   == {"1", "2"}
Operators == {"=", "==", "+=", "<=", "+", "<", "(", ")", ",", ":"}
Texts     == STRING \cup Keywords \cup Numbers \cup Operators

Word(text, left, right) == [text |-> text, left |-> left, right |-> right]

Bare(texts) == [k \in DOMAIN texts |-> Word(texts[k], "", "")]

Marked(texts, left, right) ==
  [k \in DOMAIN texts |-> Word(texts[k], IF k = 1 THEN left ELSE "",
                                         IF k = Len(texts) THEN right ELSE "")]

Joined(seqs, between) ==
  FlattenSeq([k \in DOMAIN seqs |-> IF k = 1 THEN seqs[k] ELSE between \o seqs[k]])

Comma(seqs) == Joined(seqs, Bare(<<",">>))

(* Items: names, numbers and formulas, or texts.                           *)
Plain(texts) == [literal |-> FALSE, texts |-> texts]
Text(texts)  == [literal |-> TRUE, texts |-> texts]

(* Expressions: an item, a call of head, or a lambda.                      *)
Value(item)          == [form |-> "value", head |-> <<>>, items |-> <<item>>]
Call(f, items)       == [form |-> "call", head |-> <<f>>, items |-> items]
Lambda(params, body) == [form |-> "lambda", head |-> params, items |-> body]

(* Statements; print has several expressions, words are the fixed ones.    *)
Statement(kind, words, exprs) == [kind |-> kind, words |-> words, exprs |-> exprs]

Items       == [literal : BOOLEAN, texts : Seq(Texts)]
Expressions == [form : {"value", "call", "lambda"}, head : Seq(Texts), items : Seq(Items)]
Statements  == [kind : STRING, words : Seq(Texts), exprs : Seq(Expressions)]

-----------------------------------------------------------------------------
(* Which of these are statements of the language.                          *)

IsName(text) == text \in Texts /\ text \notin Keywords \cup Numbers \cup Operators
IsAtom(text) == IsName(text) \/ text \in Numbers

(* A text may have any words.  A formula has neither parentheses, commas   *)
(* and colons nor assignments.                                             *)
IsItem(item) ==
  /\ item.texts # <<>>
  /\ item.literal \/ IF Len(item.texts) = 1 THEN IsAtom(item.texts[1])
                     ELSE \A k \in DOMAIN item.texts :
                            item.texts[k] \notin {"lambda", "=", "+=", "(", ")", ",", ":"}

(* An argument that is a formula would need parentheses.                   *)
IsArgument(item) == item.literal \/ Len(item.texts) = 1

IsText(e) == e.form = "value" /\ e.items[1].literal

IsExpression(e) ==
  /\ \A k \in DOMAIN e.items : IsItem(e.items[k])
  /\ \A k \in DOMAIN e.head : IsName(e.head[k])
  /\ CASE e.form = "value"  -> Len(e.head) = 0 /\ Len(e.items) = 1
       [] e.form = "call"   -> /\ Len(e.head) = 1 /\ e.items # <<>>
                               /\ \A k \in DOMAIN e.items : IsArgument(e.items[k])
       [] e.form = "lambda" -> /\ e.head # <<>> /\ e.items # <<>>
                               /\ \A k \in DOMAIN e.items : ~e.items[k].literal
                               /\ Len(e.items) > 1 =>
                                    \A k \in DOMAIN e.items : IsArgument(e.items[k])

(* In a print two names in a row would be a call: a text sets them apart.  *)
IsStatement(s) ==
  LET one == Len(s.exprs) = 1
      plain == one /\ s.exprs[1].form # "lambda" IN
  /\ \A k \in DOMAIN s.exprs : IsExpression(s.exprs[k])
  /\ \/ s.kind = "assign" /\ one /\ Len(s.words) = 2 /\ IsName(s.words[1]) /\ s.words[2] = "="
     \/ s.kind = "return" /\ one /\ s.words = <<"return">>
     \/ s.kind = "call" /\ one /\ s.words = <<>> /\ s.exprs[1].form = "call"
     \/ s.kind = "header" /\ plain /\ s.words \in {<<w>> : w \in {"if", "elif", "while", "with", "except"}}
     \/ /\ s.kind = "header" /\ s.exprs = <<>>
        /\ s.words \in {<<w>> : w \in {"else", "try", "except", "finally"}}
     \/ /\ s.kind = "for" /\ plain
        /\ Len(s.words) = 3 /\ s.words[1] = "for" /\ IsName(s.words[2]) /\ s.words[3] = "in"
     \/ /\ s.kind = "print" /\ s.words = <<"print">> /\ s.exprs # <<>>
        /\ \A k \in 1 .. Len(s.exprs) - 1 : IsText(s.exprs[k]) \/ IsText(s.exprs[k + 1])
     \/ /\ s.kind = "define" /\ s.exprs = <<>> /\ Len(s.words) > 1 /\ s.words[1] \in {"def", "class"}
        /\ \A k \in 2 .. Len(s.words) : IsName(s.words[k])
     \/ /\ s.kind = "statement" /\ s.exprs = <<>> /\ s.words # <<>>
        /\ IsName(s.words[1]) \/ s.words = <<"return">>
        /\ \A k \in DOMAIN s.words : s.words[k] \notin {"lambda", "=", ":"}
     \/ s.kind = "end" /\ s.exprs = <<>> /\ s.words = <<"end">>
     \/ s.kind = "blank" /\ s.exprs = <<>> /\ s.words = <<>>

-----------------------------------------------------------------------------
(* In NewPython: no colons, no parentheses, texts in brackets.             *)

ItemSource(item) == IF item.literal THEN Marked(item.texts, "[", "]") ELSE Bare(item.texts)

ExprSource(e) ==
  (IF e.form = "lambda" THEN Bare(<<"lambda">>) ELSE <<>>)
    \o Bare(e.head) \o FlattenSeq([k \in DOMAIN e.items |-> ItemSource(e.items[k])])

Source(s) == Bare(s.words) \o FlattenSeq([k \in DOMAIN s.exprs |-> ExprSource(s.exprs[k])])

(* In Python.                                                              *)

ItemPython(item) == IF item.literal THEN Marked(item.texts, "\"", "\"") ELSE Bare(item.texts)

ArgumentsPython(items) ==
  Bare(<<"(">>) \o Comma([k \in DOMAIN items |-> ItemPython(items[k])]) \o Bare(<<")">>)

CallPython(head, items) == Bare(head) \o ArgumentsPython(items)

(* The colon of a lambda is attached to its last parameter.                *)
ParametersPython(names) ==
  Comma([k \in DOMAIN names |-> <<Word(names[k], "", IF k = Len(names) THEN ":" ELSE "")>>])

(* A body of several items is a call of the first.                         *)
BodyPython(items) ==
  IF Len(items) = 1 THEN ItemPython(items[1]) ELSE CallPython(items[1].texts, Tail(items))

ExprPython(e) ==
  CASE e.form = "value"  -> ItemPython(e.items[1])
    [] e.form = "call"   -> CallPython(e.head, e.items)
    [] e.form = "lambda" -> Bare(<<"lambda">>) \o ParametersPython(e.head) \o BodyPython(e.items)

(* Each name of a def or class after its own is a parameter or a base.     *)
NamesPython(names) == ArgumentsPython([k \in DOMAIN names |-> Plain(<<names[k]>>)])

Python(s) ==
  LET exprs == [k \in DOMAIN s.exprs |-> ExprPython(s.exprs[k])] IN
  CASE s.kind = "print"  -> Bare(<<"print", "(">>) \o Comma(exprs) \o Bare(<<")">>)
    [] s.kind = "define" -> Bare(SubSeq(s.words, 1, 2)) \o NamesPython(SubSeq(s.words, 3, Len(s.words)))
                              \o Bare(<<":">>)
    [] s.kind \in {"header", "for"} -> Bare(s.words) \o FlattenSeq(exprs) \o Bare(<<":">>)
    [] OTHER -> Bare(s.words) \o FlattenSeq(exprs)
=============================================================================
