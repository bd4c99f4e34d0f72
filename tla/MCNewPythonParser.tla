--------------------------- MODULE MCNewPythonParser ---------------------------
EXTENDS NewPythonParser

Literals == {Text(<<"hello">>), Text(<<"hello", "you">>), Text(<<"x", "=", "1", "y">>),
             Text(<<"x", "==", "y">>), Text(<<"use", "lambda", "x", "y">>), Text(<<"x", "in", "y">>)}
Atoms    == {Plain(<<"x">>), Plain(<<"1">>)}
Formulas == {Plain(<<"x", "+", "1">>), Plain(<<"x", "==", "1">>), Plain(<<"x", "<=", "1">>),
             Plain(<<"x", "is", "y">>)}

Values  == {Value(item) : item \in Literals \cup Atoms \cup Formulas}
Calls   == {Call("f", items) : items \in BoundedSeq(Literals \cup Atoms, 2) \ {<<>>}}
Lambdas == {Lambda(params, body) : params \in {<<"x">>, <<"x", "y">>},
                                   body \in {<<item>> : item \in Atoms \cup Formulas}
                                              \cup {<<Plain(<<"f">>), item>> : item \in Atoms}}

(* Two names in a row would be a call: words are set apart by texts. *)
Printed == {<<e>> : e \in Values \cup Calls \cup Lambdas}
             \cup {<<Value(item), e>> : item \in Literals, e \in Values \cup Calls}
             \cup {<<e, Value(item), Value(Plain(<<"y">>))>> : item \in Literals, e \in Values \cup Calls}

MCStatements ==
  {Statement("assign", <<"y", "=">>, <<e>>) : e \in Values \cup Calls \cup Lambdas}
    \cup {Statement("return", <<"return">>, <<e>>) : e \in Values \cup Calls \cup Lambdas}
    \cup {Statement("call", <<>>, <<e>>) : e \in Calls}
    \cup {Statement("header", <<word>>, <<e>>) :
            word \in {"if", "elif", "while", "with", "except"}, e \in Values \cup Calls}
    \cup {Statement("header", <<word>>, <<>>) : word \in {"else", "try", "except", "finally"}}
    \cup {Statement("for", <<"for", "y", "in">>, <<e>>) : e \in Values \cup Calls}
    \cup {Statement("print", <<"print">>, exprs) : exprs \in Printed}
    \cup {Statement("define", <<word, "f">> \o names, <<>>) :
            word \in {"def", "class"}, names \in {<<>>, <<"x">>, <<"x", "y">>}}
    \cup {Statement("statement", words, <<>>) :
            words \in {<<"pass">>, <<"import", "m">>, <<"del", "x">>, <<"assert", "x", "<", "1">>,
                       <<"assert", "x", "<=", "1">>, <<"assert", "x", "==", "1">>, <<"x", "+=", "1">>}}

End   == Statement("end", <<"end">>, <<>>)
Blank == Statement("blank", <<>>, <<>>)

(* Enough to make up files of several lines. *)
Samples == {End, Blank, Statement("header", <<"if">>, <<Value(Plain(<<"x">>))>>),
            Statement("print", <<"print">>, <<Value(Text(<<"hello">>))>>)}

MCPrograms ==
  LET Lines(statements) == [indent : {0, 1}, statement : statements] IN
  {<<line>> : line \in Lines(MCStatements)} \cup BoundedSeq(Lines(Samples), 4)
=============================================================================
