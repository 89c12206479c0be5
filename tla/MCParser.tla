------------------------------ MODULE MCParser ------------------------------
\* Texts around which anything may stand: an expression, a condition, a
\* statement, the arms of a match, the bounds of a range in one, a type, a
\* declaration.
EXTENDS Expressions

Source(before, tokens, room, after) == [before |-> before, tokens |-> tokens, room |-> room, after |-> after]

InFunction == <<"fn", "id", "(", ")", "{">>
AtEnd == <<";", "}">>
AnExpression == Source(InFunction, {"id", "-", "*", "+", "(", ")", "?", ":", "=", ",", "[", "]", ".", "++"}, 5, AtEnd)
Conditions == Source(InFunction \o <<"if", "(">>, {"id", "{", "}", "(", ")", ":", "|", "as"}, 5,
                     <<")", "{", "}", "}">>)
BinaryTexts == Source(InFunction, {"id", "lit", "||", "&&", "|", "&", "==", "..", "!", "<", "+", "::", "+="}, 4, AtEnd)
Statements == Source(InFunction, {"let", "mut", "fn", "enum", "unsafe", "while", "do", "return", "defer", "region", "comptime",
                                  "break", "id", "=", "(", "{", "}"}, 4, <<";", "}">>)
Ifs == Source(InFunction \o <<"if", "(", "id", ")">>, {"{", "}", "else", "if", "(", "id", ")"}, 7, <<"}">>)
Arms == Source(InFunction \o <<"match", "(", "id", ")", "{">>,
               {"id", "_", "lit", "..", "=>", ";", ",", "{", "}", "(", ")"}, 6, <<"}", "}">>)
Bounds == Source(InFunction \o <<"match", "(", "id", ")", "{">>, {"lit", "char", "..", "=>", "id", ";"}, 5, <<"}", "}">>)
Fors == Source(InFunction \o <<"for", "(">>, {"let", "id", "in", "=", ";", ")"}, 6, <<")", "{", "}", "}">>)
Types == Source(<<"type", "id", "=">>, {"*", "[", "]", "lit", "fn", "(", ")", "id", "<", ">", ";", "->"}, 5, <<";">>)
Classes == Source(<<"class", "id", "{">>, {"public", "private", "{", "}", "id", ":", "int", ";", "fn"}, 7, <<"}">>)
Declarations == Source(<< >>, {"fn", "id", "(", ")", "{", "}", "const", "enum", "region", "comptime", ":", "int", ","}, 6, << >>)

AllSources ==
    {AnExpression, BinaryTexts, Conditions, Statements, Ifs, Arms, Bounds, Fors, Types, Classes, Declarations}
=============================================================================
