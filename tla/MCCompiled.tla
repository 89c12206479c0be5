----------------------------- MODULE MCCompiled -----------------------------
\* Compiled on small programs: over all loops and jumps, over match arms,
\* over what runs when a function is left, and over assertions and panics.
EXTENDS Compiled

\* Every header of a C style loop, and the ranges of up to two steps.
AllParts == SUBSET Parts
Ranges == [parts : {{}}, from : 0..2, to : 0..2, incl : BOOLEAN]
OneStep == {[NoHeader EXCEPT !.from = 1, !.to = 2]}

Of(forms, size) == [forms |-> forms, size |-> size, parts |-> {}, ranges |-> {}]

MCFamilies ==
    {Of({"mark", "break", "continue", "if", "while", "do"}, 4),
     [Of({"break", "continue", "if", "for"}, 3) EXCEPT !.parts = AllParts],
     [Of({"mark", "break", "forin"}, 3) EXCEPT !.ranges = Ranges],
     [Of({"break", "continue", "if", "for", "forin"}, 4) EXCEPT !.parts = {{}, Parts}, !.ranges = OneStep],
     [Of({"break", "continue", "while", "do", "for", "forin"}, 3) EXCEPT !.parts = {{}, Parts}, !.ranges = OneStep],
     Of({"mark", "break", "continue", "return", "while", "match"}, 5),
     Of({"defer", "return", "ifelse", "while", "region", "lambda"}, 4),
     Of({"assert", "panic", "defer", "return", "ifelse", "lambda"}, 4),
     Of({"assert", "assert_true", "assert_false", "defer", "return", "ifelse"}, 3),
     Of({"mark", "assert", "assert_true", "assert_false", "break", "continue", "while"}, 4)}
=============================================================================
