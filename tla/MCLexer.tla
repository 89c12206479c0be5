------------------------------- MODULE MCLexer -------------------------------
\* Lexemes on all short texts over small alphabets: numbers, quotes
\* and escapes, comments, and operators.
EXTENDS Lexemes

RECURSIVE Texts(_, _)
Texts(chars, n) == IF n = 0 THEN {""} ELSE {t \o c : t \in Texts(chars, n - 1), c \in chars \cup {""}}

MCSources ==
    Texts({"0", "1", "x", "e", ".", "_", "L", "u"}, 4)
    \cup Texts({"1", ".", "e", "-"}, 5)
    \cup Texts({"\"", "\\", "'", "x", "1", "r", "u"}, 4)
    \cup Texts({"\"", "\\", "a"}, 7)
    \cup Texts({"/", "*", "\n", "a", "\""}, 5)
    \cup Texts({"<", "=", ".", ">", "&", "%", "{", ":"}, 3)
=============================================================================
