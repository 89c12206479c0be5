------------------------------- MODULE Lexemes -------------------------------
(***************************************************************************)
(* What a token of Fermi is, said of its text alone and without scanning:  *)
(* the language that lexer_next is held against.  The escapes \u and \U are *)
(* not described: the lexer reads a fixed number of characters there, a    *)
(* closing quote among them (lexer.c 177-199), see Wide.                   *)
(***************************************************************************)
EXTENDS Lexer

\* In what follows a text is what src has from i up to j.
All(i, j, chars) == \A k \in i..j - 1 : At(src, k) \in chars

IsWord(i, j) == At(src, i) \notin Digits /\ All(i, j, WordChars)

IsOperator(i, j) == \/ j = i + 2 /\ Two(src, i) \in Twos
                    \/ j = i + 3 /\ Three(src, i) \in Threes

(***************************************************************************)
(* Numbers                                                                 *)
(***************************************************************************)
IsRadix(i, j, letters, chars) ==
    /\ i + 2 <= j
    /\ At(src, i) = "0" /\ At(src, i + 1) \in letters /\ All(i + 2, j, chars \cup {"_"})

IsWhole(i, j) == i < j /\ At(src, i) \in Digits /\ All(i, j, Digits \cup {"_"})

\* A point needs a digit or an exponent after it: 1..2 and 1.len hold none.
IsFraction(i, j, exponent) == \/ i = j
                              \/ At(src, i) = "." /\ j = i + 1 /\ exponent
                              \/ At(src, i) = "." /\ IsWhole(i + 1, j)

IsExponent(i, j) == /\ i < j /\ At(src, i) \in {"e", "E"}
                    /\ \/ All(i + 1, j, Digits)
                       \/ i + 1 < j /\ At(src, i + 1) \in {"+", "-"} /\ All(i + 2, j, Digits)

IsNumberSuffix(i, j) == \/ i = j
                        \/ j = i + 1 /\ At(src, i) \in {"d", "D", "f", "F", "L", "u"}
                        \/ j = i + 2 /\ At(src, i) = "u" /\ At(src, i + 1) = "L"

IsDecimal(i, j) ==
    \E p, e, k \in i..j :
       /\ p <= e /\ e <= k
       /\ IsWhole(i, p)
       /\ IsFraction(p, e, e < k)
       /\ e = k \/ IsExponent(e, k)
       /\ IsNumberSuffix(k, j)

IsNumber(i, j) ==
    \/ IsDecimal(i, j)
    \/ IsRadix(i, j, {"x", "X"}, HexDigits)
    \/ At(src, j - 1) = "L" /\ IsRadix(i, j - 1, {"x", "X"}, HexDigits)
    \/ IsRadix(i, j, {"b", "B"}, {"0", "1"})
    \/ IsRadix(i, j, {"o", "O"}, Digits \ {"8", "9"})

(***************************************************************************)
(* Strings, in one quote or three: a quote counts unless an odd number of  *)
(* backslashes precede it.                                                 *)
(***************************************************************************)
Escaped(k, start) == Cardinality({m \in start..k - 1 : All(m, k, {"\\"})}) % 2 = 1

Quoted(i, quotes) == All(i, i + quotes, {"\""})
Ends(j, quotes, start) == {k \in start..j - quotes : Quoted(k, quotes) /\ ~Escaped(k, start)}

Raw(i) == At(src, i) \in {"r", "R"} /\ At(src, i + 1) = "\""
RawEnds(i, j) == {k \in i + 2..j - 1 : At(src, k) = "\""}

IsString(i, j) ==
    \/ \E q \in {1, 3} : Quoted(i, q) /\ Ends(j, q, i + q) = {j - q}
    \/ Raw(i) /\ RawEnds(i, j) = {j - 1}

\* A string nobody closed reaches to the end of the source.
IsOpenString(i) ==
    \/ \E q \in {1, 3} : Quoted(i, q) /\ Ends(Len(src) + 1, q, i + q) = {}
    \/ Raw(i) /\ RawEnds(i, Len(src) + 1) = {}

IsEscape(i, j) == /\ At(src, i) = "\\"
                  /\ \/ j = i + 2
                     \/ At(src, i + 1) = "x" /\ j \in i + 2..i + 4 /\ All(i + 2, j, HexDigits)

\* The closing quote of a character may be missing.
IsCharBody(i, j) == i = j \/ (j = i + 1 /\ At(src, i) # "'") \/ IsEscape(i, j)
IsChar(i, j) == /\ At(src, i) = "'"
                /\ IsCharBody(i + 1, j) \/ (At(src, j - 1) = "'" /\ IsCharBody(i + 1, j - 1))

Lexeme(i, j) ==
    j = i + 1 \/ IsWord(i, j) \/ IsOperator(i, j) \/ IsNumber(i, j) \/ IsString(i, j) \/ IsChar(i, j)

(***************************************************************************)
(* Gaps are chains of pieces.  A piece of src from i to j is a blank, or a *)
(* comment with all that belongs to it.                                    *)
(***************************************************************************)
IsBlank(i, j) == j = i + 1 /\ At(src, i) \in Blanks

IsLineComment(i, j) ==
    /\ At(src, i) = "/" /\ At(src, i + 1) = "/" /\ i < j
    /\ \A k \in i..j - 1 : At(src, k) # "\n"
    /\ At(src, j) = "\n" \/ j = Len(src) + 1

\* Closed by the first star and slash after the two that open it, or else open
\* to the end of the source.
IsBlockComment(i, j) ==
    LET closers == {k \in i + 2..Len(src) : At(src, k) = "*" /\ At(src, k + 1) = "/"}
    IN  /\ At(src, i) = "/" /\ At(src, i + 1) = "*"
        /\ \/ j - 2 \in closers /\ \A k \in closers : j - 2 <= k
           \/ closers = {} /\ j = Len(src) + 1

IsPiece(i, j) == IsBlank(i, j) \/ IsLineComment(i, j) \/ IsBlockComment(i, j)

\* Some of the positions from i to j lead from one to the next, piece by piece.
IsGap(i, j) ==
    \E marks \in SUBSET (i..j) :
       /\ i \in marks /\ j \in marks
       /\ \A m \in marks \ {j} : \E n \in marks : IsPiece(m, n)

StartsPiece(i) == At(src, i) \in Blanks \/ (At(src, i) = "/" /\ At(src, i + 1) \in {"/", "*"})

(***************************************************************************)
(* Properties                                                              *)
(***************************************************************************)
Called == tok.kind # "none"
End == Least2(tok.to, Len(src) + 1)
Cut == tok.kind = "string_lit" /\ tok.size >= StrLimit
Wide == /\ tok.kind \in {"string_lit", "char_lit"}
        /\ \E k \in tok.from..tok.to - 1 : At(src, k) = "\\" /\ At(src, k + 1) \in {"u", "U"}

\* Every token is the longest lexeme that begins where it does: escapes,
\* doubled quotes, points, signs and suffixes never make the lexer stop early
\* or run on, whatever follows.  Only a string too long for its buffer is cut.
TokensAreLongest ==
    Called /\ tok.kind # "eof" /\ ~Cut /\ ~Wide =>
        /\ Lexeme(tok.from, End) \/ (End = Len(src) + 1 /\ IsOpenString(tok.from))
        /\ \A j \in End + 1..Len(src) + 1 : ~Lexeme(tok.from, j)
        /\ End <= Len(src) => ~IsOpenString(tok.from)

\* What lies between two tokens is blanks and whole comments, all of them;
\* a token is never empty and the end is reported at the end only.
GapsAreBlank ==
    Called =>
        /\ IsGap(gap, tok.from) /\ ~StartsPiece(tok.from)
        /\ (tok.kind = "eof") <=> (tok.from > Len(src))
        /\ tok.kind # "eof" => tok.to > tok.from

\* Line and column, counted along through tokens, comments and strings of
\* several lines, are where the token begins in the text.
PlacesAreTrue ==
    Called =>
        LET before == {k \in 1..Least2(tok.from - 1, Len(src)) : At(src, k) = "\n"}
        IN  /\ tok.line = Cardinality(before) + 1
            /\ tok.from = tok.col + (IF before = {} THEN 0
                                     ELSE CHOOSE k \in before : \A n \in before : n <= k)
=============================================================================
