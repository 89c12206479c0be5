-------------------------------- MODULE Lexer --------------------------------
(***************************************************************************)
(* The lexer (felexer/lexer.c): one call of lexer_next after the other,    *)
(* each taking the text of its token from the arena.  A source is a string *)
(* of characters counted from 1; every lex_* operator says where the token *)
(* that starts at i ends, its kind, and the number of bytes of its value.  *)
(***************************************************************************)
EXTENDS Arena, FiniteSets

CONSTANTS Sources,   \* the texts to lex
          NumLimit,  \* digits of a number that are kept: 68
          StrLimit,  \* bytes of a string that are kept: 65530
          StrBuffer  \* bytes lex_string asks the arena for: 65536

ASSUME LimitAssumption == NumLimit \in Nat /\ StrLimit \in Nat \ {0} /\ StrBuffer \in Nat
ASSUME SourcesAssumption == \A s \in Sources : Len(s) \in Nat

Digits == {"0", "1", "2", "3", "4", "5", "6", "7", "8", "9"}
HexLetters == {"a", "b", "c", "d", "e", "f", "A", "B", "C", "D", "E", "F"}
Letters == HexLetters \cup
    {"g", "h", "i", "j", "k", "l", "m", "n", "o", "p", "q", "r", "s", "t", "u", "v", "w", "x", "y", "z",
     "G", "H", "I", "J", "K", "L", "M", "N", "O", "P", "Q", "R", "S", "T", "U", "V", "W", "X", "Y", "Z"}
HexDigits == Digits \cup HexLetters
WordChars == Letters \cup Digits \cup {"_"}
Blanks == {" ", "\t", "\r", "\n"}

\* The character at i, and the text between two positions; pk, pk2 and pk3
\* give a zero, here the empty text, beyond the end.
At(s, i) == IF i <= Len(s) THEN SubSeq(s, i, i) ELSE ""
Slice(s, i, j) == SubSeq(s, i, IF j <= Len(s) THEN j - 1 ELSE Len(s))

\* The least of a set of positions, or the end of the text.
Least(s, S) == IF S = {} THEN Len(s) + 1 ELSE CHOOSE i \in S : \A j \in S : i <= j

\* Where the characters of a set that start at i end.
Span(s, i, chars) == Least(s, {j \in i..Len(s) : At(s, j) \notin chars})

(***************************************************************************)
(* Blanks and comments                                                     *)
(***************************************************************************)
LineEnd(s, i) == Least(s, {j \in i..Len(s) : At(s, j) = "\n"})

\* Mutant (of CommentEnd): the star that opens a comment may close it.
CommentEnd_Overlaps(s, i) ==
    LET ends == {j \in (i + 1)..Len(s) : At(s, j) = "*" /\ At(s, j + 1) = "/"}
    IN  IF ends = {} THEN Len(s) + 1 ELSE Least(s, ends) + 2

CommentEnd(s, i) ==
    LET ends == {j \in (i + 2)..Len(s) : At(s, j) = "*" /\ At(s, j + 1) = "/"}
    IN  IF ends = {} THEN Len(s) + 1 ELSE Least(s, ends) + 2

\* One turn of the loop; it ends at what is neither a blank nor a comment.
Past(s, i) ==
    CASE At(s, i) \in Blanks -> i + 1
      [] At(s, i) = "/" /\ At(s, i + 1) = "/" -> LineEnd(s, i)
      [] At(s, i) = "/" /\ At(s, i + 1) = "*" -> CommentEnd(s, i)
      [] OTHER -> i

\* Each turn takes a character at least, so there are no more than characters.
skip_ws(s, i) ==
    LET turn[n \in 0..Len(s)] == IF n = 0 THEN i ELSE Past(s, turn[n - 1])
    IN  turn[Len(s)]

(***************************************************************************)
(* Words                                                                   *)
(***************************************************************************)
Token(kind, to, size) == [kind |-> kind, to |-> to, size |-> size]

Keywords ==
    {"fn", "if", "in", "do", "let", "mut", "for", "new", "int", "str", "bool", "byte", "char",
     "null", "else", "enum", "long", "this", "type", "uint", "unit", "break", "const", "class",
     "defer", "float", "match", "short", "ulong", "while", "double", "export", "import", "module",
     "public", "return", "region", "ushort", "unsafe", "private", "continue", "external", "comptime"}

kw_check(word) == CASE word \in Keywords -> word
                    [] word \in {"true", "false"} -> "bool_lit"
                    [] OTHER -> "ident"

lex_ident(s, i) ==
    LET j == Span(s, i, WordChars) IN Token(kw_check(Slice(s, i, j)), j, j - i)

(***************************************************************************)
(* Numbers: underscores are dropped, digits beyond NumLimit too.           *)
(***************************************************************************)
Least2(m, n) == IF m <= n THEN m ELSE n

\* Bytes kept once n were and those between i and j are added.
Kept(s, n, i, j) ==
    LET digits == Cardinality({k \in i..j - 1 : At(s, k) # "_"})
    IN  IF n >= NumLimit THEN n ELSE Least2(n + digits, NumLimit)

\* 0x, 0b and 0o.
lex_radix(s, i, chars, long) ==
    LET j == Span(s, i + 2, chars \cup {"_"})
        size == Kept(s, 2, i + 2, j)
    IN  IF long /\ At(s, j) = "L" THEN Token("long_lit", j + 1, size) ELSE Token("int_lit", j, size)

HasFraction(s, i) == At(s, i) = "." /\ At(s, i + 1) \in Digits \cup {"e", "E"}

lex_decimal(s, i) ==
    LET whole == Span(s, i, Digits \cup {"_"})
        fraction == HasFraction(s, whole)
        point == IF fraction THEN Span(s, whole + 1, Digits \cup {"_"}) ELSE whole
        exponent == At(s, point) \in {"e", "E"}
        sign == IF At(s, point + 1) \in {"+", "-"} THEN point + 2 ELSE point + 1
        j == IF exponent THEN Span(s, sign, Digits) ELSE point
        wholeSize == Kept(s, 0, i, whole)
        size == (IF fraction THEN Kept(s, wholeSize + 1, whole + 1, point) ELSE wholeSize) + (j - point)
        suffix == At(s, j)
    IN  CASE suffix \in {"d", "D"} -> Token("double_lit", j + 1, size)
          [] suffix \in {"f", "F"} -> Token("float_lit", j + 1, size)
          [] suffix = "L" -> Token("long_lit", j + 1, size)
          [] suffix = "u" /\ At(s, j + 1) = "L" -> Token("long_lit", j + 2, size)
          [] suffix = "u" /\ At(s, j + 1) # "L" -> Token("int_lit", j + 1, size)
          [] OTHER -> Token(IF fraction \/ exponent THEN "float_lit" ELSE "int_lit", j, size)

lex_number(s, i) ==
    CASE At(s, i) = "0" /\ At(s, i + 1) \in {"x", "X"} -> lex_radix(s, i, HexDigits, TRUE)
      [] At(s, i) = "0" /\ At(s, i + 1) \in {"b", "B"} -> lex_radix(s, i, {"0", "1"}, FALSE)
      [] At(s, i) = "0" /\ At(s, i + 1) \in {"o", "O"} -> lex_radix(s, i, Digits \ {"8", "9"}, FALSE)
      [] OTHER -> lex_decimal(s, i)

(***************************************************************************)
(* Strings and characters.  Escape: where the escape whose letter is at i  *)
(* ends, and the bytes it stands for.                                      *)
(***************************************************************************)
Plain == {"n", "t", "r", "a", "b", "f", "v", "\\", "\"", "'", "0"}

HexValue(c) ==
    IF c \notin HexDigits THEN 0
    ELSE CHOOSE n \in 0..15 : c \in {SubSeq("0123456789abcdef", n + 1, n + 1),
                                     SubSeq("0123456789ABCDEF", n + 1, n + 1)}

\* The code point of up to eight hexadecimal digits, as far as encode_utf8
\* looks at it.
CodePoint(s, i, j) ==
    LET value[n \in 0..Len(s)] ==
            IF n = 0 THEN 0 ELSE Least2(16 * value[n - 1] + HexValue(At(s, i + n - 1)), 65536)
    IN  IF i >= j THEN 0 ELSE value[j - i]

encode_utf8(cp) == CASE cp < 128 -> 1
                     [] cp \in 128..2047 -> 2
                     [] cp \in 2048..65535 -> 3
                     [] OTHER -> 4

lex_escape(s, i) ==
    LET upto(n) == Least2(i + 1 + n, Len(s) + 1)
        hex == Span(s, i + 1, HexDigits)
        brace == Span(s, i + 2, HexDigits)
        \* 32 bits hold the last eight of the digits in braces
        first == IF brace > i + 10 THEN brace - 8 ELSE i + 2
    IN  IF i > Len(s) THEN [to |-> i, size |-> 0] ELSE
        CASE At(s, i) \in Plain -> [to |-> i + 1, size |-> 1]
          [] At(s, i) = "x" -> [to |-> Least2(hex, i + 3), size |-> 1]
          [] At(s, i) = "u" /\ At(s, i + 1) = "{" ->
                [to |-> IF At(s, brace) = "}" THEN brace + 1 ELSE brace,
                 size |-> encode_utf8(CodePoint(s, first, brace))]
          [] At(s, i) = "u" /\ At(s, i + 1) # "{" ->
                [to |-> upto(4), size |-> encode_utf8(CodePoint(s, i + 1, upto(4)))]
          [] At(s, i) = "U" -> [to |-> upto(8), size |-> encode_utf8(CodePoint(s, i + 1, upto(8)))]
          [] At(s, i) = "\n" -> [to |-> i + 1, size |-> 0]
          [] OTHER -> [to |-> i + 1, size |-> 2]

\* Mutant (of EndsString): any quote ends a string.
EndsString_Any(s, j, triple) == At(s, j) = "\""

EndsString(s, j, triple) ==
    At(s, j) = "\"" /\ (triple => At(s, j + 1) = "\"" /\ At(s, j + 2) = "\"")

\* One more character of a string: body is where its characters end so far,
\* and the bytes kept of them.  An escape may bring more bytes than there is
\* room for.
NextChar(s, triple, body) ==
    IF body.to > Len(s) \/ EndsString(s, body.to, triple) \/ body.size >= StrLimit THEN body
    ELSE LET c == IF At(s, body.to) = "\\" THEN lex_escape(s, body.to + 1)
                  ELSE [to |-> body.to + 1, size |-> 1]
         IN  [to |-> c.to, size |-> Least2(body.size + c.size, StrLimit)]

StringBody(s, i, triple) ==
    LET body[n \in 0..Len(s)] ==
            IF n = 0 THEN [to |-> i, size |-> 0] ELSE NextChar(s, triple, body[n - 1])
    IN  body[Len(s)]

\* A string that reaches StrLimit stops there, wherever that is.
lex_string(s, i) ==
    LET triple == At(s, i + 1) = "\"" /\ At(s, i + 2) = "\""
        body == StringBody(s, IF triple THEN i + 3 ELSE i + 1, triple)
        closing == IF At(s, body.to) = "\"" THEN (IF triple THEN 3 ELSE 1) ELSE 0
    IN  Token("string_lit", body.to + closing, body.size)

lex_raw_string(s, i) ==
    LET j == Least(s, {k \in (i + 2)..Len(s) : At(s, k) = "\""})
    IN  Token("string_lit", IF j <= Len(s) THEN j + 1 ELSE j, Least2(j - (i + 2), StrLimit))

\* At the end of the text the zero that ends it is taken for the character.
lex_char(s, i) ==
    LET c == CASE At(s, i + 1) = "\\" -> lex_escape(s, i + 2)
               [] At(s, i + 1) = "'" -> [to |-> i + 1, size |-> 0]
               [] OTHER -> [to |-> i + 2, size |-> 1]
    IN  Token("char_lit", IF At(s, c.to) = "'" THEN c.to + 1 ELSE c.to, c.size)

(***************************************************************************)
(* Operators: the first character, then what its case looks for.  Which    *)
(* operator it is its characters say.                                      *)
(***************************************************************************)
Ones == {"+", "-", "*", "/", "%", "&", "|", "^", "~", "=", "!", "<", ">", ":", ";", ",", ".",
         "?", "#", "@", "(", ")", "{", "}", "[", "]"}
Twos == {<<"+", "+">>, <<"+", "=">>, <<"-", "-">>, <<"-", "=">>, <<"-", ">">>, <<"*", "=">>, <<"/", "=">>,
         <<"%", "{">>, <<"%", "=">>, <<"&", "&">>, <<"&", "=">>, <<"|", "|">>, <<"|", "=">>, <<"^", "=">>,
         <<"=", "=">>, <<"=", ">">>, <<"!", "=">>, <<"<", "<">>, <<"<", "=">>, <<">", ">">>, <<">", "=">>,
         <<":", ":">>, <<".", ".">>}
Threes == {<<"<", "<", "=">>, <<">", ">", "=">>, <<".", ".", "=">>}

Two(s, i) == <<At(s, i), At(s, i + 1)>>
Three(s, i) == <<At(s, i), At(s, i + 1), At(s, i + 2)>>

lex_operator(s, i) ==
    LET n == CASE Two(s, i) \in Twos /\ Three(s, i) \in Threes -> 3
               [] Two(s, i) \in Twos /\ Three(s, i) \notin Threes -> 2
               [] OTHER -> 1
    IN  Token(IF At(s, i) \in Ones THEN "operator" ELSE "unknown", i + n, n)

OpensRaw(s, i) == At(s, i) \in {"r", "R"} /\ At(s, i + 1) = "\""

Lex(s, i) ==
    IF i > Len(s) THEN Token("eof", i, 0) ELSE
    CASE OpensRaw(s, i) -> lex_raw_string(s, i)
      [] ~OpensRaw(s, i) /\ At(s, i) \in Letters \cup {"_"} -> lex_ident(s, i)
      [] At(s, i) \in Digits -> lex_number(s, i)
      [] At(s, i) = "\"" -> lex_string(s, i)
      [] At(s, i) = "'" -> lex_char(s, i)
      [] OTHER -> lex_operator(s, i)

(***************************************************************************)
(* The lexer at work                                                       *)
(***************************************************************************)
VARIABLES src,
          pos,   \* where lexer_next goes on
          line, col,
          tok,   \* the last token, with the place mktok notes for it
          gap    \* history: where the call that made tok began

lexVars == <<src, pos, line, col, tok, gap, arena>>

Init == /\ arena = arena_new
        /\ src \in Sources
        /\ pos = 1 /\ line = 1 /\ col = 1
        /\ tok = [kind |-> "none", from |-> 1, to |-> 1, size |-> 0, line |-> 1, col |-> 1]
        /\ gap = 1

\* lx_adv over the characters between i and j.
Newlines(s, i, j) == {k \in i..Least2(j - 1, Len(s)) : At(s, k) = "\n"}
LineAfter(l, s, i, j) == l + Cardinality(Newlines(s, i, j))
ColAfter(c, s, i, j) ==
    IF Newlines(s, i, j) = {} THEN c + (j - i)
    ELSE j - (CHOOSE k \in Newlines(s, i, j) : \A n \in Newlines(s, i, j) : n <= k)

\* Mutant (of Place): the place is noted once the token is read.
Place_After(from, to) == [line |-> LineAfter(line, src, pos, to), col |-> ColAfter(col, src, pos, to)]

\* The place a token that starts at from and ends at to is given.
Place(from, to) == [line |-> LineAfter(line, src, pos, from), col |-> ColAfter(col, src, pos, from)]

\* A string is built in a block of its own, and then copied like any token.
Allocate(t) == arena_strndup(IF t.kind = "string_lit" THEN arena_alloc(arena, StrBuffer) ELSE arena, t.size)

lexer_next ==
    LET from == skip_ws(src, pos)
        t == Lex(src, from)
    IN  /\ tok.kind # "eof"
        /\ gap' = pos
        /\ pos' = t.to
        /\ line' = LineAfter(line, src, pos, t.to)
        /\ col' = ColAfter(col, src, pos, t.to)
        /\ tok' = [kind |-> t.kind, from |-> from, to |-> t.to, size |-> t.size,
                   line |-> Place(from, t.to).line, col |-> Place(from, t.to).col]
        /\ arena' = Allocate(t)
        /\ UNCHANGED src

Next == lexer_next

Spec == Init /\ [][Next]_lexVars
=============================================================================
