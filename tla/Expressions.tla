---------------------------- MODULE Expressions ----------------------------
(***************************************************************************)
(* The language of expressions, as sets of texts built up by length: what  *)
(* the parser is to accept, whatever the loops and lookahead it does so    *)
(* with.  How operators group is not its concern, see TreesSpellText.      *)
(***************************************************************************)
EXTENDS Parser, SequencesExt

CONSTANTS MaxLength,         \* bound on the length of expressions
          Opening, Closing   \* a program around an expression

BoundAssumption == MaxLength \in Nat
ASSUME BoundAssumption

UnaryPrefixes == {"-", "*", "++"}
Operators == {"-", "*", "+", "="}
ExpressionTokens == UnaryPrefixes \union Operators \union {"id", "(", ")", "?", ":", ",", "[", "]", "."}

\* The texts of length n from those shorter, short[i + 1] being those of
\* length i: expressions that do not end in a "?" and those that do, which
\* must be all there is of an expression, and lists of arguments.
Longer(short) ==
    LET n == Len(short)
        C(i) == short[i + 1].closed
        Q(i) == short[i + 1].tried
        E(i) == C(i) \union Q(i)
        L(i) == short[i + 1].lists
        First(k) == 0 .. (n - k)   \* lengths of the first of two parts and k tokens
        \* what may stand before an expression to the right
        With(R(_)) ==
            {<<u>> \o e : u \in UnaryPrefixes, e \in R(n - 1)}
            \union UNION {{a \o <<op>> \o b : a \in C(i), op \in Operators, b \in R(n - 1 - i)} : i \in First(1)}
            \union UNION UNION {{{a \o <<"?">> \o b \o <<":">> \o c : a \in C(i), b \in C(j), c \in R(n - 2 - i - j)}
                                  : j \in 0 .. (n - 2 - i)} : i \in First(2)}
        closed ==
            (IF n = 1 THEN {<<"id">>} ELSE {})
            \union With(C)
            \union {a \o <<"++">> : a \in C(n - 1)}
            \union UNION {{<<"(">> \o e \o <<")">> : e \in E(n - 2)}
                          \union {<<"[">> \o l \o <<"]">> : l \in L(n - 2)}
                          \union {a \o <<".", "id">> : a \in C(n - 2)} : z \in {0} \intersect First(2)}
            \union UNION {{a \o <<"(">> \o l \o <<")">> : a \in C(i), l \in L(n - 2 - i)}
                          \union {a \o <<"[">> \o e \o <<"]">> : a \in C(i), e \in E(n - 2 - i)} : i \in First(2)}
        tried == With(Q) \union {a \o <<"?">> : a \in C(n - 1)}
    IN  [closed |-> closed, tried |-> tried,
         lists |-> closed \union tried
                   \union UNION {{e \o <<",">> \o l : e \in E(i), l \in L(n - 1 - i)} : i \in First(1)}]

None == [closed |-> {}, tried |-> {}, lists |-> {<< >>}]
ByLength == FoldLeft(LAMBDA short, n : Append(short, Longer(short)), <<None>>, [n \in 1 .. MaxLength |-> n])
Expressions == UNION {ByLength[i].closed \union ByLength[i].tried : i \in DOMAIN ByLength}

Around(e) == Opening \o e \o Closing
PrefixesOf(s) == {SubSeq(s, 1, i) : i \in 0 .. Len(s)}
Viable == UNION {PrefixesOf(Around(e)) : e \in Expressions}

\* An accepted text of expression tokens is an expression.
AcceptsOnlyExpressions ==
    Ended /\ ~had_error /\ IsPrefix(Opening, text) /\ IsSuffix(Closing, text) =>
        LET e == SubSeq(text, Len(Opening) + 1, Len(text) - Len(Closing))
        IN  ToSet(e) \subseteq ExpressionTokens => e \in Expressions

\* No expression is rejected, and a text that is none is accepted up to the
\* first token no expression goes on with: an error is never reported earlier.
RejectsNoExpression ==
    [][~had_error /\ had_error' => Append(text, cur) \notin Viable]_pvars
=============================================================================
