------------------------------- MODULE Parser -------------------------------
(***************************************************************************)
(* The recursive descent parser as a pushdown machine.  The stack holds    *)
(* what the pending calls of parser.c have left to do; a step is what they *)
(* do up to the next token, decision or call.  Texts are not fixed: the    *)
(* lexer may deliver any token of an alphabet between two given parts.     *)
(*                                                                         *)
(* Of a tree is kept what the properties tell apart: its kind, the tokens  *)
(* it was made from, parentheses and optional tokens included, which the   *)
(* program drops, and how its operators group.  After an error no tree is  *)
(* kept: main() gives up when the parser returns.                          *)
(*                                                                         *)
(* Tokens are the classes the parser tells apart: "id" an identifier other *)
(* than "_" and "as", "lit" an integer literal, "char" a character, "int"  *)
(* a type keyword, "+=" any compound assignment.  Not modelled: the other  *)
(* literals, interpolated strings, which parsers of their own read, "@"    *)
(* calls, imports, exports, unit and external functions.                   *)
(***************************************************************************)
EXTENDS Integers, Sequences

CONSTANT Sources   \* the texts to parse: [before, after : sequences of tokens,
                   \*   tokens : what may stand between them, room : how many]

EOF == "eof"
Alphabet == {EOF} \union UNION {s.tokens \union {s.before[i] : i \in DOMAIN s.before}
                                          \union {s.after[i] : i \in DOMAIN s.after} : s \in Sources}
ASSUME SourcesAssumption ==
    /\ Sources \subseteq [before : Seq(Alphabet), tokens : SUBSET Alphabet, room : Nat, after : Seq(Alphabet)]
    /\ \A s \in Sources : EOF \notin s.tokens

VARIABLES cur, peek,      \* Parser.cur, Parser.peek
          input,          \* what the lexer has still to read
          stack,          \* what the pending calls have left to do, innermost first
          values,         \* the tokens and trees in the hands of the pending calls
          text,           \* history: the tokens consumed
          had_error, no_struct_lit

pvars == <<cur, peek, input, stack, values, text, had_error, no_struct_lit>>

-----------------------------------------------------------------------------
\* What a call can have left to do.
CallAt(f, n) == [do |-> "call", f |-> f, n |-> n]
Call(f) == CallAt(f, 0)
Expect(t) == [do |-> "expect", t |-> t]      \* expect(p, t)
Maybe(t) == [do |-> "maybe", t |-> t]        \* mat(p, t)
Take == [do |-> "take"]                      \* adv(p)
Fail == [do |-> "fail"]                      \* err(p)
Unexpected == <<Fail, Take>>
If(ts, then, els) == [do |-> "if", ts |-> ts, then |-> then, els |-> els]   \* chk(p, any of ts)
On(ts, then) == If(ts, then, << >>)
Unless(ts, then) == If(ts, << >>, then)
Build(kind, n) == [do |-> "build", kind |-> kind, n |-> n]   \* a node of all values but the first n
Nest(by) == [do |-> "nest", by |-> by]       \* no_struct_lit++ or --

Height == Len(values)
Ids == {"id", "_", "as"}   \* "as" is no keyword of the lexer
\* Without an identifier the call reports an error and returns.
Named(items) == If(Ids, items, <<Fail>>)
Condition == Call("condition")
Annotation == On({":"}, <<Take, Call("type")>>)
Initialiser == On({"="}, <<Take, Call("expr")>>)
ReturnType == On({":", "->"}, <<Take, Call("type")>>)

-----------------------------------------------------------------------------
\* Types.  Anything else is the unknown type, of no tokens.
parse_type ==
    CASE cur \in {"&", "*"} -> <<Take, Call("type"), Build("type", Height)>>
      [] cur = "[" -> <<Take, Unless({"]"}, <<Call("type"), On({";"}, <<Take, Maybe("lit")>>)>>),
                        Expect("]"), Build("type", Height)>>
      [] cur = "fn" -> <<Take, On({"("}, <<Take, Call("types"), Expect(")")>>), ReturnType,
                         Build("type", Height)>>
      [] cur = "int" -> <<Take>>
      [] cur \in Ids -> <<Take, On({"<"}, <<Take, CallAt("type_args", 1)>>), Build("type", Height)>>
      [] OTHER -> << >>
types == <<Unless({")", EOF}, <<Call("type"), On({","}, <<Take, Call("types")>>)>>)>>
\* The arguments of a named type are skipped, up to the matching ">".
type_args(depth) ==
    LET left == depth + (IF cur = "<" THEN 1 ELSE 0) - (IF cur = ">" THEN 1 ELSE 0)
    IN  IF cur = EOF THEN << >> ELSE IF left = 0 THEN <<Take>> ELSE <<Take, CallAt("type_args", left)>>

-----------------------------------------------------------------------------
\* Expressions.

\* Mutant (of List): a list goes on without its comma.
List_NeedsNoComma(f, close) == <<Unless({close, EOF}, <<Call("expr"), Maybe(","), Call(f)>>)>>

List(f, close) == <<Unless({close, EOF}, <<Call("expr"), On({","}, <<Take, Call(f)>>)>>)>>
BodyOr(f) == If({"{"}, <<Call("block")>>, <<Call(f)>>)

parse_primary ==
    LET struct == peek = "{" /\ no_struct_lit = 0
    IN  CASE cur \in {"lit", "char"} -> <<Take>>
          [] cur = "[" -> <<Take, Call("elems"), Expect("]"), Build("array", Height)>>
          [] cur = "|" -> <<Take, Call("lambda_params"), Maybe("|"), ReturnType, BodyOr("expr"),
                            Build("lambda", Height)>>
          [] cur \in Ids /\ peek = "::" ->
                <<Take, Take, If({EOF, ";"}, <<Fail>>,
                                 <<Take, On({"("}, <<Take, Call("args"), Expect(")")>>), Build("qualified", Height)>>)>>
          [] cur \in Ids /\ peek # "::" /\ struct ->
                <<Take, Expect("{"), Call("fields"), Expect("}"), Build("struct", Height)>>
          [] cur \in Ids /\ peek # "::" /\ ~struct -> <<Take>>
          [] cur = "(" -> <<Take, Call("expr"), Expect(")"), Build("paren", Height)>>
          [] OTHER -> Unexpected
lambda_params ==
    <<Unless({"|", EOF}, <<Named(<<Take, Annotation, On({","}, <<Take, Call("lambda_params")>>)>>)>>)>>
fields ==
    <<Unless({"}", EOF}, <<Named(<<Take, Expect(":"), Call("expr"), On({","}, <<Take, Call("fields")>>)>>)>>)>>

\* Mutant (of Endings): "?" before a parenthesis begins a conditional.
Endings_NoParenthesis == {";", ",", "}", "]", EOF}

\* Endings of an expression that "?" is a try and no conditional before.
Endings == {";", ",", ")", "}", "]", EOF}

\* The loop of parse_postfix, the expression so far being the last value.
postfix ==
    LET Made(kind) == Build(kind, Height - 1)
        Again == Call("postfix")
    IN  CASE cur = "." -> <<Take, If(Ids, <<Take, If({"("}, <<Call("arguments"), Made("method"), Again>>,
                                                           <<Made("field"), Again>>)>>,
                                          <<Fail>>)>>
          [] cur = "(" -> <<Call("arguments"), Made("call"), Again>>
          [] cur = "[" -> <<Take, Call("expr"), Expect("]"), Made("index"), Again>>
          [] cur = "++" -> <<Take, Made("postfix"), Again>>
          [] cur = "?" -> <<Take, If(Endings, <<Made("try"), Again>>,
                                     <<Call("expr"), Expect(":"), Call("expr"), Made("conditional"), Again>>)>>
          [] cur = "as" -> <<Take, Call("type"), Made("cast"), Again>>
          [] OTHER -> << >>
arguments == <<Take, Call("args"), Expect(")")>>

UnaryOps == {"-", "!", "++", "&", "*"}
parse_unary == IF cur \in UnaryOps THEN <<Take, Call("unary"), Build("unary", Height)>>
               ELSE <<Call("primary"), Call("postfix")>>

bin_prec(t) == CASE t = ".." -> 0
                 [] t = "||" -> 1
                 [] t = "&&" -> 2
                 [] t = "|" -> 3
                 [] t = "&" -> 5
                 [] t = "==" -> 6
                 [] t \in {"<", ">"} -> 7
                 [] t \in {"+", "-"} -> 9
                 [] t = "*" -> 10
                 [] OTHER -> -1

\* Mutant (of binary): operators of one precedence group to the right.
binary_GroupsRight(min) ==
    IF bin_prec(cur) < min THEN << >>
    ELSE <<Take, CallAt("binary", bin_prec(cur)), Build("binary", Height - 1), CallAt("binary_loop", min)>>

\* The loop of parse_binary, the left operand being the last value.
binary(min) ==
    IF bin_prec(cur) < min THEN << >>
    ELSE <<Take, CallAt("binary", bin_prec(cur) + 1), Build("binary", Height - 1), CallAt("binary_loop", min)>>

AssignOps == {"=", "+="}
assign == IF cur \in AssignOps THEN <<Take, Call("expr"), Build("assign", Height - 1)>> ELSE << >>

-----------------------------------------------------------------------------
\* Statements.
condition == <<Nest(1), Call("expr"), Nest(-1)>>

parse_stmt ==
    CASE cur \in {"let", "mut", "const"} -> <<Call("var_decl")>>
      [] cur = "fn" -> <<Call("fn_decl")>>
      [] cur = "enum" -> <<Call("enum_decl")>>
      [] cur = "unsafe" -> <<Take, Call("block"), Build("unsafe", Height)>>
      [] cur = "if" -> <<Call("if")>>
      [] cur = "while" -> <<Take, Expect("("), Condition, Expect(")"), Call("block"), Build("while", Height)>>
      [] cur = "do" -> <<Take, Call("block"), Maybe("=>"), Expect("while"),
                         If({"("}, <<Take, Condition, Expect(")")>>, <<Condition>>),
                         Expect(";"), Build("do", Height)>>
      [] cur = "for" -> <<Take, If({"("}, <<Take, CallAt("for", Height)>>, <<Fail>>)>>
      [] cur = "match" -> <<Take, Expect("("), Condition, Expect(")"),
                             Expect("{"), Call("arms"), Expect("}"), Build("match", Height)>>
      [] cur = "return" -> <<Take, Unless({";"}, <<Call("expr")>>), Expect(";"), Build("return", Height)>>
      [] cur = "{" -> <<Call("block")>>
      [] cur = "region" -> <<Call("region")>>
      [] cur = "defer" -> <<Take, Call("stmt"), Build("defer", Height)>>
      [] cur \in {"break", "continue"} -> <<Take, Expect(";"), Build("jump", Height)>>
      [] cur = "comptime" -> <<Call("comptime")>>
      [] OTHER -> <<Call("expr"), Expect(";"), Build("expr_stmt", Height)>>

parse_var_decl == <<Take, Named(<<Take, Annotation, Initialiser, Expect(";"), Build("var", Height)>>)>>
comptime == <<Take, If({"let"}, <<Take, Named(<<Take, Annotation, Expect("="), Call("expr"), Expect(";"),
                                                Build("comptime", Height)>>)>>, <<Fail>>)>>
parse_if == <<Take, Expect("("), Condition, Expect(")"), Call("block"),
              On({"else"}, <<Take, If({"if"}, <<Call("if")>>, <<Call("block")>>)>>), Build("if", Height)>>

\* parse_for behind its parenthesis, n values having been there before it.
for(n) ==
    IF cur \in {"let", "mut"} \union Ids /\ peek = "in"
    THEN <<Take, Expect("in"), Condition, Expect(")"), Call("block"), Build("for_in", n)>>
    ELSE <<If({";"}, <<Take>>, <<If({"let", "mut"}, <<Call("var_decl")>>, <<Condition, Expect(";")>>)>>),
           Unless({";"}, <<Condition>>), Expect(";"),
           Unless({")"}, <<Condition>>), Expect(")"), Call("block"), Build("for", n)>>

pattern ==
    CASE cur = "_" -> <<Take>>
      [] cur \in Ids \ {"_"} /\ peek \in {"(", "=>", ","} -> <<Take, On({"("}, <<Take, On(Ids, <<Take>>), Expect(")")>>)>>
      [] OTHER -> <<On({"lit", "char"}, <<Take>>), On({".."}, <<Take, Maybe("lit")>>)>>
parse_match_arm == <<Call("pattern"), Expect("=>"), BodyOr("stmt"), Maybe(","), Build("arm", Height)>>
arms == <<Unless({"}", EOF}, <<Call("arm"), Call("arms")>>)>>

parse_region == <<Take, Named(<<Take, Expect("{"), Call("stmts"), Expect("}"), Build("region", Height)>>)>>
parse_block == <<Expect("{"), Call("stmts"), Expect("}"), Build("block", Height)>>
stmts == <<Unless({"}", EOF}, <<Call("stmt"), Call("stmts")>>)>>

-----------------------------------------------------------------------------
\* Declarations.
parse_fn_decl ==
    <<Take, If(Ids \union {"let", "mut", "int"},
               <<Take, Expect("("), Call("params"), Expect(")"), ReturnType, Call("block"), Build("fn", Height)>>,
               <<Fail>>)>>
params == <<Unless({")", EOF}, <<Maybe("mut"), Named(<<Take, Annotation, Initialiser,
                                                       On({","}, <<Take, Call("params")>>)>>)>>)>>

parse_enum_decl == <<Take, Named(<<Take, Expect("{"), Call("variants"), Expect("}"), Build("enum", Height)>>)>>
variants == <<Unless({"}", EOF},
                <<If(Ids, <<Take, On({"("}, <<Take, Call("type"), Expect(")")>>), On({","}, <<Take, Call("variants")>>)>>,
                          <<Fail, Take, Call("variants")>>)>>)>>

SectionKinds == {"public", "private"}
class == <<Take, Named(<<Take, Expect("{"), Call("sections"), Expect("}"), Build("class", Height)>>)>>
sections == <<Unless({"}", EOF},
                <<If(SectionKinds, <<Call("section")>>, Unexpected), Call("sections")>>)>>
section == <<Take, Expect("{"), Call("members"), Expect("}"),
             Build(IF cur = "public" THEN "public" ELSE "private", Height)>>

\* Mutant (of member): a token that begins no member is reported and left where it is.
member_StaysPut ==
    CASE cur = "fn" -> <<Call("fn_decl")>>
      [] cur \in {"let", "mut"} -> <<Call("var_decl")>>
      [] cur \in Ids -> <<Take, Expect(":"), Call("type"), Expect(";"), Build("var", Height)>>
      [] OTHER -> <<Fail>>

\* parse_class_body.
member ==
    CASE cur = "fn" -> <<Call("fn_decl")>>
      [] cur \in {"let", "mut"} -> <<Call("var_decl")>>
      [] cur \in Ids -> <<Take, Expect(":"), Call("type"), Expect(";"), Build("var", Height)>>
      [] OTHER -> Unexpected
members == <<Unless({"}", EOF}, <<Call("member"), Call("members")>>)>>

parse_top_level ==
    CASE cur = "fn" -> <<Call("fn_decl")>>
      [] cur = "enum" -> <<Call("enum_decl")>>
      [] cur = "class" -> <<Call("class")>>
      [] cur = "const" -> <<Call("var_decl")>>
      [] cur = "region" -> <<Call("region")>>
      [] cur = "comptime" -> <<Call("comptime")>>
      [] cur = "type" -> <<Take, Named(<<Take, Expect("="), Call("type"), Maybe(";"), Build("alias", Height)>>)>>
      [] OTHER -> Unexpected
program == <<Unless({EOF}, <<Call("top_level"), Call("program")>>)>>

\* What the function f does, by the tokens it is called at.
Code(f, n) ==
    CASE f = "type" -> parse_type             [] f = "types" -> types
      [] f = "type_args" -> type_args(n)      [] f = "primary" -> parse_primary
      [] f = "args" -> List("args", ")")      [] f = "elems" -> List("elems", "]")
      [] f = "arguments" -> arguments         [] f = "condition" -> condition
      [] f = "lambda_params" -> lambda_params [] f = "fields" -> fields
      [] f = "postfix" -> postfix             [] f = "unary" -> parse_unary
      [] f = "binary" -> <<Call("unary"), CallAt("binary_loop", n)>>
      [] f = "binary_loop" -> binary(n)       [] f = "assign" -> assign
      [] f = "expr" -> <<CallAt("binary", 0), Call("assign")>>
      [] f = "stmt" -> parse_stmt             [] f = "stmts" -> stmts
      [] f = "block" -> parse_block           [] f = "var_decl" -> parse_var_decl
      [] f = "comptime" -> comptime           [] f = "if" -> parse_if
      [] f = "for" -> for(n)                  [] f = "arms" -> arms
      [] f = "arm" -> parse_match_arm         [] f = "pattern" -> pattern
      [] f = "region" -> parse_region
      [] f = "fn_decl" -> parse_fn_decl       [] f = "params" -> params
      [] f = "enum_decl" -> parse_enum_decl   [] f = "variants" -> variants
      [] f = "class" -> class                 [] f = "sections" -> sections
      [] f = "section" -> section             [] f = "members" -> members
      [] f = "member" -> member
      [] f = "top_level" -> parse_top_level
      [] f = "program" -> program

-----------------------------------------------------------------------------
\* Trees.
Leaf(t) == [kind |-> "token", text |-> <<t>>, level |-> 12, open |-> FALSE, grouped |-> TRUE, repeats |-> FALSE]

PostfixKinds == {"method", "field", "call", "index", "postfix", "try", "conditional", "cast"}

\* How strongly a tree of these parts holds together.
Level(kind, parts) == CASE kind = "assign" -> -1
                        [] kind = "binary" -> bin_prec(parts[2].text[1])
                        [] kind = "unary" -> 11
                        [] OTHER -> 12

\* Whether the tree would have gone on had there been more of its last part.
OpenEnded(kind, last) == \/ kind \in {"assign", "conditional"}
                         \/ kind = "lambda" /\ last.kind # "block"
                         \/ kind \in {"unary", "binary"} /\ last.open

\* Operators bind by their precedence and group to the left, "? :" and "="
\* take all that follows.
Groups(kind, level, first, last) ==
    CASE kind = "binary" -> first.level >= level /\ last.level > level /\ ~first.open
      [] kind = "unary" -> last.level >= level
      [] kind \in PostfixKinds -> first.level >= level /\ ~first.open
      [] kind = "assign" -> first.level > level /\ ~first.open
      [] OTHER -> TRUE

\* A class has one list of members of either kind, which a later section replaces.
Replaced(parts, i) == /\ parts[i].kind \in SectionKinds
                      /\ \E j \in i + 1 .. Len(parts) : parts[j].kind = parts[i].kind
LastSections(parts) ==
    [i \in DOMAIN parts |-> IF Replaced(parts, i) THEN [parts[i] EXCEPT !.text = << >>] ELSE parts[i]]

\* What the trees spell one after the other.
Spelled(trees) ==
    LET upto[i \in 0 .. Len(trees)] == IF i = 0 THEN << >> ELSE upto[i - 1] \o trees[i].text
    IN  upto[Len(trees)]

Node(kind, parts) ==
    LET first == parts[1]
        last == parts[Len(parts)]
        level == Level(kind, parts)
    IN  [kind |-> kind,
         text |-> Spelled(IF kind = "class" THEN LastSections(parts) ELSE parts),
         level |-> level,
         open |-> OpenEnded(kind, last),
         grouped |-> Groups(kind, level, first, last) /\ \A i \in DOMAIN parts : parts[i].grouped,
         repeats |-> \E i \in DOMAIN parts : parts[i].repeats \/ (kind = "class" /\ Replaced(parts, i))]

\* The lexer: any token the source has room for, or what comes after.
Tokens(in) ==
    IF in.before # << >> THEN {[token |-> Head(in.before), left |-> [in EXCEPT !.before = Tail(@)]]}
    ELSE LET end == Append(in.after, EOF)
         IN  {[token |-> end[1], left |-> [in EXCEPT !.before = Tail(end), !.after = << >>, !.room = 0]]}
             \union (IF in.room = 0 THEN {}
                     ELSE {[token |-> t, left |-> [in EXCEPT !.room = @ - 1]] : t \in in.tokens})

\* parser_new
PInit == \E s \in Sources : \E first \in Tokens(s) : \E second \in Tokens(first.left) :
            /\ cur = first.token /\ peek = second.token /\ input = second.left
            /\ stack = <<Call("program")>>
            /\ values = << >> /\ text = << >>
            /\ had_error = FALSE /\ no_struct_lit = 0

Due(what) == stack # << >> /\ Head(stack).do = what
Rest == Tail(stack)

\* adv(p)
Adv ==
    /\ \E next \in Tokens(input) : peek' = next.token /\ input' = next.left
    /\ cur' = peek
    /\ values' = IF had_error THEN << >> ELSE Append(values, Leaf(cur))
    /\ text' = IF had_error THEN << >> ELSE Append(text, cur)
    /\ stack' = Rest
    /\ UNCHANGED <<had_error, no_struct_lit>>

\* err(p)
Err ==
    /\ had_error' = TRUE /\ values' = << >> /\ text' = << >>
    /\ stack' = Rest
    /\ UNCHANGED <<cur, peek, input, no_struct_lit>>

Step(pushed) ==
    /\ stack' = pushed \o Rest
    /\ UNCHANGED <<cur, peek, input, values, text, had_error, no_struct_lit>>

DoTake == Due("take") /\ Adv
DoFail == Due("fail") /\ Err
DoExpect == Due("expect") /\ IF cur = Head(stack).t THEN Adv ELSE Err
DoMaybe == Due("maybe") /\ IF cur = Head(stack).t THEN Adv ELSE Step(<< >>)
DoIf == Due("if") /\ Step(IF cur \in Head(stack).ts THEN Head(stack).then ELSE Head(stack).els)
DoCall == Due("call") /\ Step(Code(Head(stack).f, Head(stack).n))
DoNest ==
    /\ Due("nest")
    /\ no_struct_lit' = no_struct_lit + Head(stack).by
    /\ stack' = Rest
    /\ UNCHANGED <<cur, peek, input, values, text, had_error>>
DoBuild ==
    /\ Due("build")
    /\ values' = LET n == Head(stack).n
                 IN  IF had_error THEN << >>
                     ELSE Append(SubSeq(values, 1, n), Node(Head(stack).kind, SubSeq(values, n + 1, Height)))
    /\ stack' = Rest
    /\ UNCHANGED <<cur, peek, input, text, had_error, no_struct_lit>>

PNext == DoTake \/ DoFail \/ DoExpect \/ DoMaybe \/ DoIf \/ DoCall \/ DoNest \/ DoBuild

PSpec == PInit /\ [][PNext]_pvars /\ WF_pvars(PNext)

-----------------------------------------------------------------------------
Ended == stack = << >>

\* The parser comes to an end on every text, however it is wrong: each loop
\* consumes a token on every path round, error paths included.
Terminates == <>Ended

DeclarationKinds == {"fn", "enum", "class", "var", "region", "comptime", "alias"}

\* The trees of an accepted text are the declarations it consists of: they
\* spell it, no token lost or out of place, and group operators as declared.
\* (A class that repeats a section loses the members of the first.)
TreesSpellText ==
    Ended /\ ~had_error =>
        /\ (\A i \in DOMAIN values : ~values[i].repeats) => Spelled(values) = text
        /\ \A i \in DOMAIN values : values[i].kind \in DeclarationKinds /\ values[i].grouped
=============================================================================
