----------------------------- MODULE Statements -----------------------------
(***************************************************************************)
(* Function bodies, as the parser builds them (parse_stmt) and as far as   *)
(* control flow goes: expressions are opaque, a statement is its form and  *)
(* the statements inside it.                                               *)
(***************************************************************************)
EXTENDS Naturals, Sequences

\* Programs are made of the forms of one family, up to its number of nodes,
\* its C style loops having the parts, its for-ins the ranges it lists.
CONSTANT Families

\* assert and panic: the calls @assert and @panic as statements; assert_true
\* and assert_false: @assert of a literal, or of nothing.
Leaves == {"mark", "assert", "assert_true", "assert_false", "panic", "defer", "break", "continue", "return"}
Loops == {"while", "do", "for", "forin"}
Nests == Loops \union {"if", "block", "region", "lambda"}
AllForms == Leaves \union Nests \union {"ifelse", "match"}

\* The header of a loop: which parts a C style one has, each of them optional
\* (parser.c 588-611), and the values a for-in runs over, from a first to a
\* last one that is included or not.  for x in e, with e no range, is 0..e.
Parts == {"init", "test", "step"}
Header == [parts : SUBSET Parts, from : Nat, to : Nat, incl : BOOLEAN]
NoHeader == [parts |-> {}, from |-> 0, to |-> 0, incl |-> FALSE]
Goes(h) == IF h.incl THEN h.from <= h.to ELSE h.from < h.to

\* The comparison generated for a for-in is typed i1 (codegen.c 1934), and
\* llvm_emit.c cuts its operands to that (108-112, 373-376): their lowest
\* bits are compared, an odd number standing for -1.
OneBitGoes(h) == LET a == h.from % 2
                     b == h.to % 2
                 IN  IF h.incl THEN a >= b ELSE a > b

\* Whether that makes no difference for any value the loop tests.  It does for
\* every range of two values or more.
FitsOneBit(h) ==
    \A i \in h.from .. (h.to + 1) \union {h.from} :
        LET now == [h EXCEPT !.from = i]
        IN  (i = h.from \/ Goes([h EXCEPT !.from = i - 1])) => (Goes(now) <=> OneBitGoes(now))

ASSUME FamiliesAssumption ==
    Families \subseteq [forms : SUBSET AllForms, size : Nat, parts : SUBSET SUBSET Parts, ranges : SUBSET Header]

Headed(form, head, body, els) == [form |-> form, at |-> <<>>, head |-> head, body |-> body, els |-> els]
Node(form, body, els) == Headed(form, NoHeader, body, els)

\* The headers of a form.  Ranges the generated loop does not run over as the
\* program says are left out.
Headers(form, family) == CASE form = "for" -> {[NoHeader EXCEPT !.parts = ps] : ps \in family.parts}
                           [] form = "forin" -> {h \in family.ranges : FitsOneBit(h)}
                           [] OTHER -> {NoHeader}

\* Where a statement may stand: outside loops, in a loop, in a for-in.
Inside(form, where) == CASE form = "lambda" -> "function"
                         [] form = "forin" -> "forin"
                         [] form \in Loops \ {"forin"} -> "loop"
                         [] OTHER -> where

\* break needs a loop.  continue needs one that is not a for-in: there the
\* generated jump skips the increment (codegen.c 1914, 1940-1949).
Placeable(form, where) == CASE form = "break" -> where # "function"
                            [] form = "continue" -> where = "loop"
                            [] OTHER -> TRUE

RECURSIVE Bodies(_, _, _), Arms(_, _, _)

StmtsOf(n, where, family) ==
    LET forms == family.forms
        nested(form) == Bodies(n - 1, Inside(form, where), family)
    IN  {Node(form, <<>>, <<>>) : form \in {f \in Leaves \intersect forms :
                                               n = 1 /\ Placeable(f, where)}}
        \union UNION {{Headed(form, h, b, <<>>) : h \in Headers(form, family), b \in nested(form)}
                        : form \in Nests \intersect forms}
        \union (IF "ifelse" \in forms
                THEN UNION {{Node("ifelse", b, e) :
                                b \in Bodies(i, where, family), e \in Bodies(n - 1 - i, where, family)}
                               : i \in 0..(n - 1)}
                ELSE {})
        \union (IF "match" \in forms /\ n > 1
                THEN {Node("match", arms, <<>>) : arms \in Arms(n - 1, where, family)} ELSE {})

\* All bodies and all lists of match arms of n nodes.
Bodies(n, where, family) ==
    IF n = 0 THEN {<<>>}
    ELSE UNION {{<<s>> \o b : s \in StmtsOf(m, where, family), b \in Bodies(n - m, where, family)} : m \in 1..n}

Arms(n, where, family) ==
    IF n = 0 THEN {<<>>}
    ELSE UNION {{<<Node(form, s, <<>>)>> \o rest :
                    form \in {"arm", "wildcard"},
                    s \in Bodies(m - 1, where, family), rest \in Arms(n - m, where, family)}
                  : m \in 1..n}

\* Every node with its position: the path from the body that holds it.
RECURSIVE Placed(_, _)
Placed(body, path) ==
    [i \in DOMAIN body |->
        [body[i] EXCEPT !.at = Append(path, i),
                        !.body = Placed(@, path \o <<i, 1>>),
                        !.els = Placed(@, path \o <<i, 2>>)]]

\* The statements of a function in textual order, those of its lambdas aside.
RECURSIVE Text(_)
Text(body) ==
    IF body = <<>> THEN <<>>
    ELSE LET s == Head(body)
             inner == IF s.form = "lambda" THEN <<>> ELSE Text(s.body) \o Text(s.els)
         IN  <<s>> \o inner \o Text(Tail(body))

IsDefer(s) == s.form = "defer"
DefersOf(body) == SelectSeq(Text(body), IsDefer)

\* The lambdas in a body, nested ones included, outermost first.
RECURSIVE LambdasOf(_)
LambdasOf(body) ==
    IF body = <<>> THEN <<>>
    ELSE LET s == Head(body)
         IN  (IF s.form = "lambda" THEN <<s>> ELSE <<>>)
             \o LambdasOf(s.body) \o LambdasOf(s.els) \o LambdasOf(Tail(body))

\* No defers are generated where a lambda falls off its end (codegen.c
\* 1656-1667), so one that has any must end in a return.
LambdasReturn(body) ==
    LET ls == LambdasOf(body)
    IN  \A i \in DOMAIN ls : DefersOf(ls[i].body) # <<>> => ls[i].body[Len(ls[i].body)].form = "return"

\* The programs of n nodes.
Programs(n, family) == {Placed(b, <<>>) : b \in {b \in Bodies(n, "function", family) : LambdasReturn(b)}}
=============================================================================
