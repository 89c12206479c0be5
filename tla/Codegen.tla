------------------------------- MODULE Codegen -------------------------------
(***************************************************************************)
(* The code generator on statements (codegen.c: emit_stmt, emit_block,     *)
(* emit_ret_with_defers, the lambda case of emit_expr, emit_fn_decl).  The *)
(* generator's state is the record g; every operator below returns the     *)
(* state after the C function of its name.                                 *)
(*                                                                         *)
(* Expressions are opaque: evaluating one is a single instruction "event". *)
(* A condition and the br_cond that uses it are one instruction "test"; a  *)
(* br_cond on the literal 1 or 0 is "if1" or "if0".  Only the index of a   *)
(* for-in has a value: "set" stores its first one, "inc" adds one to it,   *)
(* "guard" compares it with the last and branches.                         *)
(***************************************************************************)
EXTENDS Structured, SequencesExt

CONSTANT MAX_DEFERS

NoLabel == -1
Entry == 0

Start0 == [fns |-> <<>>,           \* mod.fns: the blocks of each function, in order
           cur |-> 0,              \* mod.cur_fn
           lbl |-> Entry,          \* the label counter
           break_label |-> NoLabel, cont_label |-> NoLabel,
           defers |-> <<>>,        \* defer_stack[0..ndefers-1]
           base |-> 0]             \* fn_defer_base

Forks == {"test", "if1", "if0", "guard"}
Terminators == Forks \union {"br", "ret", "unreachable"}
Instr(op, ev, to, els) == [op |-> op, ev |-> ev, to |-> to, els |-> els, head |-> NoHeader]
NoEvent == Event("none", <<>>)
Branch(l) == Instr("br", NoEvent, l, NoLabel)
Ret == Instr("ret", Event("ret", <<>>), NoLabel, NoLabel)
Unreachable == Instr("unreachable", NoEvent, NoLabel, NoLabel)

Blocks(g) == g.fns[g.cur]
CurBlock(g) == Blocks(g)[Len(Blocks(g))]

emit_instr(g, instr) == [g EXCEPT !.fns[g.cur][Len(Blocks(g))].code = Append(@, instr)]
new_block(g, l) == [g EXCEPT !.fns[g.cur] = Append(@, [label |-> l, code |-> <<>>])]
newlbls(g, n) == [g EXCEPT !.lbl = @ + n]

emit_event(g, what, at) == emit_instr(g, Instr("event", Event(what, at), NoLabel, NoLabel))
emit_test(g, at, t, f) == emit_instr(g, Instr("test", Event("test", at), t, f))
emit_br(g, l) == emit_instr(g, Branch(l))
emit_index(g, op, s, t, f) == emit_instr(g, [Instr(op, Event("none", s.at), t, f) EXCEPT !.head = s.head])

last_instr_is_term(g) == LET code == CurBlock(g).code
                         IN  code # <<>> /\ code[Len(code)].op \in Terminators
BrUnlessTerm(g, l) == IF last_instr_is_term(g) THEN g ELSE emit_br(g, l)

\* A label of its own for what follows a jump, which nothing reaches.
DeadBlock(g) == LET g1 == newlbls(g, 1) IN new_block(g1, g1.lbl)

RECURSIVE emit_stmt(_, _)
emit_block(g, body) == FoldLeft(emit_stmt, g, body)

-----------------------------------------------------------------------------
(* Leaving the function *)

\* Mutant: the defers run in the order they were written.
emit_defers_Fifo(g) ==
    FoldLeft(LAMBDA h, s : emit_event(h, "defer", s.at), g, SubSeq(g.defers, g.base + 1, Len(g.defers)))

\* The defers of the function being generated, those of enclosing ones aside.
emit_defers(g) ==
    FoldLeft(LAMBDA h, s : emit_event(h, "defer", s.at), g,
             Reverse(SubSeq(g.defers, g.base + 1, Len(g.defers))))

emit_ret_with_defers(g) == DeadBlock(emit_instr(emit_defers(g), Ret))

emit_return(g, s) == emit_ret_with_defers(emit_event(g, "return", s.at))

\* A defer beyond the limit is dropped.
emit_defer(g, s) == IF Len(g.defers) < MAX_DEFERS THEN [g EXCEPT !.defers = Append(@, s)] ELSE g

-----------------------------------------------------------------------------
(* Conditionals *)

emit_if(g0, s) ==
    LET g == newlbls(g0, 3)
        tl == g.lbl - 2
        fl == g.lbl - 1
        ml == g.lbl
        g1 == emit_test(g, s.at, tl, IF s.form = "ifelse" THEN fl ELSE ml)
        g2 == BrUnlessTerm(emit_block(new_block(g1, tl), s.body), ml)
        g3 == IF s.form = "ifelse" THEN BrUnlessTerm(emit_block(new_block(g2, fl), s.els), ml) ELSE g2
    IN  new_block(g3, ml)

\* After a wildcard arm the tests of later arms go into the block that arm
\* left, behind its branch.
emit_arm(g0, arm, al, end_l) ==
    IF arm.form = "wildcard"
    THEN LET g1 == new_block(emit_br(g0, al), al)
         IN  BrUnlessTerm(emit_block(g1, arm.body), end_l)
    ELSE LET g == newlbls(g0, 1)
             next_l == g.lbl
             g1 == new_block(emit_test(g, arm.at, al, next_l), al)
         IN  new_block(BrUnlessTerm(emit_block(g1, arm.body), end_l), next_l)

emit_match(g0, s) ==
    LET n == Len(s.body)
        g == newlbls(g0, 1 + n)
        end_l == g.lbl - n
        g1 == FoldLeftDomain(LAMBDA h, i : emit_arm(h, s.body[i], end_l + i, end_l), g, s.body)
    IN  new_block(BrUnlessTerm(g1, end_l), end_l)

\* A panic ends the program: no defers, and nothing after it is reached.
emit_panic(g, s) == DeadBlock(emit_instr(emit_event(g, "panic", s.at), Unreachable))

emit_assert(g0, s) ==
    LET g == newlbls(g0, 2)
        okl == g.lbl - 1
        fll == g.lbl
        g0b == CASE s.form = "assert" -> emit_test(g, s.at, okl, fll)
                 [] s.form = "assert_true" -> emit_instr(g, Instr("if1", NoEvent, okl, fll))
                 [] s.form = "assert_false" -> emit_instr(g, Instr("if0", NoEvent, okl, fll))
        g1 == new_block(g0b, fll)
    IN  new_block(emit_instr(emit_event(g1, "panic", s.at), Unreachable), okl)

-----------------------------------------------------------------------------
(* Loops *)

WithLabels(g, brk, cnt) == [g EXCEPT !.break_label = brk, !.cont_label = cnt]
RestoreLabels(g, g0) == WithLabels(g, g0.break_label, g0.cont_label)

emit_while(g0, s) ==
    LET g == WithLabels(newlbls(g0, 3), g0.lbl + 3, g0.lbl + 1)
        hl == g.lbl - 2
        bl == g.lbl - 1
        el == g.lbl
        g1 == new_block(BrUnlessTerm(g, hl), hl)
        g2 == new_block(emit_test(g1, s.at, bl, el), bl)
        g3 == BrUnlessTerm(emit_block(g2, s.body), hl)
    IN  RestoreLabels(new_block(g3, el), g0)

\* Mutant: the body ends in a branch to itself, past the condition.
emit_do_while_SkipsTest(g0, s) ==
    LET g == WithLabels(newlbls(g0, 3), g0.lbl + 3, g0.lbl + 2)
        bl == g.lbl - 2
        hl == g.lbl - 1
        el == g.lbl
        g1 == new_block(BrUnlessTerm(g, bl), bl)
        g2 == new_block(BrUnlessTerm(emit_block(g1, s.body), bl), hl)
    IN  RestoreLabels(new_block(emit_test(g2, s.at, bl, el), el), g0)

emit_do_while(g0, s) ==
    LET g == WithLabels(newlbls(g0, 3), g0.lbl + 3, g0.lbl + 2)
        bl == g.lbl - 2
        hl == g.lbl - 1
        el == g.lbl
        g1 == new_block(BrUnlessTerm(g, bl), bl)
        g2 == new_block(BrUnlessTerm(emit_block(g1, s.body), hl), hl)
    IN  RestoreLabels(new_block(emit_test(g2, s.at, bl, el), el), g0)

\* A part of the header that is missing leaves no instruction.
emit_part(g, s, part) == IF part \in s.head.parts THEN emit_event(g, part, s.at) ELSE g

emit_for_c(g0, s) ==
    LET g == WithLabels(newlbls(g0, 4), g0.lbl + 4, g0.lbl + 3)
        hl == g.lbl - 3
        bl == g.lbl - 2
        sl == g.lbl - 1
        el == g.lbl
        g1 == new_block(BrUnlessTerm(emit_part(g, s, "init"), hl), hl)
        g2 == IF "test" \in s.head.parts THEN emit_test(g1, s.at, bl, el) ELSE emit_br(g1, bl)
        g3 == BrUnlessTerm(emit_block(new_block(g2, bl), s.body), sl)
        g4 == BrUnlessTerm(emit_part(new_block(g3, sl), s, "step"), hl)
    IN  RestoreLabels(new_block(g4, el), g0)

\* The increment ends the body itself; continue goes to the header, past it.
emit_for_in(g0, s) ==
    LET g == WithLabels(newlbls(g0, 3), g0.lbl + 3, g0.lbl + 1)
        hl == g.lbl - 2
        bl == g.lbl - 1
        el == g.lbl
        g1 == emit_index(emit_event(g, "init", s.at), "set", s, NoLabel, NoLabel)
        g2 == new_block(BrUnlessTerm(g1, hl), hl)
        g3 == emit_block(new_block(emit_index(g2, "guard", s, bl, el), bl), s.body)
        g4 == IF last_instr_is_term(g3) THEN g3
              ELSE emit_br(emit_index(g3, "inc", s, NoLabel, NoLabel), hl)
    IN  RestoreLabels(new_block(g4, el), g0)

Jump(g, l) == DeadBlock(emit_instr(g, IF l = NoLabel THEN Unreachable ELSE Branch(l)))

\* break first runs every defer of the function, continue none.
emit_break(g) == Jump(emit_defers(g), g.break_label)
emit_continue(g) == Jump(g, g.cont_label)

-----------------------------------------------------------------------------
(* Regions, lambdas, functions *)

emit_region(g, s) == emit_event(emit_block(emit_event(g, "region", s.at), s.body), "pop", s.at)

\* The function a lambda becomes is generated in the middle of its enclosing
\* one.  Its end runs no defers; break and continue labels stay as they are.
emit_lambda(g, s) ==
    LET g1 == [g EXCEPT !.fns = Append(@, <<>>), !.cur = Len(g.fns) + 1, !.base = Len(g.defers)]
        g2 == emit_block(new_block(g1, Entry), s.body)
        g3 == IF last_instr_is_term(g2) THEN g2 ELSE emit_instr(g2, Ret)
    IN  emit_event([g3 EXCEPT !.cur = g.cur, !.base = g.base, !.defers = SubSeq(@, 1, Len(g.defers))],
                   "lambda", s.at)

emit_fn_decl(g, body) ==
    LET g1 == [g EXCEPT !.fns = Append(@, <<>>), !.cur = Len(g.fns) + 1, !.base = Len(g.defers)]
        g2 == emit_block(new_block(g1, Entry), body)
        g3 == IF last_instr_is_term(g2) THEN g2 ELSE emit_instr(emit_defers(g2), Ret)
    IN  [g3 EXCEPT !.defers = SubSeq(@, 1, Len(g.defers)), !.base = g.base, !.cur = 0]

emit_stmt(g, s) ==
    CASE s.form = "mark" -> emit_event(g, "mark", s.at)
      [] s.form \in {"assert", "assert_true", "assert_false"} -> emit_assert(g, s)
      [] s.form = "panic" -> emit_panic(g, s)
      [] s.form = "defer" -> emit_defer(g, s)
      [] s.form = "return" -> emit_return(g, s)
      [] s.form = "break" -> emit_break(g)
      [] s.form = "continue" -> emit_continue(g)
      [] s.form \in {"if", "ifelse"} -> emit_if(g, s)
      [] s.form = "match" -> emit_match(g, s)
      [] s.form = "while" -> emit_while(g, s)
      [] s.form = "do" -> emit_do_while(g, s)
      [] s.form = "for" -> emit_for_c(g, s)
      [] s.form = "forin" -> emit_for_in(g, s)
      [] s.form = "block" -> emit_block(g, s.body)
      [] s.form = "region" -> emit_region(g, s)
      [] s.form = "lambda" -> emit_lambda(g, s)
=============================================================================
