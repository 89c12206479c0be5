------------------------------- MODULE MirOpt -------------------------------
(***************************************************************************)
(* From FIR to what LLVM is given: the control flow passes of mir_opt      *)
(* (opt.c 189-278) and emit_fn_body (llvm_emit.c 558-599).  Conditions are  *)
(* temporaries, which no pass makes constant, but for literal assertions:  *)
(* those are what simplify_br finds.                                       *)
(***************************************************************************)
EXTENDS Codegen

\* remove_trailing_after_term keeps the first terminator and what precedes it.
remove_trailing_after_term(block) ==
    LET term == {i \in DOMAIN block.code : block.code[i].op \in Terminators}
    IN  [block EXCEPT !.code = IF term = {} THEN @ ELSE SubSeq(@, 1, Min(term))]

\* Mutant: a conditional branch keeps only its first target alive.
Targets_FirstOnly(block) ==
    IF block.code = <<>> THEN {}
    ELSE LET last == block.code[Len(block.code)]
         IN  IF last.op \in Forks \union {"br"} THEN {last.to} ELSE {}

Targets(block) ==
    IF block.code = <<>> THEN {}
    ELSE LET last == block.code[Len(block.code)]
         IN  CASE last.op = "br" -> {last.to}
               [] last.op \in Forks -> {last.to, last.els}
               [] OTHER -> {}

\* mark_dead_blocks: the positions reached from the first block.
RECURSIVE Reached(_, _)
Reached(blocks, live) ==
    LET labels == UNION {Targets(blocks[i]) : i \in live}
        next == live \union {i \in DOMAIN blocks : blocks[i].label \in labels}
    IN  IF next = live THEN live ELSE Reached(blocks, next)

\* simplify_br, on one block: a branch on a literal becomes one to the label
\* that literal selects.
simplify_br(block) ==
    LET last == block.code[Len(block.code)]
    IN  IF block.code = <<>> \/ last.op \notin {"if1", "if0"} THEN block
        ELSE [block EXCEPT !.code[Len(block.code)] = Branch(IF last.op = "if1" THEN last.to ELSE last.els)]

mir_opt(blocks) ==
    LET cut == [i \in DOMAIN blocks |-> remove_trailing_after_term(blocks[i])]
        live == Reached(cut, {1})
        simple == [i \in DOMAIN cut |-> IF i \in live THEN simplify_br(cut[i]) ELSE cut[i]]
        alive == Reached(simple, {1})
    IN  SelectSeq([i \in DOMAIN cut |-> [simple[i] EXCEPT !.label = IF i \in alive THEN @ ELSE NoLabel]],
                  LAMBDA b : b.label # NoLabel)

\* emit_fn_body: the code of each label, up to the first terminator.  bget
\* finds the first block of a label.
Lowered(blocks) ==
    [l \in {blocks[i].label : i \in DOMAIN blocks} |->
        LET code == remove_trailing_after_term(SelectSeq(blocks, LAMBDA b : b.label = l)[1]).code
        IN  IF code # <<>> /\ code[Len(code)].op \in Terminators THEN code ELSE Append(code, Unreachable)]
=============================================================================
