------------------------------ MODULE Compiled ------------------------------
(***************************************************************************)
(* Generated code run side by side with the program it was generated from. *)
(* A behaviour picks a program, one of the functions generated for it (its *)
(* body or a lambda) and whether the optimizer ran, then executes both:    *)
(* whatever nothing observes on one side alone, events on both at once,    *)
(* with every outcome of every test.                                       *)
(***************************************************************************)
EXTENDS MirOpt

VARIABLES code,    \* what LLVM is given for the function: code by label
          pc,      \* label and number of the next instruction
          index,   \* what the index of each for-in entered so far holds
          left,    \* what is left of the program, see Structured
          ran      \* history: the defers that ran, in order

vars == <<code, pc, index, left, ran>>

Functions(body) == <<body>> \o [i \in DOMAIN LambdasOf(body) |-> LambdasOf(body)[i].body]

\* Lambdas are generated inner ones last, after the body that holds them.
Init == \E f \in Families : \E n \in 1..f.size : \E prog \in Programs(n, f) :
            LET fns == emit_fn_decl(Start0, prog).fns
            IN  \E i \in DOMAIN fns, opt \in BOOLEAN :
                   /\ code = Lowered(IF opt THEN mir_opt(fns[i]) ELSE fns[i])
                   /\ left = Start(Functions(prog)[i])
                   /\ pc = <<Entry, 1>>
                   /\ index = <<>>
                   /\ ran = <<>>

Instruction(p) == code[p[1]][p[2]]
Here == Instruction(pc)
Ended == left = <<>>

\* A branch to a block that does not exist is unreachable code.
Exists(l) == l \in DOMAIN code
Stuck == /\ ~Ended
         /\ \/ Here.op = "unreachable"
            \/ Here.op \in Forks \union {"br"} /\ ~Exists(Here.to)

\* Instructions nothing observes, and where each leads.
Quiet == {"br", "if1", "if0", "set", "inc", "guard"}
FollowPast(p, ix) ==
    LET in == Instruction(p)
        goes == OneBitGoes([in.head EXCEPT !.from = ix[in.ev.at]])
    IN  CASE in.op \in {"set", "inc"} -> <<p[1], p[2] + 1>>
          [] in.op \in {"br", "if1"} -> <<in.to, 1>>
          [] in.op = "if0" -> <<in.els, 1>>
          [] in.op = "guard" -> <<IF goes THEN in.to ELSE in.els, 1>>
IndexPast(p, ix) ==
    LET in == Instruction(p)
    IN  CASE in.op = "set" -> (in.ev.at :> in.head.from) @@ ix
          [] in.op = "inc" -> [ix EXCEPT ![in.ev.at] = @ + 1]
          [] OTHER -> ix

GeneratedSilent == ~Ended /\ ~Stuck /\ Here.op \in Quiet
ProgramSilent == ~Ended /\ IsSilent(left)

Agree == ~Stuck /\ Here.op \notin Quiet /\ ~IsSilent(left) /\ Here.ev = Observed(left)

\* Generated code goes on by itself.
Go == /\ GeneratedSilent
      /\ pc' = FollowPast(pc, index)
      /\ index' = IndexPast(pc, index)
      /\ UNCHANGED <<code, left, ran>>

\* The program goes on by itself, generated code waiting at an event.
Think == /\ ProgramSilent /\ ~GeneratedSilent
         /\ left' = Silent(left)
         /\ UNCHANGED <<code, pc, index, ran>>

\* Both perform an event, the same one unless FollowsProgram is violated:
\* then generated code goes on alone.
Observe ==
    /\ ~Ended /\ ~Stuck /\ ~GeneratedSilent /\ ~ProgramSilent
    /\ \E outcome \in BOOLEAN :
          /\ pc' = CASE Here.op = "test" /\ outcome -> <<Here.to, 1>>
                     [] Here.op = "test" /\ ~outcome -> <<IF Exists(Here.els) THEN Here.els ELSE Here.to, 1>>
                     [] Here.op = "ret" -> pc
                     [] OTHER -> <<pc[1], pc[2] + 1>>
          /\ left' = IF Agree THEN After(left, outcome) ELSE left
    /\ ran' = IF Here.ev.what = "defer" THEN Append(ran, Here.ev.at) ELSE ran
    /\ UNCHANGED <<code, index>>

Next == Go \/ Think \/ Observe

Spec == Init /\ [][Next]_vars

-----------------------------------------------------------------------------
\* What generated code does next is what the program does next: every branch
\* leads where the statement says, through loops, match arms, dead blocks,
\* lambdas generated on the way and the optimizer; a returned value comes
\* before the defers; and control never reaches an unreachable.
FollowsProgram ==
    ~Ended /\ ~GeneratedSilent /\ ~ProgramSilent => Agree

\* A defer runs at most once per call, after those written later.
DefersRunOnceInReverse ==
    \A i \in 1..(Len(ran) - 1) :
        LET p == ran[i]
            q == ran[i + 1]
        IN  \E d \in DOMAIN p : /\ d \in DOMAIN q
                                /\ q[d] < p[d]
                                /\ \A e \in 1..(d - 1) : p[e] = q[e]

\* Whether generated code goes on for ever from p without an event, and without
\* reaching a label that does not exist.
RECURSIVE Circles(_, _, _)
Circles(p, ix, seen) ==
    /\ Exists(p[1]) /\ Instruction(p).op \in Quiet
    /\ <<p, ix>> \in seen \/ Circles(FollowPast(p, ix), IndexPast(p, ix), seen \union {<<p, ix>>})

\* Generated code comes to an event exactly where the program does: it runs in
\* a circle of bare branches only where the program says so, as in for (;;) {},
\* and never leaves a loop the program would be in for ever.
ComesToAnEvent == ~Ended => (Circles(pc, index, {}) <=> Idles(left, {}))
=============================================================================
