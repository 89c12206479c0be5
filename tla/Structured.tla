----------------------------- MODULE Structured -----------------------------
(***************************************************************************)
(* What a function body means: structured execution, one observable event  *)
(* at a time.  A control state is the sequence of what is left to execute; *)
(* its head is a statement about to be entered or a phase of one that was. *)
(* This is the abstract specification generated code is held against.      *)
(***************************************************************************)
EXTENDS Statements

\* A phase other than "enter" exists only in control states.
Todo(s, phase) == [form |-> s.form, at |-> s.at, head |-> s.head, body |-> s.body, els |-> s.els, phase |-> phase]
Enter(body) == [i \in DOMAIN body |-> Todo(body[i], "enter")]

\* The end of a function: an item of its own, holding the function's body.
Start(body) == Enter(body) \o << Todo(Node("end", body, <<>>), "enter") >>

IsLoopEnd(s) == s.form \in Loops /\ s.phase # "enter"

\* break leaves the innermost loop, continue begins its next round.
AfterLoop(k) == LET i == CHOOSE i \in DOMAIN k : IsLoopEnd(k[i]) /\ \A j \in 1..(i - 1) : ~IsLoopEnd(k[j])
                IN  SubSeq(k, i + 1, Len(k))
NextRound(k) == LET i == CHOOSE i \in DOMAIN k : IsLoopEnd(k[i]) /\ \A j \in 1..(i - 1) : ~IsLoopEnd(k[j])
                IN  SubSeq(k, i, Len(k))

\* Leaving the function at s runs the defers written before s, last first.
RECURSIVE Unwound(_)
Unwound(ds) == IF ds = <<>> THEN <<>> ELSE Append(Unwound(Tail(ds)), Todo(Head(ds), "run"))

RECURSIVE Until(_, _)
Until(text, at) == IF text = <<>> \/ Head(text).at = at THEN <<>>
                   ELSE <<Head(text)>> \o Until(Tail(text), at)

Leaving(k, s) ==
    LET fn == k[Len(k)].body
    IN  Unwound(SelectSeq(Until(Text(fn), s.at), IsDefer)) \o << Todo(Node("ret", <<>>, <<>>), "run") >>

\* A round of a loop, and what the end of its body leads to.
Round(s) == Enter(s.body) \o << Todo(s, IF s.form \in {"while", "do"} THEN "test" ELSE "step") >>

\* The phases of a loop in turn.  A for-in steps to its next value.
Onward(s, goes) ==
    CASE s.phase = "enter" /\ s.form = "do" -> Round(s)
      [] s.phase = "enter" /\ s.form # "do" -> <<Todo(s, "test")>>
      [] s.phase = "test" -> IF goes THEN Round(s) ELSE <<>>
      [] s.phase = "step" -> << [Todo(s, "test") EXCEPT !.head.from = IF s.form = "forin" THEN @ + 1 ELSE @] >>

\* A C style loop runs its init where it is entered.
Part(s) == IF s.phase = "enter" THEN "init" ELSE s.phase

\* Steps that nothing observes, on the head of k.
IsSilent(k) ==
    LET s == Head(k)
    IN  \/ s.form \in {"defer", "break", "continue", "block", "end", "while", "do"} /\ s.phase = "enter"
        \/ s.form \in {"assert_true", "assert_false"}
        \/ s.form = "for" /\ Part(s) \notin s.head.parts
        \/ s.form = "forin" /\ s.phase # "enter"
        \/ s.form = "match" /\ s.body = <<>>
        \/ s.form = "match" /\ s.body # <<>> /\ s.body[1].form = "wildcard"

Silent(k) ==
    LET s == Head(k)
        rest == Tail(k)
    IN  CASE s.form \in {"defer", "assert_true"} -> rest
          [] s.form = "assert_false" -> <<[s EXCEPT !.form = "panic"]>>
          [] s.form = "break" -> AfterLoop(rest)
          [] s.form = "continue" -> NextRound(rest)
          [] s.form = "block" -> Enter(s.body) \o rest
          [] s.form = "end" -> Leaving(k, s)
          [] s.form \in Loops -> Onward(s, s.form = "forin" => Goes(s.head)) \o rest
          [] s.form = "match" /\ s.body = <<>> -> rest
          [] s.form = "match" /\ s.body # <<>> -> Enter(s.body[1].body) \o rest

Event(what, at) == [what |-> what, at |-> at]

Observed(k) ==
    LET s == Head(k)
    IN  CASE s.form \in {"if", "ifelse", "assert"} -> Event("test", s.at)
          [] s.form = "match" -> Event("test", s.body[1].at)
          [] s.form \in Loops -> Event(Part(s), s.at)
          [] s.phase # "enter" /\ s.form \notin {"defer", "ret"} -> Event(s.phase, s.at)
          [] OTHER -> Event(s.form, s.at)

\* The state after the event at the head, a test having had this outcome.
After(k, outcome) ==
    LET s == Head(k)
        rest == Tail(k)
    IN  CASE s.form = "return" -> Leaving(k, s)
          [] s.form = "panic" -> <<>>
          [] s.form = "assert" -> IF outcome THEN rest ELSE <<[s EXCEPT !.form = "panic"]>>
          [] s.form = "region" /\ s.phase = "enter" -> Enter(s.body) \o <<Todo(s, "pop")>> \o rest
          [] s.form \in {"if", "ifelse"} -> Enter(IF outcome THEN s.body ELSE s.els) \o rest
          [] s.form = "match" -> IF outcome THEN Enter(s.body[1].body) \o rest
                                 ELSE <<[s EXCEPT !.body = Tail(@)]>> \o rest
          [] s.form \in Loops -> Onward(s, outcome) \o rest
          [] OTHER -> rest

\* Whether the program goes on for ever without anything to observe.
RECURSIVE Idles(_, _)
Idles(k, seen) == k # <<>> /\ IsSilent(k) /\ (k \in seen \/ Idles(Silent(k), seen \union {k}))
=============================================================================
