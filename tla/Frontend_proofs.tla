--------------------------- MODULE Frontend_proofs ---------------------------
(***************************************************************************)
(* Proofs about the front end: Parser, for texts of any length and any     *)
(* tokens, and Names, for every set of identifiers, every capacity of the  *)
(* variable stack and every nesting.                                       *)
(***************************************************************************)
EXTENDS Parser, Names, SequenceTheorems, Counting, TLAPS

-----------------------------------------------------------------------------
(***************************************************************************)
(* The parser.  Each function of the grammar has a contract (Relies,       *)
(* After); a configuration of the parser is Safe when it keeps every       *)
(* contract from there on; the code of each function is shown to keep its  *)
(* own; and a parser that starts program() stays in safe configurations.   *)
(***************************************************************************)

\* Nodes any parts may make up, and those with conditions on their parts.
PlainKinds ==
    {"token", "type", "array", "qualified", "struct", "paren", "unsafe", "while", "do", "match", "return", "defer", "jump",
     "expr_stmt", "var", "comptime", "if", "for_in", "for", "arm", "region", "block", "fn", "enum", "class", "public",
     "private", "alias"}
ExpressionKinds == {"assign", "conditional", "lambda", "unary", "binary"} \cup PostfixKinds
NodeKinds == PlainKinds \cup ExpressionKinds

\* The trees a parser without an error holds.
Trees == [kind : NodeKinds, text : Seq(Alphabet), level : Int, open : BOOLEAN, grouped : {TRUE}, repeats : BOOLEAN]

\* u has the first h of the values v, whatever comes after them.
Keeps(h, v, u) == u \in Seq(Trees) /\ h <= Len(u) /\ \A i \in 1 .. h : u[i] = v[i]

PostfixStarts == {".", "(", "[", "++", "?", "as"}
\* A token no expression goes on with.
Stops(c) == c \notin PostfixStarts /\ bin_prec(c) < 0 /\ c \notin AssignOps
\* Expressions that hold together as strongly as l and may be followed by c.
Operands(l, c) == {t \in Trees : t.level >= l /\ (t.open => Stops(c))}

Procedures ==
    {"type", "types", "type_args", "primary", "args", "elems", "arguments", "condition", "lambda_params", "fields",
     "postfix", "unary", "binary", "binary_loop", "assign", "expr", "stmt", "stmts", "block", "var_decl", "comptime",
     "if", "for", "arms", "arm", "pattern", "region", "fn_decl", "params", "enum_decl", "variants", "class", "sections",
     "section", "members", "member", "top_level", "program"}

\* What each function relies on when it is called at token c with values v.
Relies(f, n, c, v) ==
    /\ f \in Procedures
    /\ f \in {"postfix", "binary_loop", "assign"} => Len(v) # 0
    /\ f = "postfix" => v[Len(v)] \in Operands(12, c)
    /\ f = "binary" => n \in 0 .. 11
    /\ f = "binary_loop" => /\ n \in 0 .. 11 /\ v[Len(v)] \in Operands(n, c)
                            /\ c \notin PostfixStarts /\ bin_prec(c) <= v[Len(v)].level
    /\ f = "assign" => v[Len(v)] \in Operands(0, c) /\ c \notin PostfixStarts /\ bin_prec(c) < 0
    /\ f = "for" => n \in 0 .. Len(v)

\* How many of the values it leaves alone.
Base(f, n, v) == IF f \in {"postfix", "binary_loop", "assign"} THEN Len(v) - 1
                 ELSE IF f = "for" THEN n ELSE Len(v)

Declaring == {"fn_decl", "enum_decl", "class", "var_decl", "region", "comptime", "top_level"}
Computing == {"primary", "postfix", "unary", "binary", "binary_loop", "assign", "expr"}

\* What it has made of them when it returns at token c with values u.
After(f, n, v, c, u) ==
    /\ Keeps(Base(f, n, v), v, u)
    /\ f \in Declaring \cup Computing \cup {"block"} => Len(u) = Base(f, n, v) + 1
    /\ f \in Declaring => u[Len(u)].kind \in DeclarationKinds
    /\ f = "block" => u[Len(u)].kind = "block"
    /\ f = "program" => \A i \in Len(v) + 1 .. Len(u) : u[i].kind \in DeclarationKinds
    /\ f \in {"primary", "postfix"} => u[Len(u)] \in Operands(12, c)
    /\ f = "unary" => u[Len(u)] \in Operands(11, c)
    /\ f \in {"binary", "binary_loop"} => u[Len(u)] \in Operands(n, c) /\ bin_prec(c) < n
    /\ f \in {"postfix", "unary", "binary", "binary_loop"} => c \notin PostfixStarts
    /\ f \in {"assign", "expr"} => Stops(c)

-----------------------------------------------------------------------------
(***************************************************************************)
(* A configuration is a token, the values and what is left to do.  It is   *)
(* safe when it belongs to a set that no item leads out of, a call being   *)
(* taken by its word, and in which whatever has nothing left to do is made *)
(* of declarations only.                                                   *)
(***************************************************************************)
IsSeq(s) == \E S : s \in Seq(S)

Taken(c, v, R, T) == \A d \in Alphabet : <<d, Append(v, Leaf(c)), R>> \in T

Leads(c, v, x, R, T) ==
    /\ x.do = "take" => Taken(c, v, R, T)
    /\ x.do = "expect" => (c = x.t => Taken(c, v, R, T))
    /\ x.do = "maybe" => IF c = x.t THEN Taken(c, v, R, T) ELSE <<c, v, R>> \in T
    /\ x.do = "if" => <<c, v, (IF c \in x.ts THEN x.then ELSE x.els) \o R>> \in T
    /\ x.do = "nest" => <<c, v, R>> \in T
    /\ x.do = "build" => LET t == Node(x.kind, SubSeq(v, x.n + 1, Len(v)))
                         IN  /\ x.n \in 0 .. Len(v) /\ t \in Trees
                             /\ <<c, Append(SubSeq(v, 1, x.n), t), R>> \in T
    /\ x.do = "call" => /\ Relies(x.f, x.n, c, v)
                        /\ \A d \in Alphabet, u \in Seq(Trees) : After(x.f, x.n, v, d, u) => <<d, u, R>> \in T

Sound(c, v, S, T) ==
    /\ c \in Alphabet /\ v \in Seq(Trees) /\ IsSeq(S)
    /\ S = << >> => \A i \in DOMAIN v : v[i].kind \in DeclarationKinds
    /\ S # << >> => Leads(c, v, Head(S), Tail(S), T)

Sealed(T) == \A x \in T : Sound(x[1], x[2], x[3], T)

Safe(c, v, S) == \E T : Sealed(T) /\ <<c, v, S>> \in T

LEMMA TakenGrows ==
  ASSUME NEW c, NEW v, NEW R, NEW T, NEW U, T \subseteq U, Taken(c, v, R, T)
  PROVE  Taken(c, v, R, U)
BY DEF Taken

LEMMA LeadsGrows ==
  ASSUME NEW c, NEW v, NEW x, NEW R, NEW T, NEW U, T \subseteq U, Leads(c, v, x, R, T)
  PROVE  Leads(c, v, x, R, U)
<1>1. Taken(c, v, R, T) => Taken(c, v, R, U)
  BY TakenGrows
<1>2. x.do = "build" => <<c, Append(SubSeq(v, 1, x.n), Node(x.kind, SubSeq(v, x.n + 1, Len(v)))), R>> \in U
  BY Zenon DEF Leads
<1>3. x.do = "call" => \A d \in Alphabet, u \in Seq(Trees) : After(x.f, x.n, v, d, u) => <<d, u, R>> \in U
  BY Zenon DEF Leads
<1> QED
  BY <1>1, <1>2, <1>3, Zenon DEF Leads

LEMMA SoundGrows ==
  ASSUME NEW c, NEW v, NEW S, NEW T, NEW U, T \subseteq U, Sound(c, v, S, T)
  PROVE  Sound(c, v, S, U)
BY LeadsGrows, Zenon DEF Sound

\* Configurations that lead to safe ones only are safe.
LEMMA Gather ==
  ASSUME NEW X, \A x \in X : x = <<x[1], x[2], x[3]>> /\ Safe(x[1], x[2], x[3])
  PROVE  \E T : Sealed(T) /\ X \subseteq T
<1> DEFINE C(x) == CHOOSE T : Sealed(T) /\ x \in T
           U == UNION {C(x) : x \in X}
<1>1. \A x \in X : Sealed(C(x)) /\ x \in C(x)
  <2> SUFFICES ASSUME NEW x \in X PROVE Sealed(C(x)) /\ x \in C(x)
    OBVIOUS
  <2>1. \E T : Sealed(T) /\ x \in T
    BY Zenon DEF Safe
  <2> QED
    BY <2>1, Zenon
<1>2. Sealed(U)
  <2> SUFFICES ASSUME NEW y \in U PROVE Sound(y[1], y[2], y[3], U)
    BY Zenon DEF Sealed
  <2>1. PICK x \in X : y \in C(x)
    BY Zenon
  <2>2. Sound(y[1], y[2], y[3], C(x))
    BY <1>1, <2>1, Zenon DEF Sealed
  <2>3. C(x) \subseteq U
    BY Zenon
  <2> HIDE DEF C, U
  <2> QED
    BY <2>2, <2>3, SoundGrows
<1>3. X \subseteq U
  BY <1>1, Zenon
<1> QED
  BY <1>2, <1>3, Zenon

LEMMA Folding ==
  ASSUME NEW X, \A x \in X : x = <<x[1], x[2], x[3]>> /\ Safe(x[1], x[2], x[3]),
         NEW c \in Alphabet, NEW v \in Seq(Trees), NEW S, IsSeq(S), S # << >>,
         Leads(c, v, Head(S), Tail(S), X)
  PROVE  Safe(c, v, S)
<1>1. PICK T : Sealed(T) /\ X \subseteq T
  BY Gather
<1> DEFINE U == T \cup {<<c, v, S>>}
<1>2. T \subseteq U /\ X \subseteq U
  BY <1>1, Zenon
<1>3. Sound(c, v, S, U)
  BY <1>2, LeadsGrows, Zenon DEF Sound
<1>4. \A y \in U : Sound(y[1], y[2], y[3], U)
  <2> SUFFICES ASSUME NEW y \in U PROVE Sound(y[1], y[2], y[3], U)
    OBVIOUS
  <2>1. CASE y \in T
    BY <1>1, <1>2, <2>1, SoundGrows, Zenon DEF Sealed
  <2>2. CASE y = <<c, v, S>>
    <3>1. y[1] = c /\ y[2] = v /\ y[3] = S
      BY <2>2
    <3> QED
      BY <1>3, <3>1
  <2> QED
    BY <2>1, <2>2
<1>5. Sealed(U) /\ <<c, v, S>> \in U
  BY <1>4, Zenon DEF Sealed
<1> QED
  BY <1>5, Zenon DEF Safe

-----------------------------------------------------------------------------
(***************************************************************************)
(* A logic of the machine: from each configuration of P the code leads to  *)
(* configurations of Q, whatever is left to do after it.                   *)
(***************************************************************************)
Configurations == Alphabet \X Seq(Trees)

Valid(P, code, Q) ==
    /\ IsSeq(code)
    /\ \A K : IsSeq(K) /\ (\A q \in Q : Safe(q[1], q[2], K)) => \A p \in P : Safe(p[1], p[2], code \o K)

LEMMA Joining ==
  ASSUME NEW a, NEW b, NEW c, IsSeq(a), IsSeq(b), IsSeq(c)
  PROVE  IsSeq(a \o b) /\ (a \o b) \o c = a \o (b \o c) /\ << >> \o a = a /\ a \o << >> = a
<1>1. PICK A : a \in Seq(A)
  BY Zenon DEF IsSeq
<1>2. PICK B : b \in Seq(B)
  BY Zenon DEF IsSeq
<1>3. PICK C : c \in Seq(C)
  BY Zenon DEF IsSeq
<1> DEFINE S == A \cup B \cup C
<1>4. a \in Seq(S) /\ b \in Seq(S) /\ c \in Seq(S)
  BY <1>1, <1>2, <1>3
<1> HIDE DEF S
<1>5. a \o b \in Seq(S) /\ (a \o b) \o c = a \o (b \o c) /\ << >> \o a = a /\ a \o << >> = a
  BY <1>4
<1> QED
  BY <1>5, Zenon DEF IsSeq

LEMMA Splitting ==
  ASSUME NEW s, IsSeq(s), s # << >>
  PROVE  IsSeq(Tail(s)) /\ IsSeq(<<Head(s)>>) /\ s = <<Head(s)>> \o Tail(s)
<1>1. PICK S : s \in Seq(S)
  BY Zenon DEF IsSeq
<1>2. Tail(s) \in Seq(S) /\ <<Head(s)>> \in Seq(S) /\ s = <<Head(s)>> \o Tail(s)
  BY <1>1
<1> QED
  BY <1>2, Zenon DEF IsSeq

LEMMA OneItem ==
  ASSUME NEW x, NEW K, IsSeq(K)
  PROVE  /\ IsSeq(<<x>>) /\ IsSeq(<<x>> \o K) /\ <<x>> \o K # << >>
         /\ Head(<<x>> \o K) = x /\ Tail(<<x>> \o K) = K
<1>1. PICK S : K \in Seq(S)
  BY Zenon DEF IsSeq
<1> DEFINE U == S \cup {x}
<1>2. K \in Seq(U) /\ <<x>> \in Seq(U)
  BY <1>1
<1> HIDE DEF U
<1>3. <<x>> \o K \in Seq(U) /\ <<x>> \o K # << >> /\ Head(<<x>> \o K) = x /\ Tail(<<x>> \o K) = K
  BY <1>2
<1> QED
  BY <1>2, <1>3, Zenon DEF IsSeq

\* Doing nothing, and one thing after the other.
LEMMA Nothing ==
  ASSUME NEW P, NEW Q, P \subseteq Q
  PROVE  Valid(P, << >>, Q)
<1>1. IsSeq(<< >>)
  BY DEF IsSeq
<1>2. \A K : IsSeq(K) => << >> \o K = K
  BY <1>1, Joining
<1> QED
  BY <1>1, <1>2 DEF Valid

LEMMA Compose ==
  ASSUME NEW P, NEW Q, NEW R, NEW a, NEW b, Valid(P, a, Q), Valid(Q, b, R)
  PROVE  Valid(P, a \o b, R)
<1>1. IsSeq(a) /\ IsSeq(b) /\ IsSeq(a \o b)
  BY Joining DEF Valid
<1>2. ASSUME NEW K, IsSeq(K), \A r \in R : Safe(r[1], r[2], K)
      PROVE  \A p \in P : Safe(p[1], p[2], (a \o b) \o K)
  <2>1. IsSeq(b \o K) /\ (a \o b) \o K = a \o (b \o K)
    BY <1>1, <1>2, Joining
  <2>2. \A q \in Q : Safe(q[1], q[2], b \o K)
    BY <1>2, Zenon DEF Valid
  <2>3. \A p \in P : Safe(p[1], p[2], a \o (b \o K))
    BY <2>1, <2>2, Zenon DEF Valid
  <2> QED
    BY <2>1, <2>3, Zenon
<1> QED
  BY <1>1, <1>2, Zenon DEF Valid

LEMMA Weaken ==
  ASSUME NEW P, NEW Q, NEW R, NEW S, NEW code, P \subseteq Q, Valid(Q, code, R), R \subseteq S
  PROVE  Valid(P, code, S)
BY Zenon DEF Valid

LEMMA Then ==
  ASSUME NEW P, NEW Q, NEW R, NEW code, IsSeq(code), code # << >>,
         Valid(P, <<Head(code)>>, Q), Valid(Q, Tail(code), R)
  PROVE  Valid(P, code, R)
<1>1. Valid(P, <<Head(code)>> \o Tail(code), R)
  BY Compose
<1> QED
  BY <1>1, Splitting

\* The configurations of Q with K left to do.
Under(Q, K) == {<<q[1], q[2], K>> : q \in Q}

LEMMA Underneath ==
  ASSUME NEW Q, NEW K, NEW a, NEW b, <<a, b>> \in Q
  PROVE  <<a, b, K>> \in Under(Q, K)
<1> DEFINE q == <<a, b>>
<1>1. <<a, b, K>> = <<q[1], q[2], K>>
  OBVIOUS
<1> HIDE DEF q
<1>2. q \in Q
  BY DEF q
<1> QED
  BY <1>1, <1>2, Zenon DEF Under

LEMMA UnderItself ==
  ASSUME NEW Q, NEW K, NEW q \in Q
  PROVE  <<q[1], q[2], K>> \in Under(Q, K)
BY Zenon DEF Under

LEMMA UnderSafe ==
  ASSUME NEW Q, NEW K, \A q \in Q : Safe(q[1], q[2], K), NEW y \in Under(Q, K)
  PROVE  y = <<y[1], y[2], y[3]>> /\ Safe(y[1], y[2], y[3])
<1>1. PICK q \in Q : y = <<q[1], q[2], K>>
  BY Zenon DEF Under
<1>2. y[1] = q[1] /\ y[2] = q[2] /\ y[3] = K
  BY <1>1
<1>3. Safe(q[1], q[2], K)
  BY Zenon
<1> QED
  BY <1>1, <1>2, <1>3, Zenon

\* One item.
LEMMA Item ==
  ASSUME NEW P, P \subseteq Configurations, NEW Q, NEW x,
         \A p \in P : \A K : Leads(p[1], p[2], x, K, Under(Q, K))
  PROVE  Valid(P, <<x>>, Q)
<1>1. IsSeq(<< >>)
  BY DEF IsSeq
<1>2. IsSeq(<<x>>)
  BY <1>1, OneItem
<1>3. ASSUME NEW K, IsSeq(K), \A q \in Q : Safe(q[1], q[2], K), NEW p \in P
      PROVE  Safe(p[1], p[2], <<x>> \o K)
  <2> DEFINE X == Under(Q, K)
  <2>1. \A y \in X : y = <<y[1], y[2], y[3]>> /\ Safe(y[1], y[2], y[3])
    BY <1>3, UnderSafe
  <2>2. Leads(p[1], p[2], x, K, X)
    BY Zenon
  <2>3. p[1] \in Alphabet /\ p[2] \in Seq(Trees)
    BY DEF Configurations
  <2> HIDE DEF X
  <2>4. /\ IsSeq(<<x>> \o K) /\ <<x>> \o K # << >>
        /\ Head(<<x>> \o K) = x /\ Tail(<<x>> \o K) = K
    BY <1>3, OneItem
  <2> QED
    BY <2>1, <2>2, <2>3, <2>4, Folding
<1> QED
  BY <1>2, <1>3, Zenon DEF Valid

LEMMA TakeRule ==
  ASSUME NEW P, P \subseteq Configurations, NEW Q,
         \A p \in P, d \in Alphabet : <<d, Append(p[2], Leaf(p[1]))>> \in Q
  PROVE  Valid(P, <<Take>>, Q)
<1>1. ASSUME NEW p \in P, NEW K PROVE Leads(p[1], p[2], Take, K, Under(Q, K))
  <2> DEFINE T == Under(Q, K)
  <2>1. ASSUME NEW d \in Alphabet PROVE <<d, Append(p[2], Leaf(p[1])), K>> \in T
    <3>1. <<d, Append(p[2], Leaf(p[1]))>> \in Q
      BY Zenon
    <3> QED
      BY <3>1, Underneath
  <2> HIDE DEF T
  <2>2. Taken(p[1], p[2], K, T)
    BY <2>1 DEF Taken
  <2> QED
    BY <2>2 DEF Leads, Take, T
<1> QED
  BY <1>1, Item

LEMMA FailRule ==
  ASSUME NEW P, P \subseteq Configurations, NEW Q
  PROVE  Valid(P, <<Fail>>, Q)
<1>1. ASSUME NEW p \in P, NEW K PROVE Leads(p[1], p[2], Fail, K, Under(Q, K))
  BY DEF Leads, Fail
<1> QED
  BY <1>1, Item

LEMMA ExpectRule ==
  ASSUME NEW P, P \subseteq Configurations, NEW Q, NEW t,
         \A p \in P, d \in Alphabet : p[1] = t => <<d, Append(p[2], Leaf(p[1]))>> \in Q
  PROVE  Valid(P, <<Expect(t)>>, Q)
<1>1. ASSUME NEW p \in P, NEW K PROVE Leads(p[1], p[2], Expect(t), K, Under(Q, K))
  <2> DEFINE T == Under(Q, K)
  <2>1. ASSUME p[1] = t, NEW d \in Alphabet PROVE <<d, Append(p[2], Leaf(p[1])), K>> \in T
    <3>1. <<d, Append(p[2], Leaf(p[1]))>> \in Q
      BY <2>1, Zenon
    <3> QED
      BY <3>1, Underneath
  <2> HIDE DEF T
  <2>2. p[1] = t => Taken(p[1], p[2], K, T)
    BY <2>1 DEF Taken
  <2> QED
    BY <2>2 DEF Leads, Expect, T
<1> QED
  BY <1>1, Item

LEMMA MaybeRule ==
  ASSUME NEW P, P \subseteq Configurations, NEW Q, NEW t,
         \A p \in P, d \in Alphabet : p[1] = t => <<d, Append(p[2], Leaf(p[1]))>> \in Q,
         \A p \in P : p[1] # t => p \in Q
  PROVE  Valid(P, <<Maybe(t)>>, Q)
<1>1. ASSUME NEW p \in P, NEW K PROVE Leads(p[1], p[2], Maybe(t), K, Under(Q, K))
  <2> DEFINE T == Under(Q, K)
  <2>1. ASSUME p[1] = t, NEW d \in Alphabet PROVE <<d, Append(p[2], Leaf(p[1])), K>> \in T
    <3>1. <<d, Append(p[2], Leaf(p[1]))>> \in Q
      BY <2>1, Zenon
    <3> QED
      BY <3>1, Underneath
  <2>2. p[1] # t => <<p[1], p[2], K>> \in T
    BY UnderItself
  <2> HIDE DEF T
  <2>3. p[1] = t => Taken(p[1], p[2], K, T)
    BY <2>1 DEF Taken
  <2> QED
    BY <2>2, <2>3 DEF Leads, Maybe, T
<1> QED
  BY <1>1, Item

LEMMA NestRule ==
  ASSUME NEW P, P \subseteq Configurations, NEW Q, NEW by, P \subseteq Q
  PROVE  Valid(P, <<Nest(by)>>, Q)
<1>1. ASSUME NEW p \in P, NEW K PROVE Leads(p[1], p[2], Nest(by), K, Under(Q, K))
  <2> DEFINE T == Under(Q, K)
  <2>1. <<p[1], p[2], K>> \in T
    BY UnderItself
  <2> HIDE DEF T
  <2> QED
    BY <2>1 DEF Leads, Nest, T
<1> QED
  BY <1>1, Item

LEMMA BuildRule ==
  ASSUME NEW P, P \subseteq Configurations, NEW Q, NEW kind, NEW n,
         \A p \in P : LET t == Node(kind, SubSeq(p[2], n + 1, Len(p[2])))
                      IN  /\ n \in 0 .. Len(p[2]) /\ t \in Trees
                          /\ <<p[1], Append(SubSeq(p[2], 1, n), t)>> \in Q
  PROVE  Valid(P, <<Build(kind, n)>>, Q)
<1>1. ASSUME NEW p \in P, NEW K PROVE Leads(p[1], p[2], Build(kind, n), K, Under(Q, K))
  <2> DEFINE T == Under(Q, K)
             t == Node(kind, SubSeq(p[2], n + 1, Len(p[2])))
  <2>1. n \in 0 .. Len(p[2]) /\ t \in Trees /\ <<p[1], Append(SubSeq(p[2], 1, n), t)>> \in Q
    BY Zenon
  <2> HIDE DEF t
  <2>2. <<p[1], Append(SubSeq(p[2], 1, n), t), K>> \in T
    BY <2>1, Underneath
  <2> HIDE DEF T
  <2> QED
    BY <2>1, <2>2 DEF Leads, Build, T, t
<1> QED
  BY <1>1, Item

LEMMA CallRule ==
  ASSUME NEW P, P \subseteq Configurations, NEW Q, NEW f, NEW n,
         \A p \in P : Relies(f, n, p[1], p[2]),
         \A p \in P, d \in Alphabet, u \in Seq(Trees) : After(f, n, p[2], d, u) => <<d, u>> \in Q
  PROVE  Valid(P, <<CallAt(f, n)>>, Q)
<1>1. ASSUME NEW p \in P, NEW K PROVE Leads(p[1], p[2], CallAt(f, n), K, Under(Q, K))
  <2> DEFINE T == Under(Q, K)
  <2>1. ASSUME NEW d \in Alphabet, NEW u \in Seq(Trees), After(f, n, p[2], d, u) PROVE <<d, u, K>> \in T
    <3>1. <<d, u>> \in Q
      BY <2>1, Zenon
    <3> QED
      BY <3>1, Underneath
  <2> HIDE DEF T
  <2>2. \A d \in Alphabet, u \in Seq(Trees) : After(f, n, p[2], d, u) => <<d, u, K>> \in T
    BY <2>1
  <2>3. Relies(f, n, p[1], p[2])
    BY Zenon
  <2> QED
    BY <2>2, <2>3 DEF Leads, CallAt, T
<1> QED
  BY <1>1, Item

LEMMA IfRule ==
  ASSUME NEW P, P \subseteq Configurations, NEW Q, NEW ts, NEW then, NEW els,
         Valid({p \in P : p[1] \in ts}, then, Q), Valid({p \in P : p[1] \notin ts}, els, Q)
  PROVE  Valid(P, <<If(ts, then, els)>>, Q)
<1> DEFINE x == If(ts, then, els)
<1>1. IsSeq(<< >>) /\ IsSeq(then) /\ IsSeq(els)
  BY DEF IsSeq, Valid
<1>2. IsSeq(<<x>>)
  BY <1>1, OneItem
<1>3. ASSUME NEW K, IsSeq(K), \A q \in Q : Safe(q[1], q[2], K), NEW p \in P
      PROVE  Safe(p[1], p[2], <<x>> \o K)
  <2> DEFINE branch == IF p[1] \in ts THEN then ELSE els
             X == {<<p[1], p[2], branch \o K>>}
  <2>1. Safe(p[1], p[2], branch \o K)
    <3>1. CASE p[1] \in ts
      BY <1>3, <3>1 DEF Valid
    <3>2. CASE p[1] \notin ts
      BY <1>3, <3>2 DEF Valid
    <3> QED
      BY <3>1, <3>2
  <2>2. \A y \in X : y = <<y[1], y[2], y[3]>> /\ Safe(y[1], y[2], y[3])
    <3> DEFINE z == <<p[1], p[2], branch \o K>>
    <3> HIDE DEF branch
    <3>1. z[1] = p[1] /\ z[2] = p[2] /\ z[3] = branch \o K /\ z = <<z[1], z[2], z[3]>>
      OBVIOUS
    <3>2. Safe(z[1], z[2], z[3])
      BY <2>1, <3>1, Zenon
    <3> QED
      BY <3>1, <3>2, Zenon
  <2>3. p[1] \in Alphabet /\ p[2] \in Seq(Trees)
    BY DEF Configurations
  <2>4. Leads(p[1], p[2], x, K, X)
    BY DEF Leads, If
  <2>5. /\ IsSeq(<<x>> \o K) /\ <<x>> \o K # << >>
        /\ Head(<<x>> \o K) = x /\ Tail(<<x>> \o K) = K
    BY <1>3, OneItem
  <2> HIDE DEF X, x
  <2> QED
    BY <2>2, <2>3, <2>4, <2>5, Folding
<1> QED
  BY <1>2, <1>3, Zenon DEF Valid

-----------------------------------------------------------------------------
(***************************************************************************)
(* What trees spell.                                                       *)
(***************************************************************************)
Spelling(f, trees) == /\ f[0] = << >>
                      /\ \A k \in 1 .. Len(trees) : f[k] = f[k - 1] \o trees[k].text

LEMMA TextOfTree ==
  ASSUME NEW t \in Trees
  PROVE  t.text \in Seq(Alphabet)
BY DEF Trees

LEMMA SpellingExists ==
  ASSUME NEW trees \in Seq(Trees)
  PROVE  \E f \in [0 .. Len(trees) -> Seq(Alphabet)] : Spelling(f, trees) /\ Spelled(trees) = f[Len(trees)]
<1> DEFINE n == Len(trees)
           D == Seq(Alphabet)
           Grown(g) == [i \in 0 .. n |-> IF i = 0 THEN << >> ELSE g[i - 1] \o trees[i].text]
           F == [x \in D \X (1 .. n) |-> x[1] \o trees[x[2]].text]
           upto == CHOOSE g : g = Grown(g)
<1>1. n \in Nat /\ \A k \in 1 .. n : trees[k].text \in D
  BY TextOfTree
<1>2. << >> \in D
  OBVIOUS
<1>3. ASSUME NEW s \in D, NEW k \in 1 .. n PROVE <<s, k>> \in D \X (1 .. n) /\ F[<<s, k>>] = s \o trees[k].text
  OBVIOUS
<1>4. F \in [D \X (1 .. n) -> D]
  <2> SUFFICES ASSUME NEW x \in D \X (1 .. n) PROVE x[1] \o trees[x[2]].text \in D
    BY Zenon
  <2>1. x[1] \in D /\ trees[x[2]].text \in D
    BY <1>1
  <2> QED
    BY <2>1
<1> HIDE DEF D, F
<1>5. PICK f \in [0 .. n -> D] : Unrolls(f, << >>, F, n)
  <2> HIDE DEF n
  <2> QED
    BY <1>1, <1>2, <1>4, Unrolling
<1>6. Spelling(f, trees)
  <2>1. f[0] = << >> /\ \A k \in 1 .. n : f[k] = F[<<f[k - 1], k>>]
    BY <1>5 DEF Unrolls
  <2>2. \A k \in 1 .. n : f[k - 1] \in D
    BY <1>1, <1>5
  <2>3. \A k \in 1 .. n : f[k] = f[k - 1] \o trees[k].text
    <3> SUFFICES ASSUME NEW k \in 1 .. n PROVE f[k] = f[k - 1] \o trees[k].text
      OBVIOUS
    <3>1. f[k - 1] \in D /\ f[k] = F[<<f[k - 1], k>>]
      BY <2>1, <2>2
    <3>2. F[<<f[k - 1], k>>] = f[k - 1] \o trees[k].text
      BY <3>1, <1>3
    <3> QED
      BY <3>1, <3>2
  <2> QED
    BY <2>1, <2>3 DEF Spelling
<1>7. f = Grown(f)
  <2>1. ASSUME NEW i \in 0 .. n PROVE f[i] = IF i = 0 THEN << >> ELSE f[i - 1] \o trees[i].text
    <3>1. CASE i = 0
      BY <1>6, <3>1 DEF Spelling
    <3>2. CASE i # 0
      <4>1. i \in 1 .. Len(trees)
        BY <1>1, <3>2
      <4> QED
        BY <1>6, <3>2, <4>1 DEF Spelling
    <3> QED
      BY <3>1, <3>2
  <2>2. f = [i \in 0 .. n |-> f[i]]
    BY <1>5
  <2>3. [i \in 0 .. n |-> f[i]] = Grown(f)
    <3> HIDE DEF n
    <3> QED
      BY <2>1
  <2> QED
    BY <2>2, <2>3
<1>8. upto = Grown(upto)
  <2> HIDE DEF Grown
  <2> QED
    BY <1>7, Zenon
<1>9. Spelled(trees) = upto[n]
  BY Zenon DEF Spelled
<1> HIDE DEF upto
<1>10. upto[0] = << >> /\ \A k \in 1 .. n : upto[k] = upto[k - 1] \o trees[k].text
  BY <1>1, <1>8
<1>11. \A k \in Nat : k <= n => upto[k] = f[k]
  <2> DEFINE S == {k \in Nat : k <= n => upto[k] = f[k]}
  <2>1. 0 \in S
    BY <1>6, <1>10 DEF Spelling
  <2>2. ASSUME NEW k \in Nat, k \in S PROVE k + 1 \in S
    <3> SUFFICES ASSUME k + 1 <= n PROVE upto[k + 1] = f[k + 1]
      OBVIOUS
    <3>1. upto[k] = f[k] /\ k + 1 \in 1 .. n /\ (k + 1) - 1 = k
      BY <2>2, <1>1
    <3>2. upto[k + 1] = upto[(k + 1) - 1] \o trees[k + 1].text
      BY <3>1, <1>10, Zenon
    <3>3. f[k + 1] = f[(k + 1) - 1] \o trees[k + 1].text
      BY <3>1, <1>6, Zenon DEF Spelling
    <3> QED
      BY <3>1, <3>2, <3>3
  <2> HIDE DEF S
  <2>3. \A k \in Nat : k \in S
    BY <2>1, <2>2, Induction
  <2> QED
    BY <2>3 DEF S
<1>12. upto[n] = f[n]
  BY <1>1, <1>11
<1> QED
  BY <1>5, <1>6, <1>9, <1>12 DEF D

LEMMA SpellingUnique ==
  ASSUME NEW a \in Seq(Trees), NEW b \in Seq(Trees), Len(a) <= Len(b), \A i \in 1 .. Len(a) : a[i] = b[i],
         NEW f, Spelling(f, a), NEW g, Spelling(g, b)
  PROVE  \A k \in Nat : k <= Len(a) => f[k] = g[k]
<1> DEFINE S == {k \in Nat : k <= Len(a) => f[k] = g[k]}
<1>1. 0 \in S
  BY DEF Spelling
<1>2. ASSUME NEW k \in Nat, k \in S PROVE k + 1 \in S
  <2> SUFFICES ASSUME k + 1 <= Len(a) PROVE f[k + 1] = g[k + 1]
    OBVIOUS
  <2>1. f[k] = g[k] /\ k + 1 \in 1 .. Len(a) /\ k + 1 \in 1 .. Len(b) /\ (k + 1) - 1 = k
    BY <1>2
  <2>2. f[k + 1] = f[(k + 1) - 1] \o a[k + 1].text
    BY <2>1, Zenon DEF Spelling
  <2>3. g[k + 1] = g[(k + 1) - 1] \o b[k + 1].text
    BY <2>1, Zenon DEF Spelling
  <2> QED
    BY <2>1, <2>2, <2>3
<1> HIDE DEF S
<1>3. \A k \in Nat : k \in S
  BY <1>1, <1>2, Induction
<1> QED
  BY <1>3 DEF S

LEMMA SpelledEmpty ==
  Spelled(<< >>) = << >>
<1>1. << >> \in Seq(Trees) /\ Len(<< >>) = 0
  OBVIOUS
<1>2. PICK f \in [0 .. Len(<< >>) -> Seq(Alphabet)] : Spelling(f, << >>) /\ Spelled(<< >>) = f[Len(<< >>)]
  BY <1>1, SpellingExists, Zenon
<1> QED
  BY <1>1, <1>2 DEF Spelling

LEMMA SpelledType ==
  ASSUME NEW trees \in Seq(Trees)
  PROVE  Spelled(trees) \in Seq(Alphabet)
<1>1. PICK f \in [0 .. Len(trees) -> Seq(Alphabet)] : Spelling(f, trees) /\ Spelled(trees) = f[Len(trees)]
  BY SpellingExists, Zenon
<1>2. Len(trees) \in 0 .. Len(trees)
  OBVIOUS
<1> QED
  BY <1>1, <1>2, Zenon

LEMMA SpelledAppend ==
  ASSUME NEW trees \in Seq(Trees), NEW t \in Trees
  PROVE  Spelled(Append(trees, t)) = Spelled(trees) \o t.text
<1> DEFINE more == Append(trees, t)
           n == Len(trees)
<1>1. more \in Seq(Trees) /\ Len(more) = n + 1 /\ n \in Nat /\ more[n + 1] = t /\ \A i \in 1 .. n : trees[i] = more[i]
  OBVIOUS
<1> HIDE DEF more
<1>2. PICK f \in [0 .. Len(trees) -> Seq(Alphabet)] : Spelling(f, trees) /\ Spelled(trees) = f[Len(trees)]
  BY SpellingExists, Zenon
<1>3. PICK g \in [0 .. Len(more) -> Seq(Alphabet)] : Spelling(g, more) /\ Spelled(more) = g[Len(more)]
  BY <1>1, SpellingExists, Zenon
<1>4. f[n] = g[n]
  <2>1. \A k \in Nat : k <= Len(trees) => f[k] = g[k]
    BY <1>1, <1>2, <1>3, SpellingUnique
  <2> QED
    BY <1>1, <2>1
<1>5. n + 1 \in 1 .. Len(more) /\ (n + 1) - 1 = n
  BY <1>1
<1>6. g[n + 1] = g[(n + 1) - 1] \o more[n + 1].text
  BY <1>3, <1>5, Zenon DEF Spelling
<1>7. Spelled(more) = g[n] \o t.text
  BY <1>1, <1>3, <1>5, <1>6
<1> QED
  BY <1>2, <1>4, <1>7 DEF more

LEMMA Prefixes ==
  ASSUME NEW T, NEW a \in Seq(T), NEW b \in Seq(T)
  PROVE  /\ SubSeq(b, 1, 0) = << >> /\ a \o << >> = a /\ SubSeq(b, 1, Len(b)) = b
         /\ \A k \in 0 .. Len(b) - 1 :
               /\ SubSeq(b, 1, k) \in Seq(T) /\ b[k + 1] \in T /\ a \o SubSeq(b, 1, k) \in Seq(T)
               /\ SubSeq(b, 1, k + 1) = Append(SubSeq(b, 1, k), b[k + 1])
               /\ a \o SubSeq(b, 1, k + 1) = Append(a \o SubSeq(b, 1, k), b[k + 1])
<1>1. SubSeq(b, 1, 0) = << >> /\ a \o << >> = a /\ SubSeq(b, 1, Len(b)) = b
  OBVIOUS
<1>2. ASSUME NEW k \in 0 .. Len(b) - 1
      PROVE  /\ SubSeq(b, 1, k) \in Seq(T) /\ b[k + 1] \in T /\ a \o SubSeq(b, 1, k) \in Seq(T)
             /\ SubSeq(b, 1, k + 1) = Append(SubSeq(b, 1, k), b[k + 1])
             /\ a \o SubSeq(b, 1, k + 1) = Append(a \o SubSeq(b, 1, k), b[k + 1])
  <2>1. SubSeq(b, 1, k) \in Seq(T) /\ b[k + 1] \in T /\ Len(SubSeq(b, 1, k)) = k
    OBVIOUS
  <2>2. SubSeq(b, 1, k + 1) = Append(SubSeq(b, 1, k), b[k + 1])
    OBVIOUS
  <2>3. a \o Append(SubSeq(b, 1, k), b[k + 1]) = Append(a \o SubSeq(b, 1, k), b[k + 1])
    <3> DEFINE p == SubSeq(b, 1, k)
               t == b[k + 1]
    <3>1. p \in Seq(T) /\ t \in T
      BY <2>1
    <3> HIDE DEF p, t
    <3>2. a \o Append(p, t) = Append(a \o p, t)
      BY <3>1
    <3> QED
      BY <3>2 DEF p, t
  <2> QED
    BY <2>1, <2>2, <2>3
<1> QED
  BY <1>1, <1>2

LEMMA Associative ==
  ASSUME NEW T, NEW a \in Seq(T), NEW b \in Seq(T), NEW c \in Seq(T)
  PROVE  a \o (b \o c) = (a \o b) \o c
OBVIOUS

LEMMA SpelledConcat ==
  ASSUME NEW a \in Seq(Trees), NEW b \in Seq(Trees)
  PROVE  Spelled(a \o b) = Spelled(a) \o Spelled(b)
<1> DEFINE B(k) == SubSeq(b, 1, k)
           S == {k \in Nat : k <= Len(b) => Spelled(a \o B(k)) = Spelled(a) \o Spelled(B(k))}
<1>1. 0 \in S
  <2>1. B(0) = << >> /\ a \o << >> = a
    BY Prefixes
  <2>2. Spelled(a) \o << >> = Spelled(a)
    BY SpelledType
  <2>3. Spelled(a \o B(0)) = Spelled(a) \o Spelled(B(0))
    <3> HIDE DEF B
    <3> QED
      BY <2>1, <2>2, SpelledEmpty
  <2> HIDE DEF B
  <2> QED
    BY <2>3
<1>2. ASSUME NEW k \in Nat, k \in S PROVE k + 1 \in S
  <2> SUFFICES ASSUME k + 1 <= Len(b) PROVE Spelled(a \o B(k + 1)) = Spelled(a) \o Spelled(B(k + 1))
    OBVIOUS
  <2>1. /\ B(k) \in Seq(Trees) /\ b[k + 1] \in Trees /\ a \o B(k) \in Seq(Trees)
        /\ B(k + 1) = Append(B(k), b[k + 1]) /\ a \o B(k + 1) = Append(a \o B(k), b[k + 1])
    <3>1. k \in 0 .. Len(b) - 1
      OBVIOUS
    <3> QED
      BY <3>1, Prefixes
  <2>2. Spelled(a \o B(k)) = Spelled(a) \o Spelled(B(k))
    BY <1>2
  <2> HIDE DEF B
  <2>3. Spelled(a \o B(k + 1)) = Spelled(a \o B(k)) \o b[k + 1].text
    BY <2>1, SpelledAppend
  <2>4. Spelled(B(k + 1)) = Spelled(B(k)) \o b[k + 1].text
    BY <2>1, SpelledAppend
  <2>5. Spelled(a) \in Seq(Alphabet) /\ Spelled(B(k)) \in Seq(Alphabet) /\ b[k + 1].text \in Seq(Alphabet)
    BY <2>1, SpelledType, TextOfTree
  <2> DEFINE x == Spelled(a)
             y == Spelled(B(k))
             z == b[k + 1].text
  <2>6. x \o (y \o z) = (x \o y) \o z
    <3>1. x \in Seq(Alphabet) /\ y \in Seq(Alphabet) /\ z \in Seq(Alphabet)
      BY <2>5
    <3> HIDE DEF x, y, z
    <3> QED
      BY <3>1, Associative
  <2> QED
    BY <2>2, <2>3, <2>4, <2>6, Zenon
<1>3. \A k \in Nat : k \in S
  <2> HIDE DEF S
  <2> QED
    BY <1>1, <1>2, Induction
<1>4. B(Len(b)) = b /\ Len(b) \in Nat
  BY Prefixes
<1>5. Len(b) \in S
  BY <1>3, <1>4
<1>6. Spelled(a \o B(Len(b))) = Spelled(a) \o Spelled(B(Len(b)))
  BY <1>5
<1> HIDE DEF B
<1> QED
  BY <1>4, <1>6

-----------------------------------------------------------------------------
(***************************************************************************)
(* Trees.                                                                  *)
(***************************************************************************)
LEMMA OneIsSeq ==
  ASSUME NEW T, NEW c \in T
  PROVE  <<c>> \in Seq(T)
OBVIOUS

LEMMA LeafIsTree ==
  ASSUME NEW c \in Alphabet
  PROVE  /\ Leaf(c) \in Trees /\ Leaf(c).text = <<c>> /\ Leaf(c).level = 12
         /\ Leaf(c).open = FALSE /\ Leaf(c).repeats = FALSE
<1>1. <<c>> \in Seq(Alphabet)
  BY OneIsSeq
<1>2. Leaf(c) \in Trees
  <2> DEFINE s == <<c>>
             Texts == Seq(Alphabet)
             k == "token"
  <2>1. s \in Texts /\ k \in NodeKinds
    BY <1>1 DEF NodeKinds, PlainKinds
  <2> HIDE DEF s, Texts, k
  <2>2. [kind |-> k, text |-> s, level |-> 12, open |-> FALSE, grouped |-> TRUE, repeats |-> FALSE]
          \in [kind : NodeKinds, text : Texts, level : Int, open : BOOLEAN, grouped : {TRUE}, repeats : BOOLEAN]
    BY <2>1
  <2> QED
    BY <2>2, Zenon DEF Leaf, Trees, s, Texts, k
<1>3. Leaf(c).text = <<c>> /\ Leaf(c).level = 12 /\ Leaf(c).open = FALSE /\ Leaf(c).repeats = FALSE
  BY DEF Leaf
<1> QED
  BY <1>2, <1>3

LEMMA PrecType ==
  ASSUME NEW c
  PROVE  bin_prec(c) \in -1 .. 10
<1>1. CASE c \in {"..", "||", "&&", "|", "&", "=="}
  BY <1>1 DEF bin_prec
<1>2. CASE c \in {"<", ">", "+", "-", "*"}
  BY <1>2 DEF bin_prec
<1>3. CASE c \notin {"..", "||", "&&", "|", "&", "==", "<", ">", "+", "-", "*"}
  BY <1>3 DEF bin_prec
<1> QED
  BY <1>1, <1>2, <1>3

LEMMA KeptSections ==
  ASSUME NEW parts \in Seq(Trees)
  PROVE  LastSections(parts) \in Seq(Trees)
<1>1. \A i \in DOMAIN parts : parts[i] \in Trees
  OBVIOUS
<1>2. ASSUME NEW t \in Trees PROVE [t EXCEPT !.text = << >>] \in Trees
  <2>1. << >> \in Seq(Alphabet)
    OBVIOUS
  <2> DEFINE e == << >>
  <2> HIDE DEF e
  <2>2. [t EXCEPT !.text = e] \in Trees
    BY <2>1 DEF Trees, e
  <2> QED
    BY <2>2 DEF e
<1>3. \A i \in DOMAIN parts : (IF Replaced(parts, i) THEN [parts[i] EXCEPT !.text = << >>] ELSE parts[i]) \in Trees
  <2> SUFFICES ASSUME NEW i \in DOMAIN parts
               PROVE  (IF Replaced(parts, i) THEN [parts[i] EXCEPT !.text = << >>] ELSE parts[i]) \in Trees
    OBVIOUS
  <2>1. parts[i] \in Trees /\ [parts[i] EXCEPT !.text = << >>] \in Trees
    BY <1>1, <1>2, Zenon
  <2> QED
    BY <2>1, Zenon
<1>4. DOMAIN parts = 1 .. Len(parts) /\ Len(parts) \in Nat
  OBVIOUS
<1> QED
  BY <1>3, <1>4 DEF LastSections

LEMMA NodeIsTree ==
  ASSUME NEW kind \in NodeKinds, NEW parts \in Seq(Trees),
         Level(kind, parts) \in Int, OpenEnded(kind, parts[Len(parts)]) \in BOOLEAN,
         Groups(kind, Level(kind, parts), parts[1], parts[Len(parts)])
  PROVE  /\ Node(kind, parts) \in Trees
         /\ Node(kind, parts).kind = kind
         /\ Node(kind, parts).level = Level(kind, parts)
         /\ Node(kind, parts).open = OpenEnded(kind, parts[Len(parts)])
<1> DEFINE kept == IF kind = "class" THEN LastSections(parts) ELSE parts
           level == Level(kind, parts)
           unended == OpenEnded(kind, parts[Len(parts)])
           groups == Groups(kind, Level(kind, parts), parts[1], parts[Len(parts)])
           grouped == groups /\ \A i \in DOMAIN parts : parts[i].grouped
           repeats == \E i \in DOMAIN parts : parts[i].repeats \/ (kind = "class" /\ Replaced(parts, i))
<1>1. Spelled(kept) \in Seq(Alphabet)
  BY KeptSections, SpelledType
<1>2. grouped = TRUE
  <2>1. ASSUME NEW t \in Trees PROVE t.grouped
    BY DEF Trees
  <2>2. \A i \in DOMAIN parts : parts[i] \in Trees
    OBVIOUS
  <2> HIDE DEF groups
  <2>3. groups
    BY Zenon DEF groups
  <2> QED
    BY <2>1, <2>2, <2>3, Zenon
<1>3. repeats \in BOOLEAN
  OBVIOUS
<1>4. Node(kind, parts) = [kind |-> kind, text |-> Spelled(kept), level |-> level, open |-> unended,
                           grouped |-> grouped, repeats |-> repeats]
  BY Zenon DEF Node
<1>5. level \in Int /\ unended \in BOOLEAN
  OBVIOUS
<1> HIDE DEF kept, level, unended, grouped, repeats
<1>6. Node(kind, parts) \in Trees
  BY <1>1, <1>2, <1>3, <1>4, <1>5 DEF Trees
<1>7. Node(kind, parts).kind = kind /\ Node(kind, parts).level = level /\ Node(kind, parts).open = unended
  BY <1>4
<1> QED
  BY <1>6, <1>7 DEF level, unended

LEMMA PlainNode ==
  ASSUME NEW kind \in PlainKinds, NEW parts \in Seq(Trees)
  PROVE  /\ Node(kind, parts) \in Trees
         /\ Node(kind, parts).kind = kind /\ Node(kind, parts).level = 12 /\ Node(kind, parts).open = FALSE
<1>1. /\ kind # "assign" /\ kind # "conditional" /\ kind # "lambda" /\ kind # "unary" /\ kind # "binary"
      /\ kind \notin PostfixKinds
  BY DEF PlainKinds, PostfixKinds
<1>2. Level(kind, parts) = 12
  BY <1>1 DEF Level
<1>3. OpenEnded(kind, parts[Len(parts)]) = FALSE
  BY <1>1 DEF OpenEnded
<1>4. Groups(kind, Level(kind, parts), parts[1], parts[Len(parts)])
  <2>1. ASSUME NEW level, NEW first, NEW last PROVE Groups(kind, level, first, last)
    BY <1>1 DEF Groups
  <2> QED
    BY <2>1, Zenon
<1>7. kind \in NodeKinds
  BY DEF NodeKinds
<1>5. Level(kind, parts) \in Int /\ OpenEnded(kind, parts[Len(parts)]) \in BOOLEAN
  <2>1. Level(kind, parts) \in Int
    BY <1>2
  <2>2. OpenEnded(kind, parts[Len(parts)]) \in BOOLEAN
    BY <1>3, Zenon
  <2> QED
    BY <2>1, <2>2
<1>6. /\ Node(kind, parts) \in Trees
      /\ Node(kind, parts).kind = kind
      /\ Node(kind, parts).level = Level(kind, parts)
      /\ Node(kind, parts).open = OpenEnded(kind, parts[Len(parts)])
  BY <1>4, <1>5, <1>7, NodeIsTree
<1> QED
  BY <1>2, <1>3, <1>6

-----------------------------------------------------------------------------
(***************************************************************************)
(* Code that leaves the first h of the values v alone.                     *)
(***************************************************************************)
Holding(h, v) == {p \in Configurations : Keeps(h, v, p[2])}
PlainCode(code, h, v) == Valid(Holding(h, v), code, Holding(h, v))

LEMMA KeepsMore ==
  ASSUME NEW h \in Nat, NEW v, NEW u, Keeps(h, v, u), NEW t \in Trees
  PROVE  Keeps(h, v, Append(u, t))
BY DEF Keeps

LEMMA KeepsOnly ==
  ASSUME NEW h \in Nat, NEW v, NEW u, Keeps(h, v, u), NEW t \in Trees
  PROVE  Keeps(h, v, Append(SubSeq(u, 1, h), t)) /\ SubSeq(u, h + 1, Len(u)) \in Seq(Trees)
BY DEF Keeps

LEMMA KeepsStill ==
  ASSUME NEW h \in Nat, NEW v, NEW u, Keeps(h, v, u), NEW g \in Nat, h <= g, NEW w, Keeps(g, u, w)
  PROVE  Keeps(h, v, w)
BY DEF Keeps

LEMMA KeptIs ==
  ASSUME NEW h, NEW v, NEW p
  PROVE  p \in Holding(h, v) <=> p \in Configurations /\ Keeps(h, v, p[2])
BY DEF Holding

LEMMA Pairs ==
  ASSUME NEW c \in Alphabet, NEW u \in Seq(Trees)
  PROVE  <<c, u>> \in Configurations /\ <<c, u>>[1] = c /\ <<c, u>>[2] = u
BY DEF Configurations

LEMMA KeptPair ==
  ASSUME NEW h, NEW v, NEW c \in Alphabet, NEW u, Keeps(h, v, u)
  PROVE  <<c, u>> \in Holding(h, v)
<1>1. u \in Seq(Trees)
  BY DEF Keeps
<1> QED
  BY <1>1, Pairs, KeptIs

LEMMA Taking ==
  ASSUME NEW h \in Nat, NEW v, NEW p \in Holding(h, v), NEW d \in Alphabet
  PROVE  <<d, Append(p[2], Leaf(p[1]))>> \in Holding(h, v)
<1>1. p[1] \in Alphabet /\ Keeps(h, v, p[2])
  BY KeptIs DEF Configurations
<1>2. Keeps(h, v, Append(p[2], Leaf(p[1])))
  BY <1>1, LeafIsTree, KeepsMore
<1> QED
  BY <1>2, KeptPair

LEMMA PlainItems ==
  ASSUME NEW h \in Nat, NEW v
  PROVE  /\ PlainCode(<<Take>>, h, v) /\ PlainCode(<<Fail>>, h, v)
         /\ \A t : PlainCode(<<Expect(t)>>, h, v) /\ PlainCode(<<Maybe(t)>>, h, v)
         /\ \A by : PlainCode(<<Nest(by)>>, h, v)
<1> DEFINE P == Holding(h, v)
<1>1. P \subseteq Configurations
  BY DEF Holding
<1>2. \A p \in P, d \in Alphabet : <<d, Append(p[2], Leaf(p[1]))>> \in P
  BY Taking
<1> HIDE DEF P
<1>3. Valid(P, <<Take>>, P)
  BY <1>1, <1>2, TakeRule
<1>4. Valid(P, <<Fail>>, P)
  BY <1>1, FailRule
<1>5. ASSUME NEW t PROVE Valid(P, <<Expect(t)>>, P)
  BY <1>1, <1>2, ExpectRule
<1>6. ASSUME NEW t PROVE Valid(P, <<Maybe(t)>>, P)
  BY <1>1, <1>2, MaybeRule
<1>7. ASSUME NEW by PROVE Valid(P, <<Nest(by)>>, P)
  BY <1>1, NestRule
<1> QED
  BY <1>3, <1>4, <1>5, <1>6, <1>7 DEF PlainCode, P

LEMMA PlainBuild ==
  ASSUME NEW h \in Nat, NEW v, NEW kind \in PlainKinds
  PROVE  PlainCode(<<Build(kind, h)>>, h, v)
<1> DEFINE P == Holding(h, v)
<1>1. P \subseteq Configurations
  BY DEF Holding
<1>2. ASSUME NEW p \in P
      PROVE  LET t == Node(kind, SubSeq(p[2], h + 1, Len(p[2])))
             IN  /\ h \in 0 .. Len(p[2]) /\ t \in Trees
                 /\ <<p[1], Append(SubSeq(p[2], 1, h), t)>> \in P
  <2> DEFINE t == Node(kind, SubSeq(p[2], h + 1, Len(p[2])))
  <2>1. p[1] \in Alphabet /\ p[2] \in Seq(Trees) /\ Keeps(h, v, p[2])
    BY KeptIs DEF Configurations
  <2>2. h \in 0 .. Len(p[2])
    BY <2>1 DEF Keeps
  <2>3. SubSeq(p[2], h + 1, Len(p[2])) \in Seq(Trees)
    BY <2>1, <2>2
  <2>4. t \in Trees
    BY <2>3, PlainNode
  <2> HIDE DEF t
  <2>5. Keeps(h, v, Append(SubSeq(p[2], 1, h), t))
    BY <2>1, <2>4, KeepsOnly
  <2>6. <<p[1], Append(SubSeq(p[2], 1, h), t)>> \in P
    BY <2>1, <2>5, KeptPair
  <2> QED
    BY <2>2, <2>4, <2>6 DEF t
<1> HIDE DEF P
<1>3. Valid(P, <<Build(kind, h)>>, P)
  BY <1>1, <1>2, BuildRule
<1> QED
  BY <1>3 DEF PlainCode, P

Relying == {"postfix", "binary", "binary_loop", "assign", "for"}

LEMMA PlainCall ==
  ASSUME NEW h \in Nat, NEW v, NEW f, NEW n, f \in Procedures, f \notin Relying \/ (f = "for" /\ n = h)
  PROVE  PlainCode(<<CallAt(f, n)>>, h, v)
<1> DEFINE P == Holding(h, v)
<1>1. P \subseteq Configurations
  BY DEF Holding
<1>2. ASSUME NEW p \in P
      PROVE  /\ Relies(f, n, p[1], p[2])
             /\ \A d \in Alphabet, u \in Seq(Trees) : After(f, n, p[2], d, u) => <<d, u>> \in P
  <2>1. p[1] \in Alphabet /\ p[2] \in Seq(Trees) /\ Keeps(h, v, p[2])
    BY KeptIs DEF Configurations
  <2>2. Len(p[2]) \in Nat /\ h <= Len(p[2])
    BY <2>1 DEF Keeps
  <2>3. Relies(f, n, p[1], p[2])
    BY <2>2 DEF Relies, Relying, Procedures
  <2>4. Base(f, n, p[2]) \in Nat /\ h <= Base(f, n, p[2])
    BY <2>2 DEF Base, Relying
  <2>5. ASSUME NEW d \in Alphabet, NEW u \in Seq(Trees), After(f, n, p[2], d, u) PROVE <<d, u>> \in P
    <3>1. Keeps(Base(f, n, p[2]), p[2], u)
      BY <2>5, Zenon DEF After
    <3>2. Keeps(h, v, u)
      BY <2>1, <2>4, <3>1, KeepsStill
    <3> QED
      BY <3>2, KeptPair
  <2> QED
    BY <2>3, <2>5
<1> HIDE DEF P
<1>3. Valid(P, <<CallAt(f, n)>>, P)
  BY <1>1, <1>2, CallRule
<1> QED
  BY <1>3 DEF PlainCode, P

-----------------------------------------------------------------------------
(***************************************************************************)
(* What the code of a function does: from any configuration that has the   *)
(* first h of the values the function was called with, to one of M.        *)
(***************************************************************************)
Good(code, h, M) == Valid(Holding(h, values), code, M)
Plain(code, h) == Good(code, h, Holding(h, values))

LEMMA GoodTuples ==
  ASSUME NEW h \in Nat, NEW M
  PROVE  /\ \A a, z : Plain(<<a>>, h) /\ Good(<<z>>, h, M) => Good(<<a, z>>, h, M)
         /\ \A a, b, z : (\A x \in {a, b} : Plain(<<x>>, h)) /\ Good(<<z>>, h, M)
                              => Good(<<a, b, z>>, h, M)
         /\ \A a, b, c, z : (\A x \in {a, b, c} : Plain(<<x>>, h)) /\ Good(<<z>>, h, M)
                              => Good(<<a, b, c, z>>, h, M)
         /\ \A a, b, c, d, z : (\A x \in {a, b, c, d} : Plain(<<x>>, h)) /\ Good(<<z>>, h, M)
                              => Good(<<a, b, c, d, z>>, h, M)
         /\ \A a, b, c, d, e, z : (\A x \in {a, b, c, d, e} : Plain(<<x>>, h)) /\ Good(<<z>>, h, M)
                              => Good(<<a, b, c, d, e, z>>, h, M)
         /\ \A a, b, c, d, e, f, z : (\A x \in {a, b, c, d, e, f} : Plain(<<x>>, h)) /\ Good(<<z>>, h, M)
                              => Good(<<a, b, c, d, e, f, z>>, h, M)
         /\ \A a, b, c, d, e, f, g, z : (\A x \in {a, b, c, d, e, f, g} : Plain(<<x>>, h)) /\ Good(<<z>>, h, M)
                              => Good(<<a, b, c, d, e, f, g, z>>, h, M)
<1>1. ASSUME NEW code, IsSeq(code), code # << >>, Plain(<<Head(code)>>, h), Good(Tail(code), h, M)
      PROVE  Good(code, h, M)
  BY <1>1, Then DEF Good, Plain
<1>2. ASSUME NEW a, NEW z, \A x \in {a} : Plain(<<x>>, h), Good(<<z>>, h, M)
      PROVE  Good(<<a, z>>, h, M)
  <2> DEFINE code == <<a, z>>
  <2>1. code \in Seq({a, z}) /\ code # << >> /\ Head(code) = a /\ Tail(code) = <<z>>
    OBVIOUS
  <2>2. Good(<<z>>, h, M) /\ Plain(<<a>>, h)
    BY <1>2
  <2> HIDE DEF code
  <2>3. IsSeq(code)
    BY <2>1, Zenon DEF IsSeq
  <2>4. Good(code, h, M)
    BY <1>1, <2>1, <2>2, <2>3
  <2> QED
    BY <2>4 DEF code
<1>3. ASSUME NEW a, NEW b, NEW z, \A x \in {a, b} : Plain(<<x>>, h), Good(<<z>>, h, M)
      PROVE  Good(<<a, b, z>>, h, M)
  <2> DEFINE code == <<a, b, z>>
  <2>1. code \in Seq({a, b, z}) /\ code # << >> /\ Head(code) = a /\ Tail(code) = <<b, z>>
    OBVIOUS
  <2>2. Good(<<b, z>>, h, M) /\ Plain(<<a>>, h)
    BY <1>3, <1>2
  <2> HIDE DEF code
  <2>3. IsSeq(code)
    BY <2>1, Zenon DEF IsSeq
  <2>4. Good(code, h, M)
    BY <1>1, <2>1, <2>2, <2>3
  <2> QED
    BY <2>4 DEF code
<1>4. ASSUME NEW a, NEW b, NEW c, NEW z, \A x \in {a, b, c} : Plain(<<x>>, h), Good(<<z>>, h, M)
      PROVE  Good(<<a, b, c, z>>, h, M)
  <2> DEFINE code == <<a, b, c, z>>
  <2>1. code \in Seq({a, b, c, z}) /\ code # << >> /\ Head(code) = a /\ Tail(code) = <<b, c, z>>
    OBVIOUS
  <2>2. Good(<<b, c, z>>, h, M) /\ Plain(<<a>>, h)
    BY <1>4, <1>3
  <2> HIDE DEF code
  <2>3. IsSeq(code)
    BY <2>1, Zenon DEF IsSeq
  <2>4. Good(code, h, M)
    BY <1>1, <2>1, <2>2, <2>3
  <2> QED
    BY <2>4 DEF code
<1>5. ASSUME NEW a, NEW b, NEW c, NEW d, NEW z, \A x \in {a, b, c, d} : Plain(<<x>>, h), Good(<<z>>, h, M)
      PROVE  Good(<<a, b, c, d, z>>, h, M)
  <2> DEFINE code == <<a, b, c, d, z>>
  <2>1. code \in Seq({a, b, c, d, z}) /\ code # << >> /\ Head(code) = a /\ Tail(code) = <<b, c, d, z>>
    OBVIOUS
  <2>2. Good(<<b, c, d, z>>, h, M) /\ Plain(<<a>>, h)
    BY <1>5, <1>4
  <2> HIDE DEF code
  <2>3. IsSeq(code)
    BY <2>1, Zenon DEF IsSeq
  <2>4. Good(code, h, M)
    BY <1>1, <2>1, <2>2, <2>3
  <2> QED
    BY <2>4 DEF code
<1>6. ASSUME NEW a, NEW b, NEW c, NEW d, NEW e, NEW z, \A x \in {a, b, c, d, e} : Plain(<<x>>, h), Good(<<z>>, h, M)
      PROVE  Good(<<a, b, c, d, e, z>>, h, M)
  <2> DEFINE code == <<a, b, c, d, e, z>>
  <2>1. code \in Seq({a, b, c, d, e, z}) /\ code # << >> /\ Head(code) = a /\ Tail(code) = <<b, c, d, e, z>>
    OBVIOUS
  <2>2. Good(<<b, c, d, e, z>>, h, M) /\ Plain(<<a>>, h)
    BY <1>6, <1>5
  <2> HIDE DEF code
  <2>3. IsSeq(code)
    BY <2>1, Zenon DEF IsSeq
  <2>4. Good(code, h, M)
    BY <1>1, <2>1, <2>2, <2>3
  <2> QED
    BY <2>4 DEF code
<1>7. ASSUME NEW a, NEW b, NEW c, NEW d, NEW e, NEW f, NEW z, \A x \in {a, b, c, d, e, f} : Plain(<<x>>, h), Good(<<z>>, h, M)
      PROVE  Good(<<a, b, c, d, e, f, z>>, h, M)
  <2> DEFINE code == <<a, b, c, d, e, f, z>>
  <2>1. code \in Seq({a, b, c, d, e, f, z}) /\ code # << >> /\ Head(code) = a /\ Tail(code) = <<b, c, d, e, f, z>>
    OBVIOUS
  <2>2. Good(<<b, c, d, e, f, z>>, h, M) /\ Plain(<<a>>, h)
    BY <1>7, <1>6
  <2> HIDE DEF code
  <2>3. IsSeq(code)
    BY <2>1, Zenon DEF IsSeq
  <2>4. Good(code, h, M)
    BY <1>1, <2>1, <2>2, <2>3
  <2> QED
    BY <2>4 DEF code
<1>8. ASSUME NEW a, NEW b, NEW c, NEW d, NEW e, NEW f, NEW g, NEW z, \A x \in {a, b, c, d, e, f, g} : Plain(<<x>>, h), Good(<<z>>, h, M)
      PROVE  Good(<<a, b, c, d, e, f, g, z>>, h, M)
  <2> DEFINE code == <<a, b, c, d, e, f, g, z>>
  <2>1. code \in Seq({a, b, c, d, e, f, g, z}) /\ code # << >> /\ Head(code) = a /\ Tail(code) = <<b, c, d, e, f, g, z>>
    OBVIOUS
  <2>2. Good(<<b, c, d, e, f, g, z>>, h, M) /\ Plain(<<a>>, h)
    BY <1>8, <1>7
  <2> HIDE DEF code
  <2>3. IsSeq(code)
    BY <2>1, Zenon DEF IsSeq
  <2>4. Good(code, h, M)
    BY <1>1, <2>1, <2>2, <2>3
  <2> QED
    BY <2>4 DEF code
<1> QED
  BY <1>2, <1>3, <1>4, <1>5, <1>6, <1>7, <1>8

\* Making one tree of T.
Made(h, T) == {p \in Holding(h, values) : Len(p[2]) = h + 1 /\ p[2][h + 1] \in T}
Whole(kinds) == {t \in Trees : t.kind \in kinds /\ t.level = 12 /\ t.open = FALSE}

LEMMA Items ==
  ASSUME NEW h \in Nat
  PROVE  /\ Plain(<< >>, h) /\ Plain(<<Take>>, h) /\ Plain(<<Fail>>, h)
         /\ \A t : Plain(<<Expect(t)>>, h)
         /\ \A t : Plain(<<Maybe(t)>>, h)
         /\ \A by : Plain(<<Nest(by)>>, h)
         /\ \A kind \in PlainKinds : Plain(<<Build(kind, h)>>, h)
<1>1. Plain(<< >>, h)
  BY Nothing DEF Plain, Good
<1>2. /\ Plain(<<Take>>, h) /\ Plain(<<Fail>>, h)
      /\ \A t : Plain(<<Expect(t)>>, h) /\ Plain(<<Maybe(t)>>, h)
      /\ \A by : Plain(<<Nest(by)>>, h)
  BY PlainItems, Zenon DEF Plain, Good, PlainCode
<1>3. \A kind \in PlainKinds : Plain(<<Build(kind, h)>>, h)
  BY PlainBuild, Zenon DEF Plain, Good, PlainCode
<1> QED
  BY <1>1, <1>2, <1>3, Zenon

LEMMA GoodEnds ==
  ASSUME NEW h \in Nat, NEW M
  PROVE  /\ Good(<<Fail>>, h, M)
         /\ \A ts, then, els : Good(then, h, M) /\ Good(els, h, M) => Good(<<If(ts, then, els)>>, h, M)
         /\ \A then : Good(then, h, M) => Good(<<Named(then)>>, h, M)
<1> DEFINE P == Holding(h, values)
<1>1. P \subseteq Configurations
  BY DEF Holding
<1> HIDE DEF P
<1>2. Valid(P, <<Fail>>, M)
  BY <1>1, FailRule
<1>3. ASSUME NEW ts, NEW then, NEW els, Valid(P, then, M), Valid(P, els, M)
      PROVE  Valid(P, <<If(ts, then, els)>>, M)
  <2>1. {p \in P : p[1] \in ts} \subseteq P /\ {p \in P : p[1] \notin ts} \subseteq P
    OBVIOUS
  <2>2. Valid({p \in P : p[1] \in ts}, then, M) /\ Valid({p \in P : p[1] \notin ts}, els, M)
    BY <1>3, <2>1, Weaken
  <2> QED
    BY <1>1, <2>2, IfRule
<1>4. ASSUME NEW then, Valid(P, then, M) PROVE Valid(P, <<Named(then)>>, M)
  BY <1>2, <1>3, <1>4, Zenon DEF Named
<1> QED
  BY <1>2, <1>3, <1>4, Zenon DEF Good, P

LEMMA PlainBranches ==
  ASSUME NEW h \in Nat
  PROVE  /\ \A ts, then, els : Plain(then, h) /\ Plain(els, h) => Plain(<<If(ts, then, els)>>, h)
         /\ \A ts, then : Plain(then, h) => Plain(<<On(ts, then)>>, h)
         /\ \A ts, then : Plain(then, h) => Plain(<<Unless(ts, then)>>, h)
         /\ \A then : Plain(then, h) => Plain(<<Named(then)>>, h)
<1>1. \A ts, then, els : Plain(then, h) /\ Plain(els, h) => Plain(<<If(ts, then, els)>>, h)
  BY GoodEnds, Zenon DEF Plain
<1>2. \A then : Plain(then, h) => Plain(<<Named(then)>>, h)
  BY GoodEnds, Zenon DEF Plain
<1> QED
  BY <1>1, <1>2, Items, Zenon DEF On, Unless

LEMMA PlainTuples ==
  ASSUME NEW h \in Nat
  PROVE  /\ \A a, z : Plain(<<a>>, h) /\ Plain(<<z>>, h) => Plain(<<a, z>>, h)
         /\ \A a, b, z : Plain(<<a>>, h) /\ Plain(<<b>>, h) /\ Plain(<<z>>, h) => Plain(<<a, b, z>>, h)
         /\ \A a, b, c, z : Plain(<<a>>, h) /\ Plain(<<b>>, h) /\ Plain(<<c>>, h) /\ Plain(<<z>>, h)
                            => Plain(<<a, b, c, z>>, h)
         /\ \A a, b, c, d, z : /\ Plain(<<a>>, h) /\ Plain(<<b>>, h) /\ Plain(<<c>>, h) /\ Plain(<<d>>, h)
                               /\ Plain(<<z>>, h)
                               => Plain(<<a, b, c, d, z>>, h)
         /\ \A a, b, c, d, e, z : (\A x \in {a, b, c, d, e} : Plain(<<x>>, h)) /\ Plain(<<z>>, h)
                                  => Plain(<<a, b, c, d, e, z>>, h)
         /\ \A a, b, c, d, e, f, z : (\A x \in {a, b, c, d, e, f} : Plain(<<x>>, h)) /\ Plain(<<z>>, h)
                                     => Plain(<<a, b, c, d, e, f, z>>, h)
         /\ \A a, b, c, d, e, f, g, z : (\A x \in {a, b, c, d, e, f, g} : Plain(<<x>>, h)) /\ Plain(<<z>>, h)
                                        => Plain(<<a, b, c, d, e, f, g, z>>, h)
<1> DEFINE M == Holding(h, values)
<1>1. ASSUME NEW code PROVE Plain(code, h) <=> Good(code, h, M)
  BY DEF Plain
<1> HIDE DEF M
<1>2. /\ \A a, z : Plain(<<a>>, h) /\ Good(<<z>>, h, M) => Good(<<a, z>>, h, M)
      /\ \A a, b, z : (\A x \in {a, b} : Plain(<<x>>, h)) /\ Good(<<z>>, h, M) => Good(<<a, b, z>>, h, M)
      /\ \A a, b, c, z : (\A x \in {a, b, c} : Plain(<<x>>, h)) /\ Good(<<z>>, h, M) => Good(<<a, b, c, z>>, h, M)
      /\ \A a, b, c, d, z : (\A x \in {a, b, c, d} : Plain(<<x>>, h)) /\ Good(<<z>>, h, M)
                            => Good(<<a, b, c, d, z>>, h, M)
  BY GoodTuples
<1>3. /\ \A a, b, c, d, e, z : (\A x \in {a, b, c, d, e} : Plain(<<x>>, h)) /\ Plain(<<z>>, h)
                               => Plain(<<a, b, c, d, e, z>>, h)
      /\ \A a, b, c, d, e, f, z : (\A x \in {a, b, c, d, e, f} : Plain(<<x>>, h)) /\ Plain(<<z>>, h)
                                  => Plain(<<a, b, c, d, e, f, z>>, h)
      /\ \A a, b, c, d, e, f, g, z : (\A x \in {a, b, c, d, e, f, g} : Plain(<<x>>, h)) /\ Plain(<<z>>, h)
                                     => Plain(<<a, b, c, d, e, f, g, z>>, h)
  BY <1>1, GoodTuples, Zenon
<1>4. /\ \A a, z : Plain(<<a>>, h) /\ Plain(<<z>>, h) => Plain(<<a, z>>, h)
      /\ \A a, b, z : (\A x \in {a, b} : Plain(<<x>>, h)) /\ Plain(<<z>>, h) => Plain(<<a, b, z>>, h)
      /\ \A a, b, c, z : (\A x \in {a, b, c} : Plain(<<x>>, h)) /\ Plain(<<z>>, h) => Plain(<<a, b, c, z>>, h)
      /\ \A a, b, c, d, z : (\A x \in {a, b, c, d} : Plain(<<x>>, h)) /\ Plain(<<z>>, h)
                            => Plain(<<a, b, c, d, z>>, h)
  BY <1>1, <1>2, Zenon
<1>5. \A a, b : Plain(<<a>>, h) /\ Plain(<<b>>, h) => \A x \in {a, b} : Plain(<<x>>, h)
  OBVIOUS
<1>6. \A a, b, c : Plain(<<a>>, h) /\ Plain(<<b>>, h) /\ Plain(<<c>>, h) => \A x \in {a, b, c} : Plain(<<x>>, h)
  OBVIOUS
<1>7. \A a, b, c, d : Plain(<<a>>, h) /\ Plain(<<b>>, h) /\ Plain(<<c>>, h) /\ Plain(<<d>>, h)
                      => \A x \in {a, b, c, d} : Plain(<<x>>, h)
  OBVIOUS
<1> QED
  BY <1>3, <1>4, <1>5, <1>6, <1>7, Zenon

LEMMA Calls ==
  ASSUME NEW h \in Nat, NEW f, f \in Procedures \ Relying
  PROVE  Plain(<<Call(f)>>, h) /\ \A n : Plain(<<CallAt(f, n)>>, h)
<1>1. \A n : Plain(<<CallAt(f, n)>>, h)
  BY PlainCall, Zenon DEF Plain, Good, PlainCode
<1> QED
  BY <1>1, Zenon DEF Call

LEMMA BuildMakes ==
  ASSUME NEW h \in Nat, NEW kind \in PlainKinds
  PROVE  Good(<<Build(kind, h)>>, h, Made(h, Whole({kind})))
<1> DEFINE P == Holding(h, values)
           M == Made(h, Whole({kind}))
<1>1. P \subseteq Configurations
  BY DEF Holding
<1>2. ASSUME NEW p \in P
      PROVE  LET t == Node(kind, SubSeq(p[2], h + 1, Len(p[2])))
             IN  /\ h \in 0 .. Len(p[2]) /\ t \in Trees
                 /\ <<p[1], Append(SubSeq(p[2], 1, h), t)>> \in M
  <2> DEFINE t == Node(kind, SubSeq(p[2], h + 1, Len(p[2])))
             u == Append(SubSeq(p[2], 1, h), t)
  <2>1. p[1] \in Alphabet /\ p[2] \in Seq(Trees) /\ Keeps(h, values, p[2])
    BY KeptIs DEF Configurations
  <2>2. h \in 0 .. Len(p[2])
    BY <2>1 DEF Keeps
  <2>3. SubSeq(p[2], h + 1, Len(p[2])) \in Seq(Trees)
    BY <2>1, <2>2
  <2>4. t \in Trees /\ t.kind = kind /\ t.level = 12 /\ t.open = FALSE
    BY <2>3, PlainNode
  <2> HIDE DEF t
  <2>5. Keeps(h, values, u) /\ Len(u) = h + 1 /\ u[h + 1] = t
    BY <2>1, <2>2, <2>4, KeepsOnly
  <2>6. <<p[1], u>> \in P
    BY <2>1, <2>5, KeptPair
  <2>7. t \in Whole({kind})
    BY <2>4 DEF Whole
  <2> HIDE DEF u
  <2>8. <<p[1], u>> \in M
    BY <2>5, <2>6, <2>7 DEF Made
  <2> QED
    BY <2>2, <2>4, <2>8 DEF t, u
<1> HIDE DEF P, M
<1>3. Valid(P, <<Build(kind, h)>>, M)
  BY <1>1, <1>2, BuildRule
<1> QED
  BY <1>3 DEF Good, P, M

LEMMA Known ==
  ASSUME NEW h \in Nat
  PROVE  /\ Plain(<<Call("type")>>, h) /\ Plain(<<Call("types")>>, h) /\ Plain(<<Call("expr")>>, h)
         /\ Plain(<<Call("lambda_params")>>, h) /\ Plain(<<Call("args")>>, h) /\ Plain(<<Call("elems")>>, h)
         /\ Plain(<<Call("arguments")>>, h) /\ Plain(<<Call("fields")>>, h) /\ Plain(<<Call("block")>>, h)
         /\ Plain(<<Call("stmt")>>, h) /\ Plain(<<Call("stmts")>>, h) /\ Plain(<<Call("if")>>, h)
         /\ Plain(<<Call("region")>>, h) /\ Plain(<<Call("fn_decl")>>, h) /\ Plain(<<Call("enum_decl")>>, h)
         /\ Plain(<<Call("var_decl")>>, h) /\ Plain(<<Call("comptime")>>, h) /\ Plain(<<Call("arms")>>, h)
         /\ Plain(<<Call("arm")>>, h) /\ Plain(<<Call("pattern")>>, h) /\ Plain(<<Call("params")>>, h)
         /\ Plain(<<Call("variants")>>, h) /\ Plain(<<Call("section")>>, h) /\ Plain(<<Call("sections")>>, h)
         /\ Plain(<<Call("member")>>, h) /\ Plain(<<Call("members")>>, h) /\ Plain(<<Call("condition")>>, h)
         /\ \A n : Plain(<<CallAt("type_args", n)>>, h)
         /\ Plain(<<CallAt("for", h)>>, h)
<1>1. \A f \in {"type", "types", "expr", "lambda_params", "args", "elems", "arguments", "fields", "block", "stmt", "stmts", "if", "region", "fn_decl", "enum_decl", "var_decl", "comptime", "arms", "arm", "pattern", "params", "variants", "section", "sections", "member", "members", "condition"} : Plain(<<Call(f)>>, h)
  <2>1. \A f \in {"type", "types", "expr", "lambda_params", "args", "elems", "arguments", "fields", "block", "stmt", "stmts", "if", "region", "fn_decl", "enum_decl", "var_decl", "comptime", "arms", "arm", "pattern", "params", "variants", "section", "sections", "member", "members", "condition"} : f \in Procedures \ Relying
    BY DEF Relying, Procedures
  <2> QED
    BY <2>1, Calls, Zenon
<1>2. \A n : Plain(<<CallAt("type_args", n)>>, h)
  <2>1. "type_args" \in Procedures \ Relying
    BY DEF Relying, Procedures
  <2> QED
    BY <2>1, Calls, Zenon
<1>3. Plain(<<CallAt("for", h)>>, h)
  <2>1. "for" \in Procedures
    BY DEF Procedures
  <2> QED
    BY <2>1, PlainCall, Zenon DEF Plain, Good, PlainCode
<1> QED
  BY <1>1, <1>2, <1>3, Zenon

-----------------------------------------------------------------------------
(***************************************************************************)
(* Procedures that add some trees to those there are.                       *)
(***************************************************************************)
Held == values \in Seq(Trees)

LEMMA HeightIs ==
  ASSUME Held
  PROVE  Height \in Nat
BY DEF Held, Height

LEMMA Returns ==
  ASSUME NEW h \in Nat
  PROVE  Plain(<<ReturnType>>, h) /\ Plain(<<Annotation>>, h) /\ Plain(<<Initialiser>>, h) /\ Plain(<<Condition>>, h)
<1>1. Plain(<<Take, Call("type")>>, h) /\ Plain(<<Take, Call("expr")>>, h)
  BY Known, Items, PlainTuples
<1> QED
  BY <1>1, PlainBranches, Known, Zenon DEF ReturnType, Annotation, Initialiser, Condition

LEMMA TypePlain ==
  ASSUME Held
  PROVE  Plain(parse_type, Height)
<1> DEFINE h == Height
           pointer == <<Take, Call("type"), Build("type", h)>>
           length == <<Take, Maybe("lit")>>
           item == <<Call("type"), On({";"}, length)>>
           array == <<Take, Unless({"]"}, item), Expect("]"), Build("type", h)>>
           parameters == <<Take, Call("types"), Expect(")")>>
           function == <<Take, On({"("}, parameters), ReturnType, Build("type", h)>>
           arguments_ == <<Take, CallAt("type_args", 1)>>
           name == <<Take, On({"<"}, arguments_), Build("type", h)>>
<1>1. h \in Nat
  BY HeightIs
<1>2. parse_type = CASE cur \in {"&", "*"} -> pointer [] cur = "[" -> array [] cur = "fn" -> function
                     [] cur = "int" -> <<Take>> [] cur \in Ids -> name [] OTHER -> << >>
  BY Zenon DEF parse_type
<1> HIDE DEF h
<1>3. Plain(<<Build("type", h)>>, h)
  BY <1>1, Items DEF PlainKinds
<1>4. Plain(pointer, h)
  BY <1>1, <1>3, Known, Items, PlainTuples
<1>5. Plain(length, h) /\ Plain(parameters, h) /\ Plain(arguments_, h)
  BY <1>1, Known, Items, PlainTuples
<1> HIDE DEF length, parameters, arguments_
<1>6. Plain(item, h)
  BY <1>1, <1>5, Known, PlainBranches, PlainTuples
<1> HIDE DEF item
<1>7. Plain(array, h)
  BY <1>1, <1>3, <1>6, Items, PlainBranches, PlainTuples
<1>8. Plain(function, h)
  BY <1>1, <1>3, <1>5, Items, Returns, PlainBranches, PlainTuples
<1>9. Plain(name, h)
  BY <1>1, <1>3, <1>5, Items, PlainBranches, PlainTuples
<1>10. Plain(<<Take>>, h) /\ Plain(<< >>, h)
  BY <1>1, Items
<1> HIDE DEF pointer, array, function, name
<1>11. Plain(parse_type, h)
  BY <1>2, <1>4, <1>7, <1>8, <1>9, <1>10
<1> QED
  BY <1>11 DEF h

LEMMA ListsPlain ==
  ASSUME Held
  PROVE  /\ Plain(types, Height) /\ Plain(arguments, Height) /\ Plain(condition, Height)
         /\ Plain(lambda_params, Height) /\ Plain(fields, Height) /\ Plain(params, Height)
         /\ Plain(List("args", ")"), Height) /\ Plain(List("elems", "]"), Height)
         /\ Plain(stmts, Height) /\ Plain(arms, Height) /\ Plain(sections, Height) /\ Plain(members, Height)
         /\ Plain(variants, Height)
<1> DEFINE h == Height
<1>1. h \in Nat
  BY HeightIs
<1> HIDE DEF h
<1>2. Plain(types, h)
  <2>1. Plain(<<Take, Call("types")>>, h)
    BY <1>1, Known, Items, PlainTuples
  <2>2. Plain(<<Call("type"), On({","}, <<Take, Call("types")>>)>>, h)
    BY <1>1, <2>1, Known, PlainBranches, PlainTuples
  <2> QED
    BY <1>1, <2>2, PlainBranches, Zenon DEF types
<1>3. Plain(arguments, h)
  BY <1>1, Known, Items, PlainTuples DEF arguments
<1>4. Plain(condition, h)
  BY <1>1, Known, Items, PlainTuples DEF condition
<1>5. Plain(lambda_params, h)
  <2> DEFINE more == <<Take, Call("lambda_params")>>
             one == <<Take, Annotation, On({","}, more)>>
  <2>1. Plain(more, h)
    BY <1>1, Known, Items, PlainTuples
  <2> HIDE DEF more
  <2>2. Plain(one, h)
    BY <1>1, <2>1, Items, Returns, PlainBranches, PlainTuples
  <2> HIDE DEF one
  <2>3. Plain(<<Named(one)>>, h)
    BY <1>1, <2>2, PlainBranches, Zenon
  <2> QED
    BY <1>1, <2>3, PlainBranches, Zenon DEF lambda_params, more, one
<1>6. Plain(fields, h)
  <2> DEFINE more == <<Take, Call("fields")>>
             one == <<Take, Expect(":"), Call("expr"), On({","}, more)>>
  <2>1. Plain(more, h)
    BY <1>1, Known, Items, PlainTuples
  <2> HIDE DEF more
  <2>2. Plain(one, h)
    BY <1>1, <2>1, Known, Items, PlainBranches, PlainTuples
  <2> HIDE DEF one
  <2>3. Plain(<<Named(one)>>, h)
    BY <1>1, <2>2, PlainBranches, Zenon
  <2> QED
    BY <1>1, <2>3, PlainBranches, Zenon DEF fields, more, one
<1>7. Plain(params, h)
  <2> DEFINE more == <<Take, Call("params")>>
             one == <<Take, Annotation, Initialiser, On({","}, more)>>
  <2>1. Plain(more, h)
    BY <1>1, Known, Items, PlainTuples
  <2> HIDE DEF more
  <2>2. Plain(one, h)
    BY <1>1, <2>1, Returns, Items, PlainBranches, PlainTuples
  <2> HIDE DEF one
  <2>3. Plain(<<Named(one)>>, h)
    BY <1>1, <2>2, PlainBranches, Zenon
  <2>4. Plain(<<Maybe("mut"), Named(one)>>, h)
    BY <1>1, <2>3, Items, PlainTuples
  <2> QED
    BY <1>1, <2>4, PlainBranches, Zenon DEF params, more, one
<1>8. ASSUME NEW f, NEW close, Plain(<<Call(f)>>, h) PROVE Plain(List(f, close), h)
  <2> DEFINE more == <<Take, Call(f)>>
             one == <<Call("expr"), On({","}, more)>>
  <2>1. Plain(more, h)
    BY <1>1, <1>8, Items, PlainTuples
  <2> HIDE DEF more
  <2>2. Plain(one, h)
    BY <1>1, <2>1, Known, PlainBranches, PlainTuples
  <2> HIDE DEF one
  <2> QED
    BY <1>1, <2>2, PlainBranches, Zenon DEF List, more, one
<1>9. Plain(List("args", ")"), h) /\ Plain(List("elems", "]"), h)
  BY <1>1, <1>8, Known
<1>10. ASSUME NEW f, NEW g, NEW ts, Plain(<<Call(f)>>, h), Plain(<<Call(g)>>, h)
       PROVE  Plain(<<Unless(ts, <<Call(f), Call(g)>>)>>, h)
  <2>1. Plain(<<Call(f), Call(g)>>, h)
    BY <1>1, <1>10, PlainTuples
  <2> QED
    BY <1>1, <2>1, PlainBranches, Zenon
<1>11. Plain(stmts, h) /\ Plain(arms, h) /\ Plain(members, h)
  BY <1>1, <1>10, Known, Zenon DEF stmts, arms, members
<1>12. Plain(sections, h)
  <2>1. Plain(Unexpected, h)
    BY <1>1, Items, PlainTuples DEF Unexpected
  <2>2. Plain(<<If(SectionKinds, <<Call("section")>>, Unexpected)>>, h)
    BY <1>1, <2>1, Known, PlainBranches, Zenon
  <2>3. Plain(<<If(SectionKinds, <<Call("section")>>, Unexpected), Call("sections")>>, h)
    BY <1>1, <2>2, Known, PlainTuples
  <2> QED
    BY <1>1, <2>3, PlainBranches, Zenon DEF sections
<1>13. Plain(variants, h)
  <2> DEFINE payload == <<Take, Call("type"), Expect(")")>>
             more == <<Take, Call("variants")>>
             one == <<Take, On({"("}, payload), On({","}, more)>>
             other == <<Fail, Take, Call("variants")>>
  <2>1. Plain(payload, h) /\ Plain(more, h) /\ Plain(other, h)
    BY <1>1, Known, Items, PlainTuples
  <2> HIDE DEF payload, more, other
  <2>2. Plain(one, h)
    BY <1>1, <2>1, Items, PlainBranches, PlainTuples
  <2> HIDE DEF one
  <2>3. Plain(<<If(Ids, one, other)>>, h)
    BY <1>1, <2>1, <2>2, PlainBranches, Zenon
  <2> QED
    BY <1>1, <2>3, PlainBranches, Zenon DEF variants, payload, more, one, other
<1> QED
  BY <1>2, <1>3, <1>4, <1>5, <1>6, <1>7, <1>9, <1>11, <1>12, <1>13 DEF h

LEMMA TypeArgsPlain ==
  ASSUME Held, NEW n
  PROVE  Plain(type_args(n), Height)
<1>1. Height \in Nat
  BY HeightIs
<1>2. ASSUME NEW left
      PROVE  Plain(IF cur = EOF THEN << >> ELSE IF left = 0 THEN <<Take>> ELSE <<Take, CallAt("type_args", left)>>, Height)
  <2>1. Plain(<< >>, Height) /\ Plain(<<Take>>, Height) /\ Plain(<<Take, CallAt("type_args", left)>>, Height)
    BY <1>1, Known, Items, PlainTuples
  <2> QED
    BY <2>1, Zenon
<1> QED
  BY <1>2, Zenon DEF type_args

LEMMA PatternPlain ==
  ASSUME Held
  PROVE  Plain(pattern, Height) /\ Plain(parse_match_arm, Height)
<1> DEFINE h == Height
<1>1. h \in Nat
  BY HeightIs
<1> HIDE DEF h
<1>2. Plain(pattern, h)
  <2> DEFINE variant == <<Take, On(Ids, <<Take>>), Expect(")")>>
             named == <<Take, On({"("}, variant)>>
             bound == <<Take, Maybe("lit")>>
             literal == <<On({"lit", "char"}, <<Take>>), On({".."}, bound)>>
  <2>1. Plain(<<Take>>, h) /\ Plain(bound, h)
    BY <1>1, Items, PlainTuples
  <2>2. Plain(variant, h)
    BY <1>1, <2>1, Items, PlainBranches, PlainTuples
  <2> HIDE DEF variant, bound
  <2>3. Plain(named, h) /\ Plain(literal, h)
    BY <1>1, <2>1, <2>2, Items, PlainBranches, PlainTuples
  <2>4. pattern = CASE cur = "_" -> <<Take>>
                    [] cur \in Ids \ {"_"} /\ peek \in {"(", "=>", ","} -> named
                    [] OTHER -> literal
    BY Zenon DEF pattern, variant, bound
  <2> DEFINE first == cur = "_"
             second == cur \in Ids \ {"_"} /\ peek \in {"(", "=>", ","}
  <2> HIDE DEF named, literal
  <2>5. pattern = CASE first -> <<Take>> [] second -> named [] OTHER -> literal
    BY <2>4, Zenon
  <2> HIDE DEF first, second
  <2> QED
    BY <2>1, <2>3, <2>5
<1>3. Plain(parse_match_arm, h)
  <2>1. Plain(<<Build("arm", h)>>, h)
    BY <1>1, Items DEF PlainKinds
  <2>2. Plain(<<BodyOr("stmt")>>, h)
    BY <1>1, Known, PlainBranches, Zenon DEF BodyOr
  <2>3. Plain(<<Call("pattern"), Expect("=>"), BodyOr("stmt"), Maybe(","), Build("arm", h)>>, h)
    BY <1>1, <2>1, <2>2, Known, Items, PlainTuples
  <2> QED
    BY <2>3 DEF parse_match_arm, h
<1> QED
  BY <1>2, <1>3 DEF h

LEMMA MembersPlain ==
  ASSUME Held
  PROVE  Plain(member, Height) /\ Plain(section, Height)
<1> DEFINE h == Height
<1>1. h \in Nat
  BY HeightIs
<1> HIDE DEF h
<1>2. Plain(member, h)
  <2> DEFINE field == <<Take, Expect(":"), Call("type"), Expect(";"), Build("var", h)>>
  <2>1. Plain(<<Build("var", h)>>, h)
    BY <1>1, Items DEF PlainKinds
  <2>2. Plain(field, h) /\ Plain(Unexpected, h)
    BY <1>1, <2>1, Known, Items, PlainTuples DEF Unexpected
  <2>3. Plain(<<Call("fn_decl")>>, h) /\ Plain(<<Call("var_decl")>>, h)
    BY <1>1, Known
  <2>4. member = CASE cur = "fn" -> <<Call("fn_decl")>>
                   [] cur \in {"let", "mut"} -> <<Call("var_decl")>>
                   [] cur \in Ids -> field
                   [] OTHER -> Unexpected
    BY Zenon DEF member, h
  <2> HIDE DEF field
  <2> QED
    BY <2>2, <2>3, <2>4
<1>3. Plain(section, h)
  <2>1. Plain(<<Build("public", h)>>, h) /\ Plain(<<Build("private", h)>>, h)
    BY <1>1, Items DEF PlainKinds
  <2>2. Plain(<<Build(IF cur = "public" THEN "public" ELSE "private", h)>>, h)
    BY <2>1
  <2>3. Plain(<<Take, Expect("{"), Call("members"), Expect("}"),
                Build(IF cur = "public" THEN "public" ELSE "private", h)>>, h)
    BY <1>1, <2>2, Known, Items, PlainTuples
  <2> QED
    BY <2>3 DEF section, h
<1> QED
  BY <1>2, <1>3 DEF h

\* The three loops and the conditional: their parts, then what they build.
LEMMA LoopsPlain ==
  ASSUME NEW h \in Nat
  PROVE  /\ Plain(<<Take, Expect("("), Condition, Expect(")"), Call("block"),
                    On({"else"}, <<Take, If({"if"}, <<Call("if")>>, <<Call("block")>>)>>), Build("if", h)>>, h)
         /\ Plain(<<Take, Expect("("), Condition, Expect(")"), Call("block"), Build("while", h)>>, h)
         /\ Plain(<<Take, Call("block"), Maybe("=>"), Expect("while"),
                    If({"("}, <<Take, Condition, Expect(")")>>, <<Condition>>), Expect(";"), Build("do", h)>>, h)
         /\ Plain(<<Take, Expect("("), Condition, Expect(")"), Expect("{"), Call("arms"), Expect("}"), Build("match", h)>>, h)
         /\ Plain(<<Take, Expect("in"), Condition, Expect(")"), Call("block"), Build("for_in", h)>>, h)
         /\ Plain(<<If({";"}, <<Take>>, <<If({"let", "mut"}, <<Call("var_decl")>>, <<Condition, Expect(";")>>)>>),
                    Unless({";"}, <<Condition>>), Expect(";"),
                    Unless({")"}, <<Condition>>), Expect(")"), Call("block"), Build("for", h)>>, h)
<1>1. \A kind \in {"if", "while", "do", "match", "for_in", "for"} : Plain(<<Build(kind, h)>>, h)
  <2>1. \A kind \in {"if", "while", "do", "match", "for_in", "for"} : kind \in PlainKinds
    BY DEF PlainKinds
  <2> QED
    BY <2>1, Items, Zenon
<1>2. Plain(<<Take>>, h) /\ (\A t : Plain(<<Expect(t)>>, h)) /\ (\A t : Plain(<<Maybe(t)>>, h))
  BY Items
<1>3. Plain(<<Condition>>, h) /\ Plain(<<Call("block")>>, h) /\ Plain(<<Call("arms")>>, h)
      /\ Plain(<<Call("if")>>, h) /\ Plain(<<Call("var_decl")>>, h)
  BY Returns, Known
<1>4. /\ Plain(<<Take, Condition, Expect(")")>>, h) /\ Plain(<<Condition, Expect(";")>>, h)
  BY <1>2, <1>3, PlainTuples
<1> DEFINE again == If({"if"}, <<Call("if")>>, <<Call("block")>>)
           otherwise == On({"else"}, <<Take, again>>)
           until == If({"("}, <<Take, Condition, Expect(")")>>, <<Condition>>)
           begin == If({"let", "mut"}, <<Call("var_decl")>>, <<Condition, Expect(";")>>)
           start == If({";"}, <<Take>>, <<begin>>)
           test == Unless({";"}, <<Condition>>)
           step == Unless({")"}, <<Condition>>)
           branch == Build("if", h)
           loop == Build("while", h)
           do == Build("do", h)
           match == Build("match", h)
           iteration == Build("for_in", h)
           for_ == Build("for", h)
<1>5. Plain(<<again>>, h) /\ Plain(<<until>>, h) /\ Plain(<<begin>>, h) /\ Plain(<<test>>, h) /\ Plain(<<step>>, h)
  BY <1>3, <1>4, PlainBranches, Zenon
<1>6. Plain(<<branch>>, h) /\ Plain(<<loop>>, h) /\ Plain(<<do>>, h) /\ Plain(<<match>>, h) /\ Plain(<<iteration>>, h)
      /\ Plain(<<for_>>, h)
  BY <1>1
<1> HIDE DEF again, until, begin, test, step, branch, loop, do, match, iteration, for_
<1>7. Plain(<<otherwise>>, h) /\ Plain(<<start>>, h)
  <2>1. Plain(<<Take, again>>, h)
    BY <1>2, <1>5, PlainTuples
  <2> QED
    BY <1>2, <1>5, <2>1, PlainBranches, Zenon
<1> HIDE DEF otherwise, start
<1> DEFINE lparen == Expect("(")
           close == Expect(")")
           block == Call("block")
           left == Expect("{")
           right == Expect("}")
           end == Expect(";")
           in == Expect("in")
           arrow == Maybe("=>")
           while == Expect("while")
           each == Call("arms")
<1>8. /\ Plain(<<lparen>>, h) /\ Plain(<<close>>, h) /\ Plain(<<block>>, h) /\ Plain(<<left>>, h) /\ Plain(<<right>>, h)
      /\ Plain(<<end>>, h) /\ Plain(<<in>>, h) /\ Plain(<<arrow>>, h) /\ Plain(<<while>>, h) /\ Plain(<<each>>, h)
  BY <1>2, <1>3
<1> HIDE DEF lparen, close, block, left, right, end, in, arrow, while, each
<1>9. Plain(<<Take, lparen, Condition, close, block, otherwise, branch>>, h)
  <2>1. \A x \in {Take, lparen, Condition, close, block, otherwise} : Plain(<<x>>, h)
    BY <1>2, <1>3, <1>7, <1>8
  <2> QED
    BY <1>6, <2>1, PlainTuples, Zenon
<1>10. Plain(<<Take, lparen, Condition, close, block, loop>>, h)
  <2>1. \A x \in {Take, lparen, Condition, close, block} : Plain(<<x>>, h)
    BY <1>2, <1>3, <1>8
  <2> QED
    BY <1>6, <2>1, PlainTuples, Zenon
<1>11. Plain(<<Take, block, arrow, while, until, end, do>>, h)
  <2>1. \A x \in {Take, block, arrow, while, until, end} : Plain(<<x>>, h)
    BY <1>2, <1>5, <1>8
  <2> QED
    BY <1>6, <2>1, PlainTuples, Zenon
<1>12. Plain(<<Take, lparen, Condition, close, left, each, right, match>>, h)
  <2>1. \A x \in {Take, lparen, Condition, close, left, each, right} : Plain(<<x>>, h)
    BY <1>2, <1>3, <1>8
  <2> QED
    BY <1>6, <2>1, PlainTuples, Zenon
<1>13. Plain(<<Take, in, Condition, close, block, iteration>>, h)
  <2>1. \A x \in {Take, in, Condition, close, block} : Plain(<<x>>, h)
    BY <1>2, <1>3, <1>8
  <2> QED
    BY <1>6, <2>1, PlainTuples, Zenon
<1>14. Plain(<<start, test, end, step, close, block, for_>>, h)
  <2>1. \A x \in {start, test, end, step, close, block} : Plain(<<x>>, h)
    BY <1>5, <1>7, <1>8
  <2> QED
    BY <1>6, <2>1, PlainTuples, Zenon
<1> QED
  BY <1>9, <1>10, <1>11, <1>12, <1>13, <1>14, Zenon
     DEF lparen, close, block, left, right, end, in, arrow, while, each, again, otherwise, until, begin, start, test, step,
         branch, loop, do, match, iteration, for_

LEMMA StatementsPlain ==
  ASSUME Held
  PROVE  Plain(parse_stmt, Height) /\ Plain(parse_if, Height)
<1> DEFINE h == Height
           unsafe == <<Take, Call("block"), Build("unsafe", h)>>
           loop == <<Take, Expect("("), Condition, Expect(")"), Call("block"), Build("while", h)>>
           do == <<Take, Call("block"), Maybe("=>"), Expect("while"),
                   If({"("}, <<Take, Condition, Expect(")")>>, <<Condition>>), Expect(";"), Build("do", h)>>
           header == <<Take, CallAt("for", h)>>
           for_ == <<Take, If({"("}, header, <<Fail>>)>>
           match == <<Take, Expect("("), Condition, Expect(")"), Expect("{"), Call("arms"), Expect("}"), Build("match", h)>>
           return == <<Take, Unless({";"}, <<Call("expr")>>), Expect(";"), Build("return", h)>>
           defer == <<Take, Call("stmt"), Build("defer", h)>>
           jump == <<Take, Expect(";"), Build("jump", h)>>
           expression == <<Call("expr"), Expect(";"), Build("expr_stmt", h)>>
<1>1. h \in Nat
  BY HeightIs
<1>2. parse_stmt =
        CASE cur \in {"let", "mut", "const"} -> <<Call("var_decl")>>
          [] cur = "fn" -> <<Call("fn_decl")>>
          [] cur = "enum" -> <<Call("enum_decl")>>
          [] cur = "unsafe" -> unsafe
          [] cur = "if" -> <<Call("if")>>
          [] cur = "while" -> loop
          [] cur = "do" -> do
          [] cur = "for" -> for_
          [] cur = "match" -> match
          [] cur = "return" -> return
          [] cur = "{" -> <<Call("block")>>
          [] cur = "region" -> <<Call("region")>>
          [] cur = "defer" -> defer
          [] cur \in {"break", "continue"} -> jump
          [] cur = "comptime" -> <<Call("comptime")>>
          [] OTHER -> expression
  BY Zenon DEF parse_stmt
<1> HIDE DEF h
<1>3. Plain(parse_if, h) /\ Plain(loop, h) /\ Plain(do, h) /\ Plain(match, h)
  BY <1>1, LoopsPlain, Zenon DEF parse_if, h
<1>4. \A kind \in {"unsafe", "return", "defer", "jump", "expr_stmt"} : Plain(<<Build(kind, h)>>, h)
  <2>1. \A kind \in {"unsafe", "return", "defer", "jump", "expr_stmt"} : kind \in PlainKinds
    BY DEF PlainKinds
  <2> QED
    BY <1>1, <2>1, Items, Zenon
<1>5. Plain(unsafe, h) /\ Plain(defer, h) /\ Plain(jump, h) /\ Plain(expression, h)
  BY <1>1, <1>4, Known, Items, PlainTuples
<1>6. Plain(for_, h)
  <2>1. Plain(header, h)
    BY <1>1, Known, Items, PlainTuples
  <2> HIDE DEF header
  <2>2. Plain(<<If({"("}, header, <<Fail>>)>>, h)
    BY <1>1, <2>1, Items, PlainBranches, Zenon
  <2> QED
    BY <1>1, <2>2, Items, PlainTuples
<1>7. Plain(return, h)
  <2>1. Plain(<<Unless({";"}, <<Call("expr")>>)>>, h)
    BY <1>1, Known, PlainBranches, Zenon
  <2> QED
    BY <1>1, <1>4, <2>1, Items, PlainTuples
<1>8. /\ Plain(<<Call("var_decl")>>, h) /\ Plain(<<Call("fn_decl")>>, h) /\ Plain(<<Call("enum_decl")>>, h)
      /\ Plain(<<Call("if")>>, h) /\ Plain(<<Call("block")>>, h) /\ Plain(<<Call("region")>>, h)
      /\ Plain(<<Call("comptime")>>, h)
  BY <1>1, Known
<1> HIDE DEF unsafe, loop, do, for_, match, return, defer, jump, expression
<1>9. Plain(parse_stmt, h)
  BY <1>2, <1>3, <1>5, <1>6, <1>7, <1>8
<1> QED
  BY <1>3, <1>9 DEF h

LEMMA ForPlain ==
  ASSUME NEW n \in Nat
  PROVE  Plain(for(n), n)
<1> DEFINE guard == cur \in {"let", "mut"} \union Ids /\ peek = "in"
<1>1. ASSUME NEW a, NEW b, Plain(a, n), Plain(b, n) PROVE Plain(IF guard THEN a ELSE b, n)
  BY <1>1, Zenon
<1> HIDE DEF guard
<1> QED
  BY <1>1, LoopsPlain, Zenon DEF for, guard

-----------------------------------------------------------------------------
(***************************************************************************)
(* What a function does when it is called now.                             *)
(***************************************************************************)
Now == {<<cur, values>>}
Outcome(f, n) == {p \in Configurations : After(f, n, values, p[1], p[2])}
Does(f, n, code) == Valid(Now, code, Outcome(f, n))

\* Procedures that promise no more than to add trees.
Adding == Procedures \ (Declaring \cup Computing \cup {"block", "program"})

LEMMA NowIs ==
  ASSUME Held, cur \in Alphabet
  PROVE  /\ Now \subseteq Configurations
         /\ \A p \in Now : p = <<cur, values>> /\ p[1] = cur /\ p[2] = values
         /\ \A h \in 0 .. Height : Now \subseteq Holding(h, values)
<1>1. \A p \in Now : p = <<cur, values>> /\ p[1] = cur /\ p[2] = values
  BY DEF Now
<1>2. Now \subseteq Configurations
  BY Pairs, Zenon DEF Now, Held
<1>3. ASSUME NEW h \in 0 .. Height PROVE Now \subseteq Holding(h, values)
  <2>1. Keeps(h, values, values)
    BY DEF Held, Keeps, Height
  <2>2. <<cur, values>> \in Holding(h, values)
    BY <2>1, KeptPair
  <2> QED
    BY <2>2, Zenon DEF Now
<1> QED
  BY <1>1, <1>2, <1>3

LEMMA PlainDoes ==
  ASSUME Held, cur \in Alphabet, NEW f \in Adding, NEW n, Relies(f, n, cur, values), NEW code,
         Plain(code, Base(f, n, values))
  PROVE  Does(f, n, code)
<1> DEFINE h == Base(f, n, values)
<1>1. f \notin {"postfix", "binary_loop", "assign"} /\ f \notin Declaring \cup Computing \cup {"block"} /\ f # "block"
      /\ f # "program" /\ f \notin {"primary", "postfix"} /\ f # "unary" /\ f \notin {"binary", "binary_loop"}
      /\ f \notin {"postfix", "unary", "binary", "binary_loop"} /\ f \notin {"assign", "expr"} /\ f \notin Declaring
  BY DEF Adding, Computing
<1>2. h \in 0 .. Height
  <2>1. f = "for" => n \in 0 .. Len(values)
    BY DEF Relies
  <2>2. Height \in Nat
    BY HeightIs
  <2> QED
    BY <1>1, <2>1, <2>2 DEF Base, Height
<1>3. Now \subseteq Holding(h, values)
  BY <1>2, NowIs
<1>4. Holding(h, values) \subseteq Outcome(f, n)
  BY <1>1, Zenon DEF Holding, Outcome, After
<1>5. Valid(Holding(h, values), code, Holding(h, values))
  BY DEF Plain, Good
<1> HIDE DEF h
<1> QED
  BY <1>3, <1>4, <1>5, Weaken, Zenon DEF Does

LEMMA DeclareDoes ==
  ASSUME Held, cur \in Alphabet, NEW f, NEW n, NEW kind, NEW code,
         Good(code, Height, Made(Height, Whole({kind}))),
         (f \in Declaring /\ kind \in DeclarationKinds) \/ (f = "block" /\ kind = "block")
  PROVE  Does(f, n, code)
<1> DEFINE h == Height
           M == Made(h, Whole({kind}))
<1>1. h \in Nat
  BY HeightIs
<1>2. Now \subseteq Holding(h, values)
  BY <1>1, NowIs
<1>3. Base(f, n, values) = h
  BY DEF Declaring, Base, Height
<1>4. M \subseteq Outcome(f, n)
  <2> SUFFICES ASSUME NEW p \in M PROVE p \in Outcome(f, n)
    OBVIOUS
  <2>1. p \in Configurations /\ Keeps(h, values, p[2]) /\ Len(p[2]) = h + 1 /\ p[2][h + 1].kind = kind
    BY KeptIs DEF Made, Whole
  <2>2. f \notin Computing \cup {"program"} /\ (f \in Declaring => f # "block") /\ (f = "block" => f \notin Declaring)
    BY DEF Declaring, Computing
  <2>3. p[2][Len(p[2])].kind = kind
    BY <2>1
  <2> HIDE DEF M, h
  <2>4. After(f, n, values, p[1], p[2])
    <3>1. f \notin {"primary", "postfix"} /\ f # "unary" /\ f \notin {"binary", "binary_loop"} /\ f # "program"
          /\ f \notin {"postfix", "unary", "binary", "binary_loop"} /\ f \notin {"assign", "expr"}
      BY <2>2 DEF Computing
    <3> QED
      BY <1>3, <2>1, <2>2, <2>3, <3>1, Zenon DEF After
  <2> QED
    BY <2>1, <2>4 DEF Outcome
<1>5. Valid(Holding(h, values), code, M)
  BY DEF Good
<1> HIDE DEF h, M
<1> QED
  BY <1>2, <1>4, <1>5, Weaken, Zenon DEF Does

LEMMA Declarations ==
  ASSUME Held, cur \in Alphabet
  PROVE  /\ Does("fn_decl", 0, parse_fn_decl) /\ Does("enum_decl", 0, parse_enum_decl) /\ Does("class", 0, class)
         /\ Does("var_decl", 0, parse_var_decl) /\ Does("region", 0, parse_region) /\ Does("comptime", 0, comptime)
         /\ Does("block", 0, parse_block)
<1> DEFINE h == Height
           N(kind) == Made(h, Whole({kind}))
<1>1. h \in Nat
  BY HeightIs
<1>2. \A f \in {"fn_decl", "enum_decl", "class", "var_decl", "region", "comptime"} : f \in Declaring
  BY DEF Declaring
<1>3. \A kind \in {"fn", "enum", "class", "var", "region", "comptime"} : kind \in DeclarationKinds
  BY DEF DeclarationKinds
<1> HIDE DEF h
<1>4. ASSUME NEW kind \in PlainKinds PROVE Good(<<Build(kind, h)>>, h, N(kind))
  BY <1>1, BuildMakes
<1>5. \A kind \in {"fn", "enum", "class", "var", "region", "comptime", "block"} : kind \in PlainKinds
  BY DEF PlainKinds
<1>6. ASSUME NEW kind, NEW items, Good(items, h, N(kind)) PROVE Good(<<Named(items)>>, h, N(kind))
  BY <1>1, <1>6, GoodEnds
<1>7. ASSUME NEW kind, NEW items, Good(items, h, N(kind)) PROVE Good(<<Take, Named(items)>>, h, N(kind))
  <2> DEFINE x == Named(items)
  <2>1. Good(<<x>>, h, N(kind))
    BY <1>6, <1>7
  <2> HIDE DEF x, N
  <2>2. Good(<<Take, x>>, h, N(kind))
    BY <1>1, <2>1, Items, GoodTuples
  <2> QED
    BY <2>2 DEF x
<1>8. ASSUME NEW kind \in PlainKinds, NEW f, Plain(<<Call(f)>>, h)
      PROVE  Good(<<Take, Expect("{"), Call(f), Expect("}"), Build(kind, h)>>, h, N(kind))
  <2> DEFINE call == Call(f)
             build == Build(kind, h)
             M == N(kind)
             left == Expect("{")
             right == Expect("}")
  <2>1. Plain(<<call>>, h) /\ Good(<<build>>, h, M) /\ Plain(<<left>>, h) /\ Plain(<<right>>, h) /\ Plain(<<Take>>, h)
    BY <1>1, <1>4, <1>8, Items
  <2> HIDE DEF call, build, M, left, right
  <2>2. Good(<<Take, left, call, right, build>>, h, M)
    <3>1. \A x \in {Take, left, call, right} : Plain(<<x>>, h)
      BY <2>1
    <3> QED
      BY <1>1, <2>1, <3>1, GoodTuples, Zenon
  <2> QED
    BY <2>2 DEF call, build, M, left, right
<1>9. /\ Plain(<<Call("variants")>>, h) /\ Plain(<<Call("sections")>>, h) /\ Plain(<<Call("stmts")>>, h)
      /\ Plain(<<Call("params")>>, h) /\ Plain(<<Call("block")>>, h) /\ Plain(<<Call("expr")>>, h)
  BY <1>1, Known
<1>10. /\ Plain(<<Take>>, h) /\ (\A t : Plain(<<Expect(t)>>, h))
       /\ Plain(<<Annotation>>, h) /\ Plain(<<Initialiser>>, h) /\ Plain(<<ReturnType>>, h)
  BY <1>1, Items, Returns
<1>11. /\ Good(parse_enum_decl, h, N("enum")) /\ Good(class, h, N("class")) /\ Good(parse_region, h, N("region"))
  BY <1>5, <1>7, <1>8, <1>9, Zenon DEF parse_enum_decl, class, parse_region, h
<1>12. Good(parse_block, h, N("block"))
  <2> DEFINE call == Call("stmts")
             build == Build("block", h)
             M == N("block")
             left == Expect("{")
             right == Expect("}")
  <2>1. Plain(<<call>>, h) /\ Good(<<build>>, h, M) /\ Plain(<<left>>, h) /\ Plain(<<right>>, h)
    BY <1>4, <1>5, <1>9, <1>10
  <2> HIDE DEF call, build, M, left, right
  <2>2. Good(<<left, call, right, build>>, h, M)
    <3>1. \A x \in {left, call, right} : Plain(<<x>>, h)
      BY <2>1
    <3> QED
      BY <1>1, <2>1, <3>1, GoodTuples, Zenon
  <2> QED
    BY <2>2 DEF call, build, M, left, right, parse_block, h
<1>13. Good(parse_var_decl, h, N("var"))
  <2> DEFINE build == Build("var", h)
             M == N("var")
             end == Expect(";")
  <2>1. Good(<<build>>, h, M) /\ Plain(<<end>>, h)
    BY <1>4, <1>5, <1>10
  <2> HIDE DEF build, M, end
  <2>2. Good(<<Take, Annotation, Initialiser, end, build>>, h, M)
    <3>1. \A x \in {Take, Annotation, Initialiser, end} : Plain(<<x>>, h)
      BY <1>10, <2>1
    <3> QED
      BY <1>1, <2>1, <3>1, GoodTuples, Zenon
  <2>3. Good(<<Take, Named(<<Take, Annotation, Initialiser, end, build>>)>>, h, M)
    BY <1>7, <2>2, Zenon DEF M
  <2> QED
    BY <2>3 DEF build, M, end, parse_var_decl, h
<1>14. Good(comptime, h, N("comptime"))
  <2> DEFINE build == Build("comptime", h)
             M == N("comptime")
             end == Expect(";")
             is == Expect("=")
             value == Call("expr")
             items == <<Take, Annotation, is, value, end, build>>
             named == Named(items)
             rest == <<Take, named>>
             let == If({"let"}, rest, <<Fail>>)
  <2>1. Good(<<build>>, h, M) /\ Plain(<<end>>, h) /\ Plain(<<is>>, h) /\ Plain(<<value>>, h)
    BY <1>4, <1>5, <1>9, <1>10
  <2> HIDE DEF build, M, end, is, value
  <2>2. Good(items, h, M)
    <3>1. \A x \in {Take, Annotation, is, value, end} : Plain(<<x>>, h)
      BY <1>10, <2>1
    <3> QED
      BY <1>1, <2>1, <3>1, GoodTuples, Zenon
  <2>3. Good(rest, h, M)
    BY <1>7, <2>2, Zenon DEF M
  <2> HIDE DEF rest
  <2>4. Good(<<let>>, h, M)
    BY <1>1, <2>3, GoodEnds, Zenon
  <2> HIDE DEF let
  <2>5. Good(<<Take, let>>, h, M)
    BY <1>1, <1>10, <2>4, GoodTuples, Zenon
  <2> QED
    BY <2>5, Zenon DEF build, M, end, is, value, items, named, rest, let, comptime, h
<1>15. Good(parse_fn_decl, h, N("fn"))
  <2> DEFINE build == Build("fn", h)
             M == N("fn")
             lparen == Expect("(")
             close == Expect(")")
             params_ == Call("params")
             body == Call("block")
             items == <<Take, lparen, params_, close, ReturnType, body, build>>
             name == If(Ids \union {"let", "mut", "int"}, items, <<Fail>>)
  <2>1. Good(<<build>>, h, M) /\ Plain(<<lparen>>, h) /\ Plain(<<close>>, h) /\ Plain(<<params_>>, h) /\ Plain(<<body>>, h)
    BY <1>4, <1>5, <1>9, <1>10
  <2> HIDE DEF build, M, lparen, close, params_, body
  <2>2. Good(items, h, M)
    <3>1. \A x \in {Take, lparen, params_, close, ReturnType, body} : Plain(<<x>>, h)
      BY <1>10, <2>1
    <3> QED
      BY <1>1, <2>1, <3>1, GoodTuples, Zenon
  <2> HIDE DEF items
  <2>3. Good(<<name>>, h, M)
    BY <1>1, <2>2, GoodEnds, Zenon
  <2> HIDE DEF name
  <2>4. Good(<<Take, name>>, h, M)
    BY <1>1, <1>10, <2>3, GoodTuples, Zenon
  <2> QED
    BY <2>4, Zenon DEF build, M, lparen, close, params_, body, items, name, parse_fn_decl, h
<1>16. ASSUME NEW f \in Declaring, NEW kind \in DeclarationKinds, NEW code, Good(code, h, N(kind)) PROVE Does(f, 0, code)
  BY <1>16, DeclareDoes DEF h
<1>17. Does("block", 0, parse_block)
  BY <1>12, DeclareDoes DEF h
<1> HIDE DEF N
<1> QED
  BY <1>2, <1>3, <1>11, <1>13, <1>14, <1>15, <1>16, <1>17

LEMMA OneCall ==
  ASSUME Held, cur \in Alphabet, NEW f, NEW n, NEW Q, Relies(f, n, cur, values), Outcome(f, n) \subseteq Q
  PROVE  Valid(Now, <<CallAt(f, n)>>, Q)
<1>1. \A p \in Now : Relies(f, n, p[1], p[2])
  BY NowIs, Zenon
<1>2. ASSUME NEW p \in Now, NEW d \in Alphabet, NEW u \in Seq(Trees), After(f, n, p[2], d, u) PROVE <<d, u>> \in Q
  <2>1. p[2] = values
    BY NowIs
  <2>2. <<d, u>> \in Configurations /\ <<d, u>>[1] = d /\ <<d, u>>[2] = u
    BY Pairs
  <2>3. <<d, u>> \in Outcome(f, n)
    BY <1>2, <2>1, <2>2 DEF Outcome
  <2> QED
    BY <2>3
<1>3. Now \subseteq Configurations
  BY NowIs
<1> QED
  BY <1>1, <1>2, <1>3, CallRule

LEMMA UnexpectedDoes ==
  ASSUME Held, cur \in Alphabet, NEW f, NEW n
  PROVE  Does(f, n, Unexpected)
<1> DEFINE Q == Outcome(f, n)
<1> HIDE DEF Q
<1>1. Valid(Now, <<Fail>>, {})
  BY NowIs, FailRule
<1>2. {} \subseteq Configurations
  OBVIOUS
<1>3. Valid({}, <<Take>>, Q)
  BY <1>2, TakeRule
<1>4. Unexpected \in Seq({Fail, Take}) /\ Unexpected # << >> /\ Head(Unexpected) = Fail /\ Tail(Unexpected) = <<Take>>
  BY DEF Unexpected
<1>5. IsSeq(Unexpected)
  BY <1>4, Zenon DEF IsSeq
<1>6. Valid(Now, Unexpected, Q)
  BY <1>1, <1>3, <1>4, <1>5, Then
<1> QED
  BY <1>6 DEF Does, Q

LEMMA TopLevel ==
  ASSUME Held, cur \in Alphabet
  PROVE  Does("top_level", 0, parse_top_level)
<1> DEFINE h == Height
           M == Made(h, Whole({"alias"}))
           build == Build("alias", h)
           is == Expect("=")
           type == Call("type")
           end == Maybe(";")
           items == <<Take, is, type, end, build>>
           alias == <<Take, Named(items)>>
           G == {"fn_decl", "enum_decl", "class", "var_decl", "region", "comptime"}
<1>1. h \in Nat
  BY HeightIs
<1>2. parse_top_level =
        CASE cur = "fn" -> <<Call("fn_decl")>>
          [] cur = "enum" -> <<Call("enum_decl")>>
          [] cur = "class" -> <<Call("class")>>
          [] cur = "const" -> <<Call("var_decl")>>
          [] cur = "region" -> <<Call("region")>>
          [] cur = "comptime" -> <<Call("comptime")>>
          [] cur = "type" -> alias
          [] OTHER -> Unexpected
  BY Zenon DEF parse_top_level
<1>3. Does("top_level", 0, alias)
  <2>1. "alias" \in PlainKinds /\ "alias" \in DeclarationKinds /\ "top_level" \in Declaring
    BY DEF PlainKinds, DeclarationKinds, Declaring
  <2>2. Good(<<build>>, h, M)
    BY <1>1, <2>1, BuildMakes
  <2> HIDE DEF h
  <2>3. /\ Plain(<<Take>>, h) /\ Plain(<<is>>, h) /\ Plain(<<type>>, h) /\ Plain(<<end>>, h)
    BY <1>1, Known, Items
  <2> HIDE DEF M, build, is, type, end
  <2>4. Good(items, h, M)
    <3>1. \A x \in {Take, is, type, end} : Plain(<<x>>, h)
      BY <2>3
    <3> QED
      BY <1>1, <2>2, <3>1, GoodTuples, Zenon
  <2> HIDE DEF items
  <2> DEFINE named == Named(items)
  <2>5. Good(<<named>>, h, M)
    BY <1>1, <2>4, GoodEnds, Zenon
  <2> HIDE DEF named
  <2>6. Good(<<Take, named>>, h, M)
    BY <1>1, <2>3, <2>5, GoodTuples, Zenon
  <2> QED
    BY <2>1, <2>6, DeclareDoes DEF M, h, named
<1>4. Does("top_level", 0, Unexpected)
  BY UnexpectedDoes
<1>5. ASSUME NEW g \in G PROVE Does("top_level", 0, <<Call(g)>>)
  <2>1. g \in Procedures /\ g \notin {"postfix", "binary_loop", "assign"} /\ g # "postfix" /\ g # "binary" /\ g # "binary_loop"
        /\ g # "assign" /\ g # "for" /\ g \in Declaring
    BY DEF Procedures, Declaring
  <2>2. Relies(g, 0, cur, values)
    BY <2>1, Zenon DEF Relies
  <2>3. Outcome(g, 0) \subseteq Outcome("top_level", 0)
    <3>1. Base(g, 0, values) = Len(values) /\ Base("top_level", 0, values) = Len(values)
      BY <2>1 DEF Base
    <3>2. ASSUME NEW c, NEW u, After(g, 0, values, c, u) PROVE After("top_level", 0, values, c, u)
      <4>1. /\ Keeps(Len(values), values, u)
            /\ Len(u) = Len(values) + 1
            /\ u[Len(u)].kind \in DeclarationKinds
        BY <2>1, <3>1, <3>2 DEF After
      <4>2. "top_level" \notin Computing \cup {"block", "program"}
        BY DEF Computing
      <4> QED
        BY <3>1, <4>1, <4>2 DEF After, Computing
    <3> QED
      BY <3>2, Zenon DEF Outcome
  <2>4. Valid(Now, <<CallAt(g, 0)>>, Outcome("top_level", 0))
    BY <2>2, <2>3, OneCall
  <2> QED
    BY <2>4, Zenon DEF Does, Call
<1>6. \A g \in {"fn_decl", "enum_decl", "class", "var_decl", "region", "comptime"} : Does("top_level", 0, <<Call(g)>>)
  BY <1>5
<1> HIDE DEF alias, G
<1> QED
  BY <1>2, <1>3, <1>4, <1>6

LEMMA Programs ==
  ASSUME Held, cur \in Alphabet
  PROVE  Does("program", 0, program)
<1> DEFINE Q == Outcome("program", 0)
           M == Outcome("top_level", 0)
           code == <<Call("top_level"), Call("program")>>
<1>1. Now \subseteq Configurations /\ \A p \in Now : p = <<cur, values>> /\ p[1] = cur /\ p[2] = values
  BY NowIs
<1>2. Now \subseteq Q
  <2>1. After("program", 0, values, cur, values)
    <3>1. Base("program", 0, values) = Len(values) /\ Len(values) \in Nat
      BY DEF Base, Held
    <3>2. Keeps(Len(values), values, values)
      BY <3>1 DEF Keeps, Held
    <3>3. "program" \notin Declaring \cup Computing \cup {"block"}
      BY DEF Declaring, Computing
    <3>4. \A i \in Len(values) + 1 .. Len(values) : values[i].kind \in DeclarationKinds
      BY <3>1
    <3> QED
      BY <3>1, <3>2, <3>3, <3>4 DEF After, Declaring, Computing
  <2> QED
    BY <1>1, <2>1, Zenon DEF Outcome
<1>3. Valid(Now, <<Call("top_level")>>, M)
  <2>1. Relies("top_level", 0, cur, values)
    BY DEF Relies, Procedures
  <2>2. Valid(Now, <<CallAt("top_level", 0)>>, M)
    BY <2>1, OneCall
  <2> QED
    BY <2>2, Zenon DEF Call
<1>4. Valid(M, <<Call("program")>>, Q)
  <2>1. M \subseteq Configurations
    BY DEF Outcome
  <2>2. \A p \in M : Relies("program", 0, p[1], p[2])
    BY DEF Relies, Procedures
  <2>3. ASSUME NEW p \in M, NEW d \in Alphabet, NEW u \in Seq(Trees), After("program", 0, p[2], d, u)
        PROVE  <<d, u>> \in Q
    <3> DEFINE w == p[2]
    <3>1. /\ Keeps(Len(values), values, w) /\ Len(w) = Len(values) + 1 /\ w[Len(w)].kind \in DeclarationKinds
          /\ Len(values) \in Nat /\ w \in Seq(Trees)
      <4>1. After("top_level", 0, values, p[1], p[2])
        BY DEF Outcome
      <4>2. Base("top_level", 0, values) = Len(values)
        BY DEF Base
      <4> QED
        BY <4>1, <4>2 DEF After, Declaring, Keeps, Held
    <3>2. Keeps(Len(w), w, u) /\ \A i \in Len(w) + 1 .. Len(u) : u[i].kind \in DeclarationKinds
      <4>1. Base("program", 0, w) = Len(w)
        BY DEF Base
      <4> QED
        BY <2>3, <4>1 DEF After
    <3> HIDE DEF w
    <3>3. Keeps(Len(values), values, u) /\ \A i \in Len(values) + 1 .. Len(u) : u[i].kind \in DeclarationKinds
      BY <3>1, <3>2 DEF Keeps
    <3>4. After("program", 0, values, d, u)
      <4>1. Base("program", 0, values) = Len(values)
        BY DEF Base
      <4>2. "program" \notin Declaring \cup Computing \cup {"block"}
        BY DEF Declaring, Computing
      <4> QED
        BY <3>3, <4>1, <4>2 DEF After, Declaring, Computing
    <3>5. <<d, u>> \in Configurations /\ <<d, u>>[1] = d /\ <<d, u>>[2] = u
      BY Pairs
    <3> QED
      BY <3>4, <3>5 DEF Outcome
  <2> HIDE DEF M, Q
  <2>4. Valid(M, <<CallAt("program", 0)>>, Q)
    BY <2>1, <2>2, <2>3, CallRule
  <2> QED
    BY <2>4, Zenon DEF Call
<1> HIDE DEF M, Q
<1>5. code \in Seq({Call("top_level"), Call("program")}) /\ code # << >> /\ Head(code) = Call("top_level")
      /\ Tail(code) = <<Call("program")>>
  OBVIOUS
<1> HIDE DEF code
<1>6. IsSeq(code)
  BY <1>5, Zenon DEF IsSeq
<1>7. Valid(Now, code, Q)
  BY <1>3, <1>4, <1>5, <1>6, Then
<1>8. Valid(Now, << >>, Q)
  BY <1>2, Nothing
<1>9. Valid({p \in Now : p[1] \in {EOF}}, << >>, Q) /\ Valid({p \in Now : p[1] \notin {EOF}}, code, Q)
  <2>1. {p \in Now : p[1] \in {EOF}} \subseteq Now /\ {p \in Now : p[1] \notin {EOF}} \subseteq Now
    OBVIOUS
  <2> QED
    BY <1>7, <1>8, <2>1, Weaken
<1>10. Valid(Now, <<If({EOF}, << >>, code)>>, Q)
  BY <1>1, <1>9, IfRule
<1> QED
  BY <1>10, Zenon DEF Does, program, Unless, Q, code

-----------------------------------------------------------------------------
(***************************************************************************)
(* Expressions: each makes one tree, in the place of its first operand     *)
(* where there is one.                                                     *)
(***************************************************************************)
LEMMA AfterIs ==
  ASSUME NEW v \in Seq(Trees), NEW n, NEW c, NEW u
  PROVE  /\ After("primary", n, v, c, u) <=>
              Keeps(Len(v), v, u) /\ Len(u) = Len(v) + 1 /\ u[Len(u)] \in Operands(12, c)
         /\ After("postfix", n, v, c, u) <=>
              /\ Keeps(Len(v) - 1, v, u) /\ Len(u) = Len(v) /\ u[Len(u)] \in Operands(12, c)
              /\ c \notin PostfixStarts
         /\ After("unary", n, v, c, u) <=>
              /\ Keeps(Len(v), v, u) /\ Len(u) = Len(v) + 1 /\ u[Len(u)] \in Operands(11, c)
              /\ c \notin PostfixStarts
         /\ After("binary", n, v, c, u) <=>
              /\ Keeps(Len(v), v, u) /\ Len(u) = Len(v) + 1 /\ u[Len(u)] \in Operands(n, c)
              /\ c \notin PostfixStarts /\ bin_prec(c) < n
         /\ After("binary_loop", n, v, c, u) <=>
              /\ Keeps(Len(v) - 1, v, u) /\ Len(u) = Len(v) /\ u[Len(u)] \in Operands(n, c)
              /\ c \notin PostfixStarts /\ bin_prec(c) < n
         /\ After("assign", n, v, c, u) <=> Keeps(Len(v) - 1, v, u) /\ Len(u) = Len(v) /\ Stops(c)
         /\ After("expr", n, v, c, u) <=> Keeps(Len(v), v, u) /\ Len(u) = Len(v) + 1 /\ Stops(c)
<1> DEFINE l == Len(v)
           k == Len(u)
           last == u[Len(u)]
<1>1. l \in Nat /\ (l - 1) + 1 = l
  OBVIOUS
<1>2. \A f \in {"primary", "unary", "binary", "expr"} : Base(f, n, v) = l
  BY DEF Base
<1>3. \A f \in {"postfix", "binary_loop", "assign"} : Base(f, n, v) = l - 1
  BY DEF Base
<1>4. \A f \in {"primary", "unary", "binary", "expr", "postfix", "binary_loop", "assign"} :
        f \in Computing /\ f \notin Declaring /\ f # "block" /\ f # "program"
  BY DEF Computing, Declaring
<1>5. \A f : After(f, n, v, c, u) <=>
        /\ Keeps(Base(f, n, v), v, u)
        /\ f \in Declaring \cup Computing \cup {"block"} => k = Base(f, n, v) + 1
        /\ f \in Declaring => last.kind \in DeclarationKinds
        /\ f = "block" => last.kind = "block"
        /\ f = "program" => \A i \in l + 1 .. k : u[i].kind \in DeclarationKinds
        /\ f \in {"primary", "postfix"} => last \in Operands(12, c)
        /\ f = "unary" => last \in Operands(11, c)
        /\ f \in {"binary", "binary_loop"} => last \in Operands(n, c) /\ bin_prec(c) < n
        /\ f \in {"postfix", "unary", "binary", "binary_loop"} => c \notin PostfixStarts
        /\ f \in {"assign", "expr"} => Stops(c)
  BY DEF After
<1> HIDE DEF l, k, last
<1>6. After("primary", n, v, c, u) <=> Keeps(l, v, u) /\ k = l + 1 /\ last \in Operands(12, c)
  BY <1>2, <1>4, <1>5
<1>7. After("postfix", n, v, c, u) <=> Keeps(l - 1, v, u) /\ k = l /\ last \in Operands(12, c) /\ c \notin PostfixStarts
  BY <1>1, <1>3, <1>4, <1>5
<1>8. After("unary", n, v, c, u) <=> Keeps(l, v, u) /\ k = l + 1 /\ last \in Operands(11, c) /\ c \notin PostfixStarts
  BY <1>2, <1>4, <1>5
<1>9. After("binary", n, v, c, u) <=> /\ Keeps(l, v, u) /\ k = l + 1 /\ last \in Operands(n, c)
                                      /\ c \notin PostfixStarts /\ bin_prec(c) < n
  BY <1>2, <1>4, <1>5
<1>10. After("binary_loop", n, v, c, u) <=> /\ Keeps(l - 1, v, u) /\ k = l /\ last \in Operands(n, c)
                                            /\ c \notin PostfixStarts /\ bin_prec(c) < n
  BY <1>1, <1>3, <1>4, <1>5
<1>11. After("assign", n, v, c, u) <=> Keeps(l - 1, v, u) /\ k = l /\ Stops(c)
  BY <1>1, <1>3, <1>4, <1>5
<1>12. After("expr", n, v, c, u) <=> Keeps(l, v, u) /\ k = l + 1 /\ Stops(c)
  BY <1>2, <1>4, <1>5
<1> QED
  BY <1>6, <1>7, <1>8, <1>9, <1>10, <1>11, <1>12 DEF l, k, last

LEMMA Chains ==
  ASSUME NEW P, NEW Q, NEW R
  PROVE  /\ \A a, b : Valid(P, <<a>>, Q) /\ Valid(Q, <<b>>, R) => Valid(P, <<a, b>>, R)
         /\ \A a, b, c : Valid(P, <<a>>, Q) /\ Valid(Q, <<b, c>>, R) => Valid(P, <<a, b, c>>, R)
         /\ \A a, b, c, d : Valid(P, <<a>>, Q) /\ Valid(Q, <<b, c, d>>, R) => Valid(P, <<a, b, c, d>>, R)
         /\ \A a, b, c, d, e : Valid(P, <<a>>, Q) /\ Valid(Q, <<b, c, d, e>>, R) => Valid(P, <<a, b, c, d, e>>, R)
         /\ \A a, b, c, d, e, f : Valid(P, <<a>>, Q) /\ Valid(Q, <<b, c, d, e, f>>, R)
                                  => Valid(P, <<a, b, c, d, e, f>>, R)
<1>1. ASSUME NEW code, IsSeq(code), code # << >>, NEW a, NEW rest, Head(code) = a, Tail(code) = rest,
             Valid(P, <<a>>, Q), Valid(Q, rest, R)
      PROVE  Valid(P, code, R)
  BY <1>1, Then
<1>2. ASSUME NEW a, NEW b, Valid(P, <<a>>, Q), Valid(Q, <<b>>, R) PROVE Valid(P, <<a, b>>, R)
  <2> DEFINE code == <<a, b>>
             rest == <<b>>
  <2>1. code \in Seq({a, b}) /\ code # << >> /\ Head(code) = a /\ Tail(code) = rest
    OBVIOUS
  <2> HIDE DEF code
  <2>2. IsSeq(code)
    BY <2>1, Zenon DEF IsSeq
  <2>3. Valid(P, code, R)
    BY <1>1, <1>2, <2>1, <2>2
  <2> QED
    BY <2>3 DEF code
<1>3. ASSUME NEW a, NEW b, NEW c, Valid(P, <<a>>, Q), Valid(Q, <<b, c>>, R) PROVE Valid(P, <<a, b, c>>, R)
  <2> DEFINE code == <<a, b, c>>
             rest == <<b, c>>
  <2>1. code \in Seq({a, b, c}) /\ code # << >> /\ Head(code) = a /\ Tail(code) = rest
    OBVIOUS
  <2> HIDE DEF code
  <2>2. IsSeq(code)
    BY <2>1, Zenon DEF IsSeq
  <2>3. Valid(P, code, R)
    BY <1>1, <1>3, <2>1, <2>2
  <2> QED
    BY <2>3 DEF code
<1>4. ASSUME NEW a, NEW b, NEW c, NEW d, Valid(P, <<a>>, Q), Valid(Q, <<b, c, d>>, R) PROVE Valid(P, <<a, b, c, d>>, R)
  <2> DEFINE code == <<a, b, c, d>>
             rest == <<b, c, d>>
  <2>1. code \in Seq({a, b, c, d}) /\ code # << >> /\ Head(code) = a /\ Tail(code) = rest
    OBVIOUS
  <2> HIDE DEF code
  <2>2. IsSeq(code)
    BY <2>1, Zenon DEF IsSeq
  <2>3. Valid(P, code, R)
    BY <1>1, <1>4, <2>1, <2>2
  <2> QED
    BY <2>3 DEF code
<1>5. ASSUME NEW a, NEW b, NEW c, NEW d, NEW e, Valid(P, <<a>>, Q), Valid(Q, <<b, c, d, e>>, R)
      PROVE  Valid(P, <<a, b, c, d, e>>, R)
  <2> DEFINE code == <<a, b, c, d, e>>
             rest == <<b, c, d, e>>
  <2>1. code \in Seq({a, b, c, d, e}) /\ code # << >> /\ Head(code) = a /\ Tail(code) = rest
    OBVIOUS
  <2> HIDE DEF code
  <2>2. IsSeq(code)
    BY <2>1, Zenon DEF IsSeq
  <2>3. Valid(P, code, R)
    BY <1>1, <1>5, <2>1, <2>2
  <2> QED
    BY <2>3 DEF code
<1>6. ASSUME NEW a, NEW b, NEW c, NEW d, NEW e, NEW f, Valid(P, <<a>>, Q), Valid(Q, <<b, c, d, e, f>>, R)
      PROVE  Valid(P, <<a, b, c, d, e, f>>, R)
  <2> DEFINE code == <<a, b, c, d, e, f>>
             rest == <<b, c, d, e, f>>
  <2>1. code \in Seq({a, b, c, d, e, f}) /\ code # << >> /\ Head(code) = a /\ Tail(code) = rest
    OBVIOUS
  <2> HIDE DEF code
  <2>2. IsSeq(code)
    BY <2>1, Zenon DEF IsSeq
  <2>3. Valid(P, code, R)
    BY <1>1, <1>6, <2>1, <2>2
  <2> QED
    BY <2>3 DEF code
<1> QED
  BY <1>2, <1>3, <1>4, <1>5, <1>6

LEMMA PartsOf ==
  ASSUME NEW u \in Seq(Trees), NEW k \in Nat, k < Len(u), NEW v, Keeps(k, v, u)
  PROVE  LET parts == SubSeq(u, k + 1, Len(u))
         IN  /\ parts \in Seq(Trees) /\ Len(parts) = Len(u) - k
             /\ \A i \in 1 .. Len(u) - k : parts[i] = u[k + i]
             /\ parts[1] = u[k + 1] /\ parts[Len(parts)] = u[Len(u)]
             /\ \A t \in Trees : LET w == Append(SubSeq(u, 1, k), t)
                                 IN  Keeps(k, v, w) /\ Len(w) = k + 1 /\ w[k + 1] = t
<1>1. /\ SubSeq(u, k + 1, Len(u)) \in Seq(Trees) /\ Len(SubSeq(u, k + 1, Len(u))) = Len(u) - k
      /\ \A i \in 1 .. Len(u) - k : SubSeq(u, k + 1, Len(u))[i] = u[k + i]
  OBVIOUS
<1>2. ASSUME NEW t \in Trees
      PROVE  LET w == Append(SubSeq(u, 1, k), t)
             IN  Keeps(k, v, w) /\ Len(w) = k + 1 /\ w[k + 1] = t
  BY KeepsOnly
<1> DEFINE parts == SubSeq(u, k + 1, Len(u))
           n == Len(u)
           m == Len(parts)
<1>3. m = n - k /\ n \in Nat
  BY <1>1
<1>4. \A i \in 1 .. n - k : parts[i] = u[k + i]
  BY <1>1
<1>5. k < n
  OBVIOUS
<1> HIDE DEF parts, n, m
<1>6. 1 \in 1 .. n - k /\ m \in 1 .. n - k /\ k + m = n
  BY <1>3, <1>5
<1>7. parts[1] = u[k + 1] /\ parts[m] = u[n]
  BY <1>4, <1>6
<1> QED
  BY <1>1, <1>2, <1>7, Zenon DEF parts, n, m

\* Making a node of all values but the first k.
LEMMA Building ==
  ASSUME NEW P, P \subseteq Configurations, NEW Q, NEW kind \in NodeKinds, NEW k \in Nat, NEW v,
         \A p \in P :
            LET u == p[2]
                parts == SubSeq(u, k + 1, Len(u))
            IN  /\ Keeps(k, v, u) /\ k < Len(u)
                /\ Level(kind, parts) \in Int /\ OpenEnded(kind, u[Len(u)]) \in BOOLEAN
                /\ Groups(kind, Level(kind, parts), u[k + 1], u[Len(u)])
                /\ \A w : /\ Keeps(k, v, w) /\ Len(w) = k + 1 /\ w[k + 1] \in Trees
                          /\ w[k + 1].kind = kind /\ w[k + 1].level = Level(kind, parts)
                          /\ w[k + 1].open = OpenEnded(kind, u[Len(u)])
                          => <<p[1], w>> \in Q
  PROVE  Valid(P, <<Build(kind, k)>>, Q)
<1>1. ASSUME NEW p \in P
      PROVE  LET t == Node(kind, SubSeq(p[2], k + 1, Len(p[2])))
             IN  /\ k \in 0 .. Len(p[2]) /\ t \in Trees
                 /\ <<p[1], Append(SubSeq(p[2], 1, k), t)>> \in Q
  <2> DEFINE u == p[2]
             parts == SubSeq(u, k + 1, Len(u))
             t == Node(kind, parts)
             w == Append(SubSeq(u, 1, k), t)
             level == Level(kind, parts)
             unended == OpenEnded(kind, u[Len(u)])
             groups == Groups(kind, level, u[k + 1], u[Len(u)])
  <2>1. u \in Seq(Trees)
    BY DEF Configurations
  <2>2. Keeps(k, v, u) /\ k < Len(u) /\ level \in Int /\ unended \in BOOLEAN /\ groups
    BY Zenon
  <2>3. \A x : /\ Keeps(k, v, x) /\ Len(x) = k + 1 /\ x[k + 1] \in Trees
               /\ x[k + 1].kind = kind /\ x[k + 1].level = level /\ x[k + 1].open = unended
               => <<p[1], x>> \in Q
    BY Zenon
  <2> HIDE DEF u
  <2>4. /\ parts \in Seq(Trees) /\ parts[1] = u[k + 1] /\ parts[Len(parts)] = u[Len(u)]
        /\ \A s \in Trees : LET x == Append(SubSeq(u, 1, k), s)
                            IN  Keeps(k, v, x) /\ Len(x) = k + 1 /\ x[k + 1] = s
    BY <2>1, <2>2, PartsOf
  <2> HIDE DEF parts
  <2>5. t \in Trees /\ t.kind = kind /\ t.level = level /\ t.open = unended
    <3>1. Level(kind, parts) \in Int /\ OpenEnded(kind, parts[Len(parts)]) \in BOOLEAN
          /\ Groups(kind, Level(kind, parts), parts[1], parts[Len(parts)])
      BY <2>2, <2>4
    <3>2. OpenEnded(kind, parts[Len(parts)]) = unended
      BY <2>4
    <3> HIDE DEF unended
    <3> QED
      BY <2>4, <3>1, <3>2, NodeIsTree
  <2> HIDE DEF t, level, unended
  <2>6. Keeps(k, v, w) /\ Len(w) = k + 1 /\ w[k + 1] = t
    BY <2>4, <2>5, Zenon
  <2> HIDE DEF w
  <2>7. <<p[1], w>> \in Q
    BY <2>3, <2>5, <2>6
  <2>8. k \in 0 .. Len(u)
    BY <2>1, <2>2
  <2> QED
    BY <2>5, <2>7, <2>8, Zenon DEF w, t, parts, u
<1> QED
  BY <1>1, BuildRule

LEMMA OperandsGrow ==
  ASSUME NEW k \in Int, NEW l \in Int, l <= k, NEW c, NEW t \in Operands(k, c)
  PROVE  t \in Operands(l, c) /\ t \in Trees /\ t.level \in Int /\ t.open \in BOOLEAN
<1>1. t \in Trees /\ t.level >= k /\ (t.open => Stops(c))
  BY DEF Operands
<1>2. \A s \in Trees : s.level \in Int /\ s.open \in BOOLEAN
  BY DEF Trees
<1>3. t.level \in Int /\ t.open \in BOOLEAN
  BY <1>1, <1>2, Zenon
<1>4. t.level >= l
  BY <1>1, <1>3
<1> QED
  BY <1>1, <1>3, <1>4 DEF Operands

LEMMA OutcomeIs ==
  ASSUME NEW f, NEW n, NEW c \in Alphabet, NEW u \in Seq(Trees), After(f, n, values, c, u)
  PROVE  <<c, u>> \in Outcome(f, n)
BY Pairs DEF Outcome

LEMMA WholeDoes ==
  ASSUME Held, cur \in Alphabet, NEW kind, NEW code, Good(code, Height, Made(Height, Whole({kind})))
  PROVE  Does("primary", 0, code)
<1> DEFINE h == Height
           M == Made(h, Whole({kind}))
           Q == Outcome("primary", 0)
<1>1. h \in Nat
  BY HeightIs
<1>2. Now \subseteq Holding(h, values)
  BY <1>1, NowIs
<1>3. ASSUME NEW p \in M PROVE p \in Q
  <2>1. p \in Configurations /\ Keeps(h, values, p[2]) /\ Len(p[2]) = h + 1 /\ p[2][h + 1] \in Whole({kind})
    BY KeptIs DEF Made
  <2> DEFINE last == p[2][h + 1]
  <2>2. last \in Operands(12, p[1])
    BY <2>1 DEF Whole, Operands
  <2> HIDE DEF last
  <2>3. p[2][Len(p[2])] \in Operands(12, p[1])
    BY <2>1, <2>2 DEF last
  <2>4. After("primary", 0, values, p[1], p[2])
    BY <2>1, <2>3, AfterIs DEF Held, Height
  <2> QED
    BY <2>1, <2>4 DEF Outcome
<1>4. Valid(Holding(h, values), code, M)
  BY DEF Good
<1> HIDE DEF h, M, Q
<1>5. M \subseteq Q
  BY <1>3
<1> QED
  BY <1>2, <1>4, <1>5, Weaken, Zenon DEF Does, Q

LEMMA TokenDoes ==
  ASSUME Held, cur \in Alphabet
  PROVE  Does("primary", 0, <<Take>>)
<1> DEFINE Q == Outcome("primary", 0)
           u == Append(values, Leaf(cur))
<1>1. Now \subseteq Configurations /\ \A p \in Now : p[1] = cur /\ p[2] = values
  BY NowIs
<1>2. ASSUME NEW d \in Alphabet PROVE <<d, u>> \in Q
  <2>1. Leaf(cur) \in Trees /\ Leaf(cur) \in Operands(12, d)
    <3>1. \A t \in Trees : t.level = 12 /\ t.open = FALSE => t \in Operands(12, d)
      BY DEF Operands
    <3> QED
      BY <3>1, LeafIsTree
  <2> DEFINE l == Leaf(cur)
  <2> HIDE DEF l
  <2>2. u \in Seq(Trees) /\ Keeps(Len(values), values, u) /\ Len(u) = Len(values) + 1 /\ u[Len(u)] = l
    <3>1. l \in Trees /\ u = Append(values, l)
      BY <2>1 DEF l
    <3> HIDE DEF u
    <3> QED
      BY <3>1 DEF Held, Keeps
  <2>3. u[Len(u)] \in Operands(12, d)
    BY <2>1, <2>2 DEF l
  <2> HIDE DEF u
  <2>4. After("primary", 0, values, d, u)
    BY <2>2, <2>3, AfterIs DEF Held
  <2> QED
    BY <2>2, <2>4, OutcomeIs
<1> HIDE DEF Q
<1>3. Valid(Now, <<Take>>, Q)
  BY <1>1, <1>2, TakeRule
<1> QED
  BY <1>3 DEF Does, Q

\* A lambda ends in a block or goes on as far as its expression does.
LEMMA LambdaDoes ==
  ASSUME Held, cur \in Alphabet
  PROVE  Does("primary", 0, <<Take, Call("lambda_params"), Maybe("|"), ReturnType, BodyOr("expr"), Build("lambda", Height)>>)
<1> DEFINE h == Height
           K == Holding(h, values)
           Body == {p \in K : h < Len(p[2]) /\ (p[2][Len(p[2])].kind = "block" \/ Stops(p[1]))}
           Q == Outcome("primary", 0)
           params_ == Call("lambda_params")
           bar == Maybe("|")
           body == BodyOr("expr")
           build == Build("lambda", h)
<1>1. h \in Nat /\ h = Len(values) /\ values \in Seq(Trees)
  BY HeightIs DEF Held, Height
<1>2. Now \subseteq K /\ K \subseteq Configurations /\ Body \subseteq Configurations
  BY <1>1, NowIs DEF Holding
<1>3. Valid(K, <<Call("block")>>, Body) /\ Valid(K, <<Call("expr")>>, Body)
  <2>1. ASSUME NEW p \in K, NEW f \in {"block", "expr"}, NEW d \in Alphabet, NEW u \in Seq(Trees), After(f, 0, p[2], d, u)
        PROVE  <<d, u>> \in Body
    <3>1. p[2] \in Seq(Trees) /\ Keeps(h, values, p[2]) /\ h <= Len(p[2])
      BY KeptIs DEF Keeps
    <3> DEFINE w == p[2]
    <3>2. Keeps(Len(w), w, u) /\ Len(u) = Len(w) + 1 /\ (u[Len(u)].kind = "block" \/ Stops(d))
      <4>1. CASE f = "expr"
        BY <2>1, <3>1, <4>1, AfterIs
      <4>2. CASE f = "block"
        <5>1. Base("block", 0, w) = Len(w)
          BY DEF Base
        <5> QED
          BY <2>1, <4>2, <5>1 DEF After
      <4> QED
        BY <4>1, <4>2
    <3> HIDE DEF w
    <3>3. w \in Seq(Trees) /\ Keeps(h, values, w) /\ h <= Len(w) /\ Len(w) \in Nat
      BY <3>1 DEF w
    <3>4. Keeps(h, values, u) /\ h < Len(u)
      BY <1>1, <3>2, <3>3, KeepsStill
    <3>5. <<d, u>> \in K
      BY <3>4, KeptPair
    <3> QED
      BY <3>2, <3>4, <3>5
  <2>2. \A p \in K, f \in {"block", "expr"} : Relies(f, 0, p[1], p[2])
    BY DEF Relies, Procedures
  <2> HIDE DEF K, Body
  <2>3. ASSUME NEW f \in {"block", "expr"} PROVE Valid(K, <<CallAt(f, 0)>>, Body)
    BY <1>2, <2>1, <2>2, CallRule
  <2> QED
    BY <2>3, Zenon DEF Call
<1>4. Valid(Body, <<build>>, Q)
  <2>1. ASSUME NEW p \in Body
        PROVE  LET u == p[2]
                   parts == SubSeq(u, h + 1, Len(u))
               IN  /\ Keeps(h, values, u) /\ h < Len(u)
                   /\ Level("lambda", parts) \in Int /\ OpenEnded("lambda", u[Len(u)]) \in BOOLEAN
                   /\ Groups("lambda", Level("lambda", parts), u[h + 1], u[Len(u)])
                   /\ \A w : /\ Keeps(h, values, w) /\ Len(w) = h + 1 /\ w[h + 1] \in Trees
                             /\ w[h + 1].kind = "lambda" /\ w[h + 1].level = Level("lambda", parts)
                             /\ w[h + 1].open = OpenEnded("lambda", u[Len(u)])
                             => <<p[1], w>> \in Q
    <3> DEFINE u == p[2]
               parts == SubSeq(u, h + 1, Len(u))
               last == u[Len(u)]
    <3>1. p[1] \in Alphabet /\ Keeps(h, values, u) /\ h < Len(u) /\ (last.kind = "block" \/ Stops(p[1]))
      BY KeptIs DEF Configurations
    <3>2. Level("lambda", parts) = 12
      BY DEF Level
    <3>3. OpenEnded("lambda", last) \in BOOLEAN /\ (OpenEnded("lambda", last) => last.kind # "block")
      BY DEF OpenEnded
    <3>4. \A first : Groups("lambda", 12, first, last)
      BY DEF Groups, PostfixKinds
    <3> HIDE DEF u, parts, last
    <3>5. ASSUME NEW w, Keeps(h, values, w), Len(w) = h + 1, w[h + 1] \in Trees, w[h + 1].level = 12,
                 w[h + 1].open = OpenEnded("lambda", last)
          PROVE  <<p[1], w>> \in Q
      <4>1. w[h + 1] \in Operands(12, p[1])
        BY <3>1, <3>3, <3>5 DEF Operands
      <4>2. w[Len(w)] \in Operands(12, p[1]) /\ w \in Seq(Trees)
        BY <3>5, <4>1 DEF Keeps
      <4>3. After("primary", 0, values, p[1], w)
        BY <1>1, <3>5, <4>2, AfterIs
      <4> QED
        BY <3>1, <4>2, <4>3, OutcomeIs
    <3>6. Level("lambda", parts) \in Int
      BY <3>2
    <3>7. Groups("lambda", Level("lambda", parts), u[h + 1], last)
      BY <3>2, <3>4
    <3>8. \A w : /\ Keeps(h, values, w) /\ Len(w) = h + 1 /\ w[h + 1] \in Trees
                 /\ w[h + 1].kind = "lambda" /\ w[h + 1].level = Level("lambda", parts)
                 /\ w[h + 1].open = OpenEnded("lambda", last)
                 => <<p[1], w>> \in Q
      BY <3>2, <3>5
    <3> QED
      BY <3>1, <3>3, <3>6, <3>7, <3>8, Zenon DEF u, parts, last
  <2>2. "lambda" \in NodeKinds
    BY DEF NodeKinds, ExpressionKinds
  <2> HIDE DEF Body, Q, h
  <2> QED
    BY <1>1, <1>2, <2>1, <2>2, Building
<1>5. Valid(K, <<body>>, Body)
  <2> HIDE DEF K, Body
  <2>1. {p \in K : p[1] \in {"{"}} \subseteq K /\ {p \in K : p[1] \notin {"{"}} \subseteq K /\ Body \subseteq Body
    OBVIOUS
  <2>2. Valid({p \in K : p[1] \in {"{"}}, <<Call("block")>>, Body) /\ Valid({p \in K : p[1] \notin {"{"}}, <<Call("expr")>>, Body)
    BY <1>3, <2>1, Weaken
  <2> QED
    BY <1>2, <2>2, IfRule, Zenon DEF BodyOr
<1>6. Valid(K, <<Take>>, K) /\ Valid(K, <<params_>>, K) /\ Valid(K, <<bar>>, K) /\ Valid(K, <<ReturnType>>, K)
  BY <1>1, Known, Items, Returns DEF Plain, Good
<1> HIDE DEF K, Body, Q, params_, bar, body, build
<1>7. Valid(K, <<body, build>>, Q)
  BY <1>4, <1>5, Chains, Zenon
<1>8. Valid(K, <<ReturnType, body, build>>, Q)
  BY <1>6, <1>7, Chains, Zenon
<1>9. Valid(K, <<bar, ReturnType, body, build>>, Q)
  BY <1>6, <1>8, Chains, Zenon
<1>10. Valid(K, <<params_, bar, ReturnType, body, build>>, Q)
  BY <1>6, <1>9, Chains, Zenon
<1>11. Valid(K, <<Take, params_, bar, ReturnType, body, build>>, Q)
  BY <1>6, <1>10, Chains, Zenon
<1>12. Valid(Now, <<Take, params_, bar, ReturnType, body, build>>, Q)
  <2>1. Q \subseteq Q
    OBVIOUS
  <2> QED
    BY <1>2, <1>11, <2>1, Weaken, Zenon
<1> QED
  BY <1>12, Zenon DEF Does, Q, params_, bar, body, build, h

LEMMA Primary ==
  ASSUME Held, cur \in Alphabet
  PROVE  Does("primary", 0, parse_primary)
<1> DEFINE h == Height
           N(kind) == Made(h, Whole({kind}))
           call == <<Take, Call("args"), Expect(")")>>
           member_ == <<Take, On({"("}, call), Build("qualified", h)>>
           name == If({EOF, ";"}, <<Fail>>, member_)
           array == <<Take, Call("elems"), Expect("]"), Build("array", h)>>
           lambda == <<Take, Call("lambda_params"), Maybe("|"), ReturnType, BodyOr("expr"), Build("lambda", h)>>
           qualified == <<Take, Take, name>>
           struct == <<Take, Expect("{"), Call("fields"), Expect("}"), Build("struct", h)>>
           paren == <<Take, Call("expr"), Expect(")"), Build("paren", h)>>
           literal == peek = "{" /\ no_struct_lit = 0
           token == <<Take>>
<1>1. h \in Nat
  BY HeightIs
<1>2. parse_primary =
        CASE cur \in {"lit", "char"} -> token
          [] cur = "[" -> array
          [] cur = "|" -> lambda
          [] cur \in Ids /\ peek = "::" -> qualified
          [] cur \in Ids /\ peek # "::" /\ literal -> struct
          [] cur \in Ids /\ peek # "::" /\ ~literal -> token
          [] cur = "(" -> paren
          [] OTHER -> Unexpected
  BY Zenon DEF parse_primary
<1>3. Does("primary", 0, token)
  BY TokenDoes
<1>4. Does("primary", 0, lambda)
  BY LambdaDoes
<1>5. Does("primary", 0, Unexpected)
  BY UnexpectedDoes
<1>6. ASSUME NEW kind, NEW code, Good(code, h, N(kind)) PROVE Does("primary", 0, code)
  BY <1>6, WholeDoes
<1> HIDE DEF h, lambda, token
<1>7. \A kind \in {"array", "qualified", "struct", "paren"} : Good(<<Build(kind, h)>>, h, N(kind))
  <2>1. \A kind \in {"array", "qualified", "struct", "paren"} : kind \in PlainKinds
    BY DEF PlainKinds
  <2> QED
    BY <1>1, <2>1, BuildMakes, Zenon
<1>8. /\ Plain(<<Take>>, h) /\ (\A t : Plain(<<Expect(t)>>, h))
      /\ Plain(<<Call("elems")>>, h) /\ Plain(<<Call("args")>>, h) /\ Plain(<<Call("fields")>>, h) /\ Plain(<<Call("expr")>>, h)
  BY <1>1, Known, Items
<1> HIDE DEF N
<1>9. Good(array, h, N("array")) /\ Good(paren, h, N("paren"))
  <2>1. ASSUME NEW x, NEW y, NEW kind, Plain(<<x>>, h), Plain(<<y>>, h), Good(<<Build(kind, h)>>, h, N(kind))
        PROVE  Good(<<Take, x, y, Build(kind, h)>>, h, N(kind))
    <3>1. \A z \in {Take, x, y} : Plain(<<z>>, h)
      BY <1>8, <2>1
    <3> QED
      BY <1>1, <2>1, <3>1, GoodTuples, Zenon
  <2> QED
    BY <1>7, <1>8, <2>1
<1>10. Good(struct, h, N("struct"))
  <2> DEFINE left == Expect("{")
             right == Expect("}")
             fields_ == Call("fields")
             build == Build("struct", h)
             M == N("struct")
  <2>1. Plain(<<left>>, h) /\ Plain(<<right>>, h) /\ Plain(<<fields_>>, h) /\ Good(<<build>>, h, M)
    BY <1>7, <1>8
  <2> HIDE DEF left, right, fields_, build, M
  <2>2. \A x \in {Take, left, fields_, right} : Plain(<<x>>, h)
    BY <1>8, <2>1
  <2>3. Good(<<Take, left, fields_, right, build>>, h, M)
    BY <1>1, <2>1, <2>2, GoodTuples, Zenon
  <2> QED
    BY <2>3 DEF left, right, fields_, build, M
<1>11. Good(qualified, h, N("qualified"))
  <2> DEFINE build == Build("qualified", h)
             M == N("qualified")
             on == On({"("}, call)
  <2>1. Good(<<build>>, h, M)
    BY <1>7
  <2>2. Plain(call, h)
    BY <1>1, <1>8, PlainTuples
  <2> HIDE DEF build, M, call
  <2>3. Plain(<<on>>, h)
    BY <1>1, <2>2, PlainBranches, Zenon
  <2> HIDE DEF on
  <2>4. Good(<<Take, on, build>>, h, M)
    <3>1. \A x \in {Take, on} : Plain(<<x>>, h)
      BY <1>8, <2>3
    <3> QED
      BY <1>1, <2>1, <3>1, GoodTuples, Zenon
  <2>5. Good(member_, h, M)
    BY <2>4, Zenon DEF on, build
  <2> HIDE DEF member_
  <2>6. Good(<<name>>, h, M)
    BY <1>1, <2>5, GoodEnds, Zenon
  <2> HIDE DEF name
  <2>7. Good(<<Take, Take, name>>, h, M)
    <3>1. \A x \in {Take, Take} : Plain(<<x>>, h)
      BY <1>8
    <3> QED
      BY <1>1, <2>6, <3>1, GoodTuples, Zenon
  <2> QED
    BY <2>7 DEF M
<1>12. Does("primary", 0, array) /\ Does("primary", 0, paren) /\ Does("primary", 0, struct) /\ Does("primary", 0, qualified)
  BY <1>6, <1>9, <1>10, <1>11, Zenon
<1> DEFINE pair == cur \in Ids /\ peek = "::"
           opens == cur \in Ids /\ peek # "::" /\ literal
           simple == cur \in Ids /\ peek # "::" /\ ~literal
<1>13. parse_primary =
        CASE cur \in {"lit", "char"} -> token
          [] cur = "[" -> array
          [] cur = "|" -> lambda
          [] pair -> qualified
          [] opens -> struct
          [] simple -> token
          [] cur = "(" -> paren
          [] OTHER -> Unexpected
  BY <1>2, Zenon
<1> HIDE DEF pair, opens, simple, array, qualified, struct, paren
<1> QED
  BY <1>3, <1>4, <1>5, <1>12, <1>13

LEMMA Unary ==
  ASSUME Held, cur \in Alphabet
  PROVE  Does("unary", 0, parse_unary)
<1> DEFINE h == Height
           Q == Outcome("unary", 0)
<1>1. h \in Nat /\ h = Len(values) /\ values \in Seq(Trees)
  BY HeightIs DEF Held, Height
<1>2. Now \subseteq Configurations /\ \A p \in Now : p[1] = cur /\ p[2] = values
  BY NowIs
<1>3. Valid(Now, <<Call("primary"), Call("postfix")>>, Q)
  <2> DEFINE M == Outcome("primary", 0)
  <2>1. Relies("primary", 0, cur, values)
    BY DEF Relies, Procedures
  <2>2. Valid(Now, <<Call("primary")>>, M)
    BY <2>1, OneCall, Zenon DEF Call
  <2>3. ASSUME NEW p \in M
        PROVE  /\ p[1] \in Alphabet /\ p[2] \in Seq(Trees)
               /\ Keeps(h, values, p[2]) /\ Len(p[2]) = h + 1 /\ p[2][Len(p[2])] \in Operands(12, p[1])
    BY <1>1, AfterIs DEF Outcome, Configurations
  <2>4. M \subseteq Configurations
    BY DEF Outcome
  <2> HIDE DEF M
  <2>5. ASSUME NEW p \in M PROVE Relies("postfix", 0, p[1], p[2])
    <3>1. Len(p[2]) # 0 /\ p[2][Len(p[2])] \in Operands(12, p[1])
      BY <1>1, <2>3
    <3> QED
      BY <3>1 DEF Relies, Procedures
  <2>6. ASSUME NEW p \in M, NEW d \in Alphabet, NEW u \in Seq(Trees), After("postfix", 0, p[2], d, u)
        PROVE  <<d, u>> \in Q
    <3> DEFINE w == p[2]
               last == u[Len(u)]
    <3>1. Keeps(h, values, w) /\ Len(w) = h + 1 /\ w \in Seq(Trees)
      BY <2>3
    <3>2. Keeps(Len(w) - 1, w, u) /\ Len(u) = Len(w) /\ last \in Operands(12, d) /\ d \notin PostfixStarts
      BY <2>3, <2>6, AfterIs
    <3> HIDE DEF w, last
    <3>3. last \in Operands(11, d)
      BY <3>2, OperandsGrow
    <3>4. Keeps(h, values, u) /\ Len(u) = h + 1
      BY <1>1, <3>1, <3>2, KeepsStill
    <3>5. After("unary", 0, values, d, u)
      BY <1>1, <3>2, <3>3, <3>4, AfterIs DEF last
    <3> QED
      BY <3>5, OutcomeIs
  <2> HIDE DEF Q
  <2>7. Valid(M, <<Call("postfix")>>, Q)
    BY <2>4, <2>5, <2>6, CallRule, Zenon DEF Call
  <2> QED
    BY <2>2, <2>7, Chains, Zenon
<1>4. Valid(Now, <<Take, Call("unary"), Build("unary", h)>>, Q)
  <2> DEFINE P == {p \in Configurations : Keeps(h, values, p[2]) /\ Len(p[2]) = h + 1}
             M == {p \in Configurations : /\ Keeps(h, values, p[2]) /\ Len(p[2]) = h + 2
                                          /\ p[2][Len(p[2])] \in Operands(11, p[1]) /\ p[1] \notin PostfixStarts}
  <2>1. Valid(Now, <<Take>>, P)
    <3>1. ASSUME NEW p \in Now, NEW d \in Alphabet PROVE <<d, Append(p[2], Leaf(p[1]))>> \in P
      <4> DEFINE l == Leaf(cur)
                 u == Append(values, l)
      <4>1. l \in Trees
        BY LeafIsTree
      <4> HIDE DEF l
      <4>2. u \in Seq(Trees) /\ Keeps(h, values, u) /\ Len(u) = h + 1
        BY <1>1, <4>1 DEF Keeps
      <4> HIDE DEF u
      <4>3. <<d, u>> \in P
        BY <4>2, Pairs
      <4> QED
        BY <1>2, <4>3 DEF u, l
    <3> HIDE DEF P
    <3> QED
      BY <1>2, <3>1, TakeRule
  <2>2. Valid(P, <<Call("unary")>>, M)
    <3>1. P \subseteq Configurations
      OBVIOUS
    <3>2. \A p \in P : Relies("unary", 0, p[1], p[2])
      BY DEF Relies, Procedures
    <3>3. ASSUME NEW p \in P, NEW d \in Alphabet, NEW u \in Seq(Trees), After("unary", 0, p[2], d, u)
          PROVE  <<d, u>> \in M
      <4> DEFINE w == p[2]
                 last == u[Len(u)]
      <4>1. Keeps(h, values, w) /\ Len(w) = h + 1 /\ w \in Seq(Trees)
        BY DEF Configurations
      <4>2. Keeps(Len(w), w, u) /\ Len(u) = Len(w) + 1 /\ last \in Operands(11, d) /\ d \notin PostfixStarts
        BY <3>3, <4>1, AfterIs
      <4> HIDE DEF w
      <4>3. Keeps(h, values, u) /\ Len(u) = h + 2
        BY <1>1, <4>1, <4>2, KeepsStill
      <4> QED
        BY <4>2, <4>3, Pairs
    <3> HIDE DEF P, M
    <3> QED
      BY <3>1, <3>2, <3>3, CallRule, Zenon DEF Call
  <2>3. Valid(M, <<Build("unary", h)>>, Q)
    <3>1. ASSUME NEW p \in M
          PROVE  LET u == p[2]
                     parts == SubSeq(u, h + 1, Len(u))
                 IN  /\ Keeps(h, values, u) /\ h < Len(u)
                     /\ Level("unary", parts) \in Int /\ OpenEnded("unary", u[Len(u)]) \in BOOLEAN
                     /\ Groups("unary", Level("unary", parts), u[h + 1], u[Len(u)])
                     /\ \A w : /\ Keeps(h, values, w) /\ Len(w) = h + 1 /\ w[h + 1] \in Trees
                               /\ w[h + 1].kind = "unary" /\ w[h + 1].level = Level("unary", parts)
                               /\ w[h + 1].open = OpenEnded("unary", u[Len(u)])
                               => <<p[1], w>> \in Q
      <4> DEFINE u == p[2]
                 parts == SubSeq(u, h + 1, Len(u))
                 last == u[Len(u)]
      <4>1. p[1] \in Alphabet /\ Keeps(h, values, u) /\ h < Len(u) /\ last \in Operands(11, p[1]) /\ p[1] \notin PostfixStarts
        BY <1>1 DEF Configurations
      <4>2. Level("unary", parts) = 11
        BY DEF Level
      <4> HIDE DEF u, parts, last
      <4>3. last \in Trees /\ last.level >= 11 /\ last.open \in BOOLEAN /\ (last.open => Stops(p[1]))
        BY <4>1 DEF Operands, Trees
      <4>4. OpenEnded("unary", last) = last.open
        <5>1. OpenEnded("unary", last) <=> last.open
          BY DEF OpenEnded
        <5>2. OpenEnded("unary", last) \in BOOLEAN
          BY DEF OpenEnded
        <5> QED
          BY <4>3, <5>1, <5>2
      <4>5. \A first : Groups("unary", 11, first, last)
        BY <4>3 DEF Groups, PostfixKinds
      <4>6. ASSUME NEW w, Keeps(h, values, w), Len(w) = h + 1, w[h + 1] \in Trees, w[h + 1].level = 11,
                   w[h + 1].open = last.open
            PROVE  <<p[1], w>> \in Q
        <5>1. w[h + 1] \in Operands(11, p[1])
          BY <4>3, <4>6 DEF Operands
        <5>2. w[Len(w)] \in Operands(11, p[1]) /\ w \in Seq(Trees)
          BY <4>6, <5>1 DEF Keeps
        <5>3. After("unary", 0, values, p[1], w)
          BY <1>1, <4>1, <4>6, <5>2, AfterIs
        <5> QED
          BY <4>1, <5>2, <5>3, OutcomeIs
      <4>7. Level("unary", parts) \in Int /\ OpenEnded("unary", last) \in BOOLEAN
            /\ Groups("unary", Level("unary", parts), u[h + 1], last)
        BY <4>2, <4>3, <4>4, <4>5
      <4>8. \A w : /\ Keeps(h, values, w) /\ Len(w) = h + 1 /\ w[h + 1] \in Trees
                   /\ w[h + 1].kind = "unary" /\ w[h + 1].level = Level("unary", parts)
                   /\ w[h + 1].open = OpenEnded("unary", last)
                   => <<p[1], w>> \in Q
        BY <4>2, <4>4, <4>6
      <4> QED
        BY <4>1, <4>7, <4>8, Zenon DEF u, parts, last
    <3>2. "unary" \in NodeKinds
      BY DEF NodeKinds, ExpressionKinds
    <3>3. M \subseteq Configurations
      OBVIOUS
    <3> HIDE DEF M, Q, h
    <3> QED
      BY <1>1, <3>1, <3>2, <3>3, Building
  <2> DEFINE build == Build("unary", h)
  <2> HIDE DEF P, M, Q, build
  <2>4. Valid(P, <<Call("unary"), build>>, Q)
    BY <2>2, <2>3, Chains, Zenon DEF build
  <2>5. Valid(Now, <<Take, Call("unary"), build>>, Q)
    BY <2>1, <2>4, Chains, Zenon
  <2> QED
    BY <2>5 DEF build
<1> QED
  BY <1>3, <1>4, Zenon DEF Does, parse_unary

\* From there the loop of the postfix operators goes on: the operand is a
\* tree with the first h of the values before it.
LEMMA Again ==
  ASSUME Held, Height # 0, NEW P, P \subseteq Configurations,
         \A p \in P : /\ Keeps(Height - 1, values, p[2]) /\ Len(p[2]) = Height
                      /\ p[2][Height] \in Operands(12, p[1])
  PROVE  Valid(P, <<Call("postfix")>>, Outcome("postfix", 0))
<1> DEFINE h == Height
           Q == Outcome("postfix", 0)
<1>1. h \in Nat /\ h = Len(values) /\ values \in Seq(Trees) /\ h # 0 /\ h - 1 \in Nat
  BY HeightIs DEF Held, Height
<1>2. ASSUME NEW p \in P
      PROVE  /\ p[1] \in Alphabet /\ p[2] \in Seq(Trees)
             /\ Keeps(h - 1, values, p[2]) /\ Len(p[2]) = h /\ p[2][Len(p[2])] \in Operands(12, p[1])
  <2>1. p[1] \in Alphabet /\ p[2] \in Seq(Trees)
    BY DEF Configurations
  <2>2. Len(p[2]) = h /\ Keeps(h - 1, values, p[2]) /\ p[2][h] \in Operands(12, p[1])
    BY Zenon
  <2> HIDE DEF h
  <2> QED
    BY <2>1, <2>2
<1> HIDE DEF h, Q
<1>3. ASSUME NEW p \in P PROVE Relies("postfix", 0, p[1], p[2])
  <2>1. Len(p[2]) # 0 /\ p[2][Len(p[2])] \in Operands(12, p[1])
    BY <1>1, <1>2
  <2> QED
    BY <2>1 DEF Relies, Procedures
<1>4. ASSUME NEW p \in P, NEW d \in Alphabet, NEW u \in Seq(Trees), After("postfix", 0, p[2], d, u)
      PROVE  <<d, u>> \in Q
  <2> DEFINE w == p[2]
             last == u[Len(u)]
  <2>1. Keeps(h - 1, values, w) /\ Len(w) = h /\ w \in Seq(Trees)
    BY <1>2
  <2>2. Keeps(Len(w) - 1, w, u) /\ Len(u) = Len(w) /\ last \in Operands(12, d) /\ d \notin PostfixStarts
    BY <1>4, <2>1, AfterIs
  <2> HIDE DEF w, last
  <2>3. Keeps(h - 1, values, u) /\ Len(u) = h
    <3> DEFINE k == h - 1
    <3>1. k \in Nat /\ k <= k /\ Keeps(k, values, w) /\ Keeps(k, w, u) /\ Len(u) = h
      BY <1>1, <2>1, <2>2
    <3> HIDE DEF k
    <3>2. Keeps(k, values, u)
      BY <3>1, KeepsStill
    <3> QED
      BY <3>1, <3>2 DEF k
  <2>4. After("postfix", 0, values, d, u)
    BY <1>1, <2>2, <2>3, AfterIs DEF last
  <2> QED
    BY <2>4, OutcomeIs DEF Q
<1>5. Valid(P, <<CallAt("postfix", 0)>>, Q)
  BY <1>3, <1>4, CallRule
<1> QED
  BY <1>5, Zenon DEF Call, Q

LEMMA PostfixBuilds ==
  ASSUME Held, Height # 0, cur \in PostfixStarts, Relies("postfix", 0, cur, values)
  PROVE  /\ \A kind \in PostfixKinds \ {"conditional"} :
               Good(<<Build(kind, Height - 1), Call("postfix")>>, Height, Outcome("postfix", 0))
         /\ Valid({p \in Holding(Height, values) : Stops(p[1])},
                  <<Build("conditional", Height - 1), Call("postfix")>>, Outcome("postfix", 0))
<1> DEFINE h == Height
           K == Holding(h, values)
           P == {p \in Configurations : Keeps(h - 1, values, p[2]) /\ Len(p[2]) = h /\ p[2][h] \in Operands(12, p[1])}
           first == values[h]
<1>1. h \in Nat /\ h = Len(values) /\ values \in Seq(Trees) /\ h # 0 /\ h - 1 \in Nat /\ (h - 1) + 1 = h
  BY HeightIs DEF Held, Height
<1>2. first.level >= 12 /\ ~first.open
  <2>1. first \in Operands(12, cur)
    BY <1>1 DEF Relies
  <2> HIDE DEF first
  <2>2. ~Stops(cur)
    BY DEF Stops
  <2> QED
    BY <2>1, <2>2 DEF Operands
<1>3. ASSUME NEW kind \in PostfixKinds, NEW R, R \subseteq K, \A p \in R : kind = "conditional" => Stops(p[1])
      PROVE  Valid(R, <<Build(kind, h - 1)>>, P)
  <2>1. ASSUME NEW p \in R
        PROVE  LET u == p[2]
                   parts == SubSeq(u, (h - 1) + 1, Len(u))
               IN  /\ Keeps(h - 1, values, u) /\ h - 1 < Len(u)
                   /\ Level(kind, parts) \in Int /\ OpenEnded(kind, u[Len(u)]) \in BOOLEAN
                   /\ Groups(kind, Level(kind, parts), u[(h - 1) + 1], u[Len(u)])
                   /\ \A w : /\ Keeps(h - 1, values, w) /\ Len(w) = (h - 1) + 1 /\ w[(h - 1) + 1] \in Trees
                             /\ w[(h - 1) + 1].kind = kind /\ w[(h - 1) + 1].level = Level(kind, parts)
                             /\ w[(h - 1) + 1].open = OpenEnded(kind, u[Len(u)])
                             => <<p[1], w>> \in P
    <3> DEFINE u == p[2]
               parts == SubSeq(u, (h - 1) + 1, Len(u))
               last == u[Len(u)]
    <3>1. p[1] \in Alphabet /\ Keeps(h, values, u) /\ (kind = "conditional" => Stops(p[1]))
      BY <1>3, KeptIs DEF Configurations
    <3>2. Level(kind, parts) = 12
      BY DEF Level, PostfixKinds
    <3>3. OpenEnded(kind, last) \in BOOLEAN /\ (OpenEnded(kind, last) => kind = "conditional")
      BY DEF OpenEnded, PostfixKinds
    <3> HIDE DEF u, parts, last, P
    <3>4. Keeps(h - 1, values, u) /\ h - 1 < Len(u) /\ u[h] = first
      BY <1>1, <3>1 DEF Keeps
    <3>5. Groups(kind, 12, first, last)
      <4> HIDE DEF first
      <4> QED
        BY <1>2 DEF Groups, PostfixKinds
    <3>6. ASSUME NEW w, Keeps(h - 1, values, w), Len(w) = h, w[h] \in Trees, w[h].level = 12,
                 w[h].open = OpenEnded(kind, last)
          PROVE  <<p[1], w>> \in P
      <4>1. w[h] \in Operands(12, p[1])
        BY <3>1, <3>3, <3>6 DEF Operands
      <4>2. w \in Seq(Trees)
        BY <3>6 DEF Keeps
      <4> HIDE DEF h
      <4> QED
        BY <3>1, <3>6, <4>1, <4>2, Pairs DEF P
    <3>7. Level(kind, parts) \in Int /\ OpenEnded(kind, last) \in BOOLEAN
          /\ Groups(kind, Level(kind, parts), u[h], last)
      BY <3>2, <3>3, <3>4, <3>5
    <3>8. \A w : /\ Keeps(h - 1, values, w) /\ Len(w) = h /\ w[h] \in Trees
                 /\ w[h].kind = kind /\ w[h].level = Level(kind, parts)
                 /\ w[h].open = OpenEnded(kind, last)
                 => <<p[1], w>> \in P
      BY <3>2, <3>6
    <3> HIDE DEF h, first
    <3>9. (h - 1) + 1 = h
      BY <1>1
    <3> QED
      BY <3>4, <3>7, <3>8, <3>9, Zenon DEF u, parts, last
  <2>2. kind \in NodeKinds
    BY DEF NodeKinds, ExpressionKinds
  <2>3. R \subseteq Configurations
    BY <1>3 DEF Holding
  <2> HIDE DEF P, h
  <2>4. h - 1 \in Nat
    BY <1>1
  <2> DEFINE k == h - 1
  <2> HIDE DEF k
  <2>5. Valid(R, <<Build(kind, k)>>, P)
    BY <2>1, <2>2, <2>3, <2>4, Building DEF k
  <2> QED
    BY <2>5 DEF k
<1>4. Valid(P, <<Call("postfix")>>, Outcome("postfix", 0))
  <2>1. P \subseteq Configurations
    OBVIOUS
  <2>2. \A p \in P : Keeps(Height - 1, values, p[2]) /\ Len(p[2]) = Height /\ p[2][Height] \in Operands(12, p[1])
    OBVIOUS
  <2> HIDE DEF P
  <2> QED
    BY <2>1, <2>2, Again
<1>5. ASSUME NEW kind \in PostfixKinds \ {"conditional"} PROVE Valid(K, <<Build(kind, h - 1)>>, P)
  <2>1. K \subseteq K /\ kind # "conditional"
    OBVIOUS
  <2> HIDE DEF K, P, h
  <2> QED
    BY <1>3, <2>1
<1> DEFINE R == {p \in K : Stops(p[1])}
<1>6. Valid(R, <<Build("conditional", h - 1)>>, P)
  <2>1. R \subseteq K /\ (\A p \in R : Stops(p[1])) /\ "conditional" \in PostfixKinds
    BY DEF PostfixKinds
  <2> HIDE DEF R, K, P, h
  <2> QED
    BY <1>3, <2>1
<1> HIDE DEF P
<1>7. Valid(R, <<Build("conditional", h - 1), Call("postfix")>>, Outcome("postfix", 0))
  BY <1>4, <1>6, Chains, Zenon
<1>8. ASSUME NEW kind \in PostfixKinds \ {"conditional"}
      PROVE  Valid(K, <<Build(kind, h - 1), Call("postfix")>>, Outcome("postfix", 0))
  BY <1>4, <1>5, Chains, Zenon
<1> QED
  BY <1>7, <1>8, Zenon DEF Good

LEMMA Postfix ==
  ASSUME Held, cur \in Alphabet, Relies("postfix", 0, cur, values)
  PROVE  Does("postfix", 0, postfix)
<1> DEFINE h == Height
           K == Holding(h, values)
           R == {p \in K : Stops(p[1])}
           Q == Outcome("postfix", 0)
           again == Call("postfix")
           B(kind) == Build(kind, h - 1)
<1>1. h \in Nat /\ h = Len(values) /\ values \in Seq(Trees) /\ h # 0
  <2>1. Len(values) # 0
    BY DEF Relies
  <2> QED
    BY <2>1, HeightIs DEF Held, Height
<1>2. Now \subseteq Configurations /\ (\A p \in Now : p[1] = cur /\ p[2] = values) /\ Now \subseteq K
  BY <1>1, NowIs
<1>3. CASE cur \notin PostfixStarts
  <2>1. postfix = << >>
    BY <1>3 DEF postfix, PostfixStarts
  <2>2. Keeps(h - 1, values, values) /\ values[Len(values)] \in Operands(12, cur)
    BY <1>1 DEF Keeps, Relies
  <2>3. After("postfix", 0, values, cur, values)
    BY <1>1, <1>3, <2>2, AfterIs
  <2>4. <<cur, values>> \in Q
    BY <1>1, <2>3, OutcomeIs
  <2>5. Now \subseteq Q
    BY <2>4, Zenon DEF Now
  <2> HIDE DEF Q
  <2>6. Valid(Now, << >>, Q)
    BY <2>5, Nothing
  <2> QED
    BY <2>1, <2>6 DEF Does, Q
<1>4. CASE cur \in PostfixStarts
  <2>1. /\ \A kind \in PostfixKinds \ {"conditional"} : Good(<<B(kind), again>>, h, Q)
        /\ Valid(R, <<B("conditional"), again>>, Q)
    BY <1>1, <1>4, PostfixBuilds DEF h
  <2>2. \A kind \in {"method", "field", "call", "index", "postfix", "try", "cast"} : kind \in PostfixKinds \ {"conditional"}
    BY DEF PostfixKinds
  <2>3. \A kind \in {"method", "field", "call", "index", "postfix", "try", "cast"} : Good(<<B(kind), again>>, h, Q)
    BY <2>1, <2>2, Zenon
  <2> DEFINE index_ == <<Take, Call("expr"), Expect("]"), B("index"), again>>
             method == <<Call("arguments"), B("method"), again>>
             field == <<B("field"), again>>
             selected == If({"("}, method, field)
             select == If(Ids, <<Take, selected>>, <<Fail>>)
             dot == <<Take, select>>
             call == <<Call("arguments"), B("call"), again>>
             increment == <<Take, B("postfix"), again>>
             try == <<B("try"), again>>
             choose == <<Call("expr"), Expect(":"), Call("expr"), B("conditional"), again>>
             ask == If(Endings, try, choose)
             question == <<Take, ask>>
             cast == <<Take, Call("type"), B("cast"), again>>
  <2>4. postfix = CASE cur = "." -> dot
                    [] cur = "(" -> call
                    [] cur = "[" -> index_
                    [] cur = "++" -> increment
                    [] cur = "?" -> question
                    [] cur = "as" -> cast
                    [] OTHER -> << >>
    BY Zenon DEF postfix
  <2>5. /\ Plain(<<Take>>, h) /\ (\A t : Plain(<<Expect(t)>>, h)) /\ Plain(<<Call("expr")>>, h)
        /\ Plain(<<Call("arguments")>>, h) /\ Plain(<<Call("type")>>, h)
    BY <1>1, Known, Items
  <2>6. /\ Valid(K, <<Take>>, K) /\ Valid(K, <<Call("expr")>>, K) /\ Valid(K, <<Call("arguments")>>, K)
        /\ Valid(K, <<Call("type")>>, K) /\ \A t : Valid(K, <<Expect(t)>>, K)
    BY <2>5 DEF Plain, Good
  <2>7. \A kind \in {"method", "field", "call", "index", "postfix", "try", "cast"} : Valid(K, <<B(kind), again>>, Q)
    BY <2>3 DEF Good
  <2>8. Valid(K, <<Call("expr")>>, R)
    <3>1. K \subseteq Configurations
      BY DEF Holding
    <3>2. \A p \in K : Relies("expr", 0, p[1], p[2])
      BY DEF Relies, Procedures
    <3>3. ASSUME NEW p \in K, NEW d \in Alphabet, NEW u \in Seq(Trees), After("expr", 0, p[2], d, u)
          PROVE  <<d, u>> \in R
      <4> DEFINE w == p[2]
      <4>1. w \in Seq(Trees) /\ Keeps(h, values, w) /\ h <= Len(w) /\ Len(w) \in Nat
        BY KeptIs DEF Keeps
      <4>2. Keeps(Len(w), w, u) /\ Stops(d)
        BY <3>3, <4>1, AfterIs
      <4> HIDE DEF w
      <4>3. Keeps(h, values, u)
        BY <1>1, <4>1, <4>2, KeepsStill
      <4>4. <<d, u>> \in K
        BY <4>3, KeptPair
      <4> QED
        BY <4>2, <4>4
    <3> HIDE DEF K, R
    <3> QED
      BY <3>1, <3>2, <3>3, CallRule, Zenon DEF Call
  <2> DEFINE expect == Expect(":")
             bracket == Expect("]")
             tested == B("conditional")
             indexed == B("index")
             called == B("call")
             cast_ == B("cast")
             stepped == B("postfix")
             invoked == B("method")
  <2>9. /\ Valid(K, <<expect>>, K) /\ Valid(K, <<bracket>>, K)
        /\ Valid(R, <<tested, again>>, Q) /\ Valid(K, <<indexed, again>>, Q) /\ Valid(K, <<called, again>>, Q)
        /\ Valid(K, <<cast_, again>>, Q) /\ Valid(K, <<stepped, again>>, Q) /\ Valid(K, <<invoked, again>>, Q)
        /\ Valid(K, field, Q) /\ Valid(K, try, Q)
    BY <2>1, <2>6, <2>7
  <2> HIDE DEF K, R, Q, again, B, expect, bracket, tested, indexed, called, cast_, stepped, invoked, field, try
  <2>10. Valid(K, choose, Q)
    <3>1. Valid(K, <<Call("expr"), tested, again>>, Q)
      BY <2>8, <2>9, Chains, Zenon
    <3>2. Valid(K, <<expect, Call("expr"), tested, again>>, Q)
      BY <2>9, <3>1, Chains, Zenon
    <3>3. Valid(K, <<Call("expr"), expect, Call("expr"), tested, again>>, Q)
      BY <2>6, <3>2, Chains, Zenon
    <3> QED
      BY <3>3 DEF expect, tested
  <2>11. Valid(K, index_, Q)
    <3>1. Valid(K, <<bracket, indexed, again>>, Q)
      BY <2>9, Chains, Zenon
    <3>2. Valid(K, <<Call("expr"), bracket, indexed, again>>, Q)
      BY <2>6, <3>1, Chains, Zenon
    <3>3. Valid(K, <<Take, Call("expr"), bracket, indexed, again>>, Q)
      BY <2>6, <3>2, Chains, Zenon
    <3> QED
      BY <3>3 DEF bracket, indexed
  <2>12. Valid(K, call, Q) /\ Valid(K, increment, Q) /\ Valid(K, method, Q)
    <3>1. Valid(K, <<Call("arguments"), called, again>>, Q) /\ Valid(K, <<Call("arguments"), invoked, again>>, Q)
          /\ Valid(K, <<Take, stepped, again>>, Q)
      BY <2>6, <2>9, Chains, Zenon
    <3> QED
      BY <3>1 DEF called, stepped, invoked
  <2>13. Valid(K, cast, Q)
    <3>1. Valid(K, <<Call("type"), cast_, again>>, Q)
      BY <2>6, <2>9, Chains, Zenon
    <3>2. Valid(K, <<Take, Call("type"), cast_, again>>, Q)
      BY <2>6, <3>1, Chains, Zenon
    <3> QED
      BY <3>2 DEF cast_
  <2> HIDE DEF choose, index_, call, increment, method, cast
  <2>14. Valid(K, question, Q)
    <3>1. Valid(K, <<ask>>, Q)
      BY <1>1, <2>9, <2>10, GoodEnds, Zenon DEF Good, K
    <3> HIDE DEF ask
    <3> QED
      BY <2>6, <3>1, Chains, Zenon
  <2>15. Valid(K, dot, Q)
    <3>1. Valid(K, <<selected>>, Q)
      BY <1>1, <2>9, <2>12, GoodEnds, Zenon DEF Good, K
    <3> HIDE DEF selected
    <3>2. Valid(K, <<Take, selected>>, Q)
      BY <2>6, <3>1, Chains, Zenon
    <3>3. Valid(K, <<Fail>>, Q)
      BY <1>1, GoodEnds, Zenon DEF Good, K
    <3>4. Valid(K, <<select>>, Q)
      BY <1>1, <3>2, <3>3, GoodEnds, Zenon DEF Good, K
    <3> HIDE DEF select
    <3> QED
      BY <2>6, <3>4, Chains, Zenon
  <2> HIDE DEF question, dot
  <2>16. Valid(K, postfix, Q)
    BY <1>4, <2>4, <2>11, <2>12, <2>13, <2>14, <2>15 DEF PostfixStarts
  <2>17. Q \subseteq Q
    OBVIOUS
  <2> QED
    BY <1>2, <2>16, <2>17, Weaken, Zenon DEF Does, Q
<1> QED
  BY <1>3, <1>4

LEMMA Binary ==
  ASSUME Held, cur \in Alphabet, NEW n, Relies("binary", n, cur, values)
  PROVE  Does("binary", n, <<Call("unary"), CallAt("binary_loop", n)>>)
<1> DEFINE M == Outcome("unary", 0)
           Q == Outcome("binary", n)
           l == Len(values)
           loop == CallAt("binary_loop", n)
<1>1. n \in 0 .. 11 /\ l \in Nat /\ values \in Seq(Trees)
  BY DEF Relies, Held
<1>2. Valid(Now, <<Call("unary")>>, M)
  <2>1. Relies("unary", 0, cur, values)
    BY DEF Relies, Procedures
  <2> QED
    BY <2>1, OneCall, Zenon DEF Call
<1>3. ASSUME NEW p \in M
      PROVE  /\ p[1] \in Alphabet /\ p[2] \in Seq(Trees)
             /\ Keeps(l, values, p[2]) /\ Len(p[2]) = l + 1 /\ p[2][Len(p[2])] \in Operands(11, p[1])
             /\ p[1] \notin PostfixStarts
  BY <1>1, AfterIs DEF Outcome, Configurations
<1>4. M \subseteq Configurations
  BY DEF Outcome
<1> HIDE DEF M
<1>5. ASSUME NEW p \in M PROVE Relies("binary_loop", n, p[1], p[2])
  <2> DEFINE t == p[2][Len(p[2])]
             b == bin_prec(p[1])
  <2>1. t \in Operands(11, p[1]) /\ Len(p[2]) # 0 /\ p[1] \notin PostfixStarts
    BY <1>1, <1>3
  <2>2. b \in -1 .. 10
    BY PrecType
  <2> HIDE DEF t, b
  <2>3. t \in Operands(n, p[1]) /\ t.level \in Int /\ t.level >= 11
    <3>1. t.level >= 11
      BY <2>1 DEF Operands
    <3> QED
      BY <1>1, <2>1, <3>1, OperandsGrow
  <2>4. b <= t.level
    BY <2>2, <2>3
  <2> QED
    BY <1>1, <2>1, <2>3, <2>4 DEF Relies, Procedures, t, b
<1>6. ASSUME NEW p \in M, NEW d \in Alphabet, NEW u \in Seq(Trees), After("binary_loop", n, p[2], d, u)
      PROVE  <<d, u>> \in Q
  <2> DEFINE w == p[2]
             last == u[Len(u)]
  <2>1. Keeps(l, values, w) /\ Len(w) = l + 1 /\ w \in Seq(Trees)
    BY <1>3
  <2>2. /\ Keeps(Len(w) - 1, w, u) /\ Len(u) = Len(w) /\ last \in Operands(n, d) /\ d \notin PostfixStarts
        /\ bin_prec(d) < n
    BY <1>6, <2>1, AfterIs
  <2> HIDE DEF w, last
  <2>3. Keeps(l, values, u) /\ Len(u) = l + 1
    BY <1>1, <2>1, <2>2, KeepsStill
  <2>4. After("binary", n, values, d, u)
    BY <1>1, <2>2, <2>3, AfterIs DEF last
  <2> QED
    BY <2>4, OutcomeIs
<1> HIDE DEF Q
<1>7. Valid(M, <<loop>>, Q)
  BY <1>4, <1>5, <1>6, CallRule
<1> HIDE DEF loop
<1>8. Valid(Now, <<Call("unary"), loop>>, Q)
  BY <1>2, <1>7, Chains, Zenon
<1> QED
  BY <1>8 DEF Does, Q, loop

LEMMA Expr ==
  ASSUME Held, cur \in Alphabet
  PROVE  Does("expr", 0, <<CallAt("binary", 0), Call("assign")>>)
<1> DEFINE M == Outcome("binary", 0)
           Q == Outcome("expr", 0)
           l == Len(values)
           first == CallAt("binary", 0)
<1>1. l \in Nat /\ values \in Seq(Trees)
  BY DEF Held
<1>2. Valid(Now, <<first>>, M)
  <2>1. Relies("binary", 0, cur, values)
    BY DEF Relies, Procedures
  <2> QED
    BY <2>1, OneCall, Zenon
<1>3. ASSUME NEW p \in M
      PROVE  /\ p[1] \in Alphabet /\ p[2] \in Seq(Trees)
             /\ Keeps(l, values, p[2]) /\ Len(p[2]) = l + 1 /\ p[2][Len(p[2])] \in Operands(0, p[1])
             /\ p[1] \notin PostfixStarts /\ bin_prec(p[1]) < 0
  BY <1>1, AfterIs DEF Outcome, Configurations
<1>4. M \subseteq Configurations
  BY DEF Outcome
<1> HIDE DEF M
<1>5. ASSUME NEW p \in M PROVE Relies("assign", 0, p[1], p[2])
  <2>1. Len(p[2]) # 0 /\ p[2][Len(p[2])] \in Operands(0, p[1]) /\ p[1] \notin PostfixStarts /\ bin_prec(p[1]) < 0
    BY <1>1, <1>3
  <2> QED
    BY <2>1 DEF Relies, Procedures
<1>6. ASSUME NEW p \in M, NEW d \in Alphabet, NEW u \in Seq(Trees), After("assign", 0, p[2], d, u)
      PROVE  <<d, u>> \in Q
  <2> DEFINE w == p[2]
  <2>1. Keeps(l, values, w) /\ Len(w) = l + 1 /\ w \in Seq(Trees)
    BY <1>3
  <2>2. Keeps(Len(w) - 1, w, u) /\ Len(u) = Len(w) /\ Stops(d)
    BY <1>6, <2>1, AfterIs
  <2> HIDE DEF w
  <2>3. Keeps(l, values, u) /\ Len(u) = l + 1
    BY <1>1, <2>1, <2>2, KeepsStill
  <2>4. After("expr", 0, values, d, u)
    BY <1>1, <2>2, <2>3, AfterIs
  <2> QED
    BY <2>4, OutcomeIs
<1> HIDE DEF Q
<1>7. Valid(M, <<Call("assign")>>, Q)
  BY <1>4, <1>5, <1>6, CallRule, Zenon DEF Call
<1> HIDE DEF first
<1>8. Valid(Now, <<first, Call("assign")>>, Q)
  BY <1>2, <1>7, Chains, Zenon
<1> QED
  BY <1>8 DEF Does, Q, first

LEMMA Assign ==
  ASSUME Held, cur \in Alphabet, Relies("assign", 0, cur, values)
  PROVE  Does("assign", 0, assign)
<1> DEFINE h == Height
           K == Holding(h, values)
           R == {p \in K : Stops(p[1])}
           Q == Outcome("assign", 0)
           first == values[h]
           k == h - 1
           build == Build("assign", k)
<1>1. h \in Nat /\ h = Len(values) /\ values \in Seq(Trees) /\ h # 0 /\ k \in Nat /\ k + 1 = h
  <2>1. Len(values) # 0
    BY DEF Relies
  <2> QED
    BY <2>1, HeightIs DEF Held, Height
<1>2. Now \subseteq Configurations /\ (\A p \in Now : p[1] = cur /\ p[2] = values) /\ Now \subseteq K
  BY <1>1, NowIs
<1>3. first \in Operands(0, cur) /\ cur \notin PostfixStarts /\ bin_prec(cur) < 0
  BY <1>1 DEF Relies
<1>4. CASE cur \notin AssignOps
  <2>1. Stops(cur)
    BY <1>3, <1>4 DEF Stops
  <2>2. Keeps(h - 1, values, values)
    BY <1>1 DEF Keeps
  <2>3. After("assign", 0, values, cur, values)
    BY <1>1, <2>1, <2>2, AfterIs
  <2>4. <<cur, values>> \in Q
    BY <1>1, <2>3, OutcomeIs
  <2>5. Now \subseteq Q
    BY <2>4, Zenon DEF Now
  <2> HIDE DEF Q
  <2>6. Valid(Now, << >>, Q)
    BY <2>5, Nothing
  <2> QED
    BY <1>4, <2>6, Zenon DEF Does, Q, assign
<1>5. CASE cur \in AssignOps
  <2>1. Valid(K, <<Take>>, K)
    BY <1>1, Items DEF Plain, Good
  <2>2. Valid(K, <<Call("expr")>>, R)
    <3>1. K \subseteq Configurations
      BY DEF Holding
    <3>2. \A p \in K : Relies("expr", 0, p[1], p[2])
      BY DEF Relies, Procedures
    <3>3. ASSUME NEW p \in K, NEW d \in Alphabet, NEW u \in Seq(Trees), After("expr", 0, p[2], d, u)
          PROVE  <<d, u>> \in R
      <4> DEFINE w == p[2]
      <4>1. w \in Seq(Trees) /\ Keeps(h, values, w) /\ h <= Len(w) /\ Len(w) \in Nat
        BY KeptIs DEF Keeps
      <4>2. Keeps(Len(w), w, u) /\ Stops(d)
        BY <3>3, <4>1, AfterIs
      <4> HIDE DEF w
      <4>3. Keeps(h, values, u)
        BY <1>1, <4>1, <4>2, KeepsStill
      <4>4. <<d, u>> \in K
        BY <4>3, KeptPair
      <4> QED
        BY <4>2, <4>4
    <3> HIDE DEF K, R
    <3> QED
      BY <3>1, <3>2, <3>3, CallRule, Zenon DEF Call
  <2>3. first \in Trees /\ first.level \in Int /\ first.level >= 0 /\ ~first.open
    <3>1. first.level >= 0 /\ (first.open => Stops(cur)) /\ ~Stops(cur)
      BY <1>3, <1>5 DEF Operands, Stops
    <3> HIDE DEF first
    <3> QED
      BY <1>3, <3>1, OperandsGrow
  <2>4. Valid(R, <<build>>, Q)
    <3>1. ASSUME NEW p \in R
          PROVE  LET u == p[2]
                     parts == SubSeq(u, k + 1, Len(u))
                 IN  /\ Keeps(k, values, u) /\ k < Len(u)
                     /\ Level("assign", parts) \in Int /\ OpenEnded("assign", u[Len(u)]) \in BOOLEAN
                     /\ Groups("assign", Level("assign", parts), u[k + 1], u[Len(u)])
                     /\ \A w : /\ Keeps(k, values, w) /\ Len(w) = k + 1 /\ w[k + 1] \in Trees
                               /\ w[k + 1].kind = "assign" /\ w[k + 1].level = Level("assign", parts)
                               /\ w[k + 1].open = OpenEnded("assign", u[Len(u)])
                               => <<p[1], w>> \in Q
      <4> DEFINE u == p[2]
                 parts == SubSeq(u, k + 1, Len(u))
                 last == u[Len(u)]
      <4>1. p[1] \in Alphabet /\ Keeps(h, values, u) /\ Stops(p[1])
        BY KeptIs DEF Configurations
      <4>2. Level("assign", parts) = -1
        BY DEF Level
      <4>3. OpenEnded("assign", last) \in BOOLEAN
        BY DEF OpenEnded
      <4> HIDE DEF u, parts, last
      <4>4. Keeps(k, values, u) /\ k < Len(u) /\ u[k + 1] = first
        BY <1>1, <4>1 DEF Keeps
      <4> HIDE DEF first, k, h
      <4>5. Groups("assign", -1, first, last)
        BY <2>3 DEF Groups, PostfixKinds
      <4>6. ASSUME NEW w, Keeps(k, values, w), Len(w) = k + 1
            PROVE  <<p[1], w>> \in Q
        <5>1. w \in Seq(Trees)
          BY <4>6 DEF Keeps
        <5>2. Len(values) - 1 = k /\ Len(w) = Len(values)
          BY <1>1, <4>6 DEF k
        <5>3. After("assign", 0, values, p[1], w)
          BY <1>1, <4>1, <4>6, <5>2, AfterIs
        <5> QED
          BY <4>1, <5>1, <5>3, OutcomeIs
      <4>7. Level("assign", parts) \in Int /\ Groups("assign", Level("assign", parts), u[k + 1], last)
        BY <4>2, <4>4, <4>5
      <4> HIDE DEF Q
      <4> QED
        BY <4>3, <4>4, <4>6, <4>7, Zenon DEF u, parts, last
    <3>2. "assign" \in NodeKinds
      BY DEF NodeKinds, ExpressionKinds
    <3>3. R \subseteq Configurations
      BY DEF Holding
    <3> HIDE DEF R, Q, k
    <3> QED
      BY <1>1, <3>1, <3>2, <3>3, Building
  <2> HIDE DEF K, R, Q, build
  <2>5. Valid(K, <<Call("expr"), build>>, Q)
    BY <2>2, <2>4, Chains, Zenon
  <2>6. Valid(K, <<Take, Call("expr"), build>>, Q)
    BY <2>1, <2>5, Chains, Zenon
  <2>7. Q \subseteq Q
    OBVIOUS
  <2>8. Valid(Now, <<Take, Call("expr"), build>>, Q)
    BY <1>2, <2>6, <2>7, Weaken, Zenon
  <2> QED
    BY <1>5, <2>8, Zenon DEF Does, Q, assign, build, k, h
<1> QED
  BY <1>4, <1>5

\* The heart of precedence climbing: with an operator of precedence p after
\* an operand that holds together as strongly, the right operand holds
\* together more strongly and what follows does not bind more tightly than p.
LEMMA BinaryLoop ==
  ASSUME Held, cur \in Alphabet, NEW n, Relies("binary_loop", n, cur, values)
  PROVE  Does("binary_loop", n, binary(n))
<1> DEFINE h == Height
           k == h - 1
           b == bin_prec(cur)
           first == values[h]
           op == Leaf(cur)
           begun == Append(values, op)
           Q == Outcome("binary_loop", n)
           P == {p \in Configurations : p[2] = begun}
           M == {p \in Configurations : /\ Keeps(h + 1, begun, p[2]) /\ Len(p[2]) = h + 2
                                        /\ p[2][Len(p[2])] \in Operands(b + 1, p[1])
                                        /\ p[1] \notin PostfixStarts /\ bin_prec(p[1]) < b + 1}
           N == {p \in Configurations : /\ Keeps(k, values, p[2]) /\ Len(p[2]) = h
                                        /\ p[2][h] \in Operands(b, p[1]) /\ p[2][h].level = b
                                        /\ p[1] \notin PostfixStarts /\ bin_prec(p[1]) <= b}
           build == Build("binary", k)
           right == CallAt("binary", b + 1)
           loop == CallAt("binary_loop", n)
<1>1. h \in Nat /\ h = Len(values) /\ values \in Seq(Trees) /\ h # 0 /\ k \in Nat /\ k + 1 = h
  <2>1. Len(values) # 0
    BY DEF Relies
  <2> QED
    BY <2>1, HeightIs DEF Held, Height
<1>2. Now \subseteq Configurations /\ \A p \in Now : p[1] = cur /\ p[2] = values
  BY NowIs
<1>3. n \in 0 .. 11 /\ first \in Operands(n, cur) /\ cur \notin PostfixStarts /\ b <= first.level
  BY <1>1 DEF Relies
<1>4. b \in -1 .. 10
  BY PrecType
<1>5. CASE b < n
  <2>1. Keeps(h - 1, values, values)
    BY <1>1 DEF Keeps
  <2>2. After("binary_loop", n, values, cur, values)
    BY <1>1, <1>3, <1>5, <2>1, AfterIs
  <2>3. <<cur, values>> \in Q
    BY <1>1, <2>2, OutcomeIs
  <2>4. Now \subseteq Q
    BY <2>3, Zenon DEF Now
  <2> HIDE DEF Q
  <2>5. Valid(Now, << >>, Q)
    BY <2>4, Nothing
  <2> QED
    BY <1>5, <2>5, Zenon DEF Does, Q, binary
<1>6. CASE ~(b < n)
  <2>1. b \in 0 .. 10 /\ b + 1 \in 0 .. 11
    BY <1>3, <1>4, <1>6
  <2>2. first.level \in Int /\ first.level >= b /\ ~first.open
    <3>1. ~Stops(cur)
      BY <2>1 DEF Stops
    <3>2. first.open => Stops(cur)
      BY <1>3 DEF Operands
    <3> HIDE DEF first, b
    <3>3. first.level \in Int
      BY <1>3, OperandsGrow
    <3> QED
      BY <1>3, <1>4, <3>1, <3>2, <3>3
  <2>3. op \in Trees /\ op.text = <<cur>>
    BY LeafIsTree
  <2> HIDE DEF op
  <2>4. begun \in Seq(Trees) /\ Len(begun) = h + 1 /\ begun[h + 1] = op /\ \A i \in 1 .. h : begun[i] = values[i]
    BY <1>1, <2>3
  <2>5. Valid(Now, <<Take>>, P)
    <3>1. ASSUME NEW p \in Now, NEW d \in Alphabet PROVE <<d, Append(p[2], Leaf(p[1]))>> \in P
      <4>1. Append(p[2], Leaf(p[1])) = begun
        BY <1>2 DEF op
      <4> HIDE DEF begun
      <4> QED
        BY <2>4, <4>1, Pairs
    <3> HIDE DEF P
    <3> QED
      BY <1>2, <3>1, TakeRule
  <2> HIDE DEF begun, b, first
  <2>6. Valid(P, <<right>>, M)
    <3>1. P \subseteq Configurations
      OBVIOUS
    <3>2. \A p \in P : Relies("binary", b + 1, p[1], p[2])
      BY <2>1 DEF Relies, Procedures
    <3>3. ASSUME NEW p \in P, NEW d \in Alphabet, NEW u \in Seq(Trees), After("binary", b + 1, p[2], d, u)
          PROVE  <<d, u>> \in M
      <4>1. After("binary", b + 1, begun, d, u)
        BY <3>3
      <4>2. /\ Keeps(Len(begun), begun, u) /\ Len(u) = Len(begun) + 1 /\ u[Len(u)] \in Operands(b + 1, d)
            /\ d \notin PostfixStarts /\ bin_prec(d) < b + 1
        BY <2>4, <4>1, AfterIs
      <4>3. Keeps(h + 1, begun, u) /\ Len(u) = h + 2
        BY <1>1, <2>4, <4>2
      <4> QED
        BY <4>2, <4>3, Pairs
    <3> DEFINE m == b + 1
    <3> HIDE DEF P, M, m
    <3> QED
      BY <3>1, <3>2, <3>3, CallRule DEF m
  <2>7. Valid(M, <<build>>, N)
    <3>1. ASSUME NEW p \in M
          PROVE  LET u == p[2]
                     parts == SubSeq(u, k + 1, Len(u))
                 IN  /\ Keeps(k, values, u) /\ k < Len(u)
                     /\ Level("binary", parts) \in Int /\ OpenEnded("binary", u[Len(u)]) \in BOOLEAN
                     /\ Groups("binary", Level("binary", parts), u[k + 1], u[Len(u)])
                     /\ \A w : /\ Keeps(k, values, w) /\ Len(w) = k + 1 /\ w[k + 1] \in Trees
                               /\ w[k + 1].kind = "binary" /\ w[k + 1].level = Level("binary", parts)
                               /\ w[k + 1].open = OpenEnded("binary", u[Len(u)])
                               => <<p[1], w>> \in N
      <4> DEFINE u == p[2]
                 parts == SubSeq(u, k + 1, Len(u))
                 last == u[Len(u)]
      <4>1. /\ p[1] \in Alphabet /\ u \in Seq(Trees) /\ Keeps(h + 1, begun, u) /\ Len(u) = h + 2
            /\ last \in Operands(b + 1, p[1]) /\ p[1] \notin PostfixStarts /\ bin_prec(p[1]) < b + 1
        BY DEF Configurations
      <4> HIDE DEF u
      <4>2. Keeps(k, values, u) /\ k < Len(u) /\ u[k + 1] = first /\ u[h + 1] = op
        BY <1>1, <2>4, <4>1 DEF Keeps, first
      <4>3. parts[2] = op
        <5>1. \A i \in 1 .. Len(u) - k : parts[i] = u[k + i]
          BY <1>1, <4>1, <4>2, PartsOf
        <5>2. 2 \in 1 .. Len(u) - k /\ k + 2 = h + 1
          BY <1>1, <4>1
        <5> HIDE DEF parts, k
        <5> QED
          BY <4>2, <5>1, <5>2
      <4> HIDE DEF parts, last
      <4>4. Level("binary", parts) = b
        <5>1. parts[2].text[1] = cur
          BY <2>3, <4>3
        <5>2. Level("binary", parts) = bin_prec(parts[2].text[1])
          BY DEF Level
        <5> QED
          BY <5>1, <5>2 DEF b
      <4>5. last.level \in Int /\ last.level > b /\ last.open \in BOOLEAN /\ (last.open => Stops(p[1]))
        <5>1. last.level >= b + 1 /\ (last.open => Stops(p[1]))
          BY <4>1 DEF Operands
        <5>2. last.level \in Int /\ last.open \in BOOLEAN
          BY <2>1, <4>1, OperandsGrow
        <5> QED
          BY <2>1, <5>1, <5>2
      <4>6. OpenEnded("binary", last) = last.open
        <5>1. OpenEnded("binary", last) <=> last.open
          BY DEF OpenEnded
        <5>2. OpenEnded("binary", last) \in BOOLEAN
          BY DEF OpenEnded
        <5> QED
          BY <4>5, <5>1, <5>2
      <4>7. Groups("binary", b, first, last)
        BY <2>2, <4>5 DEF Groups
      <4>8. ASSUME NEW w, Keeps(k, values, w), Len(w) = k + 1, w[k + 1] \in Trees, w[k + 1].level = b,
                   w[k + 1].open = last.open
            PROVE  <<p[1], w>> \in N
        <5>1. w \in Seq(Trees) /\ Len(w) = h /\ w[h] \in Trees /\ w[h].level = b /\ w[h].open = last.open
          BY <1>1, <4>8 DEF Keeps
        <5>2. w[h] \in Operands(b, p[1])
          BY <2>1, <4>5, <5>1 DEF Operands
        <5>3. bin_prec(p[1]) <= b
          <6> DEFINE c == bin_prec(p[1])
          <6>1. c \in -1 .. 10
            BY PrecType
          <6> HIDE DEF c
          <6>2. c < b + 1
            BY <4>1 DEF c
          <6> QED
            BY <2>1, <6>1, <6>2 DEF c
        <5> HIDE DEF h, k
        <5> QED
          BY <4>1, <4>8, <5>1, <5>2, <5>3, Pairs
      <4>9. Level("binary", parts) \in Int /\ OpenEnded("binary", last) \in BOOLEAN
            /\ Groups("binary", Level("binary", parts), u[k + 1], last)
        BY <2>1, <4>2, <4>4, <4>5, <4>6, <4>7
      <4> HIDE DEF N, k
      <4>10. \A w : /\ Keeps(k, values, w) /\ Len(w) = k + 1 /\ w[k + 1] \in Trees
                    /\ w[k + 1].kind = "binary" /\ w[k + 1].level = Level("binary", parts)
                    /\ w[k + 1].open = OpenEnded("binary", last)
                    => <<p[1], w>> \in N
        BY <4>4, <4>6, <4>8
      <4> QED
        BY <4>2, <4>9, <4>10, Zenon DEF u, parts, last
    <3>2. "binary" \in NodeKinds
      BY DEF NodeKinds, ExpressionKinds
    <3>3. M \subseteq Configurations
      OBVIOUS
    <3> HIDE DEF M, N, k
    <3> QED
      BY <1>1, <3>1, <3>2, <3>3, Building
  <2>8. Valid(N, <<loop>>, Q)
    <3>1. N \subseteq Configurations
      OBVIOUS
    <3>2. ASSUME NEW p \in N PROVE Relies("binary_loop", n, p[1], p[2])
      <4> DEFINE t == p[2][h]
      <4>1. t \in Operands(b, p[1]) /\ t.level = b /\ p[1] \notin PostfixStarts /\ bin_prec(p[1]) <= t.level /\ Len(p[2]) = h
        OBVIOUS
      <4> HIDE DEF t
      <4>2. t \in Operands(n, p[1])
        BY <1>3, <1>6, <2>1, <4>1, OperandsGrow
      <4>3. p[2][Len(p[2])] = t /\ Len(p[2]) # 0
        BY <1>1, <4>1 DEF t
      <4> QED
        BY <1>3, <4>1, <4>2, <4>3 DEF Relies, Procedures
    <3>3. ASSUME NEW p \in N, NEW d \in Alphabet, NEW u \in Seq(Trees), After("binary_loop", n, p[2], d, u)
          PROVE  <<d, u>> \in Q
      <4> DEFINE w == p[2]
                 last == u[Len(u)]
      <4>1. Keeps(k, values, w) /\ Len(w) = h /\ w \in Seq(Trees)
        BY DEF Configurations
      <4>2. /\ Keeps(Len(w) - 1, w, u) /\ Len(u) = Len(w) /\ last \in Operands(n, d) /\ d \notin PostfixStarts
            /\ bin_prec(d) < n
        BY <3>3, <4>1, AfterIs
      <4> HIDE DEF w, last
      <4>3. k <= k /\ Keeps(k, w, u) /\ Len(u) = h
        BY <1>1, <4>1, <4>2
      <4> HIDE DEF k
      <4>4. Keeps(k, values, u)
        BY <1>1, <4>1, <4>3, KeepsStill
      <4>5. Keeps(Len(values) - 1, values, u) /\ Len(u) = Len(values)
        BY <1>1, <4>3, <4>4 DEF k
      <4>6. After("binary_loop", n, values, d, u)
        BY <1>1, <4>2, <4>5, AfterIs DEF last
      <4> QED
        BY <4>6, OutcomeIs
    <3> HIDE DEF N, Q
    <3> QED
      BY <3>1, <3>2, <3>3, CallRule
  <2> HIDE DEF P, M, N, Q, build, right, loop
  <2>9. Valid(M, <<build, loop>>, Q)
    BY <2>7, <2>8, Chains, Zenon
  <2>10. Valid(P, <<right, build, loop>>, Q)
    BY <2>6, <2>9, Chains, Zenon
  <2>11. Valid(Now, <<Take, right, build, loop>>, Q)
    BY <2>5, <2>10, Chains, Zenon
  <2> QED
    BY <1>6, <2>11, Zenon DEF Does, Q, binary, build, right, loop, k, h, b
<1> QED
  BY <1>5, <1>6

-----------------------------------------------------------------------------
(***************************************************************************)
(* Every function keeps its word, and so does the parser.                  *)
(***************************************************************************)
LEMMA CodeIs ==
  ASSUME NEW n
  PROVE  /\ Code("type", n) = parse_type /\ Code("types", n) = types /\ Code("type_args", n) = type_args(n)
         /\ Code("primary", n) = parse_primary /\ Code("args", n) = List("args", ")") /\ Code("elems", n) = List("elems", "]")
         /\ Code("arguments", n) = arguments /\ Code("condition", n) = condition
         /\ Code("lambda_params", n) = lambda_params /\ Code("fields", n) = fields
         /\ Code("postfix", n) = postfix /\ Code("unary", n) = parse_unary
         /\ Code("binary", n) = <<Call("unary"), CallAt("binary_loop", n)>> /\ Code("binary_loop", n) = binary(n)
         /\ Code("assign", n) = assign /\ Code("expr", n) = <<CallAt("binary", 0), Call("assign")>>
         /\ Code("stmt", n) = parse_stmt /\ Code("stmts", n) = stmts /\ Code("block", n) = parse_block
         /\ Code("var_decl", n) = parse_var_decl /\ Code("comptime", n) = comptime /\ Code("if", n) = parse_if
         /\ Code("for", n) = for(n) /\ Code("arms", n) = arms /\ Code("arm", n) = parse_match_arm
         /\ Code("pattern", n) = pattern /\ Code("region", n) = parse_region /\ Code("fn_decl", n) = parse_fn_decl
         /\ Code("params", n) = params /\ Code("enum_decl", n) = parse_enum_decl /\ Code("variants", n) = variants
         /\ Code("class", n) = class /\ Code("sections", n) = sections /\ Code("section", n) = section
         /\ Code("members", n) = members /\ Code("member", n) = member /\ Code("top_level", n) = parse_top_level
         /\ Code("program", n) = program
BY DEF Code

LEMMA AfterAny ==
  ASSUME NEW f, NEW n, f \notin {"for", "binary", "binary_loop"}
  PROVE  Outcome(f, n) = Outcome(f, 0)
<1>1. Base(f, n, values) = Base(f, 0, values)
  BY DEF Base
<1>2. \A c, u : After(f, n, values, c, u) <=> After(f, 0, values, c, u)
  BY <1>1 DEF After
<1> QED
  BY <1>2, Zenon DEF Outcome

LEMMA EveryFunctionDoes ==
  ASSUME Held, cur \in Alphabet, NEW f, NEW n, Relies(f, n, cur, values)
  PROVE  Does(f, n, Code(f, n))
<1>1. f \in Procedures
  BY DEF Relies
<1>2. ASSUME f \notin {"for", "binary", "binary_loop"}, NEW code, Does(f, 0, code)
      PROVE  Does(f, n, code)
  BY <1>2, AfterAny, Zenon DEF Does
<1>3. CASE f \in Adding \ {"for"}
  <2>1. Base(f, n, values) = Height
    BY <1>3 DEF Base, Adding, Computing, Height
  <2>2. \A m : Plain(type_args(m), Height)
    BY TypeArgsPlain
  <2>3. Plain(Code(f, n), Height)
    <3>1. f \in {"type", "types", "type_args", "args", "elems", "arguments", "condition", "lambda_params", "fields",
                 "stmt", "stmts", "if", "arms", "arm", "pattern", "params", "variants", "sections", "section", "members",
                 "member"}
      BY <1>3 DEF Adding, Procedures, Declaring, Computing
    <3>2. CASE f \in {"type", "types", "type_args", "args", "elems", "arguments", "condition", "lambda_params", "fields"}
      BY <2>2, <3>2, CodeIs, TypePlain, ListsPlain
    <3>3. CASE f \in {"stmt", "stmts", "if", "arms", "arm", "pattern", "params", "variants", "sections", "section", "members",
                      "member"}
      BY <3>3, CodeIs, StatementsPlain, ListsPlain, PatternPlain, MembersPlain
    <3> QED
      BY <3>1, <3>2, <3>3
  <2> QED
    BY <1>3, <2>1, <2>3, PlainDoes
<1>4. CASE f = "for"
  <2>1. n \in 0 .. Len(values)
    BY <1>4 DEF Relies
  <2>2. n \in Nat
    BY <2>1
  <2>3. Base("for", n, values) = n
    BY DEF Base
  <2>4. Plain(Code("for", n), n)
    BY <2>2, ForPlain, CodeIs
  <2>5. "for" \in Adding
    BY DEF Adding, Procedures, Declaring, Computing
  <2> QED
    BY <1>4, <2>3, <2>4, <2>5, PlainDoes
<1>5. CASE f \in {"fn_decl", "enum_decl", "class", "var_decl", "region", "comptime", "block", "top_level", "program"}
  <2>1. f \notin {"for", "binary", "binary_loop"}
    BY <1>5
  <2>2. Does(f, 0, Code(f, n))
    BY <1>5, CodeIs, Declarations, TopLevel, Programs
  <2> QED
    BY <1>2, <2>1, <2>2
<1>6. CASE f \in {"primary", "unary", "expr"}
  <2>1. f \notin {"for", "binary", "binary_loop"}
    BY <1>6
  <2>2. Does(f, 0, Code(f, n))
    BY <1>6, CodeIs, Primary, Unary, Expr
  <2> QED
    BY <1>2, <2>1, <2>2
<1>7. CASE f \in {"postfix", "assign"}
  <2>1. f \notin {"for", "binary", "binary_loop"}
    BY <1>7
  <2>2. Relies(f, 0, cur, values)
    BY <1>7 DEF Relies
  <2>3. Does(f, 0, Code(f, n))
    BY <1>7, <2>2, CodeIs, Postfix, Assign
  <2> QED
    BY <1>2, <2>1, <2>3
<1>8. CASE f = "binary"
  BY <1>8, CodeIs, Binary
<1>9. CASE f = "binary_loop"
  BY <1>9, CodeIs, BinaryLoop
<1> QED
  BY <1>1, <1>3, <1>4, <1>5, <1>6, <1>7, <1>8, <1>9 DEF Adding, Declaring, Computing

LEMMA Ending ==
  ASSUME NEW c \in Alphabet, NEW v \in Seq(Trees), \A i \in DOMAIN v : v[i].kind \in DeclarationKinds
  PROVE  Safe(c, v, << >>)
<1> DEFINE x == <<c, v, << >>>>
           T == {x}
<1>1. x[1] = c /\ x[2] = v /\ x[3] = << >>
  OBVIOUS
<1>2. IsSeq(<< >>)
  BY DEF IsSeq
<1>3. Sound(c, v, << >>, T)
  BY <1>2, Zenon DEF Sound
<1>4. x = <<c, v, << >>>>
  OBVIOUS
<1> HIDE DEF x
<1>5. Sealed(T)
  BY <1>1, <1>3 DEF Sealed
<1>6. <<c, v, << >>>> \in T
  BY <1>4
<1> QED
  BY <1>5, <1>6, Zenon DEF Safe

LEMMA Starting ==
  ASSUME Held, values = << >>, cur \in Alphabet
  PROVE  Safe(cur, values, <<Call("program")>>)
<1> DEFINE Q == Outcome("program", 0)
           start == <<Call("program")>>
<1>1. Valid(Now, start, Q)
  <2>1. Relies("program", 0, cur, values)
    BY DEF Relies, Procedures
  <2> QED
    BY <2>1, OneCall, Zenon DEF Call
<1>2. ASSUME NEW q \in Q PROVE Safe(q[1], q[2], << >>)
  <2>1. q[1] \in Alphabet /\ q[2] \in Seq(Trees)
    BY DEF Outcome, Configurations
  <2>2. \A i \in Len(values) + 1 .. Len(q[2]) : q[2][i].kind \in DeclarationKinds
    BY DEF Outcome, After
  <2>3. \A i \in DOMAIN q[2] : q[2][i].kind \in DeclarationKinds
    BY <2>1, <2>2
  <2> QED
    BY <2>1, <2>3, Ending
<1>3. IsSeq(<< >>)
  BY DEF IsSeq
<1>4. <<cur, values>> \in Now /\ <<cur, values>>[1] = cur /\ <<cur, values>>[2] = values
  BY DEF Now
<1> HIDE DEF Q, start
<1>5. Safe(cur, values, start \o << >>)
  BY <1>1, <1>2, <1>3, <1>4 DEF Valid
<1>6. start \o << >> = start
  BY <1>1, <1>3, Joining DEF Valid
<1> QED
  BY <1>5, <1>6 DEF start

LEMMA Going ==
  ASSUME NEW c, NEW v, NEW S, Safe(c, v, S), S # << >>
  PROVE  LET x == Head(S)
             R == Tail(S)
         IN  /\ IsSeq(R)
             /\ x.do = "take" \/ (x.do \in {"expect", "maybe"} /\ c = x.t) =>
                   \A d \in Alphabet : Safe(d, Append(v, Leaf(c)), R)
             /\ x.do = "nest" \/ (x.do = "maybe" /\ c # x.t) => Safe(c, v, R)
             /\ x.do = "if" => Safe(c, v, (IF c \in x.ts THEN x.then ELSE x.els) \o R)
             /\ x.do = "build" => LET t == Node(x.kind, SubSeq(v, x.n + 1, Len(v)))
                                  IN  /\ x.n \in 0 .. Len(v) /\ t \in Trees
                                      /\ Safe(c, Append(SubSeq(v, 1, x.n), t), R)
             /\ x.do = "call" => /\ Relies(x.f, x.n, c, v)
                                 /\ \A d \in Alphabet, u \in Seq(Trees) : After(x.f, x.n, v, d, u) => Safe(d, u, R)
<1> DEFINE x == Head(S)
           R == Tail(S)
           t == Node(x.kind, SubSeq(v, x.n + 1, Len(v)))
           branch == IF c \in x.ts THEN x.then ELSE x.els
           made == Append(SubSeq(v, 1, x.n), t)
<1>1. PICK T : Sealed(T) /\ <<c, v, S>> \in T
  BY Zenon DEF Safe
<1>2. ASSUME NEW d, NEW u, NEW K, <<d, u, K>> \in T PROVE Safe(d, u, K)
  BY <1>1, <1>2, Zenon DEF Safe
<1>3. Sound(c, v, S, T)
  <2> DEFINE y == <<c, v, S>>
  <2>1. y[1] = c /\ y[2] = v /\ y[3] = S /\ y \in T
    BY <1>1
  <2> HIDE DEF y
  <2> QED
    BY <1>1, <2>1 DEF Sealed
<1>4. IsSeq(R)
  BY <1>3, Splitting DEF Sound
<1>5. Leads(c, v, x, R, T)
  BY <1>3 DEF Sound
<1> HIDE DEF x, R, t, branch, made
<1>6. Taken(c, v, R, T) => \A d \in Alphabet : Safe(d, Append(v, Leaf(c)), R)
  BY <1>2, Zenon DEF Taken
<1>7. x.do = "take" \/ (x.do \in {"expect", "maybe"} /\ c = x.t) => Taken(c, v, R, T)
  BY <1>5 DEF Leads
<1>8. x.do = "nest" \/ (x.do = "maybe" /\ c # x.t) => <<c, v, R>> \in T
  BY <1>5 DEF Leads
<1>9. x.do = "if" => <<c, v, branch \o R>> \in T
  BY <1>5, Zenon DEF Leads, branch
<1>10. x.do = "build" => x.n \in 0 .. Len(v) /\ t \in Trees /\ <<c, made, R>> \in T
  BY <1>5, Zenon DEF Leads, made, t
<1>11. x.do = "call" => /\ Relies(x.f, x.n, c, v)
                        /\ \A d \in Alphabet, u \in Seq(Trees) : After(x.f, x.n, v, d, u) => <<d, u, R>> \in T
  BY <1>5, Zenon DEF Leads
<1>12. x.do = "take" \/ (x.do \in {"expect", "maybe"} /\ c = x.t) =>
         \A d \in Alphabet : Safe(d, Append(v, Leaf(c)), R)
  BY <1>6, <1>7, Zenon
<1>13. x.do = "nest" \/ (x.do = "maybe" /\ c # x.t) => Safe(c, v, R)
  BY <1>2, <1>8, Zenon
<1>14. x.do = "if" => Safe(c, v, branch \o R)
  BY <1>2, <1>9, Zenon
<1>15. x.do = "build" => x.n \in 0 .. Len(v) /\ t \in Trees /\ Safe(c, made, R)
  BY <1>2, <1>10, Zenon
<1>16. x.do = "call" => /\ Relies(x.f, x.n, c, v)
                        /\ \A d \in Alphabet, u \in Seq(Trees) : After(x.f, x.n, v, d, u) => Safe(d, u, R)
  BY <1>2, <1>11, Zenon
<1> QED
  BY <1>4, <1>12, <1>13, <1>14, <1>15, <1>16, Zenon DEF x, R, t, branch, made

LEMMA Stopping ==
  ASSUME NEW c, NEW v, Safe(c, v, << >>)
  PROVE  v \in Seq(Trees) /\ \A i \in DOMAIN v : v[i].kind \in DeclarationKinds
<1>1. PICK T : Sealed(T) /\ <<c, v, << >>>> \in T
  BY Zenon DEF Safe
<1> DEFINE y == <<c, v, << >>>>
<1>2. y[1] = c /\ y[2] = v /\ y[3] = << >> /\ y \in T
  BY <1>1
<1> HIDE DEF y
<1>3. Sound(c, v, << >>, T)
  BY <1>1, <1>2 DEF Sealed
<1> QED
  BY <1>3 DEF Sound

-----------------------------------------------------------------------------
(***************************************************************************)
(* The invariant of the parser.                                            *)
(***************************************************************************)
Inputs == [before : Seq(Alphabet), tokens : SUBSET Alphabet, room : Nat, after : Seq(Alphabet)]

ParserType == /\ cur \in Alphabet /\ peek \in Alphabet /\ input \in Inputs
              /\ text \in Seq(Alphabet) /\ had_error \in BOOLEAN

\* The trees in hand spell what has been read.
Spells == (\A i \in DOMAIN values : ~values[i].repeats) => Spelled(values) = text

ParserInv == ParserType /\ (~had_error => Held /\ Spells /\ Safe(cur, values, stack))

LEMMA TokensType ==
  ASSUME NEW in \in Inputs, NEW lexed \in Tokens(in)
  PROVE  lexed.token \in Alphabet /\ lexed.left \in Inputs
<1>1. in.before \in Seq(Alphabet) /\ in.tokens \in SUBSET Alphabet /\ in.room \in Nat /\ in.after \in Seq(Alphabet)
      /\ in = [before |-> in.before, tokens |-> in.tokens, room |-> in.room, after |-> in.after]
  BY DEF Inputs
<1>2. EOF \in Alphabet
  BY Zenon DEF Alphabet
<1>3. CASE in.before # << >>
  <2>1. lexed = [token |-> Head(in.before), left |-> [in EXCEPT !.before = Tail(@)]]
    BY <1>3 DEF Tokens
  <2>2. Head(in.before) \in Alphabet /\ Tail(in.before) \in Seq(Alphabet)
    BY <1>1, <1>3
  <2> DEFINE rest == Tail(in.before)
             left == [in EXCEPT !.before = rest]
  <2>3. lexed.token = Head(in.before) /\ lexed.left = left
    BY <2>1
  <2> HIDE DEF rest
  <2>4. left \in Inputs
    BY <1>1, <2>2 DEF Inputs, rest
  <2> QED
    BY <2>2, <2>3, <2>4
<1>4. CASE in.before = << >>
  <2> DEFINE end == Append(in.after, EOF)
             rest == Tail(end)
             none == << >>
             last == [token |-> end[1], left |-> [in EXCEPT !.before = rest, !.after = none, !.room = 0]]
  <2>1. end \in Seq(Alphabet) /\ end # << >>
    BY <1>1, <1>2
  <2>2. lexed = last \/ (in.room # 0 /\ \E t \in in.tokens : lexed = [token |-> t, left |-> [in EXCEPT !.room = @ - 1]])
    <3>1. Tokens(in) = {last} \union (IF in.room = 0 THEN {}
                                     ELSE {[token |-> t, left |-> [in EXCEPT !.room = @ - 1]] : t \in in.tokens})
      BY <1>4, Zenon DEF Tokens
    <3> HIDE DEF last
    <3> QED
      BY <3>1
  <2> HIDE DEF end
  <2>3. end[1] \in Alphabet /\ rest \in Seq(Alphabet) /\ none \in Seq(Alphabet)
    BY <2>1
  <2> HIDE DEF rest, none
  <2>4. CASE lexed = last
    <3> DEFINE left == [in EXCEPT !.before = rest, !.after = none, !.room = 0]
    <3>1. lexed.token = end[1] /\ lexed.left = left
      BY <2>4
    <3>2. left \in Inputs
      BY <1>1, <2>3 DEF Inputs
    <3> QED
      BY <2>3, <3>1, <3>2
  <2>5. CASE in.room # 0 /\ \E t \in in.tokens : lexed = [token |-> t, left |-> [in EXCEPT !.room = @ - 1]]
    <3>1. PICK t \in in.tokens : lexed = [token |-> t, left |-> [in EXCEPT !.room = @ - 1]]
      BY <2>5
    <3> DEFINE left == [in EXCEPT !.room = in.room - 1]
    <3>2. lexed.token = t /\ lexed.left = left
      BY <3>1
    <3>3. left \in Inputs
      BY <1>1, <2>5 DEF Inputs
    <3> QED
      BY <1>1, <3>2, <3>3
  <2> QED
    BY <2>2, <2>4, <2>5
<1> QED
  BY <1>3, <1>4

LEMMA Plainly ==
  ASSUME NEW parts \in Seq(Trees), \A i \in DOMAIN parts : ~Replaced(parts, i)
  PROVE  LastSections(parts) = parts
<1>1. LastSections(parts) = [i \in DOMAIN parts |-> parts[i]]
  BY DEF LastSections
<1> QED
  BY <1>1

LEMMA AppendsToSpelling ==
  ASSUME Held, text \in Seq(Alphabet), Spells, cur \in Alphabet
  PROVE  (\A i \in DOMAIN Append(values, Leaf(cur)) : ~Append(values, Leaf(cur))[i].repeats)
            => Spelled(Append(values, Leaf(cur))) = Append(text, cur)
<1> DEFINE l == Leaf(cur)
           u == Append(values, l)
<1>1. l \in Trees /\ l.text = <<cur>>
  BY LeafIsTree
<1> HIDE DEF l
<1>2. values \in Seq(Trees)
  BY DEF Held
<1>3. Spelled(u) = Spelled(values) \o l.text
  BY <1>1, <1>2, SpelledAppend
<1>4. DOMAIN values \subseteq DOMAIN u /\ \A i \in DOMAIN values : u[i] = values[i]
  BY <1>1, <1>2
<1>5. text \o <<cur>> = Append(text, cur)
  OBVIOUS
<1> HIDE DEF u
<1>6. (\A i \in DOMAIN u : ~u[i].repeats) => Spelled(values) = text
  BY <1>4 DEF Spells
<1>7. (\A i \in DOMAIN u : ~u[i].repeats) => Spelled(u) = Append(text, cur)
  BY <1>1, <1>3, <1>5, <1>6
<1> QED
  BY <1>7 DEF u, l

LEMMA SplitAt ==
  ASSUME NEW T, NEW v \in Seq(T), NEW n \in 0 .. Len(v)
  PROVE  /\ SubSeq(v, 1, n) \in Seq(T) /\ SubSeq(v, n + 1, Len(v)) \in Seq(T)
         /\ SubSeq(v, 1, n) \o SubSeq(v, n + 1, Len(v)) = v
<1> DEFINE a == SubSeq(v, 1, n)
           b == SubSeq(v, n + 1, Len(v))
           c == a \o b
<1>1. a \in Seq(T) /\ b \in Seq(T) /\ Len(a) = n /\ Len(b) = Len(v) - n
      /\ (\A i \in 1 .. n : a[i] = v[i]) /\ (\A i \in 1 .. Len(v) - n : b[i] = v[n + i])
  OBVIOUS
<1> HIDE DEF a, b
<1>2. c \in Seq(T) /\ Len(c) = Len(v) /\ \A i \in 1 .. Len(v) : c[i] = IF i <= n THEN a[i] ELSE b[i - n]
  BY <1>1
<1>3. ASSUME NEW i \in 1 .. Len(v) PROVE c[i] = v[i]
  <2>1. CASE i <= n
    BY <1>1, <1>2, <2>1
  <2>2. CASE ~(i <= n)
    <3>1. i - n \in 1 .. Len(v) - n /\ n + (i - n) = i
      BY <2>2
    <3> QED
      BY <1>1, <1>2, <2>2, <3>1
  <2> QED
    BY <2>1, <2>2
<1> HIDE DEF c
<1>4. c = v
  BY <1>2, <1>3
<1> QED
  BY <1>1, <1>4 DEF a, b, c

LEMMA BuildsToSpelling ==
  ASSUME Held, text \in Seq(Alphabet), Spells, NEW n \in 0 .. Height, NEW kind,
         Node(kind, SubSeq(values, n + 1, Height)) \in Trees
  PROVE  LET u == Append(SubSeq(values, 1, n), Node(kind, SubSeq(values, n + 1, Height)))
         IN  u \in Seq(Trees) /\ ((\A i \in DOMAIN u : ~u[i].repeats) => Spelled(u) = text)
<1> DEFINE parts == SubSeq(values, n + 1, Height)
           before == SubSeq(values, 1, n)
           t == Node(kind, parts)
           u == Append(before, t)
           kept == IF kind = "class" THEN LastSections(parts) ELSE parts
           repeats == \E i \in DOMAIN parts : parts[i].repeats \/ (kind = "class" /\ Replaced(parts, i))
<1>1. values \in Seq(Trees) /\ Height = Len(values) /\ Height \in Nat
  BY DEF Held, Height
<1>2. parts \in Seq(Trees) /\ before \in Seq(Trees) /\ before \o parts = values
  BY <1>1, SplitAt
<1>3. t.text = Spelled(kept) /\ (t.repeats <=> repeats)
  <2> DEFINE text_ == Spelled(kept)
             level == Level(kind, parts)
             unended == OpenEnded(kind, parts[Len(parts)])
             grouped == Groups(kind, level, parts[1], parts[Len(parts)]) /\ \A i \in DOMAIN parts : parts[i].grouped
  <2>1. t = [kind |-> kind, text |-> text_, level |-> level, open |-> unended, grouped |-> grouped, repeats |-> repeats]
    BY Zenon DEF Node
  <2> HIDE DEF text_, level, unended, grouped, repeats, t
  <2> QED
    BY <2>1 DEF text_
<1>4. /\ DOMAIN values = 1 .. Height
      /\ \A i \in 1 .. Height : values[i] = IF i <= n THEN before[i] ELSE parts[i - n]
      /\ DOMAIN before = 1 .. n /\ DOMAIN parts = 1 .. Height - n
  BY <1>1
<1>5. t \in Trees
  OBVIOUS
<1> HIDE DEF parts, before, t
<1>6. u \in Seq(Trees) /\ u[Len(u)] = t /\ Len(u) \in DOMAIN u /\ \A i \in DOMAIN before : i \in DOMAIN u /\ u[i] = before[i]
  BY <1>2, <1>5
<1>7. Spelled(u) = Spelled(before) \o t.text
  BY <1>2, <1>5, SpelledAppend
<1>8. Spelled(values) = Spelled(before) \o Spelled(parts)
  BY <1>2, SpelledConcat
<1> HIDE DEF u
<1>9. ASSUME \A i \in DOMAIN u : ~u[i].repeats PROVE Spelled(u) = text
  <2>1. ~repeats
    BY <1>3, <1>6, <1>9
  <2>2. kept = parts
    <3>1. kind = "class" => \A i \in DOMAIN parts : ~Replaced(parts, i)
      BY <2>1
    <3> QED
      BY <1>2, <3>1, Plainly
  <2>3. \A i \in DOMAIN parts : ~parts[i].repeats
    BY <2>1
  <2>4. \A i \in DOMAIN before : ~before[i].repeats
    BY <1>6, <1>9
  <2>5. ASSUME NEW i \in DOMAIN values PROVE ~values[i].repeats
    <3>1. CASE i <= n
      BY <1>1, <1>4, <2>4, <3>1
    <3>2. CASE ~(i <= n)
      <4>1. i - n \in DOMAIN parts /\ values[i] = parts[i - n]
        BY <1>1, <1>4, <3>2
      <4> QED
        BY <2>3, <4>1
    <3> QED
      BY <3>1, <3>2
  <2>6. Spelled(values) = text
    BY <2>5 DEF Spells
  <2> HIDE DEF kept, repeats
  <2> QED
    BY <1>3, <1>7, <1>8, <2>2, <2>6
<1> QED
  BY <1>6, <1>9 DEF u, t, before, parts

LEMMA ParserStarts ==
  PInit => ParserInv
<1> SUFFICES ASSUME PInit PROVE ParserInv
  OBVIOUS
<1>1. PICK s \in Sources : \E first \in Tokens(s) : \E second \in Tokens(first.left) :
         /\ cur = first.token /\ peek = second.token /\ input = second.left
         /\ stack = <<Call("program")>>
         /\ values = << >> /\ text = << >>
         /\ had_error = FALSE /\ no_struct_lit = 0
  BY Zenon DEF PInit
<1>2. PICK first \in Tokens(s) : \E second \in Tokens(first.left) :
         /\ cur = first.token /\ peek = second.token /\ input = second.left
         /\ stack = <<Call("program")>>
         /\ values = << >> /\ text = << >>
         /\ had_error = FALSE /\ no_struct_lit = 0
  BY <1>1, Zenon
<1>10. PICK second \in Tokens(first.left) :
         /\ cur = first.token /\ peek = second.token /\ input = second.left
         /\ stack = <<Call("program")>>
         /\ values = << >> /\ text = << >>
         /\ had_error = FALSE /\ no_struct_lit = 0
  BY <1>2, Zenon
<1>3. s \in Inputs
  BY SourcesAssumption, Zenon DEF Inputs
<1>4. first.token \in Alphabet /\ first.left \in Inputs
  BY <1>3, TokensType
<1>5. second.token \in Alphabet /\ second.left \in Inputs
  BY <1>4, TokensType
<1>6. << >> \in Seq(Alphabet) /\ << >> \in Seq(Trees)
  OBVIOUS
<1>7. Held /\ ParserType
  BY <1>10, <1>4, <1>5, <1>6 DEF Held, ParserType
<1>8. Safe(cur, values, stack)
  <2>1. cur \in Alphabet /\ values = << >>
    BY <1>10, <1>4
  <2>2. Safe(cur, values, <<Call("program")>>)
    BY <1>7, <2>1, Starting
  <2> QED
    BY <1>10, <2>2
<1>9. Spells
  BY <1>10, SpelledEmpty DEF Spells
<1> QED
  BY <1>7, <1>8, <1>9 DEF ParserInv

\* Consuming a token, and giving up.
LEMMA AdvKeeps ==
  ASSUME ParserInv, Adv, stack # << >>,
         Head(stack).do = "take" \/ (Head(stack).do \in {"expect", "maybe"} /\ cur = Head(stack).t)
  PROVE  ParserInv'
<1>1. PICK lexed \in Tokens(input) : peek' = lexed.token /\ input' = lexed.left
  BY Zenon DEF Adv
<1>2. peek' \in Alphabet /\ input' \in Inputs
  BY <1>1, TokensType DEF ParserInv, ParserType
<1>3. cur' = peek /\ cur \in Alphabet /\ peek \in Alphabet /\ text \in Seq(Alphabet) /\ had_error' = had_error
      /\ had_error \in BOOLEAN /\ stack' = Tail(stack)
  BY DEF Adv, ParserInv, ParserType, Rest
<1>4. CASE had_error
  <2>1. text' = << >>
    BY <1>4 DEF Adv
  <2>2. text' \in Seq(Alphabet)
    BY <2>1
  <2> QED
    BY <1>2, <1>3, <1>4, <2>2 DEF ParserInv, ParserType
<1>5. CASE ~had_error
  <2>1. values' = Append(values, Leaf(cur)) /\ text' = Append(text, cur)
    BY <1>5 DEF Adv
  <2>2. Held /\ Spells /\ Safe(cur, values, stack)
    BY <1>5 DEF ParserInv
  <2>3. \A d \in Alphabet : Safe(d, Append(values, Leaf(cur)), Tail(stack))
    BY <2>2, Going
  <2>4. Safe(cur', values', stack')
    BY <1>3, <2>1, <2>3
  <2>5. values' \in Seq(Trees) /\ text' \in Seq(Alphabet)
    <3>1. Leaf(cur) \in Trees
      BY <1>3, LeafIsTree
    <3> DEFINE l == Leaf(cur)
    <3> HIDE DEF l
    <3>2. Append(values, l) \in Seq(Trees)
      BY <2>2, <3>1 DEF Held, l
    <3> QED
      BY <1>3, <2>1, <3>2 DEF l
  <2>6. Spells'
    <3>1. (\A i \in DOMAIN Append(values, Leaf(cur)) : ~Append(values, Leaf(cur))[i].repeats)
            => Spelled(Append(values, Leaf(cur))) = Append(text, cur)
      BY <1>3, <2>2, AppendsToSpelling
    <3> QED
      BY <2>1, <3>1, Zenon DEF Spells
  <2> QED
    BY <1>2, <1>3, <2>4, <2>5, <2>6 DEF ParserInv, ParserType, Held
<1> QED
  BY <1>4, <1>5

LEMMA ErrKeeps ==
  ASSUME ParserInv, Err
  PROVE  ParserInv'
<1>1. had_error' = TRUE /\ text' = << >> /\ cur' = cur /\ peek' = peek /\ input' = input
  BY DEF Err
<1>2. << >> \in Seq(Alphabet)
  OBVIOUS
<1> QED
  BY <1>1, <1>2 DEF ParserInv, ParserType

\* Any step but those of a token.
LEMMA StepKeeps ==
  ASSUME ParserInv, NEW code, Step(code), ~had_error => Safe(cur, values, code \o Tail(stack))
  PROVE  ParserInv'
<1>1. /\ stack' = code \o Tail(stack) /\ cur' = cur /\ peek' = peek /\ input' = input /\ values' = values
      /\ text' = text /\ had_error' = had_error
  BY DEF Step, Rest
<1>2. (\A i \in DOMAIN values' : ~values'[i].repeats) <=> (\A i \in DOMAIN values : ~values[i].repeats)
  BY <1>1
<1>3. Spelled(values)' = Spelled(values)
  BY <1>1, Zenon
<1> QED
  BY <1>1, <1>2, <1>3 DEF ParserInv, ParserType, Held, Spells

LEMMA CallKeeps ==
  ASSUME ParserInv, DoCall
  PROVE  ParserInv'
<1> DEFINE f == Head(stack).f
           n == Head(stack).n
           R == Tail(stack)
<1>1. stack # << >> /\ Head(stack).do = "call" /\ Step(Code(f, n))
  BY DEF DoCall, Due
<1>2. ASSUME ~had_error PROVE Safe(cur, values, Code(f, n) \o R)
  <2>1. Held /\ Safe(cur, values, stack) /\ cur \in Alphabet
    BY <1>2 DEF ParserInv, ParserType
  <2>2. /\ IsSeq(R) /\ Relies(f, n, cur, values)
        /\ \A d \in Alphabet, u \in Seq(Trees) : After(f, n, values, d, u) => Safe(d, u, R)
    BY <1>1, <2>1, Going
  <2> HIDE DEF f, n, R
  <2>3. Valid(Now, Code(f, n), Outcome(f, n))
    BY <2>1, <2>2, EveryFunctionDoes DEF Does
  <2>4. \A q \in Outcome(f, n) : Safe(q[1], q[2], R)
    BY <2>2 DEF Outcome, Configurations
  <2>5. <<cur, values>> \in Now /\ <<cur, values>>[1] = cur /\ <<cur, values>>[2] = values
    BY DEF Now
  <2>6. \A p \in Now : Safe(p[1], p[2], Code(f, n) \o R)
    BY <2>2, <2>3, <2>4, Zenon DEF Valid
  <2> DEFINE p == <<cur, values>>
  <2>7. p \in Now /\ p[1] = cur /\ p[2] = values
    BY <2>5
  <2> HIDE DEF p
  <2> QED
    BY <2>6, <2>7
<1> QED
  BY <1>1, <1>2, StepKeeps

LEMMA BuildKeeps ==
  ASSUME ParserInv, DoBuild
  PROVE  ParserInv'
<1> DEFINE n == Head(stack).n
           kind == Head(stack).kind
           t == Node(kind, SubSeq(values, n + 1, Height))
           u == Append(SubSeq(values, 1, n), t)
<1>1. /\ stack # << >> /\ Head(stack).do = "build" /\ values' = IF had_error THEN << >> ELSE u
      /\ stack' = Tail(stack) /\ cur' = cur /\ peek' = peek /\ input' = input /\ text' = text /\ had_error' = had_error
  BY Zenon DEF DoBuild, Due, Rest
<1>2. ParserType'
  BY <1>1 DEF ParserInv, ParserType
<1>3. CASE had_error
  BY <1>1, <1>2, <1>3 DEF ParserInv
<1>4. CASE ~had_error
  <2>1. Held /\ Spells /\ Safe(cur, values, stack) /\ text \in Seq(Alphabet)
    BY <1>4 DEF ParserInv, ParserType
  <2>2. values' = u
    BY <1>1, <1>4
  <2>3. n \in 0 .. Height /\ t \in Trees /\ Safe(cur, u, Tail(stack))
    <3> HIDE DEF n, kind
    <3>1. Head(stack).do = "build"
      BY <1>1
    <3>2. n \in 0 .. Len(values) /\ Node(kind, SubSeq(values, n + 1, Len(values))) \in Trees
          /\ Safe(cur, Append(SubSeq(values, 1, n), Node(kind, SubSeq(values, n + 1, Len(values)))), Tail(stack))
      BY <1>1, <2>1, Going, Zenon DEF n, kind
    <3> QED
      BY <3>2, Zenon DEF Height
  <2>4. u \in Seq(Trees) /\ ((\A i \in DOMAIN u : ~u[i].repeats) => Spelled(u) = text)
    <3> HIDE DEF n, kind
    <3> QED
      BY <2>1, <2>3, BuildsToSpelling, Zenon
  <2> HIDE DEF u
  <2>5. Spells'
    BY <1>1, <2>2, <2>4, Zenon DEF Spells
  <2>6. Held' /\ Safe(cur', values', stack')
    BY <1>1, <2>2, <2>3, <2>4 DEF Held
  <2> QED
    BY <1>2, <2>5, <2>6 DEF ParserInv
<1> QED
  BY <1>3, <1>4

LEMMA ParserKeeps ==
  ParserInv /\ [PNext]_pvars => ParserInv'
<1> SUFFICES ASSUME ParserInv, [PNext]_pvars PROVE ParserInv'
  OBVIOUS
<1> DEFINE x == Head(stack)
           R == Tail(stack)
<1>1. ASSUME ~had_error, stack # << >>
      PROVE  /\ IsSeq(R)
             /\ x.do = "nest" \/ (x.do = "maybe" /\ cur # x.t) => Safe(cur, values, R)
             /\ x.do = "if" => Safe(cur, values, (IF cur \in x.ts THEN x.then ELSE x.els) \o R)
  BY <1>1, Going DEF ParserInv
<1>2. CASE DoTake
  BY <1>2, AdvKeeps DEF DoTake, Due
<1>3. CASE DoFail
  BY <1>3, ErrKeeps DEF DoFail
<1>4. CASE DoExpect
  <2>1. CASE cur = x.t
    BY <1>4, <2>1, AdvKeeps DEF DoExpect, Due
  <2>2. CASE cur # x.t
    BY <1>4, <2>2, ErrKeeps DEF DoExpect
  <2> QED
    BY <2>1, <2>2
<1>5. CASE DoMaybe
  <2>1. stack # << >> /\ x.do = "maybe"
    BY <1>5 DEF DoMaybe, Due
  <2>2. CASE cur = x.t
    BY <1>5, <2>1, <2>2, AdvKeeps DEF DoMaybe
  <2>3. CASE cur # x.t
    <3> DEFINE none == << >>
    <3>1. Step(none)
      BY <1>5, <2>3 DEF DoMaybe
    <3>2. ~had_error => Safe(cur, values, none \o R)
      <4> SUFFICES ASSUME ~had_error PROVE Safe(cur, values, none \o R)
        OBVIOUS
      <4>1. IsSeq(R) /\ Safe(cur, values, R)
        BY <1>1, <2>1, <2>3
      <4>2. IsSeq(<< >>)
        BY DEF IsSeq
      <4>3. none \o R = R
        BY <4>1, <4>2, Joining
      <4> QED
        BY <4>1, <4>3
    <3> HIDE DEF none, R
    <3> QED
      BY <3>1, <3>2, StepKeeps DEF R
  <2> QED
    BY <2>2, <2>3
<1>6. CASE DoIf
  <2> DEFINE branch == IF cur \in x.ts THEN x.then ELSE x.els
  <2>1. stack # << >> /\ x.do = "if" /\ Step(branch)
    BY <1>6 DEF DoIf, Due
  <2>2. ~had_error => Safe(cur, values, branch \o R)
    BY <1>1, <2>1
  <2> HIDE DEF branch
  <2> QED
    BY <2>1, <2>2, StepKeeps
<1>7. CASE DoCall
  BY <1>7, CallKeeps
<1>8. CASE DoNest
  <2>1. stack # << >> /\ x.do = "nest" /\ stack' = R /\ UNCHANGED <<cur, peek, input, values, text, had_error>>
    BY <1>8 DEF DoNest, Due, Rest
  <2>2. Spells' <=> Spells
    BY <2>1, Zenon DEF Spells
  <2>3. ~had_error => Safe(cur, values, R)
    BY <1>1, <2>1
  <2> HIDE DEF x, R
  <2> QED
    BY <2>1, <2>2, <2>3 DEF ParserInv, ParserType, Held
<1>9. CASE DoBuild
  BY <1>9, BuildKeeps
<1>10. CASE UNCHANGED pvars
  <2>1. UNCHANGED <<cur, peek, input, stack, values, text, had_error>>
    BY <1>10 DEF pvars
  <2>2. Spells' <=> Spells
    BY <2>1, Zenon DEF Spells
  <2> QED
    BY <2>1, <2>2 DEF ParserInv, ParserType, Held
<1> QED
  BY <1>2, <1>3, <1>4, <1>5, <1>6, <1>7, <1>8, <1>9, <1>10 DEF PNext

LEMMA ParserInvSuffices ==
  ParserInv => TreesSpellText
<1> SUFFICES ASSUME ParserInv, Ended, ~had_error
             PROVE  /\ (\A i \in DOMAIN values : ~values[i].repeats) => Spelled(values) = text
                    /\ \A i \in DOMAIN values : values[i].kind \in DeclarationKinds /\ values[i].grouped
  BY Zenon DEF TreesSpellText
<1>1. Spells /\ Safe(cur, values, << >>)
  BY DEF ParserInv, Ended
<1>2. values \in Seq(Trees) /\ \A i \in DOMAIN values : values[i].kind \in DeclarationKinds
  BY <1>1, Stopping
<1>3. \A t \in Trees : t.grouped
  BY DEF Trees
<1>4. \A i \in DOMAIN values : values[i].grouped
  BY <1>2, <1>3
<1> QED
  BY <1>1, <1>2, <1>4 DEF Spells

\* Of every text the parser accepts, however long and deeply nested, the trees
\* are declarations which, one after the other, spell the text token by token
\* (no class of it repeating a section), and in which every operator has the
\* operands its precedence gives it: parse_binary, parse_postfix, parse_unary
\* and the calls between them never group otherwise.
THEOREM ParserMakesTrees == PSpec => []TreesSpellText
<1>1. PInit => ParserInv
  BY ParserStarts
<1>2. ParserInv /\ [PNext]_pvars => ParserInv'
  BY ParserKeeps
<1>3. ParserInv => TreesSpellText
  BY ParserInvSuffices
<1> QED
  BY <1>1, <1>2, <1>3, PTL DEF PSpec

-----------------------------------------------------------------------------
(***************************************************************************)
(* The names.  The tables are well typed, sema and the code generator      *)
(* resolve every identifier alike, and the value map of the emitter has    *)
(* the slot of the declaration they resolve it to.                         *)
(***************************************************************************)

\* The innermost scope and base when the first k constructs are open.
ScopeAt(k) == IF k = 0 THEN 1 ELSE open[k].scope
BaseAt(k) == IF k = 0 THEN 0 ELSE open[k].base

Typed ==
    /\ open \in Seq(Constructs)
    /\ sema \in Seq(Seq(Entry))
    /\ vars \in Seq(Entry) /\ Len(vars) <= MAX_VARS
    /\ scope_base \in Seq(Nat)
    /\ vmap \in Seq([Names -> Int])
    /\ next \in Nat
    /\ dropped \in BOOLEAN

\* The open constructs account for every scope and every base.
Shape ==
    /\ Len(sema) = ScopeAt(Len(open)) /\ Len(scope_base) = BaseAt(Len(open))
    /\ \A k \in DOMAIN open :
         /\ open[k].scope = ScopeAt(k - 1) + (IF open[k].form = "init" THEN 0 ELSE 1)
         /\ open[k].base = BaseAt(k - 1) + (IF PushesBase(open[k].form) THEN 1 ELSE 0)
         /\ open[k].form = "fnBody" => k > 1 /\ open[k - 1].form = "fn"
         /\ open[k].form = "lambdaBody" => k > 1 /\ open[k - 1].form = "lambda"

\* The positions of constructs grow inwards.
Nested ==
    \A j, k \in DOMAIN open : j <= k => /\ open[j].scope <= open[k].scope
                                        /\ open[j].base <= open[k].base

\* The saved stack heights lie within the stack and grow inwards.
Bases == /\ \A j \in DOMAIN scope_base : scope_base[j] <= Len(vars)
         /\ \A i, j \in DOMAIN scope_base : i <= j => scope_base[i] <= scope_base[j]

\* Every variable of the generator is the entry of sema it says it is.
Stands ==
    \A p \in DOMAIN vars : /\ vars[p].scope \in DOMAIN sema
                           /\ vars[p].pos \in DOMAIN sema[vars[p].scope]
                           /\ sema[vars[p].scope][vars[p].pos] = vars[p]

\* The root scope of sema has the constants of the top level and no others.
Root ==
    /\ consts \in Seq(Names) /\ Len(consts) <= Len(sema[1])
    /\ \A i \in DOMAIN sema[1] : sema[1][i].fn = 0

\* Every entry of the scopes inside it is a variable of the generator.
Recorded ==
    \A s \in DOMAIN sema : s > 1 => \A i \in DOMAIN sema[s] :
        /\ sema[s][i].scope = s /\ sema[s][i].pos = i
        /\ \E p \in DOMAIN vars : vars[p] = sema[s][i]

\* The stack holds them from the outermost scope inwards, oldest first.
Before(d, e) == d.scope < e.scope \/ (d.scope = e.scope /\ d.pos < e.pos)
Ordered == \A p, q \in DOMAIN vars : p < q => Before(vars[p], vars[q])

\* A construct's base separates the variables of its scope and of scopes
\* inside from those of the scopes around it.
Split ==
    \A k \in DOMAIN open : PushesBase(open[k].form) =>
        \A p \in DOMAIN vars : p <= scope_base[open[k].base] <=> vars[p].scope < open[k].scope

Agreement == Stands /\ Ordered /\ Split

\* The open constructs account for every function being generated; an
\* initialiser can only hold functions.
FnAt(k) == IF k = 0 THEN 0 ELSE open[k].fn
Functions ==
    /\ Len(vmap) = FnAt(Len(open))
    /\ \A k \in DOMAIN open :
         /\ open[k].fn = FnAt(k - 1) + (IF IsFunction(open[k].form) THEN 1 ELSE 0)
         /\ k = 1 => IsFunction(open[k].form)
    /\ \A j, k \in DOMAIN open : j < k =>
         open[j].fn <= open[k].fn /\ (open[j].form = "init" => open[j].fn < open[k].fn)

\* A variable outside a construct is not of a function inside it.
Owned ==
    \A p \in DOMAIN vars :
        /\ vars[p].fn \in 1 .. Len(vmap)
        /\ \A k \in DOMAIN open : vars[p].scope < open[k].scope => vars[p].fn <= FnAt(k - 1)

\* What follows is of the names no function redeclares.
Fixed(x) == x \notin Redeclared
Is(d, x, f) == d.name = x /\ d.fn = f

\* A function has one variable of the name at a time, ...
Single ==
    \A p, q \in DOMAIN vars : Fixed(vars[p].name) /\ Is(vars[q], vars[p].name, vars[p].fn) => p = q

\* ... none while one is being initialised, ...
Pending ==
    \A k \in DOMAIN open : open[k].form = "init" /\ Fixed(open[k].name) =>
        /\ \A p \in DOMAIN vars : ~Is(vars[p], open[k].name, open[k].fn)
        /\ vmap[open[k].fn][open[k].name] = open[k].id

\* ... and its slot is the one the value map of its function has.
Mapped == \A p \in DOMAIN vars : Fixed(vars[p].name) => vmap[vars[p].fn][vars[p].name] = vars[p].id

Slots == Owned /\ Single /\ Pending /\ Mapped

Structure == Typed /\ Shape /\ Nested /\ Bases
IInv == Structure /\ Root /\ Agreement /\ (~dropped => Recorded) /\ Functions /\ Slots

-----------------------------------------------------------------------------
LEMMA Prefix ==
    ASSUME NEW S, NEW s \in Seq(S), NEW n \in Nat, n <= Len(s)
    PROVE  /\ SubSeq(s, 1, n) \in Seq(S) /\ Len(SubSeq(s, 1, n)) = n
           /\ DOMAIN SubSeq(s, 1, n) = 1 .. n /\ 1 .. n \subseteq DOMAIN s
           /\ \A i \in 1 .. n : SubSeq(s, 1, n)[i] = s[i]
  <1>1. \A i \in 1 .. n : i \in DOMAIN s /\ s[i] \in S
    OBVIOUS
  <1>2. /\ SubSeq(s, 1, n) \in Seq(S) /\ Len(SubSeq(s, 1, n)) = n
        /\ \A i \in 1 .. n : SubSeq(s, 1, n)[i] = s[i]
    BY <1>1, SubSeqProperties
  <1> QED
    BY <1>1, <1>2

LEMMA Fields ==
    ASSUME Typed, NEW k \in DOMAIN open
    PROVE  /\ open[k] \in Constructs
           /\ open[k].scope \in Nat /\ open[k].base \in Nat /\ open[k].form \in Forms
           /\ open[k].id \in Int /\ open[k].name \in Names /\ open[k].fn \in Nat
  <1>1. open[k] \in Constructs
    BY DEF Typed
  <1> QED
    BY <1>1 DEF Constructs

\* A construct that pushed a base has one in the table.
LEMMA BaseInRange ==
    ASSUME Typed, Shape, Nested, NEW k \in DOMAIN open
    PROVE  /\ k \in 1 .. Len(open) /\ open[k].scope \in 1 .. Len(sema)
           /\ open[k].base \in 0 .. Len(scope_base)
           /\ PushesBase(open[k].form) => open[k].base \in DOMAIN scope_base
           /\ open[k].form \in Forms
           /\ k > 1 => k - 1 \in DOMAIN open
  <1>1. k \in 1 .. Len(open) /\ Len(open) \in DOMAIN open
    BY DEF Typed
  <1>2. open[k].scope <= Len(sema) /\ open[k].base <= Len(scope_base)
    BY <1>1 DEF Typed, Shape, Nested, ScopeAt, BaseAt
  <1>3. k > 1 => k - 1 \in DOMAIN open
    BY <1>1 DEF Typed
  <1>4. /\ ScopeAt(k - 1) \in Nat /\ BaseAt(k - 1) \in Nat
        /\ open[k].scope \in Nat /\ open[k].base \in Nat /\ open[k].form \in Forms
    BY <1>1, <1>3, Fields DEF ScopeAt, BaseAt
  <1>5. PushesBase(open[k].form) => open[k].base > 0
    BY <1>4 DEF Shape
  <1>6. open[k].scope >= 1
    <2>1. 1 \in DOMAIN open /\ 1 <= k
      BY <1>1 DEF Typed
    <2>2. open[1].scope >= 1 /\ open[1].scope \in Nat
      BY <2>1, Fields DEF Shape, ScopeAt
    <2> QED
      BY <2>1, <2>2, <1>4 DEF Nested
  <1>7. Len(sema) \in Nat /\ Len(scope_base) \in Nat /\ DOMAIN scope_base = 1 .. Len(scope_base)
    BY DEF Typed
  <1> QED
    BY <1>1, <1>2, <1>3, <1>4, <1>5, <1>6, <1>7

LEMMA Tops ==
    ASSUME Typed, Shape, Nested
    PROVE  /\ Len(sema) \in Nat \ {0} /\ Len(sema) \in DOMAIN sema
           /\ Len(open) \in Nat /\ DOMAIN open = 1 .. Len(open)
           /\ Len(scope_base) \in Nat /\ DOMAIN scope_base = 1 .. Len(scope_base)
           /\ Len(vars) \in Nat /\ DOMAIN vars = 1 .. Len(vars)
           /\ open # <<>> => Len(open) \in DOMAIN open
  <1>1. CASE open = <<>>
    BY <1>1 DEF Typed, Shape, ScopeAt, BaseAt
  <1>2. CASE open # <<>>
    <2>1. Len(open) \in DOMAIN open
      BY <1>2 DEF Typed
    <2> QED
      BY <2>1, BaseInRange DEF Typed
  <1> QED
    BY <1>1, <1>2

\* What a close removes: the scopes and variables of the innermost construct,
\* and of its function if it is a body.
Kept == Len(open) - Ends(Here)
LEMMA Closing ==
    ASSUME Structure, Close
    PROVE  /\ Kept \in 0 .. Len(open) - 1
           /\ Kept + 1 \in DOMAIN open /\ PushesBase(open[Kept + 1].form)
           /\ open[Kept + 1].scope = Len(sema) - Ends(Here) + 1
           /\ open[Kept + 1].base = Len(scope_base) - BaseEnds(Here) + 1
           /\ open[Kept + 1].scope = ScopeAt(Kept) + 1
           /\ open[Kept + 1].base = BaseAt(Kept) + 1
  <1> USE DEF Structure
  <1>1. open # <<>> /\ Len(open) \in DOMAIN open /\ Here = open[Len(open)].form
    BY Tops DEF Close, Here, Top
  <1>2. /\ Here \in Forms /\ Here \notin {"fn", "lambda", "init"}
        /\ Len(sema) = open[Len(open)].scope /\ Len(scope_base) = open[Len(open)].base
    BY <1>1, BaseInRange, Tops DEF Close, Shape, ScopeAt, BaseAt
  <1>3. CASE Here \notin {"fnBody", "lambdaBody"}
    <2>1. Ends(Here) = 1 /\ BaseEnds(Here) = 1 /\ PushesBase(Here)
      BY <1>2, <1>3 DEF Ends, BaseEnds, IsBody, PushesBase
    <2>2. Kept = Len(open) - 1 /\ Kept + 1 = Len(open)
      BY <2>1, Tops DEF Kept
    <2> QED
      BY <2>1, <2>2, <1>1, <1>2, <1>3, Tops DEF Shape
  <1>4. CASE Here \in {"fnBody", "lambdaBody"}
    <2>1. Ends(Here) = 2
      BY <1>4 DEF Ends, IsBody
    <2>2. /\ Len(open) > 1 /\ Len(open) - 1 \in DOMAIN open
          /\ open[Len(open) - 1].form \in {"fn", "lambda"}
      BY <1>1, <1>4, Tops DEF Shape
    <2>3. Kept = Len(open) - 2 /\ Kept + 1 = Len(open) - 1
      BY <2>1, Tops DEF Kept
    <2>4. PushesBase(open[Kept + 1].form) /\ open[Kept + 1].form # "init"
      BY <2>2, <2>3 DEF PushesBase
    <2>5. /\ open[Kept + 1].scope = ScopeAt(Kept) + 1
          /\ open[Kept + 1].base = BaseAt(Kept) + 1
      BY <2>2, <2>3, <2>4, Tops, SMTT(40) DEF Shape
    <2>6. /\ open[Len(open)].scope = open[Kept + 1].scope + 1
          /\ open[Len(open)].base = open[Kept + 1].base + (IF Here = "fnBody" THEN 1 ELSE 0)
      BY <2>2, <2>3, <1>1, <1>2, <1>4, Tops DEF Shape, ScopeAt, BaseAt, PushesBase
    <2>7. open[Kept + 1].scope \in Nat /\ open[Kept + 1].base \in Nat
      BY <2>2, <2>3, Fields
    <2>8. BaseEnds(Here) = (IF Here = "fnBody" THEN 2 ELSE 1)
      BY DEF BaseEnds
    <2>9. open[Kept + 1].scope = Len(sema) - Ends(Here) + 1
      BY <2>1, <2>6, <2>7, <1>2
    <2>10. open[Kept + 1].base = Len(scope_base) - BaseEnds(Here) + 1
      BY <2>6, <2>7, <2>8, <1>2
    <2>11. Kept \in 0 .. Len(open) - 1 /\ Kept + 1 \in DOMAIN open
      BY <2>2, <2>3, Tops
    <2> QED
      BY <2>4, <2>5, <2>9, <2>10, <2>11
  <1> QED
    BY <1>3, <1>4

-----------------------------------------------------------------------------
LEMMA Initially == Init => IInv
  <1> SUFFICES ASSUME Init PROVE IInv
    OBVIOUS
  <1>0. consts \in Seq(Names) /\ Len(sema) = 1 /\ sema[1] \in Seq(Entry) /\ Root
    <2>1. PICK n \in 0 .. MaxConsts : consts \in [1 .. n -> Names]
      BY DEF Init
    <2>2. n \in Nat /\ consts \in Seq(Names) /\ Len(consts) = n /\ DOMAIN consts = 1 .. n
      BY <2>1, BoundsAssumption
    <2>3. \A i \in 1 .. n : TopEntry(consts[i], i) \in Entry /\ TopEntry(consts[i], i).fn = 0
      BY <2>1, <2>2 DEF TopEntry, Entry, None
    <2>4. Len(sema) = 1 /\ sema[1] = [i \in 1 .. n |-> TopEntry(consts[i], i)]
      BY <2>2 DEF Init
    <2>5. sema[1] \in Seq(Entry) /\ Len(sema[1]) = n /\ DOMAIN sema[1] = 1 .. n
      BY <2>2, <2>3, <2>4
    <2>6. \A i \in 1 .. n : sema[1][i].fn = 0
      BY <2>3, <2>4
    <2> QED
      BY <2>2, <2>4, <2>5, <2>6 DEF Root
  <1>1. Structure
    <2>1. Typed
      <3>1. /\ <<>> \in Seq(Constructs) /\ <<>> \in Seq(Entry)
            /\ <<>> \in Seq(Nat) /\ <<>> \in Seq([Names -> Int])
        OBVIOUS
      <3>2. sema \in Seq(Seq(Entry))
        BY <1>0 DEF Init
      <3>3. Len(<<>>) <= MAX_VARS
        BY MaxVarsAssumption
      <3> QED
        BY <3>1, <3>2, <3>3 DEF Init, Typed
    <2>2. Shape
      BY <1>0 DEF Init, Shape, ScopeAt, BaseAt
    <2>3. Nested /\ Bases
      BY DEF Init, Nested, Bases
    <2> QED
      BY <2>1, <2>2, <2>3 DEF Structure
  <1>2. Agreement /\ Recorded
    <2>1. Recorded
      BY <1>0 DEF Init, Recorded
    <2> QED
      BY <2>1 DEF Init, Agreement, Stands, Ordered, Split
  <1>3. Functions /\ Slots
    BY DEF Init, Functions, FnAt, Slots, Owned, Single, Pending, Mapped
  <1> QED
    BY <1>0, <1>1, <1>2, <1>3 DEF IInv

-----------------------------------------------------------------------------
\* Structure is preserved.
LEMMA NewEntryTyped ==
    ASSUME Structure, NEW x \in Names, NEW id \in Int
    PROVE  /\ NewEntry(id, x) \in Entry
           /\ NewEntry(id, x).scope = Len(sema)
           /\ NewEntry(id, x).pos = Len(sema[Len(sema)]) + 1
           /\ sema[Len(sema)] \in Seq(Entry)
  <1>1. Len(sema) \in DOMAIN sema /\ Len(sema) \in Nat
    BY Tops DEF Structure
  <1>2. sema[Len(sema)] \in Seq(Entry)
    BY <1>1 DEF Structure, Typed
  <1>3. Len(vmap) \in Nat
    BY DEF Structure, Typed
  <1> QED
    BY <1>1, <1>2, <1>3 DEF NewEntry, Entry, Top

\* What Define does to the tables.
LEMMA Defining ==
    ASSUME Structure, NEW x \in Names, NEW id \in Int, Define(id, x)
    PROVE  /\ sema' \in Seq(Seq(Entry)) /\ Len(sema') = Len(sema)
           /\ vars' \in Seq(Entry) /\ Len(vars') <= MAX_VARS /\ Len(vars) <= Len(vars')
           /\ dropped' \in BOOLEAN
           /\ \A p \in DOMAIN vars : p \in DOMAIN vars' /\ vars'[p] = vars[p]
           /\ vars' = vars \/ vars' = Append(vars, NewEntry(id, x))
           /\ ~dropped' => ~dropped /\ vars' = Append(vars, NewEntry(id, x))
  <1> USE DEF Structure
  <1>1. /\ NewEntry(id, x) \in Entry /\ Len(sema) \in DOMAIN sema
        /\ sema[Len(sema)] \in Seq(Entry)
    BY NewEntryTyped, Tops
  <1>2. sema' \in Seq(Seq(Entry)) /\ Len(sema') = Len(sema)
    <2>1. Append(sema[Len(sema)], NewEntry(id, x)) \in Seq(Entry)
      BY <1>1
    <2>2. sema' = [sema EXCEPT ![Len(sema)] = Append(sema[Len(sema)], NewEntry(id, x))]
      BY DEF Define
    <2> QED
      BY <2>1, <2>2, <1>1 DEF Typed
  <1>3. CASE Len(vars) < MAX_VARS
    <2>1. vars' = Append(vars, NewEntry(id, x)) /\ dropped' = dropped
      BY <1>3, MaxVarsAssumption DEF Define, Typed
    <2> QED
      BY <2>1, <1>1, <1>2, <1>3, MaxVarsAssumption DEF Typed
  <1>4. CASE ~(Len(vars) < MAX_VARS)
    <2>1. vars' = vars
      BY <1>4 DEF Define
    <2>2. Len(vars) >= MAX_VARS
      BY <1>4, MaxVarsAssumption DEF Typed
    <2>3. dropped'
      BY <2>2, Zenon DEF Define
    <2>4. dropped' \in BOOLEAN
      BY Zenon DEF Define
    <2> QED
      BY <2>1, <2>3, <2>4, <1>2 DEF Typed
  <1> QED
    BY <1>3, <1>4

LEMMA AllocateTyped ==
    ASSUME Structure, NEW x, NEW id \in Int, Allocate(id, x)
    PROVE  vmap' \in Seq([Names -> Int])
  <1>1. vmap \in Seq([Names -> Int])
    BY DEF Structure, Typed
  <1>2. CASE Len(vmap) \in DOMAIN vmap
    <2>1. vmap[Len(vmap)] \in [Names -> Int]
      BY <1>1, <1>2
    <2>2. [vmap[Len(vmap)] EXCEPT ![x] = id] \in [Names -> Int]
      BY <2>1
    <2> QED
      BY <1>1, <1>2, <2>2 DEF Allocate
  <1>3. CASE Len(vmap) \notin DOMAIN vmap
    <2>1. DOMAIN vmap = 1 .. 0
      BY <1>1, <1>3
    <2>2. DOMAIN vmap' = 1 .. 0
      BY <2>1, Zenon DEF Allocate
    <2>3. vmap' = [i \in 1 .. 0 |-> vmap'[i]]
      BY <2>2, Zenon DEF Allocate
    <2>4. [i \in 1 .. 0 |-> vmap'[i]] \in Seq([Names -> Int])
      OBVIOUS
    <2> QED
      BY <2>3, <2>4
  <1> QED
    BY <1>2, <1>3

LEMMA ConstructTyped ==
    ASSUME sema' \in Seq(Seq(Entry)), scope_base' \in Seq(Nat), vmap' \in Seq([Names -> Int]),
           NEW form \in Forms, NEW id \in Int, NEW x \in Names
    PROVE  /\ Construct(form, id, x) \in Constructs
           /\ Construct(form, id, x).form = form
           /\ Construct(form, id, x).scope = Len(sema')
           /\ Construct(form, id, x).base = Len(scope_base')
           /\ Construct(form, id, x).fn = Len(vmap')
           /\ Construct(form, id, x).id = id /\ Construct(form, id, x).name = x
  BY DEF Construct, Constructs

LEMMA UpToOneMore ==
    \A n \in Nat : \A j, k \in 1 .. n + 1 : j <= k =>
        k \in 1 .. n \/ (k = n + 1 /\ j \in 1 .. n) \/ (k = n + 1 /\ j = n + 1)
  OBVIOUS

\* A construct opened inside the others keeps the shape.
LEMMA Opening ==
    ASSUME Structure, NEW form \in Forms, NEW id \in Int, NEW x \in Names,
           open' = Append(open, Construct(form, id, x)),
           sema' \in Seq(Seq(Entry)), scope_base' \in Seq(Nat), vmap' \in Seq([Names -> Int]),
           Len(sema') = Len(sema) + (IF form = "init" THEN 0 ELSE 1),
           Len(scope_base') = Len(scope_base) + (IF PushesBase(form) THEN 1 ELSE 0),
           form = "fnBody" => Here = "fn",
           form = "lambdaBody" => Here = "lambda"
    PROVE  open' \in Seq(Constructs) /\ Shape' /\ Nested'
  <1> USE DEF Structure
  <1>1. PICK c \in Constructs :
          /\ open' = Append(open, c) /\ c.form = form
          /\ c.scope = Len(sema') /\ c.base = Len(scope_base')
    BY ConstructTyped
  <1>0. PICK n \in Nat : n = Len(open)
    BY Tops
  <1>2. /\ open' = Append(open, c) /\ open \in Seq(Constructs)
        /\ Len(open) = n /\ DOMAIN open = 1 .. n
    BY <1>0, <1>1, Tops DEF Typed
  <1>3. /\ open' \in Seq(Constructs) /\ Len(open') = n + 1
        /\ DOMAIN open' = 1 .. n + 1
        /\ open'[n + 1] = c
        /\ \A k \in 1 .. n : open'[k] = open[k]
    BY <1>1, <1>2, AppendProperties
  <1>4. n # 0 => n \in DOMAIN open /\ Here = open[n].form
    BY <1>2 DEF Here, Top
  <1>5. n = 0 => Here = "top"
    BY <1>2 DEF Here
  <1>6. /\ Len(sema) = ScopeAt(n) /\ Len(scope_base) = BaseAt(n)
        /\ Len(sema) \in Nat /\ Len(scope_base) \in Nat
    BY <1>0, Tops DEF Shape
  <1>7. \A k \in 0 .. n : ScopeAt(k)' = ScopeAt(k) /\ BaseAt(k)' = BaseAt(k)
    BY <1>2, <1>3 DEF ScopeAt, BaseAt
  <1>8. Shape'
    <2>1. Len(sema') = ScopeAt(n + 1)' /\ Len(scope_base') = BaseAt(n + 1)'
      BY <1>1, <1>2, <1>3 DEF ScopeAt, BaseAt
    <2>2. ASSUME NEW k \in 1 .. n
          PROVE  /\ open'[k].scope = ScopeAt(k - 1)' + (IF open'[k].form = "init" THEN 0 ELSE 1)
                 /\ open'[k].base = BaseAt(k - 1)' + (IF PushesBase(open'[k].form) THEN 1 ELSE 0)
                 /\ open'[k].form = "fnBody" => k > 1 /\ open'[k - 1].form = "fn"
                 /\ open'[k].form = "lambdaBody" => k > 1 /\ open'[k - 1].form = "lambda"
      <3>1. k - 1 \in 0 .. n /\ (k > 1 => k - 1 \in 1 .. n)
        BY <1>2
      <3> QED
        BY <3>1, <1>2, <1>3, <1>7 DEF Shape
    <2>3. LET k == n + 1
          IN  /\ open'[k].scope = ScopeAt(k - 1)' + (IF open'[k].form = "init" THEN 0 ELSE 1)
              /\ open'[k].base = BaseAt(k - 1)' + (IF PushesBase(open'[k].form) THEN 1 ELSE 0)
              /\ open'[k].form = "fnBody" => k > 1 /\ open'[k - 1].form = "fn"
              /\ open'[k].form = "lambdaBody" => k > 1 /\ open'[k - 1].form = "lambda"
      <3>1. n + 1 - 1 = n /\ n \in 0 .. n
        BY <1>2
      <3>2. ScopeAt(n)' = Len(sema) /\ BaseAt(n)' = Len(scope_base)
        BY <3>1, <1>6, <1>7
      <3>5. ScopeAt(n + 1 - 1)' = Len(sema) /\ BaseAt(n + 1 - 1)' = Len(scope_base)
        BY <3>1, <3>2 DEF ScopeAt, BaseAt
      <3>3. form \in {"fnBody", "lambdaBody"} => n \in 1 .. n
        BY <1>2, <1>5
      <3>4. /\ form = "fnBody" => n + 1 > 1 /\ open'[n].form = "fn"
            /\ form = "lambdaBody" => n + 1 > 1 /\ open'[n].form = "lambda"
        BY <3>3, <1>3, <1>4
      <3> QED
        BY <3>4, <3>5, <1>1, <1>3, SMTT(40)
    <2>4. \A k \in DOMAIN open' : k \in 1 .. n \/ k = n + 1
      BY <1>3
    <2> QED
      BY <2>1, <2>2, <2>3, <2>4, <1>3 DEF Shape
  <1>9. Nested'
    <2>1. \A k \in 1 .. n : /\ open[k].scope \in Nat /\ open[k].scope <= Len(sema)
                            /\ open[k].base \in Nat /\ open[k].base <= Len(scope_base)
      <3> SUFFICES ASSUME NEW k \in DOMAIN open
                   PROVE  /\ open[k].scope \in Nat /\ open[k].scope <= Len(sema)
                          /\ open[k].base \in Nat /\ open[k].base <= Len(scope_base)
        BY <1>2
      <3> QED
        BY BaseInRange, Fields, <1>6
    <2>2. Len(sema) <= Len(sema') /\ Len(scope_base) <= Len(scope_base')
      BY <1>6
    <2>3. ASSUME NEW j \in DOMAIN open', NEW k \in DOMAIN open', j <= k
          PROVE  open'[j].scope <= open'[k].scope /\ open'[j].base <= open'[k].base
      <3>1. CASE k \in 1 .. n
        <4>1. j \in 1 .. n
          BY <3>1, <2>3, <1>3
        <4> QED
          BY <4>1, <3>1, <2>3, <1>2, <1>3 DEF Nested
      <3>2. CASE k = n + 1 /\ j \in 1 .. n
        <4>1. /\ open[j].scope \in Nat /\ open[j].scope <= Len(sema')
              /\ open[j].base \in Nat /\ open[j].base <= Len(scope_base')
          BY <3>2, <2>1, <2>2, <1>6
        <4>2. open'[j] = open[j] /\ open'[k] = c
          BY <3>2, <1>3
        <4> QED
          BY <4>1, <4>2, <1>1
      <3>3. CASE k = n + 1 /\ j = n + 1
        <4>1. open'[j].scope \in Nat /\ open'[j].base \in Nat
          BY <3>3, <1>1, <1>3 DEF Constructs
        <4> QED
          BY <4>1, <3>3
      <3>4. k \in 1 .. n \/ (k = n + 1 /\ j \in 1 .. n) \/ (k = n + 1 /\ j = n + 1)
        <4>1. j \in 1 .. n + 1 /\ k \in 1 .. n + 1
          BY <1>3, Zenon
        <4> QED
          BY <4>1, <2>3, UpToOneMore, Zenon
      <3> QED
        BY <3>1, <3>2, <3>3, <3>4, Zenon
    <2> QED
      BY <2>3 DEF Nested
  <1> QED
    BY <1>3, <1>8, <1>9

LEMMA OpenKeepsStructure ==
    ASSUME Structure, NEW form \in Forms, Open(form)
    PROVE  Structure'
  <1> USE DEF Structure
  <1>1. /\ sema' = Append(sema, <<>>)
        /\ scope_base' = IF PushesBase(form) THEN Append(scope_base, Len(vars)) ELSE scope_base
        /\ open' = Append(open, Construct(form, None, AnyName))
        /\ vmap' = IF IsFunction(form) THEN Append(vmap, [x \in Names |-> None]) ELSE vmap
        /\ vars' = vars /\ next' = next /\ dropped' = dropped
        /\ form # "init" /\ MayOpen(form)
    BY DEF Open
  <1>2. sema' \in Seq(Seq(Entry)) /\ Len(sema') = Len(sema) + 1
    <2>1. <<>> \in Seq(Entry)
      OBVIOUS
    <2> QED
      BY <1>1, <2>1 DEF Typed
  <1>3. scope_base' \in Seq(Nat)
        /\ Len(scope_base') = Len(scope_base) + (IF PushesBase(form) THEN 1 ELSE 0)
    BY <1>1, Tops DEF Typed
  <1>4. AnyName \in Names /\ None \in Int
    BY NamesAssumption DEF AnyName, None
  <1>5. /\ form = "fnBody" => Here = "fn"
        /\ form = "lambdaBody" => Here = "lambda"
    BY <1>1 DEF MayOpen
  <1>6. vmap' \in Seq([Names -> Int])
    <2>1. [x \in Names |-> None] \in [Names -> Int]
      BY <1>4
    <2> QED
      BY <1>1, <2>1 DEF Typed
  <1>7. open' \in Seq(Constructs) /\ Shape' /\ Nested'
    BY <1>1, <1>2, <1>3, <1>4, <1>5, <1>6, Opening
  <1>8. Typed'
    BY <1>1, <1>2, <1>3, <1>6, <1>7 DEF Typed
  <1>9. Bases'
    <2>1. /\ Len(vars) \in Nat /\ vars' = vars
          /\ \A j \in DOMAIN scope_base : scope_base[j] \in Nat /\ scope_base[j] <= Len(vars)
      BY <1>1 DEF Bases, Typed
    <2>2. CASE ~PushesBase(form)
      BY <2>1, <2>2, <1>1 DEF Bases
    <2>3. CASE PushesBase(form)
      <3>1. PICK b \in Nat : b = Len(scope_base) /\ DOMAIN scope_base = 1 .. b
        BY Tops
      <3>2. /\ DOMAIN scope_base' = 1 .. b + 1 /\ scope_base'[b + 1] = Len(vars)
            /\ \A j \in 1 .. b : scope_base'[j] = scope_base[j]
        BY <1>1, <2>1, <2>3, <3>1, AppendProperties DEF Typed
      <3> QED
        BY <2>1, <3>1, <3>2 DEF Bases
    <2> QED
      BY <2>2, <2>3
  <1> QED
    BY <1>7, <1>8, <1>9

LEMMA DeclareKeepsStructure ==
    ASSUME Structure, NEW x \in Names, Declare(x)
    PROVE  Structure'
  <1> USE DEF Structure
  <1>1. /\ Define(next, x) /\ Allocate(next, x) /\ next \in Int /\ next' = next + 1
        /\ open' = open /\ scope_base' = scope_base
    BY DEF Declare, Typed
  <1>2. /\ sema' \in Seq(Seq(Entry)) /\ Len(sema') = Len(sema)
        /\ vars' \in Seq(Entry) /\ Len(vars') <= MAX_VARS /\ Len(vars) <= Len(vars')
        /\ dropped' \in BOOLEAN
    BY <1>1, Defining
  <1>3. vmap' \in Seq([Names -> Int])
    BY <1>1, AllocateTyped
  <1>4. Typed'
    <2>1. next' \in Nat
      BY <1>1 DEF Typed
    <2> QED
      BY <1>1, <1>2, <1>3, <2>1 DEF Typed
  <1>5. Shape' /\ Nested'
    BY <1>1, <1>2 DEF Shape, Nested, ScopeAt, BaseAt
  <1>6. Bases'
    <2>1. Len(vars) \in Nat /\ Len(vars') \in Nat /\ \A j \in DOMAIN scope_base : scope_base[j] \in Nat
      BY <1>2 DEF Typed
    <2> QED
      BY <1>1, <1>2, <2>1 DEF Bases
  <1> QED
    BY <1>4, <1>5, <1>6

LEMMA BeginTypedKeepsStructure ==
    ASSUME Structure, NEW x \in Names, BeginTyped(x)
    PROVE  Structure'
  <1> USE DEF Structure
  <1>1. /\ Allocate(next, x) /\ next \in Int /\ next' = next + 1
        /\ open' = Append(open, Construct("init", next, x))
        /\ sema' = sema /\ vars' = vars /\ scope_base' = scope_base /\ dropped' = dropped
    BY DEF BeginTyped, Typed
  <1>2. vmap' \in Seq([Names -> Int])
    BY <1>1, AllocateTyped
  <1>3. "init" \in Forms /\ ~PushesBase("init") /\ next \in Int
    BY <1>1 DEF Forms, PushesBase
  <1>4. sema' \in Seq(Seq(Entry)) /\ scope_base' \in Seq(Nat)
    BY <1>1 DEF Typed
  <1>5. Len(sema') = Len(sema) + 0 /\ Len(scope_base') = Len(scope_base) + 0
    BY <1>1, Tops
  <1>6. open' \in Seq(Constructs) /\ Shape' /\ Nested'
    BY <1>1, <1>2, <1>3, <1>4, <1>5, Opening
  <1>7. Typed'
    BY <1>1, <1>2, <1>6 DEF Typed
  <1>8. Bases'
    BY <1>1 DEF Bases
  <1> QED
    BY <1>6, <1>7, <1>8

\* Closing constructs from the inside keeps the shape.
LEMMA Cutting ==
    ASSUME Structure, NEW n \in 0 .. Len(open), open' = SubSeq(open, 1, n),
           Len(sema') = ScopeAt(n), Len(scope_base') = BaseAt(n)
    PROVE  /\ open' \in Seq(Constructs) /\ Shape' /\ Nested'
           /\ DOMAIN open' = 1 .. n /\ 1 .. n \subseteq DOMAIN open
           /\ \A k \in 1 .. n : open'[k] = open[k]
  <1> USE DEF Structure
  <1>1. open \in Seq(Constructs) /\ DOMAIN open = 1 .. Len(open) /\ Len(open) \in Nat
    BY Tops DEF Typed
  <1>2. n \in Nat /\ 1 .. n \subseteq DOMAIN open
    BY <1>1
  <1>3. /\ open' \in Seq(Constructs) /\ Len(open') = n /\ DOMAIN open' = 1 .. n
        /\ \A k \in 1 .. n : open'[k] = open[k]
    BY <1>1, <1>2, SubSeqProperties
  <1>4. \A k \in 0 .. n : ScopeAt(k)' = ScopeAt(k) /\ BaseAt(k)' = BaseAt(k)
    BY <1>2, <1>3 DEF ScopeAt, BaseAt
  <1>5. Shape'
    <2>1. Len(sema') = ScopeAt(n)' /\ Len(scope_base') = BaseAt(n)'
      BY <1>2, <1>4
    <2>2. Len(sema') = ScopeAt(Len(open))' /\ Len(scope_base') = BaseAt(Len(open))'
      BY <2>1, <1>3 DEF ScopeAt, BaseAt
    <2>3. ASSUME NEW k \in 1 .. n
          PROVE  /\ open'[k].scope = ScopeAt(k - 1)' + (IF open'[k].form = "init" THEN 0 ELSE 1)
                 /\ open'[k].base = BaseAt(k - 1)' + (IF PushesBase(open'[k].form) THEN 1 ELSE 0)
                 /\ open'[k].form = "fnBody" => k > 1 /\ open'[k - 1].form = "fn"
                 /\ open'[k].form = "lambdaBody" => k > 1 /\ open'[k - 1].form = "lambda"
      <3>1. k - 1 \in 0 .. n /\ (k > 1 => k - 1 \in 1 .. n)
        BY <1>2
      <3> QED
        BY <3>1, <1>2, <1>3, <1>4 DEF Shape
    <2> QED
      BY <2>2, <2>3, <1>3 DEF Shape
  <1>6. Nested'
    BY <1>2, <1>3 DEF Nested
  <1> QED
    BY <1>2, <1>3, <1>5, <1>6

LEMMA EndTypedKeepsStructure ==
    ASSUME Structure, EndTyped
    PROVE  Structure'
  <1> USE DEF Structure
  <1>1. PICK n \in Nat : n = Len(open) /\ DOMAIN open = 1 .. n
    BY Tops
  <1>2. n \in DOMAIN open /\ open[n].form = "init" /\ Top(open) = open[n]
    BY <1>1, Tops DEF EndTyped, Here, Top
  <1>3. Define(open[n].id, open[n].name) /\ open' = SubSeq(open, 1, n - 1)
        /\ scope_base' = scope_base /\ vmap' = vmap /\ next' = next
    BY <1>1, <1>2 DEF EndTyped, Pop
  <1>4. open[n].id \in Int /\ open[n].name \in Names
    BY <1>2, Fields
  <1>5. /\ sema' \in Seq(Seq(Entry)) /\ Len(sema') = Len(sema)
        /\ vars' \in Seq(Entry) /\ Len(vars') <= MAX_VARS /\ Len(vars) <= Len(vars')
        /\ dropped' \in BOOLEAN
    BY <1>3, <1>4, Defining
  <1>6. Len(sema) = ScopeAt(n - 1) /\ Len(scope_base) = BaseAt(n - 1)
    <2>1. n >= 1 /\ n # 0
      BY <1>1, <1>2
    <2>2. Len(sema) = open[n].scope /\ Len(scope_base) = open[n].base
      BY <1>1, <2>1 DEF Shape, ScopeAt, BaseAt
    <2>3. ScopeAt(n - 1) \in Nat /\ BaseAt(n - 1) \in Nat
      <3>1. n - 1 = 0 \/ n - 1 \in DOMAIN open
        BY <1>1, <2>1
      <3> QED
        BY <3>1, Fields DEF ScopeAt, BaseAt
    <2>4. open[n].scope = ScopeAt(n - 1) + 0 /\ open[n].base = BaseAt(n - 1) + 0
      BY <1>2 DEF Shape, PushesBase
    <2> QED
      BY <2>2, <2>3, <2>4
  <1>7. n - 1 \in 0 .. Len(open)
    BY <1>1, <1>2
  <1>8. open' \in Seq(Constructs) /\ Shape' /\ Nested'
    BY <1>3, <1>5, <1>6, <1>7, Cutting
  <1>9. Typed'
    BY <1>3, <1>5, <1>8 DEF Typed
  <1>10. Bases'
    <2>1. Len(vars) \in Nat /\ Len(vars') \in Nat /\ \A j \in DOMAIN scope_base : scope_base[j] \in Nat
      BY <1>5 DEF Typed
    <2> QED
      BY <1>3, <1>5, <2>1 DEF Bases
  <1> QED
    BY <1>8, <1>9, <1>10

\* What a close leaves of the tables.
LEMMA Closed ==
    ASSUME Structure, Close
    PROVE  \E n \in 0 .. Len(open) - 1, b \in DOMAIN scope_base :
             /\ n = Kept
             /\ n + 1 \in DOMAIN open /\ PushesBase(open[n + 1].form)
             /\ open[n + 1].scope = ScopeAt(n) + 1 /\ open[n + 1].base = b
             /\ b = BaseAt(n) + 1
             /\ ScopeAt(n) \in 1 .. Len(sema)
             /\ open' = SubSeq(open, 1, n)
             /\ sema' = SubSeq(sema, 1, ScopeAt(n))
             /\ scope_base' = SubSeq(scope_base, 1, BaseAt(n))
             /\ vars' = SubSeq(vars, 1, scope_base[b])
  <1> USE DEF Structure
  <1>1. PICK n \in 0 .. Len(open) - 1 : n = Kept
    BY Closing
  <1>2. /\ n + 1 \in DOMAIN open /\ PushesBase(open[n + 1].form)
        /\ open[n + 1].scope = Len(sema) - Ends(Here) + 1
        /\ open[n + 1].base = Len(scope_base) - BaseEnds(Here) + 1
        /\ open[n + 1].scope = ScopeAt(n) + 1
        /\ open[n + 1].base = BaseAt(n) + 1
    BY <1>1, Closing
  <1>3. /\ open[n + 1].base \in DOMAIN scope_base /\ open[n + 1].base \in Nat
        /\ open[n + 1].scope \in 1 .. Len(sema)
    BY <1>2, BaseInRange, Fields
  <1>4. Ends(Here) \in Nat /\ BaseEnds(Here) \in Nat
    BY DEF Ends, BaseEnds
  <1>5. ScopeAt(n) \in Nat /\ BaseAt(n) \in Nat
    <2>1. n = 0 \/ n \in DOMAIN open
      BY <1>1, Tops
    <2> QED
      BY <2>1, Fields DEF ScopeAt, BaseAt
  <1>6. ScopeAt(n) >= 1
    <2>1. n = 0 \/ n \in DOMAIN open
      BY <1>1, Tops
    <2> QED
      BY <2>1, BaseInRange DEF ScopeAt
  <1>7. Len(open) - Ends(Here) = n /\ Len(sema) - Ends(Here) = ScopeAt(n)
        /\ Len(scope_base) - BaseEnds(Here) = BaseAt(n)
    <2>1. Len(open) \in Nat /\ Len(sema) \in Nat /\ Len(scope_base) \in Nat
      BY Tops
    <2>2. Len(open) - Ends(Here) = n
      BY <1>1 DEF Kept
    <2>3. Len(sema) - Ends(Here) = ScopeAt(n)
      BY <2>1, <1>2, <1>4, <1>5, SMTT(40)
    <2>4. Len(scope_base) - BaseEnds(Here) = BaseAt(n)
      BY <2>1, <1>2, <1>4, <1>5, SMTT(40)
    <2> QED
      BY <2>2, <2>3, <2>4
  <1>8. /\ open' = SubSeq(open, 1, n) /\ sema' = SubSeq(sema, 1, ScopeAt(n))
        /\ scope_base' = SubSeq(scope_base, 1, BaseAt(n))
        /\ vars' = SubSeq(vars, 1, scope_base[BaseAt(n) + 1])
    BY <1>7 DEF Close, Pop
  <1>9. ScopeAt(n) \in 1 .. Len(sema)
    BY <1>2, <1>3, <1>5, <1>6, Tops
  <1> QED
    BY <1>1, <1>2, <1>3, <1>8, <1>9

LEMMA CloseKeepsStructure ==
    ASSUME Structure, Close
    PROVE  Structure'
  <1> USE DEF Structure
  <1>1. PICK n \in 0 .. Len(open) - 1, b \in DOMAIN scope_base :
             /\ n + 1 \in DOMAIN open /\ PushesBase(open[n + 1].form)
             /\ open[n + 1].scope = ScopeAt(n) + 1 /\ open[n + 1].base = b
             /\ b = BaseAt(n) + 1
             /\ ScopeAt(n) \in 1 .. Len(sema)
             /\ open' = SubSeq(open, 1, n)
             /\ sema' = SubSeq(sema, 1, ScopeAt(n))
             /\ scope_base' = SubSeq(scope_base, 1, BaseAt(n))
             /\ vars' = SubSeq(vars, 1, scope_base[b])
    BY Closed
  <1>2. vmap' \in Seq([Names -> Int]) /\ next' = next /\ dropped' = dropped
    <2>1. vmap \in Seq([Names -> Int]) /\ Len(vmap) \in Nat
      BY DEF Typed
    <2>2. vmap' = vmap \/ vmap' = SubSeq(vmap, 1, Len(vmap) - 1)
      BY DEF Close, Pop
    <2>3. SubSeq(vmap, 1, Len(vmap) - 1) \in Seq([Names -> Int])
      BY <2>1, SubSeqProperties
    <2> QED
      BY <2>1, <2>2, <2>3 DEF Close
  <1>3. PICK c \in Nat, a \in Nat, h \in Nat :
           c = ScopeAt(n) /\ a = BaseAt(n) /\ h = scope_base[b] /\ b = a + 1 /\ h <= Len(vars)
    <2>1. BaseAt(n) \in Nat
      <3>1. n = 0 \/ n \in DOMAIN open
        BY <1>1, Tops
      <3> QED
        BY <3>1, Fields DEF BaseAt
    <2>2. scope_base[b] \in Nat /\ scope_base[b] <= Len(vars)
      BY <1>1, SMTT(40) DEF Typed, Bases
    <2> QED
      BY <2>1, <2>2, <1>1, Tops
  <1>5. /\ a <= Len(scope_base) /\ c <= Len(sema)
        /\ sema' = SubSeq(sema, 1, c) /\ scope_base' = SubSeq(scope_base, 1, a)
        /\ vars' = SubSeq(vars, 1, h)
        /\ sema \in Seq(Seq(Entry)) /\ scope_base \in Seq(Nat) /\ vars \in Seq(Entry)
        /\ Len(vars) \in Nat /\ Len(vars) <= MAX_VARS
        /\ DOMAIN scope_base = 1 .. Len(scope_base) /\ Len(scope_base) \in Nat
    BY <1>1, <1>3, Tops DEF Typed
  <1>4. sema' \in Seq(Seq(Entry)) /\ Len(sema') = c
    BY <1>3, <1>5, Prefix
  <1>6. /\ scope_base' \in Seq(Nat) /\ Len(scope_base') = a /\ DOMAIN scope_base' = 1 .. a
        /\ \A j \in 1 .. a : j \in DOMAIN scope_base /\ scope_base'[j] = scope_base[j]
    <2>1. /\ SubSeq(scope_base, 1, a) \in Seq(Nat) /\ Len(SubSeq(scope_base, 1, a)) = a
          /\ DOMAIN SubSeq(scope_base, 1, a) = 1 .. a /\ 1 .. a \subseteq DOMAIN scope_base
          /\ \A j \in 1 .. a : SubSeq(scope_base, 1, a)[j] = scope_base[j]
      BY <1>5, Prefix, SMTT(40)
    <2> QED
      BY <2>1, <1>5
  <1>7. vars' \in Seq(Entry) /\ Len(vars') = h /\ h <= MAX_VARS
    <2>1. h \in Nat /\ h <= Len(vars)
      BY <1>3
    <2>2. SubSeq(vars, 1, h) \in Seq(Entry) /\ Len(SubSeq(vars, 1, h)) = h
      BY <2>1, <1>5, Prefix
    <2> QED
      BY <2>1, <2>2, <1>5, MaxVarsAssumption
  <1>8. open' \in Seq(Constructs) /\ Shape' /\ Nested'
    <2>1. n \in 0 .. Len(open)
      BY <1>1, Tops
    <2> QED
      BY <2>1, <1>1, <1>3, <1>4, <1>6, Cutting
  <1>9. Typed'
    BY <1>2, <1>4, <1>6, <1>7, <1>8 DEF Typed
  <1>10. Bases'
    <2>1. \A j \in 1 .. a : scope_base[j] <= scope_base[b]
      <3> SUFFICES ASSUME NEW j \in 1 .. a PROVE scope_base[j] <= scope_base[b]
        OBVIOUS
      <3>1. j \in DOMAIN scope_base
        BY <1>6
      <3>2. b = a + 1
        BY <1>3
      <3>3. j <= b
        BY <3>2
      <3> QED
        BY <3>1, <3>3 DEF Bases
    <2> QED
      BY <2>1, <1>1, <1>3, <1>6, <1>7 DEF Bases
  <1> QED
    BY <1>8, <1>9, <1>10

-----------------------------------------------------------------------------
\* Agreement is preserved.
LEMMA DefineKeepsAgreement ==
    ASSUME Structure, Agreement, NEW x \in Names, NEW id \in Int, Define(id, x),
           scope_base' = scope_base,
           \A k \in DOMAIN open' : k \in DOMAIN open /\ open'[k] = open[k]
    PROVE  Agreement' /\ (Recorded /\ ~dropped' => Recorded')
  <1> USE DEF Structure, Agreement
  <1>1. PICK l \in Nat, h \in Nat, i \in Nat, e \in Entry :
          /\ l = Len(sema) /\ h = Len(vars) /\ i = Len(sema[l]) /\ e = NewEntry(id, x)
          /\ l \in DOMAIN sema /\ DOMAIN vars = 1 .. h
          /\ sema[l] \in Seq(Entry) /\ DOMAIN sema[l] = 1 .. i
          /\ e.scope = l /\ e.pos = i + 1 /\ DOMAIN sema = 1 .. l
    <2>1. sema[Len(sema)] \in Seq(Entry) /\ Len(sema) \in DOMAIN sema
      BY NewEntryTyped, Tops
    <2>2. Len(sema[Len(sema)]) \in Nat /\ DOMAIN sema[Len(sema)] = 1 .. Len(sema[Len(sema)])
      BY <2>1
    <2>3. DOMAIN sema = 1 .. Len(sema)
      BY DEF Typed
    <2> QED
      BY <2>1, <2>2, <2>3, NewEntryTyped, Tops
  <1>2. /\ \A p \in 1 .. h : p \in DOMAIN vars' /\ vars'[p] = vars[p]
        /\ \A p \in DOMAIN vars' : p \in 1 .. h \/ (p = h + 1 /\ vars'[p] = e)
        /\ ~dropped' => h + 1 \in DOMAIN vars' /\ vars'[h + 1] = e
    <2>1. /\ vars' = vars \/ vars' = Append(vars, e)
          /\ ~dropped' => vars' = Append(vars, e)
          /\ vars \in Seq(Entry)
      BY <1>1, Defining DEF Typed
    <2>2. /\ DOMAIN Append(vars, e) = 1 .. h + 1 /\ Append(vars, e)[h + 1] = e
          /\ \A p \in 1 .. h : Append(vars, e)[p] = vars[p]
      BY <2>1, <1>1, AppendProperties
    <2>3. CASE vars' = vars
      <3>1. dropped'
        <4>1. Len(Append(vars, e)) = h + 1
          BY <2>1, <1>1, AppendProperties
        <4>2. vars' # Append(vars, e)
          BY <4>1, <2>3, <1>1
        <4> QED
          BY <4>2, <2>1
      <3> QED
        BY <3>1, <2>3, <1>1
    <2>4. CASE vars' = Append(vars, e)
      BY <2>4, <2>2
    <2> QED
      BY <2>1, <2>3, <2>4
  <1>3. /\ DOMAIN sema' = 1 .. l
        /\ \A s \in 1 .. l : s # l => sema'[s] = sema[s]
        /\ DOMAIN sema'[l] = 1 .. i + 1 /\ sema'[l][i + 1] = e
        /\ \A j \in 1 .. i : sema'[l][j] = sema[l][j]
    <2>1. sema' = [sema EXCEPT ![l] = Append(sema[l], e)]
      BY <1>1 DEF Define
    <2>2. DOMAIN sema' = 1 .. l /\ sema'[l] = Append(sema[l], e)
          /\ \A s \in 1 .. l : s # l => sema'[s] = sema[s]
      BY <2>1, <1>1
    <2>3. /\ DOMAIN Append(sema[l], e) = 1 .. i + 1 /\ Append(sema[l], e)[i + 1] = e
          /\ \A j \in 1 .. i : Append(sema[l], e)[j] = sema[l][j]
      BY <1>1, AppendProperties
    <2> QED
      BY <2>2, <2>3
  <1>4. \A p \in 1 .. h : /\ vars[p].scope \in 1 .. l
                           /\ vars[p].pos \in DOMAIN sema[vars[p].scope]
                           /\ sema[vars[p].scope][vars[p].pos] = vars[p]
    BY <1>1 DEF Stands
  <1>5. Stands'
    <2>1. ASSUME NEW p \in 1 .. h
          PROVE  /\ vars[p].scope \in DOMAIN sema' /\ vars[p].pos \in DOMAIN sema'[vars[p].scope]
                 /\ sema'[vars[p].scope][vars[p].pos] = vars[p]
      <3>1. CASE vars[p].scope # l
        BY <3>1, <1>3, <1>4
      <3>2. CASE vars[p].scope = l
        <4>1. vars[p].pos \in 1 .. i /\ sema[l][vars[p].pos] = vars[p]
          BY <3>2, <1>1, <1>4
        <4>2. vars[p].pos \in 1 .. i + 1 /\ sema'[l][vars[p].pos] = vars[p] /\ l \in 1 .. l
          BY <4>1, <1>1, <1>3
        <4> QED
          BY <3>2, <4>2, <1>3
      <3> QED
        BY <3>1, <3>2
    <2>2. e.scope \in DOMAIN sema' /\ e.pos \in DOMAIN sema'[e.scope] /\ sema'[e.scope][e.pos] = e
      BY <1>1, <1>3
    <2> QED
      BY <2>1, <2>2, <1>2 DEF Stands
  <1>6. ASSUME Recorded, ~dropped' PROVE Recorded'
    <2> SUFFICES ASSUME NEW s \in 1 .. l, s > 1, NEW j \in DOMAIN sema'[s]
                 PROVE  /\ sema'[s][j].scope = s /\ sema'[s][j].pos = j
                        /\ \E p \in DOMAIN vars' : vars'[p] = sema'[s][j]
      BY <1>3, Zenon DEF Recorded
    <2>1. CASE s = l /\ j = i + 1
      <3>1. h + 1 \in DOMAIN vars' /\ vars'[h + 1] = e
        BY <1>2, <1>6
      <3> QED
        BY <2>1, <3>1, <1>1, <1>3, SMTT(40)
    <2>2. CASE ~(s = l /\ j = i + 1)
      <3>1. j \in DOMAIN sema[s] /\ sema'[s][j] = sema[s][j]
        BY <2>2, <1>1, <1>3
      <3>2. PICK p \in 1 .. h : vars[p] = sema[s][j]
        BY <3>1, <1>1, <1>6 DEF Recorded
      <3>3. p \in DOMAIN vars' /\ vars'[p] = vars[p]
        BY <1>2
      <3> QED
        BY <3>1, <3>2, <3>3, <1>1, <1>6 DEF Recorded
    <2> QED
      BY <2>1, <2>2
  <1>7. \A p \in 1 .. h : Before(vars[p], e)
    <2> SUFFICES ASSUME NEW p \in 1 .. h PROVE Before(vars[p], e)
      OBVIOUS
    <2>1. vars[p].scope \in 1 .. l /\ (vars[p].scope = l => vars[p].pos \in 1 .. i)
      BY <1>1, <1>4
    <2> QED
      BY <2>1, <1>1 DEF Before
  <1>8. Ordered'
    <2> SUFFICES ASSUME NEW p \in DOMAIN vars', NEW q \in DOMAIN vars', p < q
                 PROVE  Before(vars'[p], vars'[q])
      BY DEF Ordered, Before
    <2>1. p \in 1 .. h /\ vars'[p] = vars[p]
      BY <1>1, <1>2
    <2>2. CASE q = h + 1 /\ vars'[q] = e
      BY <2>1, <2>2, <1>7
    <2>3. CASE q \in 1 .. h
      BY <2>1, <2>3, <1>1, <1>2 DEF Ordered
    <2> QED
      BY <2>2, <2>3, <1>2
  <1>9. Split'
    <2> SUFFICES ASSUME NEW k \in DOMAIN open', PushesBase(open'[k].form), NEW p \in DOMAIN vars'
                 PROVE  p <= scope_base'[open'[k].base] <=> vars'[p].scope < open'[k].scope
      BY DEF Split
    <2>1. /\ k \in DOMAIN open /\ open'[k] = open[k] /\ PushesBase(open[k].form)
          /\ scope_base' = scope_base
      OBVIOUS
    <2>2. /\ open[k].base \in DOMAIN scope_base /\ open[k].scope \in 1 .. l
          /\ open[k].base \in Nat /\ open[k].scope \in Nat
      BY <2>1, <1>1, BaseInRange, Fields
    <2>3. scope_base[open[k].base] \in Nat /\ scope_base[open[k].base] <= h
      BY <2>2, <1>1, SMTT(40) DEF Typed, Bases
    <2>4. CASE p = h + 1 /\ vars'[p] = e
      BY <2>1, <2>2, <2>3, <2>4, <1>1
    <2>5. CASE p \in 1 .. h
      BY <2>1, <2>5, <1>1, <1>2 DEF Split
    <2> QED
      BY <2>4, <2>5, <1>2
  <1> QED
    BY <1>5, <1>6, <1>8, <1>9

LEMMA OpenKeepsAgreement ==
    ASSUME Structure, Agreement, NEW form \in Forms, Open(form)
    PROVE  Agreement' /\ (Recorded => Recorded')
  <1> USE DEF Structure, Agreement
  <1>1. PICK l \in Nat, n \in Nat, b \in Nat :
          /\ l = Len(sema) /\ DOMAIN sema = 1 .. l
          /\ n = Len(open) /\ DOMAIN open = 1 .. n
          /\ b = Len(scope_base) /\ DOMAIN scope_base = 1 .. b
    <2>1. DOMAIN sema = 1 .. Len(sema)
      BY DEF Typed
    <2> QED
      BY <2>1, Tops
  <1>2. /\ vars' = vars /\ sema' = Append(sema, <<>>)
        /\ scope_base' = IF PushesBase(form) THEN Append(scope_base, Len(vars)) ELSE scope_base
        /\ open' = Append(open, Construct(form, None, AnyName))
    BY DEF Open
  <1>3. /\ sema' \in Seq(Seq(Entry)) /\ DOMAIN sema' = 1 .. l + 1 /\ Len(sema') = l + 1
        /\ sema'[l + 1] = <<>>
        /\ \A s \in 1 .. l : sema'[s] = sema[s]
    <2>1. <<>> \in Seq(Entry)
      OBVIOUS
    <2> QED
      BY <2>1, <1>1, <1>2, AppendProperties DEF Typed
  <1>4. DOMAIN vars = 1 .. Len(vars) /\ Len(vars) \in Nat
    BY Tops
  <1>5. Stands'
    BY <1>1, <1>2, <1>3 DEF Stands
  <1>6. ASSUME Recorded PROVE Recorded'
    <2> SUFFICES ASSUME NEW s \in 1 .. l + 1, s > 1, NEW j \in DOMAIN sema'[s]
                 PROVE  /\ sema'[s][j].scope = s /\ sema'[s][j].pos = j
                        /\ \E p \in DOMAIN vars : vars[p] = sema'[s][j]
      BY <1>2, <1>3 DEF Recorded
    <2>1. s # l + 1
      BY <1>3
    <2>2. s \in DOMAIN sema /\ sema'[s] = sema[s] /\ j \in DOMAIN sema[s]
      BY <2>1, <1>1, <1>3
    <2> QED
      BY <2>2, <1>6 DEF Recorded
  <1>7. Ordered'
    BY <1>2 DEF Ordered, Before
  <1>8. /\ scope_base' \in Seq(Nat)
        /\ \A j \in 1 .. b : scope_base'[j] = scope_base[j]
        /\ PushesBase(form) => Len(scope_base') = b + 1 /\ scope_base'[b + 1] = Len(vars)
    BY <1>1, <1>2, <1>4, AppendProperties DEF Typed
  <1>9. PICK c \in Constructs :
          open' = Append(open, c) /\ c.form = form /\ c.scope = l + 1 /\ c.base = Len(scope_base')
    <2>1. AnyName \in Names /\ None \in Int
      BY NamesAssumption DEF AnyName, None
    <2> QED
      BY <2>1, <1>2, <1>3, <1>8, OpenKeepsStructure, ConstructTyped DEF Typed
  <1>10. /\ DOMAIN open' = 1 .. n + 1 /\ open'[n + 1] = c
         /\ \A k \in 1 .. n : open'[k] = open[k]
    BY <1>1, <1>9, AppendProperties DEF Typed
  <1>11. Split'
    <2> SUFFICES ASSUME NEW k \in 1 .. n + 1, PushesBase(open'[k].form), NEW p \in DOMAIN vars
                 PROVE  p <= scope_base'[open'[k].base] <=> vars[p].scope < open'[k].scope
      BY <1>2, <1>10 DEF Split
    <2>1. CASE k = n + 1
      <3>1. /\ open'[k].form = form /\ PushesBase(form) /\ open'[k].scope = l + 1
            /\ open'[k].base = b + 1 /\ scope_base'[b + 1] = Len(vars)
        BY <2>1, <1>8, <1>9, <1>10
      <3>2. vars[p].scope \in 1 .. l
        BY <1>1 DEF Stands
      <3> QED
        BY <3>1, <3>2, <1>4
    <2>2. CASE k \in 1 .. n
      <3>1. open'[k] = open[k] /\ PushesBase(open[k].form) /\ k \in DOMAIN open
        BY <2>2, <1>1, <1>10
      <3>2. open[k].base \in DOMAIN scope_base
        BY <3>1, BaseInRange
      <3>3. scope_base'[open[k].base] = scope_base[open[k].base]
        BY <3>2, <1>1, <1>8
      <3> QED
        BY <3>1, <3>3 DEF Split
    <2> QED
      BY <2>1, <2>2
  <1> QED
    BY <1>5, <1>6, <1>7, <1>11

LEMMA BeginTypedKeepsAgreement ==
    ASSUME Structure, Agreement, NEW x \in Names, BeginTyped(x)
    PROVE  Agreement' /\ (Recorded => Recorded')
  <1> USE DEF Structure, Agreement
  <1>1. /\ sema' = sema /\ vars' = vars /\ scope_base' = scope_base
        /\ open' = Append(open, Construct("init", next, x)) /\ next \in Int
    BY DEF BeginTyped, Typed
  <1>2. Stands' /\ (Recorded => Recorded') /\ Ordered'
    BY <1>1 DEF Stands, Recorded, Ordered, Before
  <1>3. PICK c \in Constructs : open' = Append(open, c) /\ c.form = "init"
    <2>1. /\ sema' \in Seq(Seq(Entry)) /\ scope_base' \in Seq(Nat) /\ "init" \in Forms
          /\ vmap' \in Seq([Names -> Int])
      BY <1>1, AllocateTyped DEF BeginTyped, Typed, Forms
    <2> QED
      BY <2>1, <1>1, ConstructTyped
  <1>4. PICK n \in Nat : n = Len(open) /\ DOMAIN open = 1 .. n
    BY Tops
  <1>5. /\ DOMAIN open' = 1 .. n + 1 /\ open'[n + 1] = c
        /\ \A k \in 1 .. n : open'[k] = open[k]
    BY <1>3, <1>4, AppendProperties DEF Typed
  <1>6. Split'
    <2> SUFFICES ASSUME NEW k \in 1 .. n + 1, PushesBase(open'[k].form), NEW p \in DOMAIN vars
                 PROVE  p <= scope_base[open'[k].base] <=> vars[p].scope < open'[k].scope
      BY <1>1, <1>5 DEF Split
    <2>1. k \in 1 .. n
      BY <1>3, <1>5 DEF PushesBase
    <2>2. open'[k] = open[k] /\ PushesBase(open[k].form) /\ k \in DOMAIN open
      BY <2>1, <1>4, <1>5
    <2> QED
      BY <2>2 DEF Split
  <1> QED
    BY <1>2, <1>6

LEMMA CloseKeepsAgreement ==
    ASSUME Structure, Agreement, Close
    PROVE  Agreement' /\ (Recorded => Recorded')
  <1> USE DEF Structure, Agreement
  <1>1. PICK n \in 0 .. Len(open) - 1, b \in DOMAIN scope_base :
             /\ n + 1 \in DOMAIN open /\ PushesBase(open[n + 1].form)
             /\ open[n + 1].scope = ScopeAt(n) + 1 /\ open[n + 1].base = b
             /\ b = BaseAt(n) + 1
             /\ ScopeAt(n) \in 1 .. Len(sema)
             /\ open' = SubSeq(open, 1, n)
             /\ sema' = SubSeq(sema, 1, ScopeAt(n))
             /\ scope_base' = SubSeq(scope_base, 1, BaseAt(n))
             /\ vars' = SubSeq(vars, 1, scope_base[b])
    BY Closed
  <1>2. PICK c \in Nat, a \in Nat, h \in Nat, l \in Nat, m \in Nat :
          /\ c = ScopeAt(n) /\ a + 1 = b /\ h = scope_base[b] /\ l = Len(sema) /\ m = Len(vars)
          /\ h <= m /\ c <= l /\ c >= 1 /\ a < Len(scope_base) /\ Len(scope_base) \in Nat
          /\ a = BaseAt(n)
    <2>1. scope_base[b] \in Nat /\ scope_base[b] <= Len(vars)
      BY <1>1, SMTT(40) DEF Typed, Bases
    <2>2. BaseAt(n) \in Nat
      <3>1. n = 0 \/ n \in DOMAIN open
        BY <1>1, Tops
      <3> QED
        BY <3>1, Fields DEF BaseAt
    <2>3. /\ Len(sema) \in Nat /\ Len(vars) \in Nat /\ Len(scope_base) \in Nat
          /\ DOMAIN scope_base = 1 .. Len(scope_base)
      BY Tops
    <2>4. BaseAt(n) < Len(scope_base)
      BY <2>2, <2>3, <1>1
    <2>5. ScopeAt(n) \in Nat /\ ScopeAt(n) >= 1 /\ ScopeAt(n) <= Len(sema)
      BY <2>3, <1>1
    <2> QED
      BY <2>1, <2>2, <2>3, <2>4, <2>5, <1>1
  <1>3. /\ DOMAIN vars = 1 .. m /\ DOMAIN sema = 1 .. l
        /\ vars \in Seq(Entry) /\ sema \in Seq(Seq(Entry)) /\ scope_base \in Seq(Nat)
        /\ n \in Nat /\ n <= Len(open) /\ open \in Seq(Constructs)
    BY <1>1, <1>2, Tops DEF Typed
  <1>4. /\ vars' = SubSeq(vars, 1, h) /\ sema' = SubSeq(sema, 1, c)
        /\ scope_base' = SubSeq(scope_base, 1, a) /\ open' = SubSeq(open, 1, n)
    BY <1>1, <1>2
  <1>5. /\ DOMAIN vars' = 1 .. h /\ \A p \in 1 .. h : p \in 1 .. m /\ vars'[p] = vars[p]
    <2>0. h <= Len(vars) /\ h \in Nat
      BY <1>2
    <2>1. /\ DOMAIN SubSeq(vars, 1, h) = 1 .. h /\ 1 .. h \subseteq DOMAIN vars
          /\ \A p \in 1 .. h : SubSeq(vars, 1, h)[p] = vars[p]
      BY <2>0, <1>3, Prefix, SMTT(40)
    <2> QED
      BY <2>1, <1>3, <1>4
  <1>6. /\ DOMAIN sema' = 1 .. c /\ \A s \in 1 .. c : s \in 1 .. l /\ sema'[s] = sema[s]
    <2>0. c <= Len(sema) /\ c \in Nat
      BY <1>2
    <2>1. /\ DOMAIN SubSeq(sema, 1, c) = 1 .. c /\ 1 .. c \subseteq DOMAIN sema
          /\ \A s \in 1 .. c : SubSeq(sema, 1, c)[s] = sema[s]
      BY <2>0, <1>3, Prefix
    <2> QED
      BY <2>1, <1>3, <1>4
  <1>7. \A j \in 1 .. a : scope_base'[j] = scope_base[j]
    BY <1>2, <1>3, <1>4, Prefix
  <1>8. /\ DOMAIN open' = 1 .. n /\ \A k \in 1 .. n : k \in DOMAIN open /\ open'[k] = open[k]
    BY <1>3, <1>4, Prefix, SMTT(40)
  \* The variables that stay are those of the scopes that stay.
  <1>9. \A p \in 1 .. m : p <= h <=> vars[p].scope <= c
    <2> SUFFICES ASSUME NEW p \in 1 .. m PROVE p <= h <=> vars[p].scope <= c
      OBVIOUS
    <2>1. p <= scope_base[b] <=> vars[p].scope < open[n + 1].scope
      BY <1>1, <1>3 DEF Split
    <2>2. vars[p].scope \in 1 .. l
      BY <1>3 DEF Stands
    <2>3. open[n + 1].scope = c + 1
      BY <1>1, <1>2
    <2> QED
      BY <2>1, <2>2, <2>3, <1>2, SMTT(40)
  <1>10. Stands'
    <2> SUFFICES ASSUME NEW p \in 1 .. h
                 PROVE  /\ vars[p].scope \in 1 .. c
                        /\ vars[p].pos \in DOMAIN sema'[vars[p].scope]
                        /\ sema'[vars[p].scope][vars[p].pos] = vars[p]
      BY <1>5, <1>6 DEF Stands
    <2>1. /\ vars[p].scope \in 1 .. l /\ vars[p].pos \in DOMAIN sema[vars[p].scope]
          /\ sema[vars[p].scope][vars[p].pos] = vars[p]
      BY <1>3, <1>5 DEF Stands
    <2>2. vars[p].scope \in 1 .. c
      BY <2>1, <1>5, <1>9
    <2> QED
      BY <2>1, <2>2, <1>6
  <1>11. ASSUME Recorded PROVE Recorded'
    <2> SUFFICES ASSUME NEW s \in 1 .. c, s > 1, NEW j \in DOMAIN sema[s]
                 PROVE  /\ sema[s][j].scope = s /\ sema[s][j].pos = j
                        /\ \E p \in 1 .. h : vars[p] = sema[s][j]
      BY <1>5, <1>6, SMTT(40) DEF Recorded
    <2>0. s \in DOMAIN sema /\ s <= c
      BY <1>3, <1>6
    <2>1. PICK p \in DOMAIN vars : vars[p] = sema[s][j]
      BY <2>0, <1>11 DEF Recorded
    <2>2. sema[s][j].scope = s /\ sema[s][j].pos = j
      BY <2>0, <1>11 DEF Recorded
    <2>3. p \in 1 .. h
      <3>1. p \in 1 .. m /\ vars[p].scope <= c
        BY <2>0, <2>1, <2>2, <1>3
      <3>2. p <= h
        BY <3>1, <1>9
      <3> QED
        BY <3>1, <3>2, <1>2
    <2> QED
      BY <2>1, <2>2, <2>3
  <1>12. Ordered'
    <2> SUFFICES ASSUME NEW p \in 1 .. h, NEW q \in 1 .. h, p < q
                 PROVE  Before(vars[p], vars[q])
      BY <1>5 DEF Ordered, Before
    <2>1. p \in DOMAIN vars /\ q \in DOMAIN vars
      BY <1>3, <1>5
    <2> QED
      BY <2>1 DEF Ordered
  <1>13. Split'
    <2> SUFFICES ASSUME NEW k \in 1 .. n, PushesBase(open[k].form), NEW p \in 1 .. h
                 PROVE  p <= scope_base'[open[k].base] <=> vars[p].scope < open[k].scope
      BY <1>5, <1>8 DEF Split
    <2>1. k \in DOMAIN open /\ open[k].base \in DOMAIN scope_base /\ open[k].base \in Nat
      BY <1>8, BaseInRange, Fields
    <2>2. open[k].base <= a
      <3>1. n # 0 /\ n \in DOMAIN open /\ k <= n
        BY <1>8, <1>3
      <3>2. BaseAt(n) = open[n].base
        BY <3>1 DEF BaseAt
      <3> QED
        BY <3>1, <3>2, <2>1, <1>2 DEF Nested
    <2>3. scope_base'[open[k].base] = scope_base[open[k].base]
      <3>1. open[k].base \in 1 .. a
        BY <2>1, <2>2, Tops
      <3> QED
        BY <3>1, <1>7
    <2> QED
      BY <2>1, <2>3, <1>3, <1>5 DEF Split
  <1> QED
    BY <1>10, <1>11, <1>12, <1>13

-----------------------------------------------------------------------------
\* Functions is preserved.
LEMMA FnFacts ==
    ASSUME Structure, Functions
    PROVE  /\ Len(vmap) \in Nat /\ DOMAIN vmap = 1 .. Len(vmap)
           /\ open # <<>> => Len(vmap) >= 1
           /\ \A k \in DOMAIN open :
                /\ open[k].fn \in 1 .. Len(vmap)
                /\ FnAt(k - 1) \in 0 .. Len(vmap) /\ FnAt(k - 1) <= open[k].fn
                /\ open[k].form = "init" /\ k # Len(open) => open[k].fn < Len(vmap)
  <1> USE DEF Structure
  <1>1. PICK n \in Nat : n = Len(open) /\ DOMAIN open = 1 .. n /\ (open # <<>> => n # 0)
    <2>1. Len(open) \in Nat /\ DOMAIN open = 1 .. Len(open) /\ (open # <<>> => Len(open) \in DOMAIN open)
      BY Tops
    <2>2. open # <<>> => Len(open) # 0
      BY <2>1
    <2> QED
      BY <2>1, <2>2, Zenon
  <1>2. Len(vmap) \in Nat /\ DOMAIN vmap = 1 .. Len(vmap)
    BY DEF Typed
  <1>3. \A k \in 1 .. n : open[k].fn \in Nat
    BY <1>1, Fields
  <1>4. n # 0 => Len(vmap) = open[n].fn
    BY <1>1 DEF Functions, FnAt
  <1>5. n # 0 => open[1].fn = 1
    <2>1. n # 0 => open[1].fn = FnAt(0) + 1
      BY <1>1 DEF Functions
    <2> QED
      BY <2>1 DEF FnAt
  <1>6. ASSUME NEW k \in 1 .. n
        PROVE  /\ open[k].fn \in 1 .. Len(vmap)
               /\ FnAt(k - 1) \in 0 .. Len(vmap) /\ FnAt(k - 1) <= open[k].fn
               /\ open[k].form = "init" /\ k # Len(open) => open[k].fn < Len(vmap)
    <2>1. open[k].fn <= Len(vmap) /\ (open[k].form = "init" /\ k # n => open[k].fn < Len(vmap))
      BY <1>1, <1>2, <1>3, <1>4 DEF Functions
    <2>2. open[k].fn >= 1
      BY <1>1, <1>3, <1>5 DEF Functions
    <2>3. CASE k = 1
      <3>1. FnAt(k - 1) = 0
        BY <2>3 DEF FnAt
      <3> QED
        BY <3>1, <2>1, <2>2, <1>1, <1>2, <1>3
    <2>4. CASE k # 1
      <3>1. k - 1 \in 1 .. n /\ k - 1 < k /\ FnAt(k - 1) = open[k - 1].fn
        BY <2>4, <1>1 DEF FnAt
      <3>2. open[k - 1].fn <= open[k].fn /\ open[k - 1].fn \in Nat
        BY <3>1, <1>1, <1>3 DEF Functions
      <3> QED
        BY <3>1, <3>2, <2>1, <2>2, <1>1, <1>2, <1>3
    <2> QED
      BY <2>3, <2>4
  <1>7. open # <<>> => Len(vmap) >= 1
    BY <1>1, <1>2, <1>6
  <1> QED
    BY <1>1, <1>2, <1>6, <1>7

LEMMA OpeningKeepsFunctions ==
    ASSUME Structure, Functions, NEW c \in Constructs, open' = Append(open, c),
           vmap' \in Seq([Names -> Int]), c.fn = Len(vmap'),
           Len(vmap') = Len(vmap) + (IF IsFunction(c.form) THEN 1 ELSE 0),
           Here \in {"top", "init"} => IsFunction(c.form)
    PROVE  Functions'
  <1> USE DEF Structure
  <1>1. PICK n \in Nat : n = Len(open) /\ DOMAIN open = 1 .. n
    BY Tops
  <1>2. /\ Len(open') = n + 1 /\ DOMAIN open' = 1 .. n + 1 /\ open'[n + 1] = c
        /\ \A k \in 1 .. n : open'[k] = open[k]
    BY <1>1, AppendProperties DEF Typed
  <1>3. \A k \in 0 .. n : FnAt(k)' = FnAt(k)
    BY <1>1, <1>2 DEF FnAt
  <1>4. /\ Len(vmap) = FnAt(n) /\ Len(vmap) \in Nat /\ Len(vmap') \in Nat
        /\ \A k \in 1 .. n : open[k].fn \in 1 .. Len(vmap)
    BY <1>1, FnFacts DEF Functions
  <1>5. Len(vmap') = FnAt(Len(open))'
    BY <1>1, <1>2 DEF FnAt
  <1>6. ASSUME NEW k \in 1 .. n + 1
        PROVE  /\ open'[k].fn = FnAt(k - 1)' + (IF IsFunction(open'[k].form) THEN 1 ELSE 0)
               /\ k = 1 => IsFunction(open'[k].form)
    <2>1. CASE k \in 1 .. n
      <3>1. k - 1 \in 0 .. n
        BY <1>1, <2>1
      <3> QED
        BY <3>1, <2>1, <1>1, <1>2, <1>3 DEF Functions
    <2>2. CASE k = n + 1
      <3>1. FnAt(k - 1)' = Len(vmap)
        <4>1. k - 1 = n /\ n \in 0 .. n
          BY <2>2, <1>1
        <4> QED
          BY <4>1, <1>3, <1>4 DEF FnAt
      <3>2. k = 1 => Here = "top"
        BY <2>2, <1>1 DEF Here
      <3> QED
        BY <3>1, <3>2, <2>2, <1>2
    <2>3. k \in 1 .. n \/ k = n + 1
      BY <1>1
    <2> QED
      BY <2>1, <2>2, <2>3, Zenon
  <1>7. ASSUME NEW j \in 1 .. n + 1, NEW k \in 1 .. n + 1, j < k
        PROVE  open'[j].fn <= open'[k].fn /\ (open'[j].form = "init" => open'[j].fn < open'[k].fn)
    <2>1. j \in 1 .. n /\ open'[j] = open[j] /\ open[j].fn \in 1 .. Len(vmap)
      BY <1>1, <1>2, <1>4, <1>7
    <2>2. CASE k \in 1 .. n
      BY <2>1, <2>2, <1>1, <1>2, <1>7 DEF Functions
    <2>3. CASE k = n + 1
      <3>1. open'[k].fn = Len(vmap')
        BY <2>3, <1>2
      <3>2. open[j].form = "init" => open[j].fn < Len(vmap')
        <4>1. CASE j = n
          <5>1. Here = open[n].form
            BY <4>1, <2>1, <1>1 DEF Here, Top
          <5>2. open[j].form = "init" => IsFunction(c.form)
            BY <5>1, <4>1
          <5> QED
            BY <5>2, <2>1, <1>4
        <4>2. CASE j # n
          <5>1. open[j].form = "init" => open[j].fn < Len(vmap)
            BY <4>2, <2>1, <1>1, FnFacts
          <5>2. Len(vmap) <= Len(vmap')
            BY <1>4
          <5> QED
            BY <5>1, <5>2, <2>1, <1>4
        <4> QED
          BY <4>1, <4>2
      <3>3. open[j].fn <= Len(vmap')
        BY <2>1, <1>4
      <3> QED
        BY <3>1, <3>2, <3>3, <2>1
    <2>4. k \in 1 .. n \/ k = n + 1
      BY <1>1
    <2> QED
      BY <2>2, <2>3, <2>4, Zenon
  <1> QED
    BY <1>2, <1>5, <1>6, <1>7 DEF Functions

LEMMA CuttingKeepsFunctions ==
    ASSUME Structure, Functions, NEW n \in 0 .. Len(open), open' = SubSeq(open, 1, n),
           Len(vmap') = FnAt(n)
    PROVE  /\ Functions'
           /\ \A k \in 0 .. n : FnAt(k)' = FnAt(k)
  <1> USE DEF Structure
  <1>1. n \in Nat /\ n <= Len(open) /\ open \in Seq(Constructs)
    BY Tops DEF Typed
  <1>2. /\ Len(open') = n /\ DOMAIN open' = 1 .. n /\ 1 .. n \subseteq DOMAIN open
        /\ \A k \in 1 .. n : open'[k] = open[k]
    BY <1>1, Prefix, SMTT(40)
  <1>3. \A k \in 0 .. n : FnAt(k)' = FnAt(k)
    BY <1>1, <1>2 DEF FnAt
  <1>4. Len(vmap') = FnAt(Len(open))'
    BY <1>1, <1>2 DEF FnAt
  <1>5. ASSUME NEW k \in 1 .. n
        PROVE  /\ open'[k].fn = FnAt(k - 1)' + (IF IsFunction(open'[k].form) THEN 1 ELSE 0)
               /\ k = 1 => IsFunction(open'[k].form)
    <2>1. k - 1 \in 0 .. n
      BY <1>1
    <2> QED
      BY <2>1, <1>2, <1>3 DEF Functions
  <1>6. \A j, k \in 1 .. n : j < k =>
          open'[j].fn <= open'[k].fn /\ (open'[j].form = "init" => open'[j].fn < open'[k].fn)
    BY <1>2 DEF Functions
  <1> QED
    BY <1>2, <1>3, <1>4, <1>5, <1>6 DEF Functions

\* A close takes the value map of the function that ends with it, no other.
LEMMA ClosingFunctions ==
    ASSUME Structure, Functions, Close
    PROVE  /\ Len(vmap') = FnAt(Kept) /\ FnAt(Kept) \in 0 .. Len(vmap)
           /\ \A f \in 1 .. FnAt(Kept) : vmap'[f] = vmap[f]
  <1> USE DEF Structure
  <1>1. PICK n \in Nat : n = Len(open) /\ n \in DOMAIN open /\ DOMAIN open = 1 .. n /\ Here = open[n].form
    BY Tops DEF Close, Here, Top
  <1>2. /\ Len(vmap) = open[n].fn /\ Len(vmap) \in Nat /\ vmap \in Seq([Names -> Int])
        /\ open[n].fn = FnAt(n - 1) + (IF IsFunction(Here) THEN 1 ELSE 0)
        /\ FnAt(n - 1) \in Nat
    <2>1. open # <<>> /\ n # 0
      BY <1>1
    <2>2. FnAt(n - 1) \in Nat /\ Len(vmap) \in Nat
      BY <1>1, FnFacts
    <2> QED
      BY <2>1, <2>2, <1>1 DEF Functions, FnAt, Typed
  <1>3. ~IsFunction(Here)
    BY DEF Close, IsFunction
  <1>4. CASE ~IsBody(Here)
    <2>1. Kept = n - 1 /\ vmap' = vmap
      BY <1>1, <1>4 DEF Kept, Ends, Close
    <2>2. Len(vmap) = FnAt(n - 1)
      BY <1>2, <1>3
    <2> QED
      BY <2>1, <2>2, <1>2
  <1>5. CASE IsBody(Here)
    <2>1. Kept = n - 2 /\ vmap' = SubSeq(vmap, 1, Len(vmap) - 1)
      BY <1>1, <1>5 DEF Kept, Ends, Close, Pop
    <2>2. n > 1 /\ n - 1 \in DOMAIN open /\ IsFunction(open[n - 1].form)
      BY <1>1, <1>5 DEF Shape, IsBody, IsFunction
    <2>3. open[n - 1].fn = FnAt(n - 1 - 1) + 1 /\ FnAt(n - 1) = open[n - 1].fn
      <3>1. n - 1 # 0
        BY <2>2, <1>1
      <3> QED
        BY <3>1, <2>2 DEF Functions, FnAt
    <2>4. FnAt(n - 2) \in Nat /\ Len(vmap) = FnAt(n - 2) + 1
      <3>1. n - 1 - 1 = n - 2
        BY <1>1
      <3>2. FnAt(n - 1 - 1) \in Nat
        BY <2>2, FnFacts
      <3> QED
        BY <3>1, <3>2, <2>3, <1>2, <1>3
    <2>5. /\ Len(SubSeq(vmap, 1, FnAt(n - 2))) = FnAt(n - 2)
          /\ \A f \in 1 .. FnAt(n - 2) : SubSeq(vmap, 1, FnAt(n - 2))[f] = vmap[f]
      BY <2>4, <1>2, Prefix
    <2>6. Len(vmap) - 1 = FnAt(n - 2)
      BY <2>4
    <2> QED
      BY <2>1, <2>4, <2>5, <2>6
  <1> QED
    BY <1>4, <1>5

-----------------------------------------------------------------------------
\* Slots is preserved.
LEMMA DefinedVars ==
    ASSUME Structure, NEW x \in Names, NEW id \in Int, Define(id, x)
    PROVE  /\ Len(vars) \in Nat
           /\ \A p \in DOMAIN vars' :
                \/ p \in DOMAIN vars /\ vars'[p] = vars[p]
                \/ p = Len(vars) + 1 /\ vars'[p] = NewEntry(id, x)
  <1>1. PICK h \in Nat : h = Len(vars) /\ DOMAIN vars = 1 .. h /\ vars \in Seq(Entry)
    BY Tops DEF Structure, Typed
  <1>2. CASE vars' = vars
    BY <1>1, <1>2
  <1>3. CASE vars' = Append(vars, NewEntry(id, x))
    <2>1. /\ DOMAIN vars' = 1 .. h + 1 /\ vars'[h + 1] = NewEntry(id, x)
          /\ \A p \in 1 .. h : vars'[p] = vars[p]
      BY <1>1, <1>3, NewEntryTyped, AppendProperties
    <2>2. ASSUME NEW p \in 1 .. h + 1
          PROVE  \/ p \in DOMAIN vars /\ vars'[p] = vars[p]
                 \/ p = h + 1 /\ vars'[p] = NewEntry(id, x)
      <3>1. CASE p \in 1 .. h
        <4>1. p \in DOMAIN vars
          BY <3>1, <1>1
        <4>2. vars'[p] = vars[p]
          BY <3>1, <2>1
        <4> QED
          BY <4>1, <4>2
      <3>2. CASE p = h + 1
        BY <3>2, <2>1, Zenon
      <3>3. p \in 1 .. h \/ p = h + 1
        BY UpToOneMore
      <3> QED
        BY <3>1, <3>2, <3>3, Zenon
    <2> QED
      BY <2>1, <2>2, <1>1
  <1> QED
    BY <1>1, <1>2, <1>3, Defining

\* Naming a slot changes the value map of the function, at the name.
LEMMA Allocating ==
    ASSUME Structure, Functions, open # <<>>, NEW x \in Names, NEW id \in Int, Allocate(id, x)
    PROVE  /\ Len(vmap') = Len(vmap)
           /\ \A f \in 1 .. Len(vmap) : \A y \in Names :
                vmap'[f][y] = IF f = Len(vmap) /\ y = x THEN id ELSE vmap[f][y]
  <1>1. PICK f \in Nat : f = Len(vmap) /\ f \in DOMAIN vmap /\ DOMAIN vmap = 1 .. f
    <2>1. Len(vmap) \in Nat /\ DOMAIN vmap = 1 .. Len(vmap) /\ Len(vmap) >= 1
      BY FnFacts
    <2>2. Len(vmap) \in 1 .. Len(vmap)
      BY <2>1
    <2> QED
      BY <2>1, <2>2, Zenon
  <1>2. vmap \in Seq([Names -> Int]) /\ vmap[f] \in [Names -> Int]
    BY <1>1 DEF Structure, Typed
  <1>3. vmap' = [vmap EXCEPT ![f] = [vmap[f] EXCEPT ![x] = id]]
    BY <1>1 DEF Allocate
  <1>4. Len(vmap') = f
    BY <1>1, <1>2, <1>3
  <1>5. ASSUME NEW g \in 1 .. f, NEW y \in Names
        PROVE  vmap'[g][y] = IF g = f /\ y = x THEN id ELSE vmap[g][y]
    BY <1>1, <1>2, <1>3
  <1> QED
    BY <1>1, <1>4, <1>5

\* What sema does not see is no variable of the generator.
LEMMA Unseen ==
    ASSUME Structure, Stands, NEW x, ~Visible(x)
    PROVE  \A p \in DOMAIN vars : ~Is(vars[p], x, Len(vmap))
  BY DEF Visible, Stands, Is

\* A declaration, of a name the function has no variable of, whose slot is in
\* the value map.
LEMMA DefineKeepsSlots ==
    ASSUME Structure, Functions, Slots, open # <<>>,
           NEW x \in Names, NEW id \in Int, Define(id, x),
           Len(vmap') = Len(vmap),
           \A f \in 1 .. Len(vmap) : \A y \in Names :
              f # Len(vmap) \/ y # x => vmap'[f][y] = vmap[f][y],
           Fixed(x) => /\ \A p \in DOMAIN vars : ~Is(vars[p], x, Len(vmap))
                       /\ vmap'[Len(vmap)][x] = id,
           \A k \in DOMAIN open' :
              /\ k \in DOMAIN open /\ open'[k] = open[k] /\ FnAt(k - 1)' = FnAt(k - 1)
              /\ open[k].form = "init" => open[k].fn < Len(vmap)
    PROVE  Slots'
  <1> USE DEF Structure, Slots
  <1>1. PICK h \in Nat, f \in Nat, e \in {NewEntry(id, x)} :
          /\ h = Len(vars) /\ f = Len(vmap) /\ f \in 1 .. Len(vmap) /\ e = NewEntry(id, x)
          /\ DOMAIN vars = 1 .. h
          /\ e.name = x /\ e.fn = f /\ e.id = id /\ e.scope = Len(sema)
    <2>1. Len(vmap) \in Nat /\ Len(vmap) >= 1
      BY FnFacts
    <2>2. Len(vmap) \in 1 .. Len(vmap)
      BY <2>1
    <2>3. /\ NewEntry(id, x).name = x /\ NewEntry(id, x).fn = Len(vmap) /\ NewEntry(id, x).id = id
          /\ NewEntry(id, x).scope = Len(sema)
      BY DEF NewEntry
    <2> QED
      BY <2>1, <2>2, <2>3, Tops, Zenon
  <1>2. \A p \in DOMAIN vars' : (p \in 1 .. h /\ vars'[p] = vars[p]) \/ (p = h + 1 /\ vars'[p] = e)
    BY <1>1, DefinedVars
  <1>3. \A k \in DOMAIN open' :
          /\ k \in DOMAIN open /\ open'[k] = open[k] /\ FnAt(k - 1)' = FnAt(k - 1)
          /\ open[k].form = "init" => open[k].fn < f
          /\ open[k].scope \in Nat /\ open[k].scope <= Len(sema)
          /\ open[k].fn \in 1 .. f /\ open[k].name \in Names
    BY <1>1, BaseInRange, Fields, FnFacts
  <1>4. \A p \in 1 .. h : vars[p].fn \in 1 .. f /\ vars[p].name \in Names
    <2>1. \A p \in 1 .. h : vars[p] \in Entry
      BY <1>1 DEF Typed
    <2> QED
      BY <2>1, <1>1 DEF Owned, Entry
  <1>5. Owned'
    <2> SUFFICES ASSUME NEW p \in DOMAIN vars'
                 PROVE  /\ vars'[p].fn \in 1 .. f
                        /\ \A k \in DOMAIN open' : vars'[p].scope < open'[k].scope => vars'[p].fn <= FnAt(k - 1)'
      BY <1>1, Zenon DEF Owned
    <2>1. CASE p \in 1 .. h /\ vars'[p] = vars[p]
      BY <2>1, <1>1, <1>3, <1>4, Zenon DEF Owned
    <2>2. CASE p = h + 1 /\ vars'[p] = e
      <3>1. \A k \in DOMAIN open' : ~(e.scope < open'[k].scope)
        BY <1>1, <1>3, Tops
      <3> QED
        BY <2>2, <3>1, <1>1
    <2> QED
      BY <2>1, <2>2, <1>2
  <1>6. Single'
    <2> SUFFICES ASSUME NEW p \in DOMAIN vars', NEW q \in DOMAIN vars',
                        Fixed(vars'[p].name), Is(vars'[q], vars'[p].name, vars'[p].fn)
                 PROVE  p = q
      BY DEF Single, Fixed, Is
    <2>1. CASE p \in 1 .. h /\ vars'[p] = vars[p] /\ q \in 1 .. h /\ vars'[q] = vars[q]
      BY <2>1, <1>1 DEF Single
    <2>2. CASE p \in 1 .. h /\ vars'[p] = vars[p] /\ q = h + 1 /\ vars'[q] = e
      BY <2>2, <1>1 DEF Is
    <2>3. CASE p = h + 1 /\ vars'[p] = e /\ q \in 1 .. h /\ vars'[q] = vars[q]
      BY <2>3, <1>1 DEF Is
    <2>4. CASE p = h + 1 /\ q = h + 1
      BY <2>4
    <2> QED
      BY <2>1, <2>2, <2>3, <2>4, <1>2, Zenon
  <1>7. Pending'
    <2> SUFFICES ASSUME NEW k \in DOMAIN open', open'[k].form = "init", Fixed(open'[k].name)
                 PROVE  /\ \A p \in DOMAIN vars' : ~Is(vars'[p], open'[k].name, open'[k].fn)
                        /\ vmap'[open'[k].fn][open'[k].name] = open'[k].id
      BY DEF Pending, Fixed, Is
    <2>1. /\ k \in DOMAIN open /\ open'[k] = open[k] /\ open[k].form = "init" /\ Fixed(open[k].name)
          /\ open[k].fn \in 1 .. f /\ open[k].fn # f /\ open[k].name \in Names
      BY <1>3
    <2>2. ASSUME NEW p \in DOMAIN vars' PROVE ~Is(vars'[p], open[k].name, open[k].fn)
      <3>1. CASE p \in 1 .. h /\ vars'[p] = vars[p]
        BY <3>1, <2>1, <1>1 DEF Pending
      <3>2. CASE p = h + 1 /\ vars'[p] = e
        BY <3>2, <2>1, <1>1 DEF Is
      <3> QED
        BY <3>1, <3>2, <1>2
    <2>3. vmap'[open[k].fn][open[k].name] = vmap[open[k].fn][open[k].name]
      BY <2>1, <1>1
    <2>4. vmap[open[k].fn][open[k].name] = open[k].id
      BY <2>1 DEF Pending
    <2> QED
      BY <2>1, <2>2, <2>3, <2>4
  <1>8. Mapped'
    <2> SUFFICES ASSUME NEW p \in DOMAIN vars', Fixed(vars'[p].name)
                 PROVE  vmap'[vars'[p].fn][vars'[p].name] = vars'[p].id
      BY DEF Mapped, Fixed
    <2>1. CASE p \in 1 .. h /\ vars'[p] = vars[p]
      <3>1. vars[p].fn # f \/ vars[p].name # x
        BY <2>1, <1>1 DEF Is
      <3>2. vmap'[vars[p].fn][vars[p].name] = vmap[vars[p].fn][vars[p].name]
        BY <3>1, <2>1, <1>1, <1>4
      <3> QED
        BY <3>2, <2>1, <1>1 DEF Mapped
    <2>2. CASE p = h + 1 /\ vars'[p] = e
      BY <2>2, <1>1
    <2> QED
      BY <2>1, <2>2, <1>2
  <1> QED
    BY <1>5, <1>6, <1>7, <1>8

LEMMA DeclareKeepsSlots ==
    ASSUME Structure, Agreement, Functions, Slots, NEW x \in Names, Declare(x)
    PROVE  Functions' /\ Slots'
  <1>1. /\ Define(next, x) /\ Allocate(next, x) /\ next \in Int /\ open' = open
        /\ Here \notin {"top", "init"} /\ Declarable(x) /\ open # <<>>
    BY DEF Declare, Structure, Typed, Here
  <1>2. /\ Len(vmap') = Len(vmap)
        /\ \A f \in 1 .. Len(vmap) : \A y \in Names :
             vmap'[f][y] = IF f = Len(vmap) /\ y = x THEN next ELSE vmap[f][y]
    BY <1>1, Allocating
  <1>3. Len(vmap) \in 1 .. Len(vmap)
    BY <1>1, FnFacts
  <1>4. Fixed(x) => \A p \in DOMAIN vars : ~Is(vars[p], x, Len(vmap))
    BY <1>1, Unseen DEF Agreement, Fixed, Declarable
  <1>5. ASSUME NEW k \in DOMAIN open' 
        PROVE  /\ k \in DOMAIN open /\ open'[k] = open[k] /\ FnAt(k - 1)' = FnAt(k - 1)
               /\ open[k].form = "init" => open[k].fn < Len(vmap)
    <2>1. k \in DOMAIN open /\ open'[k] = open[k] /\ FnAt(k - 1)' = FnAt(k - 1)
      BY <1>1 DEF FnAt
    <2>2. open[k].form = "init" => k # Len(open)
      BY <1>1 DEF Here, Top
    <2> QED
      BY <2>1, <2>2, FnFacts
  <1>6. Slots'
    <2>1. \A f \in 1 .. Len(vmap) : \A y \in Names :
            f # Len(vmap) \/ y # x => vmap'[f][y] = vmap[f][y]
      BY <1>2
    <2>2. vmap'[Len(vmap)][x] = next
      BY <1>2, <1>3
    <2> QED
      BY <2>1, <2>2, <1>1, <1>2, <1>4, <1>5, DefineKeepsSlots
  <1>7. Functions'
    BY <1>1, <1>2 DEF Functions, FnAt
  <1> QED
    BY <1>6, <1>7

LEMMA EndTypedKeepsSlots ==
    ASSUME Structure, Functions, Slots, EndTyped
    PROVE  Functions' /\ Slots'
  <1>1. PICK n \in Nat : n = Len(open) /\ n \in DOMAIN open /\ DOMAIN open = 1 .. n
    BY Tops DEF Structure, EndTyped, Here
  <1>2. /\ Define(open[n].id, open[n].name) /\ open' = SubSeq(open, 1, n - 1) /\ vmap' = vmap
        /\ open[n].form = "init" /\ open # <<>>
    BY <1>1 DEF EndTyped, Here, Top, Pop
  <1>3. open[n].id \in Int /\ open[n].name \in Names
    BY <1>1, Fields DEF Structure
  <1>4. Len(vmap) = open[n].fn /\ Len(vmap) = FnAt(n - 1) /\ FnAt(n - 1) \in Nat
    <2>1. Len(vmap) = open[n].fn
      BY <1>1, <1>2 DEF Functions, FnAt
    <2>2. n \in DOMAIN open /\ ~IsFunction(open[n].form)
      BY <1>1, <1>2 DEF IsFunction
    <2>3. FnAt(n - 1) \in 0 .. Len(vmap) /\ Len(vmap) \in Nat
      BY <2>2, FnFacts
    <2>4. open[n].fn = FnAt(n - 1) + 0
      BY <2>2 DEF Functions
    <2> QED
      BY <2>1, <2>3, <2>4
  <1>5. n - 1 \in 0 .. Len(open) /\ n - 1 \in Nat /\ n - 1 <= Len(open)
    BY <1>1
  <1>6. Functions' /\ \A k \in 0 .. n - 1 : FnAt(k)' = FnAt(k)
    BY <1>2, <1>4, <1>5, CuttingKeepsFunctions
  <1>7. /\ DOMAIN open' = 1 .. n - 1 /\ 1 .. n - 1 \subseteq DOMAIN open
        /\ \A k \in 1 .. n - 1 : open'[k] = open[k]
    <2>1. open \in Seq(Constructs)
      BY DEF Structure, Typed
    <2> QED
      BY <2>1, <1>2, <1>5, Prefix, SMTT(40)
  <1>8. ASSUME NEW k \in DOMAIN open'
        PROVE  /\ k \in DOMAIN open /\ open'[k] = open[k] /\ FnAt(k - 1)' = FnAt(k - 1)
               /\ open[k].form = "init" => open[k].fn < Len(vmap)
    <2>1. k \in 1 .. n - 1 /\ k \in DOMAIN open /\ open'[k] = open[k]
      BY <1>7
    <2>2. k - 1 \in 0 .. n - 1 /\ k # Len(open)
      BY <2>1, <1>1
    <2> QED
      BY <2>1, <2>2, <1>6, FnFacts
  <1>9. Fixed(open[n].name) => /\ \A p \in DOMAIN vars : ~Is(vars[p], open[n].name, Len(vmap))
                               /\ vmap'[Len(vmap)][open[n].name] = open[n].id
    BY <1>1, <1>2, <1>4 DEF Slots, Pending
  <1>10. Slots'
    BY <1>2, <1>3, <1>8, <1>9, DefineKeepsSlots
  <1> QED
    BY <1>6, <1>10

\* Another construct is open; the variables are the same, and mean the same.
LEMMA OpeningKeepsSlots ==
    ASSUME Structure, Stands, Functions, Slots, NEW c \in Constructs, open' = Append(open, c),
           vars' = vars, c.scope \in {Len(sema), Len(sema) + 1},
           Len(vmap') \in Nat, Len(vmap) <= Len(vmap'),
           \A k \in DOMAIN open : open[k].form = "init" /\ Fixed(open[k].name) =>
              vmap'[open[k].fn][open[k].name] = vmap[open[k].fn][open[k].name],
           \A p \in DOMAIN vars : Fixed(vars[p].name) =>
              vmap'[vars[p].fn][vars[p].name] = vmap[vars[p].fn][vars[p].name],
           c.form = "init" /\ Fixed(c.name) =>
              /\ \A p \in DOMAIN vars : ~Is(vars[p], c.name, c.fn)
              /\ vmap'[c.fn][c.name] = c.id
    PROVE  Slots'
  <1> USE DEF Structure, Slots
  <1>1. PICK n \in Nat : n = Len(open) /\ DOMAIN open = 1 .. n
    BY Tops
  <1>2. /\ DOMAIN open' = 1 .. n + 1 /\ open'[n + 1] = c
        /\ \A k \in 1 .. n : open'[k] = open[k]
    BY <1>1, AppendProperties DEF Typed
  <1>3. \A k \in 0 .. n : FnAt(k)' = FnAt(k)
    BY <1>1, <1>2 DEF FnAt
  <1>4. Owned'
    <2> SUFFICES ASSUME NEW p \in DOMAIN vars
                 PROVE  /\ vars[p].fn \in 1 .. Len(vmap')
                        /\ \A k \in DOMAIN open' : vars[p].scope < open'[k].scope => vars[p].fn <= FnAt(k - 1)'
      BY Zenon DEF Owned
    <2>1. vars[p].fn \in 1 .. Len(vmap) /\ Len(vmap) \in Nat
      BY FnFacts DEF Owned
    <2>2. vars[p].fn \in 1 .. Len(vmap')
      BY <2>1
    <2>3. ASSUME NEW k \in 1 .. n + 1, vars[p].scope < open'[k].scope
          PROVE  vars[p].fn <= FnAt(k - 1)'
      <3>1. CASE k \in 1 .. n
        <4>1. k - 1 \in 0 .. n /\ open'[k] = open[k] /\ k \in DOMAIN open
          BY <3>1, <1>1, <1>2
        <4>2. FnAt(k - 1)' = FnAt(k - 1)
          BY <4>1, <1>3
        <4>3. vars[p].fn <= FnAt(k - 1)
          BY <4>1, <2>3 DEF Owned
        <4> QED
          BY <4>2, <4>3
      <3>2. CASE k = n + 1
        <4>1. k - 1 = n /\ n \in 0 .. n
          BY <3>2, <1>1
        <4>2. FnAt(k - 1)' = Len(vmap)
          BY <4>1, <1>1, <1>3 DEF Functions, FnAt
        <4> QED
          BY <4>2, <2>1
      <3>3. k \in 1 .. n \/ k = n + 1
        BY UpToOneMore
      <3> QED
        BY <3>1, <3>2, <3>3, Zenon
    <2> QED
      BY <2>2, <2>3, <1>2
  <1>5. Single'
    BY DEF Single, Fixed, Is
  <1>6. Pending'
    <2> SUFFICES ASSUME NEW k \in 1 .. n + 1, open'[k].form = "init", Fixed(open'[k].name)
                 PROVE  /\ \A p \in DOMAIN vars : ~Is(vars[p], open'[k].name, open'[k].fn)
                        /\ vmap'[open'[k].fn][open'[k].name] = open'[k].id
      BY <1>2 DEF Pending, Fixed, Is
    <2>1. CASE k \in 1 .. n
      <3>1. open'[k] = open[k] /\ k \in DOMAIN open
        BY <2>1, <1>1, <1>2
      <3> QED
        BY <3>1 DEF Pending
    <2>2. CASE k = n + 1
      BY <2>2, <1>2
    <2>3. k \in 1 .. n \/ k = n + 1
      BY UpToOneMore
    <2> QED
      BY <2>1, <2>2, <2>3, Zenon
  <1>7. Mapped'
    BY DEF Mapped, Fixed
  <1> QED
    BY <1>4, <1>5, <1>6, <1>7

LEMMA OpenKeepsSlots ==
    ASSUME Structure, Agreement, Functions, Slots, NEW form \in Forms, Open(form)
    PROVE  Functions' /\ Slots'
  <1>1. /\ vars' = vars /\ sema' = Append(sema, <<>>)
        /\ open' = Append(open, Construct(form, None, AnyName))
        /\ vmap' = IF IsFunction(form) THEN Append(vmap, [x \in Names |-> None]) ELSE vmap
        /\ form # "init" /\ MayOpen(form)
    BY DEF Open
  <1>2. vmap' \in Seq([Names -> Int]) /\ sema' \in Seq(Seq(Entry)) /\ scope_base' \in Seq(Nat)
    BY OpenKeepsStructure DEF Structure, Typed
  <1>3. AnyName \in Names /\ None \in Int
    BY NamesAssumption DEF AnyName, None
  <1>4. PICK c \in Constructs :
          open' = Append(open, c) /\ c.form = form /\ c.scope = Len(sema') /\ c.fn = Len(vmap')
    BY <1>1, <1>2, <1>3, ConstructTyped
  <1>5. /\ Len(vmap') = Len(vmap) + (IF IsFunction(form) THEN 1 ELSE 0) /\ Len(vmap) \in Nat
        /\ \A f \in 1 .. Len(vmap) : vmap'[f] = vmap[f]
    <2>1. vmap \in Seq([Names -> Int]) /\ [x \in Names |-> None] \in [Names -> Int]
      BY <1>3 DEF Structure, Typed
    <2> QED
      BY <2>1, <1>1, AppendProperties
  <1>6. Here \in {"top", "init"} => IsFunction(form)
    BY <1>1 DEF MayOpen, IsFunction
  <1>7. Functions'
    BY <1>2, <1>4, <1>5, <1>6, OpeningKeepsFunctions
  <1>8. c.scope = Len(sema) + 1
    <2>1. sema \in Seq(Seq(Entry)) /\ <<>> \in Seq(Entry)
      BY DEF Structure, Typed
    <2> QED
      BY <2>1, <1>1, <1>4
  <1>9. /\ \A k \in DOMAIN open : vmap'[open[k].fn] = vmap[open[k].fn]
        /\ \A p \in DOMAIN vars : vmap'[vars[p].fn] = vmap[vars[p].fn]
    BY <1>5, FnFacts DEF Slots, Owned
  <1>10. Len(vmap') \in Nat /\ Len(vmap) <= Len(vmap')
    BY <1>5
  <1>11. Slots'
    BY <1>1, <1>4, <1>8, <1>9, <1>10, OpeningKeepsSlots DEF Agreement
  <1> QED
    BY <1>7, <1>11

LEMMA BeginTypedKeepsSlots ==
    ASSUME Structure, Agreement, Functions, Slots, NEW x \in Names, BeginTyped(x)
    PROVE  Functions' /\ Slots'
  <1>1. /\ Allocate(next, x) /\ next \in Int /\ sema' = sema /\ vars' = vars
        /\ scope_base' = scope_base /\ open' = Append(open, Construct("init", next, x))
        /\ Here \notin {"top", "init"} /\ Declarable(x) /\ open # <<>>
    BY DEF BeginTyped, Structure, Typed, Here
  <1>2. vmap' \in Seq([Names -> Int]) /\ sema' \in Seq(Seq(Entry)) /\ scope_base' \in Seq(Nat)
        /\ "init" \in Forms
    BY BeginTypedKeepsStructure DEF Structure, Typed, Forms
  <1>3. PICK c \in Constructs :
          /\ open' = Append(open, c) /\ c.form = "init" /\ c.scope = Len(sema) /\ c.fn = Len(vmap')
          /\ c.id = next /\ c.name = x
    BY <1>1, <1>2, ConstructTyped
  <1>4. /\ Len(vmap') = Len(vmap) /\ Len(vmap) \in Nat
        /\ \A f \in 1 .. Len(vmap) : \A y \in Names :
             vmap'[f][y] = IF f = Len(vmap) /\ y = x THEN next ELSE vmap[f][y]
    BY <1>1, Allocating, FnFacts
  <1>5. Len(vmap) \in 1 .. Len(vmap)
    BY <1>1, FnFacts
  <1>6. Fixed(x) => \A p \in DOMAIN vars : ~Is(vars[p], x, Len(vmap))
    BY <1>1, Unseen DEF Agreement, Fixed, Declarable
  <1>7. Functions'
    <2>1. Len(vmap') = Len(vmap) + (IF IsFunction(c.form) THEN 1 ELSE 0)
      BY <1>3, <1>4 DEF IsFunction
    <2> QED
      BY <2>1, <1>1, <1>2, <1>3, OpeningKeepsFunctions
  <1>8. ASSUME NEW k \in DOMAIN open, open[k].form = "init"
        PROVE  vmap'[open[k].fn][open[k].name] = vmap[open[k].fn][open[k].name]
    <2>1. k # Len(open)
      BY <1>1, <1>8 DEF Here, Top
    <2>2. open[k].fn \in 1 .. Len(vmap) /\ open[k].fn < Len(vmap) /\ open[k].name \in Names
      BY <2>1, <1>8, FnFacts, Fields DEF Structure
    <2> QED
      BY <2>2, <1>4
  <1>9. ASSUME NEW p \in DOMAIN vars, Fixed(vars[p].name)
        PROVE  vmap'[vars[p].fn][vars[p].name] = vmap[vars[p].fn][vars[p].name]
    <2>1. vars[p] \in Entry
      BY DEF Structure, Typed
    <2>2. vars[p].name \in Names /\ vars[p].fn \in 1 .. Len(vmap)
      BY <2>1 DEF Slots, Owned, Entry
    <2>3. ~(vars[p].fn = Len(vmap) /\ vars[p].name = x)
      BY <1>6, <1>9 DEF Is
    <2> QED
      BY <2>2, <2>3, <1>4
  <1>10. Fixed(c.name) => /\ \A p \in DOMAIN vars : ~Is(vars[p], c.name, c.fn)
                          /\ vmap'[c.fn][c.name] = c.id
    BY <1>3, <1>4, <1>5, <1>6
  <1>11. Len(vmap') \in Nat /\ Len(vmap) <= Len(vmap')
    BY <1>4
  <1>12. Slots'
    BY <1>1, <1>3, <1>8, <1>9, <1>10, <1>11, OpeningKeepsSlots DEF Agreement
  <1> QED
    BY <1>7, <1>12

\* The variables a close leaves are of functions it leaves.
LEMMA CloseKeepsSlots ==
    ASSUME Structure, Agreement, Functions, Slots, Close
    PROVE  Functions' /\ Slots'
  <1> USE DEF Structure, Slots
  <1>1. PICK n \in 0 .. Len(open) - 1, b \in DOMAIN scope_base :
          /\ n = Kept
          /\ n + 1 \in DOMAIN open /\ PushesBase(open[n + 1].form) /\ open[n + 1].base = b
          /\ open' = SubSeq(open, 1, n)
          /\ vars' = SubSeq(vars, 1, scope_base[b])
    BY Closed
  <1>2. PICK h \in Nat : h = scope_base[b] /\ h <= Len(vars)
    BY <1>1, SMTT(40) DEF Typed, Bases
  <1>3. PICK f \in Nat : /\ f = FnAt(n) /\ f <= Len(vmap) /\ Len(vmap) \in Nat /\ Len(vmap') = f
                         /\ \A g \in 1 .. f : g \in 1 .. Len(vmap) /\ vmap'[g] = vmap[g]
    BY <1>1, ClosingFunctions, FnFacts
  <1>4. n \in Nat /\ n \in 0 .. Len(open) /\ n <= Len(open) /\ n + 1 - 1 = n
    BY <1>1, Tops
  <1>5. Functions' /\ \A k \in 0 .. n : FnAt(k)' = FnAt(k)
    BY <1>1, <1>3, <1>4, CuttingKeepsFunctions
  <1>6. /\ DOMAIN vars' = 1 .. h
        /\ \A p \in 1 .. h : p \in DOMAIN vars /\ vars'[p] = vars[p]
    <2>1. vars \in Seq(Entry)
      BY DEF Typed
    <2> QED
      BY <2>1, <1>1, <1>2, Prefix, SMTT(40)
  <1>7. /\ DOMAIN open' = 1 .. n /\ \A k \in 1 .. n : k \in DOMAIN open /\ open'[k] = open[k]
    <2>1. open \in Seq(Constructs)
      BY DEF Typed
    <2> QED
      BY <2>1, <1>1, <1>4, Prefix, SMTT(40)
  <1>8. ASSUME NEW p \in 1 .. h PROVE vars[p].fn \in 1 .. f
    <2>1. p \in DOMAIN vars /\ p <= scope_base[open[n + 1].base]
      BY <1>1, <1>2, <1>6
    <2>2. vars[p].scope < open[n + 1].scope
      BY <2>1, <1>1 DEF Agreement, Split
    <2>3. vars[p].fn \in 1 .. Len(vmap) /\ vars[p].fn <= FnAt(n + 1 - 1)
      BY <2>1, <2>2, <1>1 DEF Owned
    <2> QED
      BY <2>3, <1>3, <1>4
  <1>9. Owned'
    <2> SUFFICES ASSUME NEW p \in 1 .. h
                 PROVE  /\ vars[p].fn \in 1 .. f
                        /\ \A k \in 1 .. n : vars[p].scope < open[k].scope => vars[p].fn <= FnAt(k - 1)'
      BY <1>3, <1>6, <1>7 DEF Owned
    <2>1. ASSUME NEW k \in 1 .. n, vars[p].scope < open[k].scope PROVE vars[p].fn <= FnAt(k - 1)'
      <3>1. k - 1 \in 0 .. n
        BY <1>4
      <3>2. vars[p].fn <= FnAt(k - 1)
        BY <2>1, <1>6, <1>7 DEF Owned
      <3> QED
        BY <3>1, <3>2, <1>5
    <2> QED
      BY <2>1, <1>8
  <1>10. Single'
    BY <1>6 DEF Single, Fixed, Is
  <1>11. Pending'
    <2> SUFFICES ASSUME NEW k \in 1 .. n, open[k].form = "init", Fixed(open[k].name)
                 PROVE  /\ \A p \in 1 .. h : ~Is(vars[p], open[k].name, open[k].fn)
                        /\ vmap'[open[k].fn][open[k].name] = open[k].id
      BY <1>6, <1>7 DEF Pending, Fixed, Is
    <2>1. k \in DOMAIN open
      BY <1>7
    <2>2. open[k].fn \in 1 .. f
      <3>1. k <= n /\ n # 0 /\ n \in DOMAIN open /\ f = open[n].fn
        BY <1>3, <1>4, <1>7 DEF FnAt
      <3>2. open[k].fn <= open[n].fn /\ open[k].fn \in 1 .. Len(vmap)
        <4>1. open[k].fn \in 1 .. Len(vmap)
          BY <2>1, FnFacts
        <4>2. CASE k = n
          BY <4>1, <4>2, <1>3
        <4>3. CASE k # n
          <5>1. k < n
            BY <4>3, <3>1, <1>4
          <5> QED
            BY <5>1, <4>1, <3>1, <2>1 DEF Functions
        <4> QED
          BY <4>2, <4>3
      <3> QED
        BY <3>1, <3>2, <1>3
    <2> QED
      BY <2>1, <2>2, <1>3, <1>6 DEF Pending
  <1>12. Mapped'
    BY <1>3, <1>6, <1>8 DEF Mapped, Fixed
  <1> QED
    BY <1>5, <1>9, <1>10, <1>11, <1>12

-----------------------------------------------------------------------------
-----------------------------------------------------------------------------
\* The root scope keeps to the constants: whatever else is declared is declared
\* inside a function.
LEMMA RootStays ==
    ASSUME Root, consts' = consts, sema'[1] = sema[1]
    PROVE  Root'
  BY DEF Root

LEMMA ScopeOfFunction ==
    ASSUME Structure, Functions, open # <<>>
    PROVE  Len(sema) \in Nat /\ Len(sema) > 1 /\ DOMAIN sema = 1 .. Len(sema)
  <1> USE DEF Structure
  <1>1. /\ Len(open) \in DOMAIN open /\ 1 \in DOMAIN open /\ 1 <= Len(open)
        /\ Len(open) \in Nat
    BY Tops
  <1>2. IsFunction(open[1].form)
    BY <1>1 DEF Functions
  <1>3. open[1].form # "init"
    BY <1>2 DEF IsFunction
  <1>4. open[1].scope = 2
    BY <1>1, <1>3 DEF Shape, ScopeAt
  <1>5. open[1].scope <= open[Len(open)].scope /\ open[Len(open)].scope \in Nat
    BY <1>1, Fields DEF Nested
  <1>6. Len(sema) = open[Len(open)].scope
    BY <1>1 DEF Shape, ScopeAt
  <1>7. DOMAIN sema = 1 .. Len(sema)
    BY DEF Typed
  <1> QED
    BY <1>4, <1>5, <1>6, <1>7

LEMMA OpenKeepsRoot ==
    ASSUME Structure, Root, NEW form \in Forms, Open(form)
    PROVE  Root'
  <1>1. consts' = consts /\ sema' = Append(sema, <<>>)
    BY DEF Open
  <1>2. sema \in Seq(Seq(Entry)) /\ 1 \in 1 .. Len(sema)
    BY Tops DEF Structure, Typed
  <1>3. <<>> \in Seq(Entry)
    OBVIOUS
  <1>4. sema'[1] = sema[1]
    BY <1>1, <1>2, <1>3, AppendProperties
  <1> QED
    BY <1>1, <1>4, RootStays

LEMMA DefineKeepsRoot ==
    ASSUME Structure, Functions, Root, NEW x, NEW id, Define(id, x), open # <<>>, consts' = consts
    PROVE  Root'
  <1>1. 1 \in DOMAIN sema /\ Len(sema) # 1
    BY ScopeOfFunction
  <1>2. sema' = [sema EXCEPT ![Len(sema)] = Append(sema[Len(sema)], NewEntry(id, x))]
    BY DEF Define
  <1>3. sema'[1] = sema[1]
    BY <1>1, <1>2
  <1> QED
    BY <1>3, RootStays

LEMMA DeclareKeepsRoot ==
    ASSUME Structure, Functions, Root, NEW x \in Names, Declare(x)
    PROVE  Root'
  <1>1. Define(next, x) /\ consts' = consts /\ open # <<>>
    BY DEF Declare, Here
  <1> QED
    BY <1>1, DefineKeepsRoot

LEMMA BeginTypedKeepsRoot ==
    ASSUME Root, NEW x \in Names, BeginTyped(x)
    PROVE  Root'
  BY RootStays DEF BeginTyped

LEMMA EndTypedKeepsRoot ==
    ASSUME Structure, Functions, Root, EndTyped
    PROVE  Root'
  <1>1. Define(Top(open).id, Top(open).name) /\ consts' = consts /\ open # <<>>
    BY DEF EndTyped, Here
  <1> QED
    BY <1>1, DefineKeepsRoot

LEMMA CloseKeepsRoot ==
    ASSUME Structure, Root, Close
    PROVE  Root'
  <1>1. PICK n \in 0 .. Len(open) - 1 :
             ScopeAt(n) \in 1 .. Len(sema) /\ sema' = SubSeq(sema, 1, ScopeAt(n))
    BY Closed
  <1>2. sema \in Seq(Seq(Entry)) /\ Len(sema) \in Nat
    BY Tops DEF Structure, Typed
  <1>3. 1 \in 1 .. ScopeAt(n) /\ ScopeAt(n) \in Nat /\ ScopeAt(n) <= Len(sema)
    BY <1>1, <1>2
  <1>4. sema'[1] = sema[1]
    BY <1>1, <1>2, <1>3, Prefix
  <1> QED
    BY <1>4, RootStays DEF Close

\* A constant declared again changes nothing but the root scope, at its end.
LEMMA DeclareConstKeeps ==
    ASSUME IInv, DeclareConst
    PROVE  IInv'
  <1>0. Structure /\ Root /\ Agreement /\ (~dropped => Recorded) /\ Functions /\ Slots
    BY DEF IInv
  <1>1. PICK l \in Nat, m \in Nat, i \in Nat :
          /\ l = Len(sema) /\ m = Len(consts) /\ i = Len(sema[1]) /\ 1 \in 1 .. l
          /\ DOMAIN sema = 1 .. l /\ sema[1] \in Seq(Entry) /\ DOMAIN sema[1] = 1 .. i
          /\ m <= i /\ i < 2 * m /\ consts \in [1 .. m -> Names]
    <2>1. /\ Len(sema) \in Nat /\ 1 \in 1 .. Len(sema) /\ DOMAIN sema = 1 .. Len(sema)
          /\ sema \in Seq(Seq(Entry))
      BY <1>0, Tops DEF Structure, Typed
    <2>2. sema[1] \in Seq(Entry)
      BY <2>1
    <2>3. Len(sema[1]) \in Nat /\ DOMAIN sema[1] = 1 .. Len(sema[1])
      BY <2>2
    <2>4. consts \in Seq(Names) /\ Len(consts) <= Len(sema[1])
      BY <1>0 DEF Root
    <2>5. Len(consts) \in Nat /\ consts \in [1 .. Len(consts) -> Names]
      BY <2>4
    <2>6. Len(sema[1]) < 2 * Len(consts)
      BY DEF DeclareConst
    <2> QED
      BY <2>1, <2>2, <2>3, <2>4, <2>5, <2>6
  <1>2. PICK e \in Entry : e.fn = 0 /\ sema' = [sema EXCEPT ![1] = Append(sema[1], e)]
    <2> DEFINE x == consts[i - m + 1]
    <2>1. i - m + 1 \in 1 .. m
      BY <1>1
    <2>2. x \in Names
      BY <2>1, <1>1
    <2> HIDE DEF x
    <2>3. TopEntry(x, i + 1) \in Entry /\ TopEntry(x, i + 1).fn = 0
      BY <2>2 DEF TopEntry, Entry, None
    <2>4. sema' = [sema EXCEPT ![1] = Append(sema[1], TopEntry(x, i + 1))]
      BY <1>1 DEF DeclareConst, x
    <2> QED
      BY <2>3, <2>4
  <1>3. /\ Append(sema[1], e) \in Seq(Entry) /\ Len(Append(sema[1], e)) = i + 1
        /\ DOMAIN Append(sema[1], e) = 1 .. i + 1 /\ Append(sema[1], e)[i + 1] = e
        /\ \A j \in 1 .. i : Append(sema[1], e)[j] = sema[1][j]
    BY <1>1, AppendProperties
  <1>4. /\ sema' \in Seq(Seq(Entry)) /\ Len(sema') = l /\ DOMAIN sema' = 1 .. l
        /\ sema'[1] = Append(sema[1], e) /\ \A s \in 1 .. l : s # 1 => sema'[s] = sema[s]
    BY <1>0, <1>1, <1>2, <1>3 DEF Structure, Typed
  <1>5. /\ consts' = consts /\ open' = open /\ vars' = vars /\ scope_base' = scope_base
        /\ vmap' = vmap /\ next' = next /\ dropped' = dropped
    BY DEF DeclareConst
  <1>6. Structure'
    BY <1>0, <1>1, <1>4, <1>5 DEF Structure, Typed, Shape, Nested, Bases, ScopeAt, BaseAt
  <1>7. Root'
    BY <1>0, <1>1, <1>2, <1>3, <1>4, <1>5 DEF Root
  <1>8. Stands'
    <2> SUFFICES ASSUME NEW p \in DOMAIN vars
                 PROVE  /\ vars[p].scope \in DOMAIN sema' /\ vars[p].pos \in DOMAIN sema'[vars[p].scope]
                        /\ sema'[vars[p].scope][vars[p].pos] = vars[p]
      BY <1>5 DEF Stands
    <2>1. /\ vars[p].scope \in 1 .. l /\ vars[p].pos \in DOMAIN sema[vars[p].scope]
          /\ sema[vars[p].scope][vars[p].pos] = vars[p]
      BY <1>0, <1>1 DEF Agreement, Stands
    <2>2. CASE vars[p].scope = 1
      <3>1. vars[p].pos \in 1 .. i /\ vars[p].pos \in 1 .. i + 1
        BY <2>1, <2>2, <1>1
      <3> QED
        BY <3>1, <2>1, <2>2, <1>1, <1>3, <1>4
    <2>3. CASE vars[p].scope # 1
      BY <2>1, <2>3, <1>4
    <2> QED
      BY <2>2, <2>3
  <1>9. Agreement' /\ (~dropped' => Recorded')
    <2>1. Ordered' /\ Split'
      BY <1>0, <1>5 DEF Agreement, Ordered, Before, Split
    <2>2. ASSUME ~dropped' PROVE Recorded'
      <3> SUFFICES ASSUME NEW s \in 1 .. l, s > 1, NEW j \in DOMAIN sema'[s]
                   PROVE  /\ sema'[s][j].scope = s /\ sema'[s][j].pos = j
                          /\ \E p \in DOMAIN vars : vars[p] = sema'[s][j]
        BY <1>4, <1>5 DEF Recorded
      <3>1. sema'[s] = sema[s] /\ s \in DOMAIN sema
        BY <1>1, <1>4
      <3> QED
        BY <3>1, <2>2, <1>0, <1>5 DEF Recorded
    <2> QED
      BY <2>1, <2>2, <1>8 DEF Agreement
  <1>10. Functions' /\ Slots'
    BY <1>0, <1>5 DEF Functions, FnAt, Slots, Owned, Single, Pending, Mapped, Fixed, Is
  <1> QED
    BY <1>6, <1>7, <1>9, <1>10 DEF IInv

-----------------------------------------------------------------------------
LEMMA StepPreserves == IInv /\ [Next]_tables => IInv'
  <1> SUFFICES ASSUME IInv, [Next]_tables PROVE IInv'
    OBVIOUS
  <1>0. Structure /\ Root /\ Agreement /\ (~dropped => Recorded) /\ Functions /\ Slots
    BY DEF IInv
  <1>1. ASSUME NEW form \in Forms, Open(form) PROVE IInv'
    <2>1. dropped' = dropped
      BY <1>1 DEF Open
    <2> QED
      BY <2>1, <1>0, <1>1, OpenKeepsStructure, OpenKeepsAgreement, OpenKeepsSlots,
         OpenKeepsRoot DEF IInv
  <1>2. ASSUME NEW x \in Names, Declare(x) PROVE IInv'
    <2>1. Structure'
      BY <1>0, <1>2, DeclareKeepsStructure
    <2>2. Agreement' /\ (~dropped' => Recorded')
      <3>1. Define(next, x) /\ next \in Int /\ open' = open /\ scope_base' = scope_base
        BY <1>0, <1>2 DEF Declare, Structure, Typed
      <3>2. ~dropped' => Recorded
        BY <3>1, <1>0, Defining
      <3> QED
        BY <3>1, <3>2, <1>0, DefineKeepsAgreement
    <2> QED
      BY <2>1, <2>2, <1>0, <1>2, DeclareKeepsSlots, DeclareKeepsRoot DEF IInv
  <1>3. ASSUME NEW x \in Names, BeginTyped(x) PROVE IInv'
    <2>1. dropped' = dropped
      BY <1>3 DEF BeginTyped
    <2> QED
      BY <2>1, <1>0, <1>3, BeginTypedKeepsStructure, BeginTypedKeepsAgreement,
         BeginTypedKeepsSlots, BeginTypedKeepsRoot DEF IInv
  <1>4. ASSUME EndTyped PROVE IInv'
    <2>1. Structure'
      BY <1>0, <1>4, EndTypedKeepsStructure
    <2>2. Agreement' /\ (~dropped' => Recorded')
      <3>1. PICK n \in Nat : n = Len(open) /\ DOMAIN open = 1 .. n
        BY <1>0, Tops DEF Structure
      <3>2. n \in DOMAIN open /\ Top(open) = open[n]
        BY <3>1, <1>0, <1>4, Tops DEF EndTyped, Here, Top, Structure
      <3>3. /\ Define(open[n].id, open[n].name) /\ scope_base' = scope_base
            /\ open' = SubSeq(open, 1, n - 1)
        BY <3>1, <3>2, <1>4 DEF EndTyped, Pop
      <3>4. open[n].id \in Int /\ open[n].name \in Names
        BY <3>2, <1>0, Fields DEF Structure
      <3>5. ~dropped' => Recorded
        BY <3>3, <3>4, <1>0, Defining
      <3>6. \A k \in DOMAIN open' : k \in DOMAIN open /\ open'[k] = open[k]
        <4>1. n - 1 \in Nat /\ n - 1 <= Len(open) /\ open \in Seq(Constructs)
          BY <3>1, <3>2, <1>0 DEF Structure, Typed
        <4>2. /\ DOMAIN SubSeq(open, 1, n - 1) = 1 .. n - 1 /\ 1 .. n - 1 \subseteq DOMAIN open
              /\ \A k \in 1 .. n - 1 : SubSeq(open, 1, n - 1)[k] = open[k]
          BY <4>1, Prefix
        <4> QED
          BY <4>2, <3>3
      <3> QED
        BY <3>3, <3>4, <3>5, <3>6, <1>0, DefineKeepsAgreement
    <2> QED
      BY <2>1, <2>2, <1>0, <1>4, EndTypedKeepsSlots, EndTypedKeepsRoot DEF IInv
  <1>5. ASSUME Close PROVE IInv'
    <2>1. dropped' = dropped
      BY <1>5 DEF Close
    <2> QED
      BY <2>1, <1>0, <1>5, CloseKeepsStructure, CloseKeepsAgreement, CloseKeepsSlots,
         CloseKeepsRoot DEF IInv
  <1>6. CASE UNCHANGED tables
    <2>0. /\ consts' = consts /\ open' = open /\ sema' = sema /\ vars' = vars /\ scope_base' = scope_base
          /\ vmap' = vmap /\ next' = next /\ dropped' = dropped
      BY <1>6 DEF tables
    <2>1. Structure'
      BY <1>0, <2>0 DEF Structure, Typed, Shape, Nested, Bases, ScopeAt, BaseAt
    <2>2. Agreement' /\ (~dropped' => Recorded')
      BY <1>0, <2>0 DEF Agreement, Stands, Recorded, Ordered, Before, Split
    <2>3. Functions' /\ Slots'
      BY <1>0, <2>0 DEF Functions, FnAt, Slots, Owned, Single, Pending, Mapped, Fixed, Is
    <2>4. Root'
      BY <1>0, <2>0 DEF Root
    <2> QED
      BY <2>1, <2>2, <2>3, <2>4 DEF IInv
  <1>7. ASSUME DeclareConst PROVE IInv'
    BY <1>0, <1>7, DeclareConstKeeps
  <1> QED
    BY <1>1, <1>2, <1>3, <1>4, <1>5, <1>6, <1>7 DEF Next

LEMMA Invariance == Spec => []IInv
  BY Initially, StepPreserves, PTL DEF Spec

\* The tables of the passes are always well typed: sema has a scope to define
\* in, the variable stack stays within its array, and every scope_push of the
\* generator is undone by the scope_pop of its construct.
THEOREM TypeCorrect == Spec => []TypeOK
  <1>1. IInv => TypeOK
    <2> SUFFICES ASSUME IInv PROVE TypeOK
      OBVIOUS
    <2>1. Typed /\ Shape /\ Nested
      BY DEF IInv, Structure
    <2>2. Len(sema) >= 1
      BY <2>1, Tops
    <2>3. Len(scope_base) = (IF open = <<>> THEN 0 ELSE Top(open).base)
      BY <2>1 DEF Typed, Shape, BaseAt, Top
    <2>4. consts \in Seq(Names)
      BY DEF IInv, Root
    <2> QED
      BY <2>1, <2>2, <2>3, <2>4 DEF TypeOK, Typed
  <1> QED
    BY <1>1, Invariance, PTL

\* What the code generator takes an identifier for is always in scope to sema;
\* until its stack overflows it finds the declarations sema finds, whatever
\* scopes, initialisers and lambdas are open, but for constants at the top
\* level: those it does not know.
THEOREM SamePlace == Spec => []TablesAgree
  <1>1. IInv => TablesAgree
    <2> SUFFICES ASSUME IInv, NEW x \in Names, NEW d \in Entries
                 PROVE  /\ VarLookup(x, d) => d \in InScope
                        /\ ~dropped => (VarLookup(x, d) <=> SemaLookup(x, d) /\ d.fn # 0)
      BY DEF TablesAgree
    <2>1. /\ Structure /\ Root /\ Stands /\ Ordered /\ Owned
          /\ ~dropped => Recorded
      BY DEF IInv, Agreement, Slots
    <2>2. \A p \in DOMAIN vars : p \in Nat
      BY <2>1 DEF Structure, Typed
    <2>3. \A s \in DOMAIN sema : s \in Nat /\ s >= 1 /\ \A i \in DOMAIN sema[s] : i \in Nat
      BY <2>1 DEF Structure, Typed
    <2>4. ASSUME NEW p \in DOMAIN vars, vars[p] = d
          PROVE  /\ d.scope \in DOMAIN sema /\ d.pos \in DOMAIN sema[d.scope]
                 /\ sema[d.scope][d.pos] = d /\ d.fn # 0 /\ d.scope # 1
      <3>1. d.scope \in DOMAIN sema /\ d.pos \in DOMAIN sema[d.scope] /\ sema[d.scope][d.pos] = d
        BY <2>1, <2>4 DEF Stands
      <3>2. d.fn # 0
        BY <2>1, <2>4 DEF Owned
      <3> QED
        BY <3>1, <3>2, <2>1 DEF Root
    <2>5. VarLookup(x, d) => d \in InScope
      BY <2>4 DEF VarLookup, InScope
    <2>6. ASSUME ~dropped, VarLookup(x, d) PROVE SemaLookup(x, d) /\ d.fn # 0
      <3>1. PICK p \in DOMAIN vars :
              vars[p] = d /\ d.name = x /\ \A q \in DOMAIN vars : q > p => vars[q].name # x
        BY <2>6 DEF VarLookup
      <3>2. /\ d.scope \in DOMAIN sema /\ d.pos \in DOMAIN sema[d.scope]
            /\ sema[d.scope][d.pos] = d /\ d.fn # 0 /\ d.scope # 1
        BY <3>1, <2>4
      \* An entry of the name after d would be a variable after p.
      <3>3. ASSUME NEW t \in DOMAIN sema, NEW j \in DOMAIN sema[t],
                   d.scope < t \/ (d.scope = t /\ d.pos < j)
            PROVE  sema[t][j].name # x
        <4>0. t > 1
          BY <3>2, <3>3, <2>3
        <4>1. PICK q \in DOMAIN vars : vars[q] = sema[t][j]
          BY <4>0, <2>1, <2>6 DEF Recorded
        <4>2. vars[q].scope = t /\ vars[q].pos = j
          BY <4>0, <4>1, <2>1, <2>6 DEF Recorded
        <4>3. ~(q < p) /\ q # p
          BY <4>2, <3>1, <3>2, <3>3, <2>1, <2>3 DEF Ordered, Before
        <4> QED
          BY <4>1, <4>3, <3>1, <2>2
      <3> QED
        BY <3>1, <3>2, <3>3, <2>3 DEF SemaLookup
    <2>7. ASSUME ~dropped, SemaLookup(x, d), d.fn # 0 PROVE VarLookup(x, d)
      <3>1. PICK s \in DOMAIN sema : \E i \in DOMAIN sema[s] :
              /\ sema[s][i] = d /\ d.name = x
              /\ \A j \in DOMAIN sema[s] : j > i => sema[s][j].name # x
              /\ \A t \in DOMAIN sema : t > s => \A j \in DOMAIN sema[t] : sema[t][j].name # x
        BY <2>7 DEF SemaLookup
      <3>2. PICK i \in DOMAIN sema[s] :
              /\ sema[s][i] = d /\ d.name = x
              /\ \A j \in DOMAIN sema[s] : j > i => sema[s][j].name # x
              /\ \A t \in DOMAIN sema : t > s => \A j \in DOMAIN sema[t] : sema[t][j].name # x
        BY <3>1
      <3>0. s > 1
        BY <3>2, <2>1, <2>3, <2>7 DEF Root
      <3>3. PICK p \in DOMAIN vars : vars[p] = d
        BY <3>0, <3>2, <2>1, <2>7 DEF Recorded
      <3>4. d.scope = s /\ d.pos = i
        BY <3>0, <3>2, <2>1, <2>7 DEF Recorded
      <3>5. ASSUME NEW q \in DOMAIN vars, q > p PROVE vars[q].name # x
        <4>1. /\ vars[q].scope \in DOMAIN sema /\ vars[q].pos \in DOMAIN sema[vars[q].scope]
              /\ sema[vars[q].scope][vars[q].pos] = vars[q]
          BY <2>1 DEF Stands
        <4>2. Before(d, vars[q])
          BY <3>3, <3>5, <2>1, <2>2 DEF Ordered
        <4>3. s < vars[q].scope \/ (s = vars[q].scope /\ i < vars[q].pos)
          BY <4>2, <3>4 DEF Before
        <4> QED
          BY <4>1, <4>3, <3>2, <2>3
      <3> QED
        BY <3>2, <3>3, <3>5 DEF VarLookup
    <2> QED
      BY <2>5, <2>6, <2>7
  <1> QED
    BY <1>1, Invariance, PTL

\* A load or store reaches the alloca of the declaration meant, of any name
\* the function does not redeclare where it is visible, whatever scopes have
\* ended and lambdas been generated since (the value map of llvm_emit.c knows
\* neither).
THEOREM SameSlot == Spec => []LoadsReachTheirDeclaration
  <1>1. IInv => LoadsReachTheirDeclaration
    BY DEF IInv, Slots, Mapped, Fixed, LoadsReachTheirDeclaration, Top
  <1> QED
    BY <1>1, Invariance, PTL
=============================================================================
