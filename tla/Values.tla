------------------------------- MODULE Values -------------------------------
(***************************************************************************)
(* Integer expressions from the type checker (infer of tc.c) through the   *)
(* code generator (emit_expr of codegen.c) to the LLVM emitter (rval of    *)
(* llvm_emit.c), executed node by node beside what the program means.      *)
(* emit_expr emits the code of a node's operands from left to right and    *)
(* then its own, so an expression is a sequence of nodes in postfix order  *)
(* that work on a stack of operands.                                       *)
(*                                                                         *)
(* A kind is a TypeKind of the checker, a type one of LLVM.  bool, char,   *)
(* int and long are modelled.  A register holds a signed value of the      *)
(* width of its type; true is -1, the value of an i1 with its bit set.     *)
(***************************************************************************)
EXTENDS Integers, Sequences

CONSTANTS Vars, NoVar,
          Bits,            \* the width of each type
          Powers,          \* Powers[n] = 2^n, below the width of i64
          Literals,        \* values of literals
          Arguments,       \* values the function's parameters may have
          Operators,       \* the binary operators used, a bound
          MaxNodes, MaxStatements   \* bounds

Kinds == {"bool", "char", "int", "long"}
Types == {"i1", "i8", "i32", "i64"}

Divisions == {"/", "%"}
Shifts == {"<<", ">>", ">>>"}
Comparisons == {"==", "!=", "<", ">", "<=", ">="}
BinaryOps == {"+", "-", "*"} \union Divisions \union Shifts \union Comparisons

ASSUME VarsAssumption == NoVar \notin Vars
ASSUME BitsAssumption ==
    /\ Bits \in [Types -> Nat \ {0}]
    /\ Bits["i1"] = 1 /\ Bits["i8"] <= Bits["i32"] /\ Bits["i32"] <= Bits["i64"]
ASSUME PowersAssumption ==
    /\ Powers \in [0 .. Bits["i64"] - 1 -> Nat]
    /\ \A n \in DOMAIN Powers : Powers[n] = IF n = 0 THEN 1 ELSE 2 * Powers[n - 1]
ASSUME BoundsAssumption ==
    /\ Operators \subseteq BinaryOps
    /\ Literals \subseteq Nat /\ Arguments \subseteq Int
    /\ MaxNodes \in Nat /\ MaxStatements \in Nat

VARIABLES kinds,      \* the checker's table of variables: the kind of each, or "none"
          types,      \* the generator's: the type of each slot
          slots,      \* the slots, as registers
          means,      \* the value of each variable by the meaning of the program
          stack,      \* operands of the expression under way
          compound,   \* the compound assignment under way, or NoCompound
          nodes, statements   \* counters of the bounds

vars == <<kinds, types, slots, means, stack, compound, nodes, statements>>

-----------------------------------------------------------------------------
\* LLVM's integers.
Half(t) == Powers[Bits[t] - 1]
Wrap(t, v) == ((v + Half(t)) % (2 * Half(t))) - Half(t)
Range(t) == -Half(t) .. Half(t) - 1

Reg(v, t) == [v |-> v, t |-> t]
Constant(v) == Reg(v, "const")

Sign(v) == IF v < 0 THEN -1 ELSE 1
Abs(v) == Sign(v) * v
Quotient(a, b) == Sign(a) * Sign(b) * (Abs(a) \div Abs(b))

CompoundOps == {"+", "-", "*", "/", "%", "<<", ">>"}

\* The exact result, and where an operation has none.
Exact(op, a, b, t) ==
    CASE op = "+" -> a + b
      [] op = "-" -> a - b
      [] op = "*" -> a * b
      [] op = "/" -> Quotient(a, b)
      [] op = "%" -> a - b * Quotient(a, b)
      [] op = "<<" -> a * Powers[b]
      [] op = ">>" -> a \div Powers[b]
      [] op = ">>>" -> (a % (2 * Half(t))) \div Powers[b]
Defined(op, a, b, t) ==
    /\ op \in Divisions => b # 0 /\ ~(a = -Half(t) /\ b = -1)
    /\ op \in Shifts => b \in 0 .. Bits[t] - 1
Holds(op, a, b) ==
    CASE op = "==" -> a = b
      [] op = "!=" -> a # b
      [] op = "<" -> a < b
      [] op = ">" -> a > b
      [] op = "<=" -> a <= b
      [] op = ">=" -> a >= b

\* Mutant: coerce_v leaves a wider register as it is.
rval_KeepsWide(x, t) == Reg(x.v, t)
\* An instruction takes its sources at its type: constants are cut to it,
\* registers truncated or sign extended.
rval(x, t) == Reg(Wrap(t, x.v), t)
Operate(op, x, y, t) == Reg(Wrap(t, Exact(op, rval(x, t).v, rval(y, t).v, t)), t)
Compare(op, x, y, t) == Reg(IF Holds(op, rval(x, t).v, rval(y, t).v) THEN -1 ELSE 0, "i1")

-----------------------------------------------------------------------------
\* The type checker.
promote(a, b) == IF "long" \in {a, b} THEN "long" ELSE "int"
is_integral(k) == k # "char"
InferBinary(op, a, b) == IF op \in Comparisons THEN "bool" ELSE promote(a, b)
\* Operands tc reports as E0004: the program is not run.
Rejected(op, a, b) == op \in {"<<", ">>"} /\ ~(is_integral(a) /\ is_integral(b))

\* The code generator.
typekind_to_llvm(k) == CASE k = "bool" -> "i1" [] k = "char" -> "i8"
                         [] k = "int" -> "i32" [] k = "long" -> "i64"
KindOfType(t) == CASE t = "i1" -> "bool" [] t = "i8" -> "char"
                   [] t = "i32" -> "int" [] t = "i64" -> "long"

type_for_op(lt, rt) == IF "i64" \in {lt, rt} THEN "i64"
                       ELSE IF lt = "i8" /\ rt = "i8" THEN "i8" ELSE "i32"
\* Mutant: ZEXT in the place of SEXT.
coerce_to_ZeroExtends(x, from, to) ==
    IF from = to THEN x ELSE rval(Constant(rval(x, from).v % (2 * Half(from))), to)
\* SEXT or TRUNC, unless the types are the same.
coerce_to(x, from, to) == IF from = to THEN x ELSE rval(rval(x, from), to)
\* Mutant: what is computed as an i64 is an int to the nodes above.
KindOfResult_Int(t) == "int"
KindOfResult(t) == IF t = "i64" THEN "long" ELSE "int"

-----------------------------------------------------------------------------
\* What a program means: numbers of a kind are wrapped to its width, and an
\* operation takes place at the kind the checker infers.  Booleans are 0 and 1.
Numeric == Kinds \ {"bool"}
Value(k) == IF k = "bool" THEN {0, 1} ELSE Range(typekind_to_llvm(k))
In(k, v) == Wrap(typekind_to_llvm(k), v)
Meaning(op, a, b, ka, kb) ==
    IF op \in Comparisons THEN IF Holds(op, a, b) THEN 1 ELSE 0
    ELSE In(promote(ka, kb), Exact(op, a, b, typekind_to_llvm(promote(ka, kb))))
\* A value converted to another kind.
Converted(k, m) == IF k = "bool" THEN m ELSE In(k, m)
\* The register of a value.
Image(k, m) == IF k = "bool" THEN -m ELSE m

\* Where the code means something else than the program: booleans among
\* numbers (true is extended to -1) and, unless they are compared, two
\* characters (added in 8 bits, as an int).
Plain(op, a, b) == \/ a \in Numeric /\ b \in Numeric /\ (op \in Comparisons \/ {a, b} # {"char"})
                   \/ a = "bool" /\ b = "bool" /\ op \in {"==", "!="}
Convertible(from, to) == (from = "bool") <=> (to = "bool")
\* x op= e takes place in the kind of x, which a wider e is cut to beforehand.
Narrower(a, b) == Bits[typekind_to_llvm(a)] < Bits[typekind_to_llvm(b)]
PlainCompound(op, a, b) == /\ a \in Numeric /\ b \in Numeric
                           /\ op \in Divisions \union Shifts => ~Narrower(a, b)

-----------------------------------------------------------------------------
NoCompound == [var |-> NoVar]
Undeclared == {x \in Vars : kinds[x] = "none"}
Declared == Vars \ Undeclared

\* An operand: its register or constant, the kinds the generator and the
\* checker give its node, its value, and the variable if it is an identifier.
Operand(val, gen, tc, mean) == [val |-> val, gen |-> gen, tc |-> tc, mean |-> mean, id |-> NoVar]
TypeOf(o) == typekind_to_llvm(o.gen)      \* ast_type_str

Top == stack[Len(stack)]
Below == stack[Len(stack) - 1]

\* A node, if those left after it suffice to combine the operands.
Node(needed) == /\ statements < MaxStatements
              /\ nodes' = nodes + 1 /\ nodes' + needed <= MaxNodes
              /\ UNCHANGED <<kinds, types, compound, statements>>
Push(o) == /\ Node(Len(stack))
           /\ stack' = Append(stack, o)
           /\ UNCHANGED <<slots, means>>
Replace(o) == /\ Node(Len(stack) - 1)
              /\ stack' = [stack EXCEPT ![Len(stack)] = o]

Literal(k, n) ==
    /\ n < IF k = "char" THEN 2 * Half("i8") ELSE IF k = "bool" THEN 2 ELSE Half(typekind_to_llvm(k))
    /\ Push(Operand(Constant(n), k, k, IF k = "char" THEN In(k, n) ELSE n))

Identifier(x) ==
    /\ x \in Declared
    /\ Push([Operand(rval(slots[x], types[x]), KindOfType(types[x]), kinds[x], means[x]) EXCEPT !.id = x])

\* !, - and ~
Not == /\ stack # <<>> /\ Top.tc = "bool"
       /\ Replace(Operand(Compare("==", Top.val, Constant(0), "i1"), "bool", "bool", 1 - Top.mean))
       /\ UNCHANGED <<slots, means>>
Negate == /\ stack # <<>> /\ Top.tc \in Numeric
          /\ Replace(Operand(Operate("-", Constant(0), Top.val, TypeOf(Top)), Top.gen, Top.tc,
                             In(Top.tc, -Top.mean)))
          /\ UNCHANGED <<slots, means>>
Complement == /\ stack # <<>> /\ Top.tc \in Numeric /\ is_integral(Top.tc)
              /\ Replace(Operand(Operate("-", Constant(-1), Top.val, TypeOf(Top)), Top.gen, Top.tc,
                                 In(Top.tc, -1 - Top.mean)))
              /\ UNCHANGED <<slots, means>>

\* Mutant: x++ is the new value.
Step_AlwaysNew(op, prefix) ==
    /\ stack # <<>> /\ Top.id # NoVar /\ Top.tc \in Numeric
    /\ LET new == Operate(op, Top.val, Constant(1), TypeOf(Top))
           to == In(Top.tc, Exact(op, Top.mean, 1, TypeOf(Top)))
       IN  /\ Replace(Operand(new, Top.gen, Top.tc, IF prefix THEN to ELSE Top.mean))
           /\ slots' = [slots EXCEPT ![Top.id] = rval(new, TypeOf(Top))]
           /\ means' = [means EXCEPT ![Top.id] = to]
\* ++ and -- of a variable, before or after: the store has the type of the operand.
Step(op, prefix) ==
    /\ stack # <<>> /\ Top.id # NoVar /\ Top.tc \in Numeric
    /\ LET new == Operate(op, Top.val, Constant(1), TypeOf(Top))
           to == In(Top.tc, Exact(op, Top.mean, 1, TypeOf(Top)))
       IN  /\ Replace(Operand(IF prefix THEN new ELSE Top.val, Top.gen, Top.tc,
                              IF prefix THEN to ELSE Top.mean))
           /\ slots' = [slots EXCEPT ![Top.id] = rval(new, TypeOf(Top))]
           /\ means' = [means EXCEPT ![Top.id] = to]

Binary(op) ==
    /\ Len(stack) > 1
    /\ ~Rejected(op, Below.tc, Top.tc) /\ Plain(op, Below.tc, Top.tc)
    /\ Defined(op, Below.mean, Top.mean, typekind_to_llvm(promote(Below.tc, Top.tc)))
    /\ LET t == type_for_op(TypeOf(Below), TypeOf(Top))
           x == coerce_to(Below.val, TypeOf(Below), t)
           y == coerce_to(Top.val, TypeOf(Top), t)
       IN  stack' = Append(SubSeq(stack, 1, Len(stack) - 2),
                           Operand(IF op \in Comparisons THEN Compare(op, x, y, t) ELSE Operate(op, x, y, t),
                                   IF op \in Comparisons THEN "bool" ELSE KindOfResult(t),
                                   InferBinary(op, Below.tc, Top.tc),
                                   Meaning(op, Below.mean, Top.mean, Below.tc, Top.tc)))
    /\ Node(Len(stack) - 2)
    /\ UNCHANGED <<slots, means>>

Cast(k) == /\ stack # <<>> /\ Convertible(Top.tc, k)
           /\ Replace(Operand(coerce_to(Top.val, TypeOf(Top), typekind_to_llvm(k)), k, k,
                              Converted(k, Top.mean)))
           /\ UNCHANGED <<slots, means>>

\* A call of a function of one parameter that returns it: the argument is
\* coerced to the parameter, the parameter to the type of the function.  What
\* comes back as an i8 is taken for a pointer.
Call(param, ret) ==
    /\ stack # <<>> /\ Convertible(Top.tc, param) /\ Convertible(param, ret) /\ ret # "char"
    /\ LET p == typekind_to_llvm(param)
           r == typekind_to_llvm(ret)
           slot == rval(coerce_to(Top.val, TypeOf(Top), p), p)
       IN  Replace(Operand(rval(coerce_to(slot, p, r), r), KindOfType(r), ret,
                           Converted(ret, Converted(param, Top.mean))))
    /\ UNCHANGED <<slots, means>>

-----------------------------------------------------------------------------
\* Statements end an expression.
EndStatement == /\ statements' = statements + 1
                /\ stack' = <<>> /\ compound' = NoCompound /\ UNCHANGED nodes
Complete == Len(stack) = 1 /\ statements < MaxStatements
Whole == Complete /\ compound = NoCompound

emit_store(x, val, t) == slots' = [slots EXCEPT ![x] = rval(val, t)]

ExprStmt == /\ Whole /\ EndStatement
            /\ UNCHANGED <<kinds, types, slots, means>>

\* A declaration without a type takes the one inferred, in each pass.
Declare(x) ==
    /\ Whole /\ x \in Undeclared
    /\ kinds' = [kinds EXCEPT ![x] = Top.tc]
    /\ types' = [types EXCEPT ![x] = TypeOf(Top)]
    /\ emit_store(x, Top.val, TypeOf(Top))
    /\ means' = [means EXCEPT ![x] = Top.mean]
    /\ EndStatement

DeclareTyped(x, k) ==
    /\ Whole /\ x \in Undeclared /\ Convertible(Top.tc, k)
    /\ LET t == typekind_to_llvm(k)
       IN  /\ kinds' = [kinds EXCEPT ![x] = k]
           /\ types' = [types EXCEPT ![x] = t]
           /\ emit_store(x, coerce_to(Top.val, TypeOf(Top), t), t)
           /\ means' = [means EXCEPT ![x] = Converted(k, Top.mean)]
    /\ EndStatement

\* Without a value it holds zero, and without a type it is an int.
DeclareEmpty(x, k) ==
    /\ stack = <<>> /\ compound = NoCompound /\ statements < MaxStatements /\ x \in Undeclared
    /\ kinds' = [kinds EXCEPT ![x] = k]
    /\ types' = [types EXCEPT ![x] = typekind_to_llvm(k)]
    /\ emit_store(x, Constant(0), typekind_to_llvm(k))
    /\ means' = [means EXCEPT ![x] = 0]
    /\ EndStatement

Assign(x) ==
    /\ Whole /\ x \in Declared /\ Convertible(Top.tc, kinds[x])
    /\ emit_store(x, coerce_to(Top.val, TypeOf(Top), types[x]), types[x])
    /\ means' = [means EXCEPT ![x] = Converted(kinds[x], Top.mean)]
    /\ EndStatement
    /\ UNCHANGED <<kinds, types>>

\* x op= e loads x before the code of e and stores it after.
BeginCompound(x, op) ==
    /\ stack = <<>> /\ compound = NoCompound /\ statements < MaxStatements
    /\ x \in Declared /\ kinds[x] \in Numeric
    /\ compound' = [var |-> x, op |-> op, val |-> rval(slots[x], types[x]), mean |-> means[x]]
    /\ UNCHANGED <<kinds, types, slots, means, stack, nodes, statements>>

EndCompound ==
    /\ Complete /\ compound # NoCompound
    /\ LET x == compound.var
           op == compound.op
           t == types[x]
           new == Operate(op, compound.val, coerce_to(Top.val, TypeOf(Top), t), t)
       IN  /\ PlainCompound(op, kinds[x], Top.tc)
           /\ Defined(op, compound.mean, Top.mean, typekind_to_llvm(kinds[x]))
           /\ emit_store(x, new, t)
           /\ means' = [means EXCEPT ![x] = In(kinds[x], Meaning(op, compound.mean, Top.mean, kinds[x], Top.tc))]
    /\ EndStatement
    /\ UNCHANGED <<kinds, types>>

-----------------------------------------------------------------------------
\* The function is entered with some variables as parameters, stored at their types.
Init ==
    /\ kinds \in [Vars -> Kinds \union {"none"}]
    /\ types = [x \in Vars |-> IF kinds[x] = "none" THEN "none" ELSE typekind_to_llvm(kinds[x])]
    /\ means \in [Vars -> Arguments \union {0}]
    /\ \A x \in Vars : IF kinds[x] = "none" THEN means[x] = 0 ELSE means[x] \in Value(kinds[x])
    /\ slots = [x \in Vars |-> Reg(Image(kinds[x], means[x]), types[x])]
    /\ stack = <<>> /\ compound = NoCompound
    /\ nodes = 0 /\ statements = 0

Next ==
    \/ \E k \in Kinds, n \in Literals : Literal(k, n)
    \/ \E x \in Vars : Identifier(x)
    \/ Not \/ Negate \/ Complement
    \/ \E op \in {"+", "-"}, prefix \in BOOLEAN : Step(op, prefix)
    \/ \E op \in Operators : Binary(op)
    \/ \E k \in Kinds : Cast(k)
    \/ \E param, ret \in Kinds : Call(param, ret)
    \/ ExprStmt
    \/ \E x \in Vars : Declare(x) \/ Assign(x)
    \/ \E x \in Vars, k \in Kinds : DeclareTyped(x, k) \/ DeclareEmpty(x, k)
    \/ \E x \in Vars, op \in CompoundOps \intersect Operators : BeginCompound(x, op)
    \/ EndCompound

Spec == Init /\ [][Next]_vars

-----------------------------------------------------------------------------
Registers == {r \in [v : Int, t : Types] : r.v \in Range(r.t)}

TypeOK ==
    /\ kinds \in [Vars -> Kinds \union {"none"}]
    /\ types \in [Vars -> Types \union {"none"}]
    /\ DOMAIN slots = Vars /\ \A x \in Declared : slots[x] \in Registers
    /\ means \in [Vars -> Int]
    /\ compound = NoCompound \/ compound.var \in Declared
    /\ \A i \in DOMAIN stack : /\ stack[i].gen \in Kinds /\ stack[i].tc \in Kinds
                               /\ stack[i].id \in Declared \union {NoVar}
    /\ nodes \in 0..MaxNodes /\ statements \in 0..MaxStatements

(* Every pass takes every node for the same: the kind the checker inferred is
   the one the generator went by, and the register has that type.  The checker's
   kind decides whether + concatenates, the generator's which instruction and
   which conversions are emitted, and a declaration without a type keeps
   either for all later uses of the variable. *)
TypesAgree ==
    /\ \A i \in DOMAIN stack : /\ stack[i].gen = stack[i].tc
                               /\ stack[i].val.t \in {TypeOf(stack[i]), "const"}
    /\ \A x \in Declared : /\ types[x] = typekind_to_llvm(kinds[x])
                           /\ slots[x].t = types[x]

(* Whatever was evaluated, assigned or counted up in the middle of an
   expression, every slot holds the value its variable has by the meaning of
   the program. *)
SlotsHoldVariables == \A x \in Declared : slots[x].v = Image(kinds[x], means[x])

(* An operand computed is what its expression means, also when the variables in
   it have changed since: by ++ to its right, or before the second half of
   a compound assignment. *)
OperandsKeepMeaning ==
    /\ \A i \in DOMAIN stack : rval(stack[i].val, TypeOf(stack[i])).v = Image(stack[i].tc, stack[i].mean)
    /\ compound # NoCompound => compound.val.v = Image(kinds[compound.var], compound.mean)
=============================================================================
