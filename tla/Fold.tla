-------------------------------- MODULE Fold --------------------------------
(***************************************************************************)
(* Constant folding in the optimizer (fold_block and peephole_block of     *)
(* opt.c) against what the LLVM emitter makes of the same instructions     *)
(* (rval, coerce_v and the integer operations of llvm_emit.c).  A function *)
(* of integer slots and temporaries is built block by block, optimised     *)
(* pass by pass as mir_opt does, and executed before and after.            *)
(*                                                                         *)
(* Not modelled: floating point, and constants outside the signed range of *)
(* the type they are used at, for which folding disagrees with LLVM: the   *)
(* divisions and the right shift of fold_block take them as signed 64 bit  *)
(* values, and peephole_block extends the constant 1 of type i1 to 1 where *)
(* LLVM extends it to -1.                                                  *)
(***************************************************************************)
EXTENDS Integers, Sequences, FiniteSets

CONSTANTS Slots,        \* allocas
          WidthOf,      \* the width of the type of each slot
          Widths,       \* widths of the integer types
          HostWidth,    \* of long long in the compiler
          Powers,       \* Powers[n] = 2^n
          MAX_DEFS,     \* capacity of defs
          MAX_PASSES,   \* iterations of fold_block
          Literals, StoreLiterals, Memories,  \* constants of operations, of stores, and
                                              \* the values slots start with
          MaxInstrs, MaxBlocks, OpCost,   \* bounds: an operation takes the room of OpCost others
          MaxPath       \* blocks run one after the other

ASSUME WidthsAssumption ==
    /\ HostWidth \in Nat \ {0} /\ Widths \subseteq 1 .. HostWidth
    /\ WidthOf \in [Slots -> Widths]
ASSUME PowersAssumption ==
    /\ Powers \in [0 .. HostWidth -> Nat]
    /\ \A n \in 0 .. HostWidth : Powers[n] = IF n = 0 THEN 1 ELSE 2 * Powers[n - 1]
ASSUME CapacityAssumption == MAX_DEFS \in Nat /\ MAX_PASSES \in Nat
ASSUME BoundsAssumption ==
    /\ Literals \union StoreLiterals \subseteq Int /\ Memories \subseteq [Slots -> Int]
    /\ MaxInstrs \in Nat /\ MaxBlocks \in Nat /\ OpCost \in Nat \ {0} /\ MaxPath \in Nat

VARIABLES source,   \* the blocks the code generator emitted
          tmp,      \* Codegen.tmp: the temporaries numbered so far
          room,     \* bound: what is left of MaxInstrs
          blocks,   \* the blocks of the function as optimised so far
          phase,    \* "build", "fold" or "done"
          pass      \* folding passes done

vars == <<source, tmp, room, blocks, phase, pass>>

BinOps == {"add", "sub", "mul", "div", "mod", "and", "or", "xor", "shl", "shr"}

\* Operands: a constant, or a temporary by its number.
Const(c) == [const |-> TRUE, v |-> c]
Temp(t) == [const |-> FALSE, v |-> t]

\* The value of the lowest w bits of v in two's complement.
Half(w) == Powers[w - 1]
Signed(v, w) == ((v + Half(w)) % Powers[w]) - Half(w)
InRange(c, w) == c = Signed(c, w)
\* Division and remainder of C and LLVM round towards zero.
Sign(v) == IF v < 0 THEN -1 ELSE 1
Abs(v) == Sign(v) * v
Quotient(a, b) == Sign(a) * Sign(b) * (Abs(a) \div Abs(b))
Remainder(a, b) == a - b * Quotient(a, b)

\* Bit by bit, the lowest w of them.
BitOps == {"and", "or", "xor"}
Bit(v, k) == (v \div Powers[k]) % 2
Sets(op, p, q) == CASE op = "and" -> p = 1 /\ q = 1
                    [] op = "or" -> p = 1 \/ q = 1
                    [] op = "xor" -> p # q
Bitwise(op, a, b, w) ==
    LET low[k \in 0 .. HostWidth] ==
          IF k = 0 THEN 0
          ELSE low[k - 1] + (IF Sets(op, Bit(a, k - 1), Bit(b, k - 1)) THEN Powers[k - 1] ELSE 0)
    IN  low[w]

-----------------------------------------------------------------------------
\* Execution, by LLVM's rules.  A register holds a signed value and its
\* width; an operation without a defined result leaves Poison.
Poison == [v |-> 0, w |-> 0]
IsPoison(r) == r.w = 0

\* coerce_v: truncate or sign extend to the width asked for.
coerce_v(r, w) == IF IsPoison(r) THEN Poison ELSE [v |-> Signed(r.v, w), w |-> w]
rval(env, x, w) == IF x.const THEN [v |-> Signed(x.v, w), w |-> w] ELSE coerce_v(env.temps[x.v], w)

\* Shifts by the width or more, and division by zero or of the least value by
\* -1, are undefined.
Undefined(op, a, b, w) ==
    \/ op \in {"shl", "shr"} /\ b % Powers[w] >= w
    \/ op \in {"div", "mod"} /\ (b = 0 \/ (a = -Half(w) /\ b = -1))
Compute(op, a, b, w) ==
    CASE op = "add" -> a + b
      [] op = "sub" -> a - b
      [] op = "mul" -> a * b
      [] op = "div" -> Quotient(a, b)
      [] op = "mod" -> Remainder(a, b)
      [] op \in BitOps -> Bitwise(op, a, b, w)
      [] op = "shl" -> a * Powers[b]
      [] op = "shr" -> a \div Powers[b]
Operate(op, x, y, w) ==
    IF IsPoison(x) \/ IsPoison(y) \/ Undefined(op, x.v, y.v, w) THEN Poison
    ELSE [v |-> Signed(Compute(op, x.v, y.v, w), w), w |-> w]

Execute(env, i) ==
    CASE i.op = "store" -> [env EXCEPT !.slots[i.slot] = rval(env, i.src1, i.w)]
      [] i.op = "load" -> [env EXCEPT !.temps[i.dst] = coerce_v(env.slots[i.slot], i.w)]
      [] i.op = "sext" -> [env EXCEPT !.temps[i.dst] = coerce_v(rval(env, i.src1, i.from), i.w)]
      [] i.op = "icmp" -> [env EXCEPT !.temps[i.dst] =
                             LET x == rval(env, i.src1, i.w)
                                 y == rval(env, i.src2, i.w)
                             IN  IF IsPoison(x) \/ IsPoison(y) THEN Poison
                                 ELSE [v |-> IF x = y THEN -1 ELSE 0, w |-> 1]]
      [] OTHER -> [env EXCEPT !.temps[i.dst] =
                     Operate(i.op, rval(env, i.src1, i.w), rval(env, i.src2, i.w), i.w)]

\* The environments a block goes through.
Through(env, b) ==
    LET after[k \in 0 .. Len(b)] == IF k = 0 THEN env ELSE Execute(after[k - 1], b[k])
    IN  after
RunBlock(env, b) == Through(env, b)[Len(b)]

\* A path of blocks, from a memory; temporaries start undefined.
Start(mem) == [slots |-> [s \in Slots |-> [v |-> Signed(mem[s], WidthOf[s]), w |-> WidthOf[s]]],
               temps |-> [t \in 1 .. MaxInstrs |-> Poison]]
Along(bs, path, mem) ==
    LET after[k \in 0 .. Len(path)] == IF k = 0 THEN Start(mem) ELSE RunBlock(after[k - 1], bs[path[k]])
    IN  after
Run(bs, path, mem) == Along(bs, path, mem)[Len(path)]

-----------------------------------------------------------------------------
\* The optimizer.  Its arithmetic is that of long long.
Host(v) == Signed(v, HostWidth)
HostFold(op, a, b) ==
    Host(CASE op \in {"div", "mod"} /\ b = 0 -> 0
           [] op = "shl" -> a * Powers[b % HostWidth]
           [] op = "shr" -> a \div Powers[b % HostWidth]
           [] OTHER -> Compute(op, a, b, HostWidth))

\* Rewritten to an addition.
Adds(i, x, y) == [op |-> "add", dst |-> i.dst, w |-> i.w, src1 |-> x, src2 |-> y]
Same(x, y) == x = y /\ ~x.const

\* Mutant: a constant factor is moved to the right and left for a later pass.
Simplified_Swaps(i) ==
    IF i.op = "mul" /\ i.src1.const /\ ~i.src2.const
    THEN [i EXCEPT !.src1 = i.src2, !.src2 = i.src1]
    ELSE IF i.op = "mul" /\ ~i.src1.const /\ i.src2 = Const(1) THEN Adds(i, i.src1, Const(0))
    ELSE i

\* What fold_block makes of an operation, by the rules in its order.
Simplified(i) ==
    LET x == i.src1
        y == i.src2
        zero == Const(0)
    IN  IF x.const /\ y.const THEN Adds(i, Const(HostFold(i.op, x.v, y.v)), zero)
        ELSE
          CASE i.op \in {"sub", "or", "xor", "shl", "shr"} /\ y = zero -> Adds(i, x, zero)
          [] i.op = "mul" /\ y = Const(1) -> Adds(i, x, zero)
          [] i.op = "mul" /\ (x = zero \/ y = zero) -> Adds(i, zero, zero)
          [] i.op = "mul" /\ y = Const(2) -> Adds(i, x, x)
          [] i.op = "mul" /\ x = Const(1) -> Adds(i, y, zero)
          [] i.op = "div" /\ y = Const(1) -> Adds(i, x, zero)
          [] i.op = "and" /\ y = Const(-1) -> Adds(i, x, zero)
          [] i.op \in {"sub", "xor"} /\ Same(x, y) -> Adds(i, zero, zero)
          [] i.op \in {"and", "or"} /\ Same(x, y) -> Adds(i, x, zero)
          [] OTHER -> i

\* defs: the slots known to hold a constant, at most MAX_DEFS of them.
def_set(defs, s, c) ==
    IF s \in DOMAIN defs \/ Cardinality(DOMAIN defs) < MAX_DEFS
    THEN [t \in DOMAIN defs \union {s} |-> IF t = s THEN c ELSE defs[t]]
    ELSE defs
\* Mutant: a slot keeps its constant when something else is stored.
def_kill_Never(defs, s) == defs

def_kill(defs, s) == [t \in DOMAIN defs \ {s} |-> defs[t]]

NoDefs == [s \in {} |-> 0]

\* What defs holds behind an instruction, and behind the first k of a block.
Learn(defs, i) == IF i.op # "store" THEN defs
                  ELSE IF i.src1.const THEN def_set(defs, i.slot, i.src1.v)
                  ELSE def_kill(defs, i.slot)
Defs(b) ==
    LET defs[k \in 0 .. Len(b)] == IF k = 0 THEN NoDefs ELSE Learn(defs[k - 1], b[k])
    IN  defs

FoldInstr(defs, i) ==
    CASE i.op = "load" /\ i.slot \in DOMAIN defs -> Adds(i, Const(defs[i.slot]), Const(0))
      [] i.op \in BinOps -> Simplified(i)
      [] OTHER -> i

fold_block(b) == [k \in DOMAIN b |-> FoldInstr(Defs(b)[k - 1], b[k])]

PeepholeInstr(i) ==
    CASE i.op = "sext" /\ i.src1.const -> Adds(i, i.src1, Const(0))
      [] i.op = "icmp" /\ Same(i.src1, i.src2) -> [Adds(i, Const(1), Const(0)) EXCEPT !.w = 1]
      [] OTHER -> i

peephole_block(b) == [k \in DOMAIN b |-> PeepholeInstr(b[k])]

-----------------------------------------------------------------------------
Init == /\ source = << << >> >> /\ blocks = << << >> >>
        /\ tmp = 0 /\ room = MaxInstrs
        /\ phase = "build" /\ pass = 0

Operands(literals, w) == {Const(c) : c \in {c \in literals : InRange(c, w)}}
                         \union {Temp(t) : t \in 1 .. tmp}
Emit(i, cost) ==
    /\ phase = "build" /\ cost <= room
    /\ source' = [source EXCEPT ![Len(source)] = Append(@, i)]
    /\ room' = room - cost
    /\ UNCHANGED <<blocks, phase, pass>>

\* The instructions the code generator emits for variables and operators.
EmitStore(s) ==
    /\ \E x \in Operands(StoreLiterals, WidthOf[s]) :
          Emit([op |-> "store", slot |-> s, w |-> WidthOf[s], src1 |-> x], 1)
    /\ UNCHANGED tmp
EmitLoad(s) ==
    /\ Emit([op |-> "load", slot |-> s, w |-> WidthOf[s], dst |-> tmp + 1], 1)
    /\ tmp' = tmp + 1
EmitOp(w) ==
    /\ \/ \E op \in BinOps \union {"icmp"}, x, y \in Operands(Literals, w) :
            Emit([op |-> op, dst |-> tmp + 1, w |-> w, src1 |-> x, src2 |-> y], OpCost)
       \/ \E from \in {f \in Widths : f < w} : \E x \in Operands(Literals, from) :
            Emit([op |-> "sext", dst |-> tmp + 1, w |-> w, from |-> from, src1 |-> x], OpCost)
    /\ tmp' = tmp + 1
NewBlock ==
    /\ phase = "build" /\ Len(source) < MaxBlocks /\ source[Len(source)] # << >>
    /\ source' = Append(source, << >>)
    /\ UNCHANGED <<tmp, room, blocks, phase, pass>>

Mapped(f(_), bs) == [b \in DOMAIN bs |-> f(bs[b])]

\* mir_opt: up to MAX_PASSES folding passes, fewer if one changes nothing;
\* then the peephole pass.
Begin == /\ phase = "build" /\ source # << << >> >>
         /\ blocks' = source /\ phase' = "fold" /\ UNCHANGED <<source, tmp, room, pass>>
FoldPass ==
    /\ phase = "fold" /\ pass < MAX_PASSES
    /\ blocks' = Mapped(fold_block, blocks)
    /\ pass' = pass + 1
    /\ UNCHANGED <<source, tmp, room, phase>>
Peephole ==
    /\ phase = "fold"
    /\ pass = MAX_PASSES \/ blocks = Mapped(fold_block, blocks)
    /\ blocks' = Mapped(peephole_block, blocks)
    /\ phase' = "done"
    /\ UNCHANGED <<source, tmp, room, pass>>

Next == \/ \E s \in Slots : EmitStore(s) \/ EmitLoad(s)
        \/ \E w \in Widths : EmitOp(w)
        \/ NewBlock \/ Begin \/ FoldPass \/ Peephole

Spec == Init /\ [][Next]_vars

-----------------------------------------------------------------------------
\* A defined value is never changed: along any path of blocks, loops
\* included, every temporary and slot that has a defined value without the
\* optimizer has the same value with it.
Agrees(x, y) == \A k \in DOMAIN x : IsPoison(x[k]) \/ x[k] = y[k]
Paths == UNION {[1 .. n -> DOMAIN source] : n \in 1 .. MaxPath}
SameMeaning ==
    phase # "build" /\ blocks # source => \A path \in Paths, mem \in Memories :
        LET before == Run(source, path, mem)
            after == Run(blocks, path, mem)
        IN  Agrees(before.slots, after.slots) /\ Agrees(before.temps, after.temps)

\* One pass folds all there is to fold, so stopping after MAX_PASSES loses
\* nothing, though "changed" stays set while an addition of constants is left.
FoldingSettles ==
    phase = "fold" /\ pass > 0 => blocks = Mapped(fold_block, blocks)
=============================================================================
