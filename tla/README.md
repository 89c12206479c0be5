# Fermi in TLA+

Models of the Fermi compiler (`fermi`, a C program that compiles `.fe` sources to
native executables through LLVM, caches them and runs them) and of its runtime,
checked with TLC and, in part, proved with TLAPS. Paths below are relative to
the repository root; sources lie under `src/src` and the runtime under `src/rt`
when counted from the directory that holds this project.

Read the modules in the order of the table in section 2. `PROJECT.json` gives,
for every definition that models code, the lines it was translated from, for
every property a plausible bug (an operator marked "Mutant") that breaks it, and
the hazards that the properties are for.

## 1. The system

`main()` (main.c) runs one pipeline per invocation:

    source -> lexer -> parser -> HIR -> type checker -> sema -> code generator
           -> FIR -> optimizer -> LLVM emitter -> object -> cc -> executable -> execv

| component | state | operations | hard because |
|---|---|---|---|
| Driver, main.c | source file, `~/.cache/fermi`, `-o` path, temporary objects, all shared with other invocations | one chain of system calls per mode (`--lex`, `--ast`, `--fir`, `-o`, run, `--cache-clear`) | edits, other invocations, kills and faults fall between any two calls |
| Arena, arena.c | a list of chunks | `arena_alloc`, `arena_strdup`, `arena_strndup`, free all | alignment, blocks larger than a chunk |
| Lexer, felexer | position, line and column in the text; its tokens' bytes are in the arena | `lexer_next` | numbers, quotes and comments end where a lookahead of one to three characters says |
| Parser, parser.c | two tokens, `had_error`, `no_struct_lit`, the call stack | one function per construct | errors do not stop it, lookahead decides between constructs |
| HIR, fehir | flags nobody reads | `hir_lower` | nothing |
| Type checker, tc.c | scopes of names with kinds | `infer`, `check_stmt` | the code generator infers types again, by rules of its own |
| Semantic checker, sema.c | a chain of scopes | declarations and uses | must agree with two later tables on every name |
| Code generator, codegen.c | blocks, labels of the innermost loop, variable stack, defers, `in_region` | `emit_stmt`, `emit_expr`, `emit_fn_decl` | one set of fields for nested loops, lambdas and functions, saved and put back by hand; operands read before their neighbours change them; who owns the buffer of a `mut str` |
| Optimizer, opt.c | the instruction list, known stores | folding, dead block removal, peephole | computes in 64 bits what runs in 1 to 64, stops after a fixed number of passes |
| LLVM emitter, llvm_emit.c | one value map per function | `emit_instr`, `emit_fn_body` | finds values by name, widths are coerced |
| Region runtime, fermi_rt.c 301-329 | 32 frames of allocations | push, alloc, pop | generated code leaves regions without popping |
| Arrays and maps, fermi_rt.c 331-410 | a block that grows; chains of entries with copies of their keys | `fe_array_*`, `fe_map_*` | growth, colliding keys, keys that belong to the program |
| Strings, printing, fermi_rt.c and .S | none of their own | library functions | formatting |

What makes each correct: an invocation of the driver runs what the current source
means, or reports why not; the lexer finds the longest token everywhere and skips
only what is blank; the parser accepts the language and ends on every text; names
and types mean the same to every pass; generated code, optimised or not, does what
the program says and computes what its expressions mean; regions free all of their
memory, once, and nobody else's; an array is a sequence, a map a partial function,
and a variable reads the text last assigned to it.

The passes of one invocation are sequential and share nothing with others; only
the driver is concurrent. The compiler's difficulty is elsewhere: in tables that
must agree, in fields that nested constructs overwrite, and in rewriting that
must not change a meaning. Only the driver persists anything.

## 2. Modules

| module | models | state and actions |
|---|---|---|
| `Driver`, `MCDriver` | main.c | one process per invocation with a program counter at each system call; `file`, `fs`, `tmp` are what they share. `Edit`, `Tick`, `Crash` are the world; `LinkStart`, `LinkEnd`, `LinkFail` stand for `cc`, `ClearOne` for the `rm -f` of `--cache-clear`, which are external |
| `RegionScopes` | what a region promises a program | abstract: open scopes, memory and who owns it |
| `Regions`, `MCRegions` | fermi_rt.c 301-329 and the calls codegen.c makes | `fe_region_push`, `fe_region_alloc`, `fe_region_pop` under `EnterRegion`, `LeaveRegion`, `Call`, `Return`, `Break`, `Continue`, loops; `ctl` is the dynamic nesting of the program |
| `Statements` | parser.c, as far as control flow goes | the set of all programs of a size, with the headers of their loops: parts that are there, ranges |
| `Structured` | nothing: what a program means | its events (tests, marks, values, defers) in order, and where it idles for ever |
| `Codegen` | `emit_stmt` and `emit_fn_decl` | a function from programs to blocks, one operator per statement form, threading the fields of `Codegen` as the code does |
| `MirOpt` | opt.c 189-223 and 244-278, llvm_emit.c 558-599 | removal of trailing code, branches on literals, dead blocks before and after; what of the blocks reaches LLVM |
| `Compiled`, `MCCompiled` | generated code executed beside the program | `Go` (a branch, or the index of a for-in set, tested or incremented), `Think` (the program), `Observe` (an event of both, every outcome) |
| `Values`, `MCValues` | integer expressions: tc.c's `infer`, `emit_expr`, `coerce_to` and `type_for_op` of codegen.c, `rval` of llvm_emit.c | one action per kind of node, in the order `emit_expr` emits code (postfix), on a stack of operands; statements end an expression. Beside every register the value the program means |
| `Names` | scopes of sema.c, `vars`/`scope_base` of codegen.c, the value map of llvm_emit.c | all three tables walked side by side over any nesting: `Open`, `DeclareConst`, `Declare`, `BeginTyped`, `EndTyped`, `Close` |
| `Fold`, `MCFold` | opt.c 7-152 and 225-278 against llvm_emit.c 96-178, 275-346 | blocks are built an instruction at a time, then `FoldPass`, `Peephole`; `Run` executes blocks by LLVM's rules |
| `Parser` | parser.c | a pushdown machine: the stack holds what pending calls have left to do, a call is replaced by its code, tokens are chosen as the lexer delivers them |
| `Expressions`, `MCParser` | nothing: the language of expressions | expressions of each length, built from shorter ones |
| `Arena` | arena.c | chunks and the blocks handed out; `arena_alloc`, `arena_strndup`, `arena_free` |
| `Lexer` | lexer.c | a function of the text for each lexeme, and `lexer_next` as the action; its allocations are the arena's |
| `Lexemes`, `MCLexer` | nothing: what a token is | said of a text without scanning it |
| `SequenceADT`, `Dictionary` | what an array and a map promise | abstract: a sequence with its last answer; a partial function with its last answer |
| `FeArray` | fermi_rt.c 331-350 | a block of cells, length and capacity, one action per function |
| `FeMap` | fermi_rt.c 352-410 | memory cells, chains of entries per bucket, the copies of keys; the environment may write and free its own cells between calls |
| `MutStrings`, `MCCollections` | codegen.c 183-243, 628-663, 954-972, 1735-1788 | the string variables of a program and the map it hands them to: declare, assign, share |
| `Regions_proofs`, `Driver_proofs`, `Values_proofs`, `Fold_proofs` | | theorems about the module each is named after |
| `Frontend_proofs` | | theorems about `Parser` and `Names` |
| `Lexer_proofs`, `Collections_proofs` | | theorems about `Arena`, `Lexer` and `Lexemes`; about `FeArray`, `FeMap` and `MutStrings` |
| `Counting` | | lemmas: induction over numbers, functions that unroll, maxima |

Composition: `Compiled` runs what `MirOpt` makes of what `Codegen` makes of
`Statements`, against `Structured`; `Regions` implements `RegionScopes`
(`Scopes == INSTANCE RegionScopes WITH ...`), `FeArray` implements `SequenceADT`,
`FeMap` implements `Dictionary`; `MutStrings` extends `FeMap` with the program that
owns the cells and implements its environment (`ImplementsFeMap`); `Lexer` works
over `Arena`; `Expressions` extends `Parser`, `Lexemes` extends `Lexer`.

## 3. Runs

Each property is stated in the module with what it means in the code.

| run | instance | question |
|---|---|---|
| regions | 3 objects, 2 frames, nesting 5 | never frees memory of an open region (`NoPrematureFree`), frees all when balanced (`NoLeakWhenBalanced`), never twice (`FramesHoldLive`), and implements `RegionScopes` until a push is ignored (`ImplementsScopes`) |
| driver_solo | 1 invocation at a time, 4 in all, 6 modes, 6 contents, a kill, a fault | `RerunsExecCached` |
| driver_concurrent | 2 invocations at a time, 4 in all, run at two levels or clear, 3 contents, a fault | `RunsCurrentSource`, `ExecutesWholeBinaries`, `QuiescentCacheIsWhole`, `OnlyKillsLeakTemporaries` |
| driver_no_opt | 2 runs of one text | violated: `NoOptIsHonoured` |
| driver_reported | 2 runs | violated: `ReportedErrorsAreFatal` |
| compiled | all programs of up to 4 nodes over forms with jumps and loops (one family of while and do, one with C style loops of all parts or none and for-ins of one step), of 3 nodes over all loop forms together, of 3 nodes with every header of a C style loop, of 3 nodes with ranges of up to two steps, of 5 nodes over 6 forms with matches, of 4 nodes over 6 forms with defers, regions and lambdas, of 4 or 3 nodes over three families with assertions, of literals too, and panics | `FollowsProgram`, `ComesToAnEvent`, `DefersRunOnceInReverse` |
| values | 2 variables, types of 1 to 4 bits, 2 statements of 4 nodes in all, 6 binary operators | `TypesAgree`, `SlotsHoldVariables`, `OperandsKeepMeaning` |
| names | 2 names, room for 2 variables, 3 declarations, a top-level constant, nesting 6 | `TablesAgree`, `LoadsReachTheirDeclaration` |
| fold | slots of 3 and 2 bits in a long long of 4 | `SameMeaning`, `FoldingSettles` |
| lexer | 16 278 texts over six alphabets | `TokensAreLongest`, `GapsAreBlank`, `PlacesAreTrue`, `BlocksApart` |
| parser | 11 surroundings with 4 to 7 freely chosen tokens | `TreesSpellText`, `AcceptsOnlyExpressions`, `RejectsNoExpression`, `Terminates` |
| collections | an array of up to 5 elements; 3 string variables, 2 literals, 4 more cells, a map with one bucket | `ReachesOnlyWritten`, `ImplementsSequence`, `WellFormed`, `ImplementsDictionary`, `BuffersHaveOneOwner`, `ReadsLastText`, `ImplementsFeMap` |

Why the bounds suffice. *Regions*: two frames are the fewest with an outer and an
inner one, nesting five leaves room for pushes the runtime ignores and for a
function, a loop and a region to leave at once; three objects let one be of the
program, one of each frame. The proofs lift these bounds. *Driver*: four
invocations are a build, a hit, an edit's rebuild and a clear; two at a time
suffice because a step only meets one path. `MaxTick = 1` allows one edit visible
in the mtime (`SameTickEdits = FALSE`: an edit that leaves size, inode and mtime
alone is served from the cache, as the key's design accepts). *Compiled*: four
nodes are a loop in a loop with a jump and something after it, or a lambda with a
defer and a return next to another, or an assertion before a return that defers;
the fields at stake are single ones that the
innermost construct must put back. The headers are all eight of `for (;;)`; ranges
run from 0, 1 or 2 to 0, 1 or 2, with and without the last value, less those that one
bit decides wrongly (`FitsOneBit`, section 4): what is left runs never or
once, since no longer range survives the cut. The literal assertions are
what `simplify_br` finds: a condition of an if or a loop is compared first and is a
temporary even when it was a literal. *Values*: one, two, three and four bits are
four different widths in the order of i1, i8, i32, i64, and every value of each
occurs by wrapping; -8 and -4 as arguments are the least values of the two wide
types, 3 as a literal is the largest int and -1 as a char (it is no bool: those
come from comparisons); four nodes are the fewest for `x + x++` in which an
operand is changed by its neighbour, two statements the fewest for a variable to
be used at the type it was inferred. The six operators have one of each path
through codegen.c 907-952 (plain, division, the two shifts the checker treats
differently, an order, an equality); `- * & | ^` take the path of `+`. The proofs
are for all widths and sizes. *Names*: the third
declaration overflows after the tables have been used, x is redeclared and y is
not, the constant may have either name, six levels hold a function, its body, a
lambda in an initialiser in a block, and its body. *Fold*: three bits are the fewest where the least value, -1, 0, 1, 2 and the
largest differ, two the width to extend from; an operation takes the room of
three other instructions. `MAX_DEFS = 1` makes the table of stores overflow,
`MAX_PASSES = 2` stands for 16: `FoldingSettles` shows the first pass leaves
nothing to do. *Lexer*: decisions look at most three characters ahead, so three to
seven characters over an alphabet of the characters that decide reach all of them;
the sizes of buffers and of the chunk (`NumLimit`, `StrLimit`, `StrBuffer`,
`BlockSize`) are scaled down until such texts fill them. *Parser*: the loops' states
differ in at most two tokens, and each surrounding allows the constructs nested in
it to be completed. *Collections*: five elements are two doublings from the
capacities 1 and 2 (0 asks for the default, 3 here); two keys in one bucket are the
fewest with a middle and an end of a chain; the array shares no state with the
strings and the map, so a behaviour uses one or the other (`uses`).

Deadlock is not checked, except in collections, which can always go on: every
other model stops when its bounds are used up or its program, function or text has
ended.

Fairness. `Parser`: weak fairness of its only process. The other specifications
claim no liveness. An invocation of the driver is a straight line of calls, each of
which returns. That generated code runs in a circle of branches only where the
program does, as in `for (;;) {}`, is the invariant `ComesToAnEvent`.

## 4. Findings

* `--no-opt` is ignored on a cache hit. The key (main.c 231-246) is made of inode,
  size, mtime, version, level and target; main.c:52 promises "Disable FIR
  optimizer" (run driver_no_opt).
* Errors of the code generator do not stop the compiler: codegen.c:887 prints
  "error[E0005]", evaluates to null and goes on; `main()` asks the parser, type
  checker and sema, then links and executes (run driver_reported).

Divergences met while modelling, excluded by a named condition so that the runs
ask about the rest.

Driver:

* Two first runs of one text link to one path, and one can find the binary the
  other had made good truncated: `RerunsExecCached` is therefore checked with one
  invocation at a time. None executes half a binary (`ExecutesWholeBinaries`).
* An invocation killed while `cc` links leaves half an output, and the chmod of
  another that links to the same path makes it executable: driver_concurrent
  allows no kills, driver_solo does.

Lexer:

* `\u` and `\U` read a fixed number of characters, a closing quote among them
  (lexer.c 177-199): a string or character with one is no lexeme of `Lexemes`, and
  `TokensAreLongest` says nothing of it (`Wide`).
* The digits of an exponent are written to `buf[72]` without a test (302-306); the
  model keeps sizes, not bytes.

Control flow and names:

* `continue` in a for-in jumps to the test and skips the increment
  (codegen.c 1914, 1940-1949): `Placeable`.
* The comparison of a for-in is typed i1 (codegen.c 1934), and llvm_emit.c cuts its
  operands to that (108-112, 373-376): the lowest bits decide, an odd number standing
  for -1. `for (i in 0..10)` is never entered, `for (i in 0..=10)` never left. The
  generated guard is modelled as that comparison (`OneBitGoes`); ranges on which it
  differs from the program's at any value the loop tests, every one of two values or
  more among them, are left out (`FitsOneBit`). `for (i in e)` with e no range counts
  from 0 to e, and is cut the same way.
* The result of a `strcmp` in a match over strings is compared as an i1 likewise
  (1991-1995), and so is any condition of an integer type: tests are events with
  every outcome, whatever the value compared.
* `@assert` of an integer literal (1318-1320) passes it to the branch as it is:
  `simplify_br` takes any number but 0 for true, LLVM the lowest bit, so `@assert(2)`
  holds with the optimizer and fails without. The literals of the model are 0 and 1.
* `break` emits the function's defers, which run again at its return (2080): no run
  combines break and defer.
* A lambda that falls off its end runs no defers (1656-1667): `LambdasReturn`.
* break or continue in a lambda outside a loop of its own branches into the
  enclosing function: `Inside`.
* `defer` takes any statement; a deferred return makes the generator recurse
  without end: defers are leaves.
* A name in a defer is resolved where the function is left, not where the defer
  stands: defers are events here.
* `&&` and `||` build a PHI of one incoming value, which LLVM's verifier rejects
  (E0011), and if-expressions likewise need values of blocks: left out of
  `Structured` and `Values`.
* A function that redeclares a visible name reads the inner slot after the inner
  scope has ended, since the value map knows no scopes: `Redeclared`.
* A constant at the top level (parser.c 909) is declared by sema (46-49, 191-193) and
  passed over by `codegen_emit` (2284-2315): its uses resolve to nothing and evaluate
  to 0. `Names` has both (`DeclareConst`), and `TablesAgree` says that the tables differ on
  such constants and on nothing else. Nor is the initialiser of such a constant, or a
  region at the top level, generated, though sema checks them.
* The methods of a class and the arguments of `@` and namespace calls are walked by
  the code generator and not by sema (122-129, 150), so an unknown name there is not
  reported: they are not among the constructs of `Names`.
* The upper bound of a range pattern is an int or a long literal only
  (parser.c 645-646): `'a'..'z'` reports an error. So it does in `Parser`.
* no_struct_lit is not put back to zero in the body of a lambda inside a condition
  (537-539): a struct literal there is parsed as a name and a block.
* A class with two sections of a kind keeps the members of the last one
  (parser.c 894-903): `LastSections`. A tree with such a class in it `repeats`, and
  `TreesSpellText` does not ask that the trees spell the text then.

Expressions, excluded from `Values` by `Plain`, `Convertible`, `PlainCompound`, the
ranges of `Literal`, and `Kinds`:

* A bool among numbers is extended by its sign: true becomes -1, `true > false` is
  false. The branch of `coerce_to` that would extend by zero (codegen.c 403-409) comes
  after one that takes every pair of integer types.
* `!x` of a number, and a number as a condition, look at its lowest bit.
* char op char is computed in i8 and typed int.
* A short or byte variable is not given its kind by 752-760: a `short` has kind
  TY_NAMED, hence type ptr, and `s + 1` reports E0005. Unsigned kinds use signed
  operations.
* `x op= e` cuts a wider e to the type of x before dividing or shifting.
* Compound assignment and ++ on a field or an element compute and store nothing.
* An assignment used as an operand has type void.
* An int literal beyond int is cut without a word.
* A function that returns char, and a char field, come back as ptr.
* `@select` is an int whatever its arguments.
* The type of a call of a function defined further down is i32 and its arguments are
  not coerced; `s.a + t.b` of two string fields is taken for pointer arithmetic; the
  first element of an array literal is emitted twice; a match on Ok and Err compares
  tags with 0, and `?` generates nothing. None of these forms is in `Values`.

Strings:

* A right-hand side that points into the buffer of the `mut str` assigned to is read
  after that buffer was freed (226-238): `stale` records the variables whose text a
  program has given away this way, and `ReadsLastText` speaks of the others.
* Arguments of array and map calls are not widened (650): `array::push(a, n)` passes an
  i32 where the runtime reads an int64_t. Values are abstract in `MutStrings` and `FeArray`.
* `fe_input` returns a static buffer, the one source of text that is neither a literal nor
  a variable: it is left out of `MutStrings`.
* `mut` variables of other pointer types are copied as if they were strings (961).

## 5. Proofs

For every value of the constants, from the named assumptions on them:

*Regions.* `TypeCorrect`: TypeOK is inductive. `NoDoubleFree`: every frame in use holds
live memory only, and no object is in two frames (`FramesInv`): the second half is
what makes a pop leave the others live. It holds saturated or not, but needs push
to empty its slot. `NoPrematureFreeHolds`: `NoPrematureFree` is not inductive, as it says
nothing of frames. `ScopeInv` adds that open regions own frames in use, inner above
outer (`BasesOrdered`), and that memory lies below the frame of every region opened
after it was allocated (`MemoryBelow`). Abandoned frames lie above the frames of
open regions, so the pop of a region still open frees only what nobody owns.
`NoLeakHolds`: with nothing abandoned or ignored the depth is exactly the number
of open regions (`DepthIsInnermost`, `BasesConsecutive`) and memory is in the frame
of its owner (`MemoryInOwnFrame`). `RuntimeKeepsPromise`: from `ScopeInv`, initial states
map to initial states of `RegionScopes` and every step below the limit to a step or
a stutter.

*Driver.* `TypeCorrect`, from `Typed` and `Stages`: where an invocation stands says what
it has read, found and created. `TemporariesGo` needs no more. `CacheIsWhole` and
`WholeBinariesRun` (where `MaxCrashes = 0`): `Files` says that what lies at a path is whole
or being linked by the invocation it names, `Verdicted` that nothing but accepted
sources gets there. `RunsAreCurrent` (where every edit shows in the mtime,
`~SameTickEdits`): `Current` ties a cache path to what its key stood for; keys do not
come from the future, the key of the file as it is stands for what it holds now,
in the cache and in every run under way, and what lies or will lie at the path of a
run is something that run has seen. `RerunsHit` (one invocation at a time, `Alone`):
what was built is executable and nobody builds it again (`Cached`). All are for
any number of invocations, modes, contents, edits and faults.

*Parser.* `ParserMakesTrees` (`TreesSpellText`), for every set of texts of any length over
any tokens, hence for surroundings no run has. The invariant is `ParserInv`: without an
error so far, every value in hand is a tree whose operators are grouped (`Held`), the
values spell the tokens consumed unless a class among them repeats a section (`Spells`),
and the configuration of token, values and stack is `Safe`. The first two are kept by
building and taking whatever is on the stack, as long as what is built may be grouped;
that is what `Safe` is for. A stack is a list of calls that go on, so the argument is one
about programs with procedures. Each of the 38 functions of the grammar has a contract:
`Relies` says at which token and on which values it may be called, `After` what it has
made of them when it returns, and at which token. A configuration is safe if it belongs to
a `Sealed` set, one that no item on the stack leads out of when a call is taken by its
word. (This is the greatest such set, so no induction over the depth of calls is needed.)
Rules in the manner of Hoare's (`Valid(P, code, Q)`, one rule per item, composition,
consequence) show that the code of every function keeps its contract
(`EveryFunctionDoes`); the replacement of a call by its code then stays among safe
configurations (`ParserKeeps`). Most functions leave the values below theirs alone and
are done by form (`Plain`). The contracts that matter are those of the expressions: a tree
is an operand for level l before a token c if it holds together as strongly as l and,
should it be one that takes all that follows (`open`), c is no token an expression goes on
with (`Operands`). In `BinaryLoop` precedence climbing is shown to call itself with
operands of this kind: with `prec` instead of `prec + 1` for the right operand this step,
and no other, fails. That trees spell what they are made of is an induction over the
length of a list of trees (`SpelledConcat`), by which text passes through a build unchanged.
Errors end the argument, as they end the trees: what an erroneous text leaves is
never used.

*Names.* `TypeCorrect`, `SamePlace` (`TablesAgree`). Two tables resolve alike if they
hold the same declarations in the same order, so `IInv` relates them entry
by entry. `Structure` (`Typed`, `Shape`, `Nested`, `Bases`) accounts for every scope
and every base by the constructs that are open; `Agreement` says that each
variable is the entry of sema it claims (`Stands`), each entry but those of the root
scope is a variable (`Recorded`), the stack is sorted by scope and age (`Ordered`), and
each base separates the variables of its scope from those outside (`Split`). `Split` is
what makes closing a scope drop the same declarations from both. `Root` says of the
root scope, which holds the constants at the top level and grows while functions come and
go, that it holds nothing else: it is why an identifier the generator does not know is
one of them. What the generator resolves to is in scope by `Stands` alone, which holds
after the stack has overflowed as well.
`SameSlot` (`LoadsReachTheirDeclaration`) is about the third table, the value map, and
holds after the stack of variables has overflowed as well. It follows from four facts
on the slots: every variable belongs to a function under way (`Functions`, `Owned`), a
name that is not redeclared in a function has one variable there (`Single`), an
initialiser under way has no variable yet (`Pending`), and what the map holds of a name is
the slot declared last under it in the function (`Mapped`).

*Values.* `TypeCorrect`, `PassesAgree` (`TypesAgree`), `SlotsAreRight` (`SlotsHoldVariables`),
`OperandsAreRight` (`OperandsKeepMeaning`), for all widths with i1 of one bit and
i8, i32, i64 in this order, and expressions of any size. No one of the four is
inductive: what a node computes follows from what its operands mean only if they
have the type it takes them for. `Inv` says that each declared variable is known to
both passes as the same kind and its slot is the image of a value of that kind
(`Stored`), each operand is faithful, that is of one kind, with a register of its
type that wraps to the image of a value of its kind, and a variable it was read from
still has that kind (`Faithful`), and a compound assignment under way has loaded such a
value (`Loaded`). The arithmetic is in lemmas on `Wrap`: it is periodic, leaves its
range alone, absorbs a wrap at a width not smaller, and commutes with `+`, `-`, `*` and
`<<`. The provers know nothing of `^`: `Powers` is a constant assumed to start at 1 and to
double, and the law of products follows by induction (`PowersMultiply`).

*Fold.* `FoldInvariant`, `Settles` (`FoldingSettles`), `Meaning` (`SameMeaning`), for all
widths up to the host's, all blocks, paths and memories. The relation that makes it
go through is `Below`: a result that is poison may become anything, any other stays as
it is. Execution is monotone in it (`ExecuteBelow`), so an instruction may be replaced
by any other whose result is above (`Refines`), and a block, and a path of blocks, by
induction over their length (`BlocksRefine`, `PathsRefine`). For the folding of loads the
induction carries `Known`: the recorded stores are what the slots hold. For a fold of
two constants (`HostFolds`) it is shown operation by operation that cutting what the
host computed in its long long gives what LLVM computes in the narrower width, with
the operands' signs taken from the host's reading of them; bitwise operations go by the
digits (`Low`). `Settles` is that folding is idempotent: an instruction folded once is
left alone by a second pass that knows the same stores (`FoldInstrTwice`,
`FoldBlockTwice`).

*Arena, Lexer.* `ArenaBlocksApart`, over all orders of calls, `arena_free` included, which no
run has. `BlocksApart` says nothing of where the next block goes: `Filled` and `Inside`
add that used room is a multiple of 8, within the chunk, and above every block.
`TokensLieApart` is the same of the blocks the lexer asks for. `PlacesHold`
(`PlacesAreTrue`) and `GapsHold` (`GapsAreBlank`), for texts of any length over any
characters: `LexerInv` adds to the properties where the lexer itself stands (`Reading`),
because the place of the next token is counted from there and not from the text's
beginning. Newlines before a position split at any position between, which makes the
two counts one. The loop of `skip_ws` is a recursive function over its turns: while it
stands at a blank or a comment a turn moves on by one at least, so as many turns as
there are characters reach what is neither, and the positions it stood at are the
marks of a gap. That a token is never empty goes through every `lex_*` operator; a
string's loop does not move back, as its escapes end behind their letter.
`TokensHold` (`TokensAreLongest`) rests on `Scanned`, that the last token is what `Lex` reads
where it begins, and on one lemma per `lex_*` operator: the text read is a lexeme, and
none that begins there is longer. The first character says which kinds of lexeme
there can be (`FirstsDiffer`). Words and prefixed numbers are spans, whose next character
stops them. A decimal may be cut into whole part, fraction, exponent and suffix in
several ways; each is bounded by what was read at the same point (`TailEnds`,
`NumberStays`). For strings the induction over the turns of the loop carries `Read`:
nothing read so far ends the string, and the next character is not escaped, which
ties the loop, that skips escapes, to `Escaped`, that counts backslashes; as many turns as
there are characters bring the loop to an end (`OneMoreRead`, `StringBodyIsRead`).

*FeArray* (in `Collections_proofs`, as are the next two)*.* `ArrayTypeOK`, `ArrayReachesOnlyWritten`, `ArrayImplementsSequence`, for every
capacity: growth is a stutter.

*FeMap, MutStrings.* `MapWellFormed` and `MapImplementsDictionary`, for every hash
function: `Good` says that the copies alive are exactly the keys of entries, each
of one entry, each text once and in its bucket. They assume of the program that it
leaves the map's cells alone. `StringsHaveOneOwner` and `StringsReadLastText` say what
programs with `mut str` do, and `StringsImplementFeMap` that they keep that contract;
`ProgramSeesDictionary` composes the two.

Induction over data is available to the provers for numbers only, in the form of
`Counting`: a set of numbers with 0 and the successor of each member is all of them. It
rests on the least element of a non-empty set.

Only model-checked:

* `Terminates`: liveness under fairness.
* `FollowsProgram`, `ComesToAnEvent`, `DefersRunOnceInReverse`: `Statements`, `Structured`
  and `Codegen` recurse over trees (RECURSIVE operators), and the properties need an
  induction over these trees.
* `AcceptsOnlyExpressions`, `RejectsNoExpression`: an induction over a grammar, against
  a set of texts that is listed up to a length.

## 6. Not modelled

HIR, FIR printer, LLVM's own work, strings and printing of the runtime, the
assembly, the build and the standard library; the notes in `PROJECT.json` say why of
each. Within the parser: interpolated strings (a parser of their own per `%{...}`),
`@` calls, imports, exports, unit and external functions. Within the lexer: the bytes
of a token's value. Within statements: `@unreachable`, which is undefined behaviour
once reached. Within expressions: floats, strings as operands, pointers,
fields, indexing, enums, Result and Option, short circuits, `@` calls.

## 7. Plan

Done, in the order of importance: regions and their promise, the driver, control
flow from statement to LLVM blocks, names across passes, folding, the parser;
then arrays, maps and mutable strings, the lexer and the arena, integer
expressions; then proofs of all that the provers reach of these. What is left to prove
of `Compiled` needs an induction over statements, hence another representation of them
(numbered nodes, and recursive functions over the numbers). Left to model:

1. `Tagged`: constructors and matches of enums, Result and Option (codegen.c 1135-1196,
   2040-2065) with the widths of payloads.
2. Fields and indexing (973-1043), with the layout of structs.
3. Short circuits and if-expressions in `Structured`, once they can be run.
4. Pure functions of the runtime against references: integer formatting
   (fermi_rt.c 83-104), `fe_slice`, `fe_replace`.
