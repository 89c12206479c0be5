-------------------------------- MODULE Names --------------------------------
(***************************************************************************)
(* Three tables that must agree on what an identifier means: the scopes of *)
(* the semantic checker (sema.c), the variable stack of the code generator *)
(* (codegen.c) and the value map of the LLVM emitter (llvm_emit.c).  The   *)
(* three passes walk the same functions; here they walk side by side, over *)
(* every nesting of scopes and declarations.  A constant at the top level  *)
(* is sema's alone: codegen_emit passes it over (codegen.c 2284-2315), and *)
(* what names it is no variable to the generator.                          *)
(*                                                                         *)
(* Not modelled: names no table treats as a variable (functions, enum      *)
(* variants, comptime constants), "self", which sema declares everywhere,  *)
(* and "_", which the generator skips when its declaration has no type.    *)
(* Nor what only one of the passes walks: the methods of a class and the   *)
(* arguments of @ and namespace calls, which sema passes over (sema.c      *)
(* 122-129, 150); a region at the top level and the initialisers of        *)
(* constants there, which the generator does.                              *)
(***************************************************************************)
EXTENDS Integers, Sequences

CONSTANTS Names,      \* identifiers
          MAX_VARS,   \* capacity of the code generator's variable stack
          Redeclared, \* those a function may declare where one of its own is visible
          MaxDecls, MaxOpen, MaxConsts   \* bounds

ASSUME NamesAssumption == Names # {}
ASSUME MaxVarsAssumption == MAX_VARS \in Nat
ASSUME RedeclaredAssumption == Redeclared \subseteq Names
ASSUME BoundsAssumption == MaxDecls \in Nat /\ MaxOpen \in Nat /\ MaxConsts \in Nat

\* An entry of a table: which declaration, of which name, in which function
\* (by nesting), and, as history, where in the scopes of sema it was made.
Entry == [id : Int, name : Names, fn : Nat, scope : Nat, pos : Nat]
None == -1

VARIABLES consts,      \* the names of the program's constants at the top level, in order
          open,        \* the constructs being walked, outermost first, with the positions
                       \* of the innermost scope, base and function they found or made
          sema,        \* Sema.current and its parents: the entries of each scope, oldest first
          vars,        \* Codegen.vars[0..nvars-1]
          scope_base,  \* Codegen.scope_base[0..scope_depth-1]
          vmap,        \* per function being generated, the alloca a slot names
          next,        \* number of the next declaration
          dropped      \* history: var_def found the stack full

tables == <<consts, open, sema, vars, scope_base, vmap, next, dropped>>

\* Every construct but an initialiser is a scope; the body of a lambda is one
\* to sema but not to the generator.  A body ends with its function.
Forms == {"fn", "fnBody", "lambda", "lambdaBody", "block", "for", "arm", "region", "init"}
PushesBase(form) == form \notin {"init", "lambdaBody"}
Constructs == [form : Forms, id : Int, name : Names, scope : Nat, base : Nat, fn : Nat]
IsFunction(form) == form \in {"fn", "lambda"}
IsBody(form) == form \in {"fnBody", "lambdaBody"}
Ends(form) == IF IsBody(form) THEN 2 ELSE 1
BaseEnds(form) == IF form = "fnBody" THEN 2 ELSE 1

Top(s) == s[Len(s)]
Pop(s, n) == SubSeq(s, 1, Len(s) - n)
Here == IF open = <<>> THEN "top" ELSE Top(open).form

\* Where a construct may begin: a function's body after its parameters, a
\* lambda in any expression, an initialiser's included.
MayOpen(form) ==
    CASE form = "fn" -> Here = "top"
      [] form = "fnBody" -> Here = "fn"
      [] form = "lambdaBody" -> Here = "lambda"
      [] form = "lambda" -> Here \notin {"top", "fn", "lambda"}
      [] OTHER -> Here \notin {"top", "fn", "lambda", "init"}

\* sc_lookup: the newest entry of the innermost scope that has the name.
SemaLookup(x, d) ==
    \E s \in DOMAIN sema : \E i \in DOMAIN sema[s] :
        /\ sema[s][i] = d /\ d.name = x
        /\ \A j \in DOMAIN sema[s] : j > i => sema[s][j].name # x
        /\ \A t \in DOMAIN sema : t > s => \A j \in DOMAIN sema[t] : sema[t][j].name # x

\* Mutant: the oldest entry wins.
VarLookup_Oldest(x, d) ==
    \E i \in DOMAIN vars :
        /\ vars[i] = d /\ d.name = x
        /\ \A j \in DOMAIN vars : j < i => vars[j].name # x

\* var_lookup: the last entry of the name.
VarLookup(x, d) ==
    \E i \in DOMAIN vars :
        /\ vars[i] = d /\ d.name = x
        /\ \A j \in DOMAIN vars : j > i => vars[j].name # x

NewEntry(id, x) == [id |-> id, name |-> x, fn |-> Len(vmap),
                    scope |-> Len(sema), pos |-> Len(Top(sema)) + 1]
TopEntry(x, pos) == [id |-> None, name |-> x, fn |-> 0, scope |-> 1, pos |-> pos]

\* predef_fn has put the constants into the root scope.
Init == /\ \E n \in 0..MaxConsts : consts \in [1..n -> Names]
        /\ open = <<>>
        /\ sema = << [i \in DOMAIN consts |-> TopEntry(consts[i], i)] >>
        /\ vars = <<>>
        /\ scope_base = <<>>
        /\ vmap = <<>>
        /\ next = 0
        /\ dropped = FALSE

-----------------------------------------------------------------------------
Construct(form, id, x) == [form |-> form, id |-> id, name |-> x,
                           scope |-> Len(sema'), base |-> Len(scope_base'), fn |-> Len(vmap')]
AnyName == CHOOSE x \in Names : TRUE

\* sc_push, scope_push and, for a function, an empty value map.
Open(form) ==
    /\ form # "init" /\ MayOpen(form) /\ Len(open) < MaxOpen
    /\ sema' = Append(sema, <<>>)
    /\ scope_base' = IF PushesBase(form) THEN Append(scope_base, Len(vars)) ELSE scope_base
    /\ vmap' = IF IsFunction(form) THEN Append(vmap, [x \in Names |-> None]) ELSE vmap
    /\ open' = Append(open, Construct(form, None, AnyName))
    /\ UNCHANGED <<consts, vars, next, dropped>>

Visible(x) == \E s \in DOMAIN sema : \E i \in DOMAIN sema[s] :
                 sema[s][i].name = x /\ sema[s][i].fn = Len(vmap)
Declarable(x) == x \in Redeclared \/ ~Visible(x)

\* sc_def and var_def, of declaration id.
Define(id, x) ==
    /\ sema' = [sema EXCEPT ![Len(sema)] = Append(@, NewEntry(id, x))]
    /\ vars' = IF Len(vars) < MAX_VARS THEN Append(vars, NewEntry(id, x)) ELSE vars
    /\ dropped' = (dropped \/ Len(vars) >= MAX_VARS)

\* Mutant: vset leaves a name that is in the map as it is.
Allocate_KeepsFirst(id, x) ==
    vmap' = [vmap EXCEPT ![Len(vmap)] = [@ EXCEPT ![x] = IF @ = None THEN id ELSE @]]

\* The alloca of the slot var.<name>.
Allocate(id, x) == vmap' = [vmap EXCEPT ![Len(vmap)] = [@ EXCEPT ![x] = id]]

\* chk puts each constant into the root scope again, when it comes to it.
DeclareConst ==
    /\ Here = "top" /\ Len(sema[1]) < 2 * Len(consts)
    /\ sema' = [sema EXCEPT ![1] = Append(@, TopEntry(consts[Len(@) - Len(consts) + 1], Len(@) + 1))]
    /\ UNCHANGED <<consts, open, vars, scope_base, vmap, next, dropped>>

\* A declaration without a type (its initialiser is already evaluated), a
\* parameter, a loop variable or the binding of a match arm.
Declare(x) ==
    /\ Here \notin {"top", "init"} /\ next < MaxDecls /\ Declarable(x)
    /\ Define(next, x)
    /\ Allocate(next, x)
    /\ next' = next + 1
    /\ UNCHANGED <<consts, open, scope_base>>

\* A declaration with a type: its slot is allocated, then the initialiser
\* evaluated, then the name defined.
BeginTyped(x) ==
    /\ Here \notin {"top", "fn", "lambda", "init"} /\ Len(open) < MaxOpen
    /\ next < MaxDecls /\ Declarable(x)
    /\ Allocate(next, x)
    /\ next' = next + 1
    /\ UNCHANGED <<consts, sema, vars, scope_base, dropped>>
    /\ open' = Append(open, Construct("init", next, x))

EndTyped ==
    /\ Here = "init"
    /\ open' = Pop(open, 1)
    /\ Define(Top(open).id, Top(open).name)
    /\ UNCHANGED <<consts, scope_base, vmap, next>>

\* Mutant: one base stays.
Close_KeepsBase ==
    /\ Here \notin {"top", "fn", "lambda", "init"}
    /\ open' = Pop(open, Ends(Here))
    /\ sema' = Pop(sema, Ends(Here))
    /\ vars' = SubSeq(vars, 1, scope_base[Len(scope_base) - BaseEnds(Here) + 1])
    /\ scope_base' = Pop(scope_base, 1)
    /\ vmap' = IF IsBody(Here) THEN Pop(vmap, 1) ELSE vmap
    /\ UNCHANGED <<consts, next, dropped>>

\* sc_pop and scope_pop, of both scopes at the end of a function.
Close ==
    /\ Here \notin {"top", "fn", "lambda", "init"}
    /\ open' = Pop(open, Ends(Here))
    /\ sema' = Pop(sema, Ends(Here))
    /\ vars' = SubSeq(vars, 1, scope_base[Len(scope_base) - BaseEnds(Here) + 1])
    /\ scope_base' = Pop(scope_base, BaseEnds(Here))
    /\ vmap' = IF IsBody(Here) THEN Pop(vmap, 1) ELSE vmap
    /\ UNCHANGED <<consts, next, dropped>>

Next == \/ \E form \in Forms : Open(form)
        \/ \E x \in Names : Declare(x) \/ BeginTyped(x)
        \/ DeclareConst \/ EndTyped \/ Close

Spec == Init /\ [][Next]_tables

-----------------------------------------------------------------------------
TypeOK ==
    /\ consts \in Seq(Names)
    /\ open \in Seq(Constructs)
    /\ sema \in Seq(Seq(Entry)) /\ Len(sema) >= 1
    /\ vars \in Seq(Entry) /\ Len(vars) <= MAX_VARS
    /\ scope_base \in Seq(Nat) /\ Len(scope_base) = (IF open = <<>> THEN 0 ELSE Top(open).base)
    /\ vmap \in Seq([Names -> Int])
    /\ next \in Nat
    /\ dropped \in BOOLEAN

InScope == UNION {{sema[s][i] : i \in DOMAIN sema[s]} : s \in DOMAIN sema}
Entries == InScope \union {vars[i] : i \in DOMAIN vars}

\* Whatever the code generator takes an identifier for is a declaration still
\* in scope to sema, even after its variable stack overflowed.  Before that it
\* is the one sema resolves the identifier to, and the generator knows every
\* identifier sema lets through, except where that is a constant at the top
\* level.
TablesAgree ==
    \A x \in Names, d \in Entries :
        /\ VarLookup(x, d) => d \in InScope
        /\ ~dropped => (VarLookup(x, d) <=> SemaLookup(x, d) /\ d.fn # 0)

\* A load or store of a variable of the current function reaches the alloca
\* of its declaration, if no function redeclares that name where it is visible:
\* slots are named after variables and the value map knows no scopes, so
\* scopes that ended, lambdas on the way and variables of other names must
\* leave it right.
LoadsReachTheirDeclaration ==
    \A i \in DOMAIN vars :
        vars[i].name \notin Redeclared /\ VarLookup(vars[i].name, vars[i]) /\ vars[i].fn = Len(vmap)
            => Top(vmap)[vars[i].name] = vars[i].id
=============================================================================
