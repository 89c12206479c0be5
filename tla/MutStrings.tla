------------------------------ MODULE MutStrings ------------------------------
(***************************************************************************)
(* The string variables of a compiled program, and the map it keeps.  A    *)
(* mut str owns a malloc'ed copy of what it was given; assigning to it     *)
(* frees the copy first and then copies the new value (codegen.c 183-238,  *)
(* 954-972, 1735-1788).  A str that is not mut only keeps the pointer.     *)
(* Nothing is freed when a variable goes out of scope, so declaring a      *)
(* variable again, in the next turn of a loop, leaves its buffer behind.   *)
(***************************************************************************)
EXTENDS FeMap

CONSTANTS Mutable, Immutable, \* the program's str variables
          Literal,            \* the constant cell of each literal text
          Undeclared,
          NoVar

Vars == Mutable \cup Immutable
Literals == {Literal[k] : k \in Keys}

ASSUME LiteralAssumption ==
    /\ Literal \in [Keys -> Cells]
    /\ \A j, k \in Keys : Literal[j] = Literal[k] => j = k
ASSUME VarAssumption ==
    /\ Mutable \cap Immutable = {}
    /\ NoVar \notin Mutable
    /\ Undeclared \notin Cells \cup {Null}
    /\ Null \notin Keys

VARIABLES slot,   \* the pointer each variable holds
          val,    \* history: the text the program last gave each variable
          shares, \* history: the mut str whose buffer a plain str points to
          stale   \* history: variables whose text the program gave away

sVars == <<slot, val, shares, stale>>
allVars == <<vars, sVars>>

SInit ==
    /\ mem = [c \in Cells |-> IF c \in Literals
                              THEN CHOOSE k \in Keys : Literal[k] = c ELSE Freed]
    /\ copies = {} /\ handle = "null" /\ buckets = NoEntries /\ ret = 0
    /\ slot = [v \in Vars |-> Undeclared]
    /\ val = [v \in Vars |-> Null]
    /\ shares = [v \in Immutable |-> NoVar]
    /\ stale = {}

Declared(v) == slot[v] # Undeclared

(***************************************************************************)
(* Right-hand sides: a literal, another variable, or a text the runtime    *)
(* builds in a block of its own (fe_concat, fe_trim and the like), which   *)
(* nobody frees.  Evaluating one gives a pointer and the memory after it.  *)
(***************************************************************************)
Sources == [kind : {"literal", "fresh"}, text : Keys] \cup [kind : {"var"}, name : Vars]

FreeCells(m) == {c \in Cells : m[c] = Freed}

\* Text x in block c, and the pointer to it.
Written(m, c, x) == [mem |-> [m EXCEPT ![c] = x], ptr |-> c]

Evaluations(src) ==
    CASE src.kind = "literal" -> {[mem |-> mem, ptr |-> Literal[src.text]]}
      [] src.kind = "var" -> {[mem |-> mem, ptr |-> slot[src.name]]}
      [] src.kind = "fresh" ->
            {Written(mem, c, src.text) : c \in FreeCells(mem)}

TextOf(src) == IF src.kind = "var" THEN val[src.name] ELSE src.text
IsStale(src) == src.kind = "var" /\ src.name \in stale

\* The mut str whose buffer a right-hand side points into.
BufferOf(src) == IF src.kind # "var" THEN NoVar
                 ELSE IF src.name \in Mutable THEN src.name ELSE shares[src.name]

\* A program that copies an undeclared or null string is not considered.
Copyable(src) == src.kind = "var" => slot[src.name] \in Cells

\* What strlen and strcpy read at p: freed memory holds anything.
TextsAt(m, p) == IF m[p] = Freed THEN Keys ELSE {m[p]}

\* Mutant (of emit_mut_str_copy): the pointer itself is kept.
emit_mut_str_copy_Shares(m, p) == {[mem |-> m, ptr |-> p]}

\* Mutant (of emit_mut_str_copy): room for the text but not its final zero,
\* which lands in another block.
emit_mut_str_copy_OneShort(m, p) ==
    {[mem |-> [m EXCEPT ![c] = x, ![d] = x], ptr |-> c] :
        c \in FreeCells(m), d \in Cells, x \in TextsAt(m, p)}

emit_mut_str_copy(m, p) ==
    {Written(m, c, x) : c \in FreeCells(m), x \in TextsAt(m, p)}

\* Mutant (of emit_mut_str_replace): the new value is freed, not the old one.
emit_mut_str_replace_FreesNew(m, old, p) ==
    emit_mut_str_copy(IF old = Null THEN m ELSE [m EXCEPT ![p] = Freed], p)

emit_mut_str_replace(m, old, p) ==
    emit_mut_str_copy(IF old = Null THEN m ELSE [m EXCEPT ![old] = Freed], p)

Store(v, r) == mem' = r.mem /\ slot' = [slot EXCEPT ![v] = r.ptr]

(***************************************************************************)
(* Statements                                                              *)
(***************************************************************************)

DeclareMut(v, src) ==
    /\ Copyable(src)
    /\ \E e \in Evaluations(src) : \E r \in emit_mut_str_copy(e.mem, e.ptr) : Store(v, r)
    /\ val' = [val EXCEPT ![v] = TextOf(src)]
    /\ stale' = IF IsStale(src) THEN stale \cup {v} ELSE stale \ {v}
    /\ shares' = [u \in Immutable |-> IF shares[u] = v THEN NoVar ELSE shares[u]]
    /\ UNCHANGED <<copies, handle, buckets, ret>>

DeclareMutEmpty(v) ==
    /\ slot' = [slot EXCEPT ![v] = Null]
    /\ val' = [val EXCEPT ![v] = Null]
    /\ stale' = stale \ {v}
    /\ shares' = [u \in Immutable |-> IF shares[u] = v THEN NoVar ELSE shares[u]]
    /\ UNCHANGED vars

\* A parameter is no mut variable to the code generator, even a mut one
\* (1650, 2261): assigning to it, which sema lets a mut parameter, is this
\* very store of a pointer.
DeclarePlain(u, src) ==
    /\ src.kind = "var" => Declared(src.name)
    /\ \E e \in Evaluations(src) : Store(u, e)
    /\ val' = [val EXCEPT ![u] = TextOf(src)]
    /\ shares' = [shares EXCEPT ![u] = BufferOf(src)]
    /\ stale' = IF IsStale(src) THEN stale \cup {u} ELSE stale \ {u}
    /\ UNCHANGED <<copies, handle, buckets, ret>>

\* Freeing the old buffer takes the text from every plain str that shares
\* it, and from v itself when the new value is read from that very buffer.
Bereaved(v, src) ==
    {u \in Immutable : shares[u] = v} \cup (IF BufferOf(src) = v THEN {v} ELSE {})

AssignMut(v, src) ==
    /\ Declared(v) /\ Copyable(src)
    /\ \E e \in Evaluations(src) :
          \E r \in emit_mut_str_replace(e.mem, slot[v], e.ptr) : Store(v, r)
    /\ val' = [val EXCEPT ![v] = TextOf(src)]
    /\ stale' = (IF IsStale(src) THEN stale \cup {v} ELSE stale \ {v}) \cup Bereaved(v, src)
    /\ shares' = [u \in Immutable |-> IF shares[u] = v THEN NoVar ELSE shares[u]]
    /\ UNCHANGED <<copies, handle, buckets, ret>>

(***************************************************************************)
(* Map calls take the pointer a variable holds (codegen.c 655-663).        *)
(***************************************************************************)
KeyVars == {v \in Vars : Declared(v) /\ v \notin stale}

MapCall ==
    /\ \/ fe_map_new
       \/ fe_map_free
       \/ \E u \in KeyVars : \/ \E x \in Vals : fe_map_set(slot[u], x)
                             \/ fe_map_get(slot[u])
                             \/ fe_map_has(slot[u])
                             \/ fe_map_delete(slot[u])
    /\ UNCHANGED sVars

SNext ==
    \/ \E v \in Mutable : DeclareMutEmpty(v)
    \/ \E v \in Mutable, src \in Sources : DeclareMut(v, src) \/ AssignMut(v, src)
    \/ \E u \in Immutable, src \in Sources : DeclarePlain(u, src)
    \/ MapCall

SSpec == SInit /\ [][SNext]_allVars

(***************************************************************************)
(* Properties                                                              *)
(***************************************************************************)

STypeOK ==
    /\ TypeOK
    /\ slot \in [Vars -> Cells \cup {Null, Undeclared}]
    /\ val \in [Vars -> Keys \cup {Null}]
    /\ shares \in [Immutable -> Mutable \cup {NoVar}]
    /\ stale \in SUBSET Vars

Buffers == {v \in Mutable : slot[v] \in Cells}

\* A mut str owns an allocated block that is no literal, no other mut str's
\* and no map key: the free an assignment begins with is always of its own
\* memory and never the second one (codegen.c 225-238).
BuffersHaveOneOwner ==
    /\ \A v \in Buffers : mem[slot[v]] # Freed /\ slot[v] \notin Literals \cup copies
    /\ \A v, w \in Buffers : slot[v] = slot[w] => v = w
    /\ \A k \in Keys : mem[Literal[k]] = k

\* A variable reads the text the program gave it, through any sequence of
\* declarations, assignments, map calls and reuse of freed blocks, unless
\* the program itself took it away: by assigning to the mut str whose buffer
\* it shares, by assigning a mut str to itself, or by copying such a string.
ReadsLastText ==
    \A v \in Vars : Declared(v) /\ v \notin stale =>
        IF slot[v] = Null THEN val[v] = Null ELSE mem[slot[v]] = val[v]

\* To the map, a compiled program is one that leaves the map's cells alone:
\* every run is one of FeMap.
ImplementsFeMap == Spec
=============================================================================
