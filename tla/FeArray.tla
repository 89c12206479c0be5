------------------------------- MODULE FeArray -------------------------------
(***************************************************************************)
(* The growable array of the runtime (rt/fermi_rt.c 331-350), called by    *)
(* generated code through array::new, push, pop, get, set, len and free    *)
(* (codegen.c 542-552).  data is the block malloc and realloc give: its    *)
(* cells are unwritten until a push or a set writes them, and popping      *)
(* leaves the old value behind.  Every operation but fe_array_new takes    *)
(* the null handle and then does nothing.                                  *)
(***************************************************************************)
EXTENDS Integers

CONSTANTS Elems,      \* values a program stores
          Unwritten,  \* content of a cell of a fresh block
          DefaultCap, \* capacity fe_array_new takes when asked for none: 8
          Requests,   \* capacities a program asks for
          MaxLen      \* bound on len, for model checking only

ASSUME ElemAssumption == Elems \subseteq Int /\ 0 \in Elems /\ Unwritten \notin Elems
ASSUME CapAssumption == DefaultCap \in Nat \ {0}
ASSUME RequestAssumption == Requests \subseteq Int
ASSUME BoundAssumption == MaxLen \in Nat

VARIABLES arr,    \* the program's pointer: null, or to a live array
          data,   \* the block: a function of 0..cap-1
          len,
          cap,
          answer  \* the last answer

avars == <<arr, data, len, cap, answer>>

HasArray == arr = "live"
Block(n) == 0..n - 1
NoBlock == [i \in Block(0) |-> Unwritten]

AInit == arr = "null" /\ data = NoBlock /\ len = 0 /\ cap = 0 /\ answer = 0

fe_array_new(asked) ==
    /\ ~HasArray
    /\ arr' = "live"
    /\ cap' = IF asked > 0 THEN asked ELSE DefaultCap
    /\ len' = 0
    /\ data' = [i \in Block(cap') |-> Unwritten]
    /\ UNCHANGED answer

\* Mutant (of Grown): the block is replaced, its content not carried over.
Grown_Forgets(n) == [i \in Block(n) |-> IF n = cap THEN data[i] ELSE Unwritten]

\* realloc keeps the old cells; the new ones are unwritten.
Grown(n) == [i \in Block(n) |-> IF i < cap THEN data[i] ELSE Unwritten]

\* Mutant (of fe_array_push): grows only when the array is over-full.
fe_array_push_GrowsLate(v) ==
    /\ HasArray
    /\ len < MaxLen
    /\ cap' = IF len > cap THEN 2 * cap ELSE cap
    /\ data' = [Grown(cap') EXCEPT ![len] = v]
    /\ len' = len + 1
    /\ UNCHANGED <<arr, answer>>

\* Mutant (of fe_array_push): the capacity doubles, the block does not.
fe_array_push_NoRealloc(v) ==
    /\ HasArray
    /\ len < MaxLen
    /\ cap' = IF len >= cap THEN 2 * cap ELSE cap
    /\ data' = [data EXCEPT ![len] = v]
    /\ len' = len + 1
    /\ UNCHANGED <<arr, answer>>

fe_array_push(v) ==
    /\ HasArray
    /\ len < MaxLen
    /\ cap' = IF len >= cap THEN 2 * cap ELSE cap
    /\ data' = [Grown(cap') EXCEPT ![len] = v]
    /\ len' = len + 1
    /\ UNCHANGED <<arr, answer>>

fe_array_pop ==
    /\ IF ~HasArray \/ len <= 0 THEN answer' = 0 /\ len' = len
                            ELSE answer' = data[len - 1] /\ len' = len - 1
    /\ UNCHANGED <<arr, data, cap>>

InBounds(i) == HasArray /\ i >= 0 /\ i < len

fe_array_get(i) ==
    /\ answer' = IF InBounds(i) THEN data[i] ELSE 0
    /\ UNCHANGED <<arr, data, len, cap>>

fe_array_set(i, v) ==
    /\ data' = IF InBounds(i) THEN [data EXCEPT ![i] = v] ELSE data
    /\ UNCHANGED <<arr, len, cap, answer>>

fe_array_len ==
    /\ answer' = IF HasArray THEN len ELSE 0
    /\ UNCHANGED <<arr, data, len, cap>>

\* The program drops its pointer with the array.
fe_array_free ==
    /\ arr' = "null" /\ data' = NoBlock /\ len' = 0 /\ cap' = 0
    /\ UNCHANGED answer

Indices == -1..MaxLen

ANext ==
    \/ \E n \in Requests : fe_array_new(n)
    \/ \E v \in Elems : fe_array_push(v)
    \/ fe_array_pop
    \/ \E i \in Indices : fe_array_get(i)
    \/ \E i \in Indices, v \in Elems : fe_array_set(i, v)
    \/ fe_array_len
    \/ fe_array_free

ASpec == AInit /\ [][ANext]_avars

(***************************************************************************)
(* Properties                                                              *)
(***************************************************************************)

ATypeOK == /\ arr \in {"null", "live"}
           /\ len \in Nat
           /\ cap \in Nat
           /\ data \in [Block(cap) -> Elems \cup {Unwritten}]
           /\ answer \in Elems \cup Nat

\* What a program can reach lies inside the block and was written: however
\* pushes, pops and growth alternate, no answer is ever the content of a
\* fresh cell (fermi_rt.c 338-348).
ReachesOnlyWritten ==
    /\ len <= cap
    /\ HasArray => cap > 0
    /\ \A i \in Block(len) : data[i] \in Elems

\* The sequence a program sees, and the specification it is promised.
Items == [i \in 1..len |-> data[i - 1]]
Sequence == INSTANCE SequenceADT WITH
               Vals <- Elems, handle <- arr, items <- Items, ret <- answer

\* Every run of the array is one of the sequence SequenceADT describes, the
\* answers included; capacity and leftovers stay invisible.
ImplementsSequence == Sequence!Spec
=============================================================================
