------------------------------ MODULE Regions -------------------------------
(***************************************************************************)
(* The region allocator of the runtime (rt/fermi_rt.c 301-329) driven the  *)
(* way generated code drives it (codegen.c 2093-2104): a region block      *)
(* calls fe_region_push on entry and fe_region_pop only where control      *)
(* falls off its end.  return, break and continue leave it without a pop.  *)
(*                                                                         *)
(* ctl is the dynamic nesting of the running program: function             *)
(* activations, loops and region blocks.  A region entry remembers, as a   *)
(* history variable, the runtime depth its push produced.                  *)
(***************************************************************************)
EXTENDS Integers, Sequences

CONSTANTS Objects,    \* allocations the program may perform
          MaxDepth,   \* FE_MAX_REGION_DEPTH
          MaxNesting  \* bound on Len(ctl), for model checking only

ASSUME DepthAssumption == MaxDepth \in Nat
ASSUME NestingAssumption == MaxNesting \in Nat

VARIABLES depth,      \* fe_region_depth
          heads,      \* fe_region_heads: the objects of each frame's node list
          heap,       \* what malloc and free did to each object
          ctl,        \* activations, loops and region blocks, outermost first
          owner,      \* history: position in ctl of the region an object belongs to
          saturated,  \* history: some push was ignored because depth = MaxDepth
          abandoned   \* history: some region was left without its pop

vars == <<depth, heads, heap, ctl, owner, saturated, abandoned>>

Closed == -1
Frames == 1..MaxDepth
Kinds == {"fn", "loop", "region"}
Entry == [kind : Kinds, base : Nat]

IsRegion(c, i) == c[i].kind = "region"
RegionsOf(c) == {i \in DOMAIN c : IsRegion(c, i)}
IsLast(i, S) == i \in S /\ \A j \in S : j <= i

\* The function activations, and the loops of the running one.
Activations == {i \in DOMAIN ctl : ctl[i].kind = "fn"}
InActivation(i) == \A j \in Activations : j < i
Loops == {i \in DOMAIN ctl : ctl[i].kind = "loop" /\ InActivation(i)}

\* cg->in_region at the point being executed.
InRegion == \E i \in RegionsOf(ctl) : InActivation(i)

Running == ctl # <<>>

Init == /\ depth = 0
        /\ heads = [f \in Frames |-> {}]
        /\ heap = [o \in Objects |-> "fresh"]
        /\ ctl = << [kind |-> "fn", base |-> 0] >>
        /\ owner = [o \in Objects |-> Closed]
        /\ saturated = FALSE
        /\ abandoned = FALSE

-----------------------------------------------------------------------------
\* The three runtime entry points.

\* Mutant: the slot keeps the list its last frame had.
fe_region_push_StaleHead ==
    IF depth < MaxDepth
    THEN depth' = depth + 1 /\ UNCHANGED <<heads, saturated>>
    ELSE saturated' = TRUE /\ UNCHANGED <<heads, depth>>

\* A push at the limit is ignored, a pop never is.
fe_region_push ==
    IF depth < MaxDepth
    THEN /\ heads' = [heads EXCEPT ![depth + 1] = {}]
         /\ depth' = depth + 1
         /\ UNCHANGED saturated
    ELSE /\ saturated' = TRUE
         /\ UNCHANGED <<heads, depth>>

fe_region_alloc(o) ==
    /\ heap' = [heap EXCEPT ![o] = "live"]
    /\ heads' = IF depth > 0 THEN [heads EXCEPT ![depth] = @ \union {o}] ELSE heads

Popped == IF depth > 0 THEN heads[depth] ELSE {}

\* Mutants: a pop with nothing pushed is counted, the outermost is not done.
fe_region_pop_Unchecked ==
    /\ depth' = depth - 1
    /\ heap' = [o \in Objects |-> IF o \in Popped THEN "freed" ELSE heap[o]]

fe_region_pop_OffByOne ==
    /\ depth' = IF depth > 1 THEN depth - 1 ELSE depth
    /\ heap' = [o \in Objects |-> IF depth > 1 /\ o \in Popped THEN "freed" ELSE heap[o]]

fe_region_pop ==
    /\ depth' = IF depth > 0 THEN depth - 1 ELSE 0
    /\ heap' = [o \in Objects |-> IF o \in Popped THEN "freed" ELSE heap[o]]

-----------------------------------------------------------------------------
\* What generated code does.

Nest(kind, base) == ctl' = Append(ctl, [kind |-> kind, base |-> base])

\* Mutant: a region inside a region of the same function shares its frame.
EnterRegion_NoNestedPush ==
    /\ Running /\ Len(ctl) < MaxNesting
    /\ IF InRegion THEN UNCHANGED <<depth, heads, saturated>> ELSE fe_region_push
    /\ Nest("region", depth')
    /\ UNCHANGED <<heap, owner, abandoned>>

EnterRegion ==
    /\ Running /\ Len(ctl) < MaxNesting
    /\ fe_region_push
    /\ Nest("region", depth')
    /\ UNCHANGED <<heap, owner, abandoned>>

EnterLoop ==
    /\ Running /\ Len(ctl) < MaxNesting
    /\ Nest("loop", 0)
    /\ UNCHANGED <<depth, heads, heap, owner, saturated, abandoned>>

Call ==
    /\ Running /\ Len(ctl) < MaxNesting
    /\ Nest("fn", 0)
    /\ UNCHANGED <<depth, heads, heap, owner, saturated, abandoned>>

\* mem::region_alloc, and alloc or realloc inside a region block.
RegionAlloc(o) ==
    /\ Running /\ heap[o] = "fresh"
    /\ fe_region_alloc(o)
    /\ \E r \in {0} \union RegionsOf(ctl) :
          /\ IsLast(r, {0} \union RegionsOf(ctl))
          /\ owner' = [owner EXCEPT ![o] = r]
    /\ UNCHANGED <<depth, ctl, saturated, abandoned>>

\* alloc outside any region block of its function becomes fe_alloc.
PlainAlloc(o) ==
    /\ Running /\ heap[o] = "fresh"
    /\ ~InRegion
    /\ heap' = [heap EXCEPT ![o] = "live"]
    /\ owner' = [owner EXCEPT ![o] = 0]
    /\ UNCHANGED <<depth, heads, ctl, saturated, abandoned>>

\* Entries above position k are left; their objects belong to nobody.
Unwind(k) ==
    /\ ctl' = SubSeq(ctl, 1, k)
    /\ owner' = [o \in Objects |-> IF owner[o] > k THEN Closed ELSE owner[o]]

\* Control falls off the end of a region block.
LeaveRegion ==
    /\ Running /\ IsRegion(ctl, Len(ctl))
    /\ fe_region_pop
    /\ Unwind(Len(ctl) - 1)
    /\ UNCHANGED <<heads, saturated, abandoned>>

LeaveLoop ==
    /\ Running /\ ctl[Len(ctl)].kind = "loop"
    /\ Unwind(Len(ctl) - 1)
    /\ UNCHANGED <<depth, heads, heap, saturated, abandoned>>

\* A jump out of everything above position k: no pop is generated.
Jump(k) ==
    /\ Unwind(k)
    /\ abandoned' = (abandoned \/ \E i \in RegionsOf(ctl) : i > k)
    /\ UNCHANGED <<depth, heads, heap, saturated>>

Break == \E i \in Loops : IsLast(i, Loops) /\ Jump(i - 1)
Continue == \E i \in Loops : IsLast(i, Loops) /\ Jump(i)
Return == \E i \in Activations : IsLast(i, Activations) /\ Jump(i - 1)

Next == \/ EnterRegion \/ EnterLoop \/ Call
        \/ \E o \in Objects : RegionAlloc(o) \/ PlainAlloc(o)
        \/ LeaveRegion \/ LeaveLoop
        \/ Break \/ Continue \/ Return

Spec == Init /\ [][Next]_vars

-----------------------------------------------------------------------------
TypeOK ==
    /\ depth \in 0..MaxDepth
    /\ heads \in [Frames -> SUBSET Objects]
    /\ heap \in [Objects -> {"fresh", "live", "freed"}]
    /\ ctl \in Seq(Entry)
    /\ owner \in [Objects -> Int]
    /\ saturated \in BOOLEAN
    /\ abandoned \in BOOLEAN

\* While no push was ignored, memory of a region that is still open (or of
\* the whole program, owner 0) has not been freed: however many inner regions
\* were left by return, break or continue, the frames they leaked lie above
\* the frames of the open ones, so a pop never reaches those.
NoPrematureFree ==
    ~saturated => \A o \in Objects : owner[o] # Closed => heap[o] = "live"

\* While no push was ignored and no region abandoned, the runtime depth is
\* that of the innermost open region and everything allocated in a region
\* that has ended was freed with it: fe_region_pop forgets nothing.
NoLeakWhenBalanced ==
    ~saturated /\ ~abandoned =>
        /\ RegionsOf(ctl) = {} => depth = 0
        /\ \A i \in RegionsOf(ctl) : IsLast(i, RegionsOf(ctl)) => depth = ctl[i].base
        /\ \A o \in Objects : owner[o] = Closed => heap[o] # "live"

\* The node lists of the frames in use hold only memory that has not been
\* freed: fe_region_pop never frees an object a second time, saturated or not.
\* (A push must therefore empty the list the last pop left in its slot.)
FramesHoldLive ==
    \A f \in 1..depth : \A o \in heads[f] : heap[o] = "live"

Scopes == INSTANCE RegionScopes WITH
             ScopeKinds <- Kinds,
             scopes <- [i \in DOMAIN ctl |-> ctl[i].kind]

\* Until a push is ignored the runtime keeps the promise of RegionScopes.
ImplementsScopes ==
    Scopes!Init /\ [][saturated' \/ Scopes!Next \/ UNCHANGED Scopes!absVars]_vars
=============================================================================
