---------------------------- MODULE RegionScopes ----------------------------
(***************************************************************************)
(* What a region promises a Fermi program, independent of how the runtime  *)
(* keeps its frames: memory allocated while a region is the innermost open *)
(* scope stays usable for as long as that scope is open.  When scopes are  *)
(* closed the memory they own may be released, at once, later or never.    *)
(***************************************************************************)
EXTENDS Integers, Sequences

CONSTANTS Objects, ScopeKinds

VARIABLES scopes,   \* kinds of the open scopes, outermost first
          heap,     \* what happened to each allocation
          owner     \* position of the scope owning a live allocation

absVars == <<scopes, heap, owner>>

Closed == -1

Init == /\ scopes \in [1..1 -> ScopeKinds]
        /\ heap = [o \in Objects |-> "fresh"]
        /\ owner = [o \in Objects |-> Closed]

Open(kind) == /\ scopes' = Append(scopes, kind)
              /\ UNCHANGED <<heap, owner>>

\* The owner is any open scope, or 0, the whole program.
Allocate(o, s) == /\ heap[o] = "fresh"
                  /\ heap' = [heap EXCEPT ![o] = "live"]
                  /\ owner' = [owner EXCEPT ![o] = s]
                  /\ UNCHANGED scopes

\* Close every scope above position k, then release some ownerless memory.
Exit(k) == /\ scopes' = SubSeq(scopes, 1, k)
           /\ owner' = [o \in Objects |-> IF owner[o] > k THEN Closed ELSE owner[o]]
           /\ \E freed \in SUBSET {o \in Objects : owner'[o] = Closed /\ heap[o] = "live"} :
                 heap' = [o \in Objects |-> IF o \in freed THEN "freed" ELSE heap[o]]

Next == \/ \E kind \in ScopeKinds : Open(kind)
        \/ \E o \in Objects, s \in 0..Len(scopes) : Allocate(o, s)
        \/ \E k \in 0..Len(scopes) : Exit(k)

Spec == Init /\ [][Next]_absVars
=============================================================================
