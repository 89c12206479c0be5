----------------------------- MODULE SequenceADT -----------------------------
(***************************************************************************)
(* What array::* promises a program: a sequence that is extended and       *)
(* shortened at its end.  Asking for an element that is not there answers  *)
(* 0, and storing one is ignored, as is everything while there is no       *)
(* array.  Capacity does not exist here.                                   *)
(***************************************************************************)
EXTENDS Integers, Sequences

CONSTANTS Vals, Indices

VARIABLES handle, items, ret

vars == <<handle, items, ret>>

Live == handle = "live"

Init == handle = "null" /\ items = <<>> /\ ret = 0

New == ~Live /\ handle' = "live" /\ items' = <<>> /\ UNCHANGED ret

Push(v) == Live /\ items' = Append(items, v) /\ UNCHANGED <<handle, ret>>

Pop == /\ IF items = <<>>
          THEN ret' = 0 /\ UNCHANGED items
          ELSE /\ ret' = items[Len(items)]
               /\ items' = SubSeq(items, 1, Len(items) - 1)
       /\ UNCHANGED handle

\* A program counts elements from 0.
Get(i) == /\ ret' = IF i + 1 \in DOMAIN items THEN items[i + 1] ELSE 0
          /\ UNCHANGED <<handle, items>>

Set(i, v) == /\ items' = IF i + 1 \in DOMAIN items
                         THEN [items EXCEPT ![i + 1] = v] ELSE items
             /\ UNCHANGED <<handle, ret>>

Length == ret' = Len(items) /\ UNCHANGED <<handle, items>>

Free == handle' = "null" /\ items' = <<>> /\ UNCHANGED ret

Next ==
    \/ New \/ Pop \/ Length \/ Free
    \/ \E v \in Vals : Push(v)
    \/ \E i \in Indices : Get(i)
    \/ \E i \in Indices, v \in Vals : Set(i, v)

Spec == Init /\ [][Next]_vars
=============================================================================
