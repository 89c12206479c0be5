------------------------------ MODULE Dictionary ------------------------------
(***************************************************************************)
(* What map::* promises a program: a partial function from key texts to    *)
(* values.  A key is what the text read when the entry was made, whatever  *)
(* the program does with its own string afterwards.                        *)
(***************************************************************************)
EXTENDS Integers

CONSTANTS Keys, Vals, Absent

VARIABLES handle, dict, ret

vars == <<handle, dict, ret>>

Empty == [k \in Keys |-> Absent]

Init == handle = "null" /\ dict = Empty /\ ret = 0

New == handle = "null" /\ handle' = "live" /\ dict' = Empty /\ UNCHANGED ret

Set(k, v) == /\ handle = "live"
             /\ dict' = [dict EXCEPT ![k] = v]
             /\ UNCHANGED <<handle, ret>>

Get(k) == /\ ret' = IF dict[k] = Absent THEN 0 ELSE dict[k]
          /\ UNCHANGED <<handle, dict>>

Has(k) == /\ ret' = IF dict[k] = Absent THEN 0 ELSE 1
          /\ UNCHANGED <<handle, dict>>

Delete(k) == dict' = [dict EXCEPT ![k] = Absent] /\ UNCHANGED <<handle, ret>>

\* An operation on a null key answers as if the key were absent.
NoKey == ret' = 0 /\ UNCHANGED <<handle, dict>>

Free == handle' = "null" /\ dict' = Empty /\ UNCHANGED ret

Next == \/ New \/ Free \/ NoKey
        \/ \E k \in Keys : Get(k) \/ Has(k) \/ Delete(k)
        \/ \E k \in Keys, v \in Vals : Set(k, v)

Spec == Init /\ [][Next]_vars
=============================================================================
