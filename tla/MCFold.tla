------------------------------- MODULE MCFold -------------------------------
\* Slots of three and two bits in a compiler with a long long of four bits.
EXTENDS Fold

Slot3And2 == [x |-> 3, y |-> 2]
TwoMemories == {[x |-> 3, y |-> 1], [x |-> -2, y |-> -2]}
SixteenPowers == [n \in 0 .. 4 |-> 2^n]
OddInts == {-4, -1, 0, 1, 2, 3}
FewInts == {-1, 1}
=============================================================================
