------------------------------ MODULE MCValues ------------------------------
\* Values with types of 1, 2, 3 and 4 bits.
EXTENDS Values, TLC

MCBits == [t \in Types |-> CASE t = "i1" -> 1 [] t = "i8" -> 2 [] t = "i32" -> 3 [] t = "i64" -> 4]
MCPowers == [n \in 0..3 |-> 2^n]
MCArguments == {-8, -4}
MCOperators == {"+", "/", "<<", ">>>", "<", "=="}
MCSymmetry == Permutations(Vars)
=============================================================================
