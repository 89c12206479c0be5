---------------------------- MODULE MCCollections ----------------------------
\* The collections of compiled programs on a small instance: two literals
\* that are keys of one bucket, four more cells, two mut str and a plain one;
\* and an array.  The array shares no state with the rest, so a behaviour
\* uses one or the other: their product would show nothing more.
EXTENDS FeArray, MutStrings, TLC

CONSTANTS c1, c2, c3, c4, c5, c6, k1, k2, s, t, u

MCLiteral == k1 :> c1 @@ k2 :> c2
MCHash == k1 :> 1 @@ k2 :> 1
MCSymmetry == Permutations({c3, c4, c5, c6})

VARIABLE uses

MCInit == AInit /\ SInit /\ uses \in {"array", "strings"}
MCNext == \/ uses = "array" /\ ANext /\ UNCHANGED <<allVars, uses>>
          \/ uses = "strings" /\ SNext /\ UNCHANGED <<avars, uses>>
MCSpec == MCInit /\ [][MCNext]_<<allVars, avars, uses>>
=============================================================================
