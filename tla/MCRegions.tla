----------------------------- MODULE MCRegions ------------------------------
\* Regions on a small instance: three allocations, a runtime with room for
\* two frames, and programs nested up to five levels deep.
EXTENDS Regions, TLC

Symmetric == Permutations(Objects)
=============================================================================
