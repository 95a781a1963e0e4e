-------------------------- MODULE MCRollingLogger --------------------------
(* Instances of RollingLogger for TLC.                                     *)
EXTENDS RollingLogger

\* Line 3 alone is longer than a file (maxFileSize is 2), the others are not.
Sizes == <<1, 1, 3>>
SizesFromBanner == [l \in 0..MaxLines |-> IF l = 0 THEN 1 ELSE Sizes[l]]

ThreadSymmetry == Permutations(Threads)
=============================================================================
