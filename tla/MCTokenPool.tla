----------------------------- MODULE MCTokenPool -----------------------------
(* Small instances of TokenPool for TLC.                                   *)
EXTENDS TokenPool, TLC

\* The ids of attempts and of runs are interchangeable.
Symmetry == Permutations(Attempts) \cup Permutations(Runs)

=============================================================================
