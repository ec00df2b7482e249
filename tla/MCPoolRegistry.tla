---------------------------- MODULE MCPoolRegistry ----------------------------
(* Small instances of PoolRegistry for TLC.                                *)
EXTENDS PoolRegistry, TLC

\* Model values for the accounts.
CONSTANTS a1, a2, a3

Level   == a1 :> 100 @@ a2 :> 100 @@ a3 :> 200
Weights == a1 :> 1 @@ a2 :> 2 @@ a3 :> 0
Labels  == a1 :> 1 @@ a2 :> 2 @@ a3 :> 3

\* Pools and runs are interchangeable.
Symmetry == Permutations(Pools) \cup Permutations(Runs)

=============================================================================
