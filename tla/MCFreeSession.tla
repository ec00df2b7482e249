---------------------------- MODULE MCFreeSession ----------------------------
(* Small instances of FreeSession for TLC.                                 *)
EXTENDS FreeSession, TLC

\* Model values for the grants and the instance ids they carry.
CONSTANTS g1, g2, i1

OneGrant     == g1 :> i1
SameInstance == (g1 :> i1) @@ (g2 :> i1)

\* The requests are interchangeable, and so are the names of the rebuilds.
Symmetry == Permutations(Requests) \cup Permutations(Rebuilders)

=============================================================================
