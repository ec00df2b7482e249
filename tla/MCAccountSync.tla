---------------------------- MODULE MCAccountSync ----------------------------
(* Small instances of AccountSync for TLC.                                 *)
EXTENDS AccountSync, TLC

\* The handlers are interchangeable, and so are the ids and the tokens.
Symmetry == Permutations(Threads) \cup Permutations(Accounts) \cup Permutations(Tokens)

=============================================================================
