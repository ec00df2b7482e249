----------------------------- MODULE MCWebConsole -----------------------------
(* Small instances of WebConsole for TLC.                                  *)
EXTENDS WebConsole, TLC

\* Model values for the agents and the models.
CONSTANTS g1, g2, m1, m2

\* The file may have lost a model or an agent, have an agent without models, or
\* be empty.
Files == {g1 :> {m2} @@ g2 :> {}, g2 :> {m1} @@ g1 :> {m1, m2}, [a \in {} |-> {}]}

WrittenDown == g1 :> {m1}

\* The requests are interchangeable, and so are the tokens.
Symmetry == Permutations(Requests) \cup Permutations(Tokens)

=============================================================================
