------------------------------ MODULE PoolOrder ------------------------------
(***************************************************************************)
(* The order in which RunManager.Acquire looks at its candidates           *)
(* (groupPoolsByPriority and weightedPoolOrder in run_manager.go), as      *)
(* functions of the pools, their priorities, weights and labels, and the   *)
(* seed.  Labels are numbers here: all that is done with them is comparing *)
(* them.  A list of pools is the place of each in it, so that nothing has  *)
(* to be computed by recursion.                                            *)
(***************************************************************************)
EXTENDS FiniteSetsExt

\* What the groups, and each of them inside, are sorted by.
Before(p, q, prio, weight, label) ==
    \/ prio[p] > prio[q]
    \/ prio[p] = prio[q] /\ weight[p] > weight[q]
    \/ prio[p] = prio[q] /\ weight[p] = weight[q] /\ label[p] < label[q]

\* The places of the pools of S in the groups written one after the other.
\* sort.Slice is not stable and the candidates come out of a map: pools of the
\* same weight and label may stand either way, and differently every time.
groupPoolsByPriority(S, prio, weight, label) ==
    {pos \in Bijection(S, 1..Cardinality(S)) :
        \A p, q \in S : Before(p, q, prio, weight, label) => pos[p] < pos[q]}

Repeat(w) == IF w <= 0 THEN 1 ELSE w

\* The entries of the expanded list: every pool, as often as its weight says.
Entries(group, weight) == UNION {{p} \X (1..Repeat(weight[p])) : p \in group}

\* The indices p has in that list, which begins at 0.
Indices(p, group, pos, weight) ==
    LET ahead == Cardinality(Entries({q \in group : pos[q] < pos[p]}, weight))
    IN  ahead .. ahead + Repeat(weight[p]) - 1

\* How far from the seed's entry, going round, the first entry of p is.
FirstMet(p, group, pos, weight, seed) ==
    LET total == Cardinality(Entries(group, weight))
    IN  Min({offset \in 0..total - 1 :
                ((seed % total) + offset) % total \in Indices(p, group, pos, weight)})

\* Mutants: entries of pools seen before are counted; the seed counts pools.
OrderOfEntries(group, pos, weight, seed) ==
    [p \in group |-> FirstMet(p, group, pos, weight, seed) + 1]

OrderOfPools(group, pos, weight, seed) ==
    LET met(p) == FirstMet(p, group, pos, weight, seed % Cardinality(group))
    IN  [p \in group |-> Cardinality({q \in group : met(q) <= met(p)})]

\* The places of the pools of a group, beginning where the seed points and
\* leaving out pools seen before.
weightedPoolOrder(group, pos, weight, seed) ==
    LET met(p) == FirstMet(p, group, pos, weight, seed)
    IN  [p \in group |-> Cardinality({q \in group : met(q) <= met(p)})]

\* The places of all candidates as Acquire comes to them, sessions apart.
AcquireOrder(S, pos, prio, weight, seed) ==
    [p \in S |->
        LET group == {q \in S : prio[q] = prio[p]}
        IN  Cardinality({q \in S : prio[q] > prio[p]})
              + weightedPoolOrder(group, pos, weight, seed)[p]]

=============================================================================
