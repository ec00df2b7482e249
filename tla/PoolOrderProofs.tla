--------------------------- MODULE PoolOrderProofs ---------------------------
(***************************************************************************)
(* What groupPoolsByPriority and weightedPoolOrder promise, for any finite *)
(* set of pools, any priorities, weights and labels, and any seed: every   *)
(* pool has a place of its own, and over a round of seeds every pool of a  *)
(* group is first as often as its weight says.                             *)
(***************************************************************************)
EXTENDS PoolOrder, FiniteSetTheorems, TLAPS

\* The pools of a finite group, sorted somehow.
IsGroup(group, pos, weight) ==
    /\ IsFiniteSet(group)
    /\ \A p \in group : weight[p] \in Int /\ pos[p] \in Int
    /\ \A p, q \in group : pos[p] = pos[q] => p = q

\* The pools that stand before p in the group.
Earlier(p, group, pos) == {q \in group : pos[q] < pos[p]}

\* The number of entries of the pools of T.
Total(T, weight) == Cardinality(Entries(T, weight))

-----------------------------------------------------------------------------
(* Numbers.                                                                *)

\* A set of natural numbers has a least one: what stands in for induction.
LEMMA LeastNat ==
  ASSUME NEW T \in SUBSET Nat, T # {}
  PROVE  \E x \in T : \A y \in T : x <= y
<1>1. IsWellFoundedOn(OpToRel(<, Nat), Nat)
  BY NatLessThanWellFounded
<1>2. PICK x \in T : \A y \in T : ~(<<y, x>> \in OpToRel(<, Nat))
  BY <1>1, WFMin
<1>3. \A y \in T : <<y, x>> \in Nat \X Nat
  OBVIOUS
<1>4. \A y \in T : ~(y < x)
  BY <1>2, <1>3, Zenon DEF OpToRel
<1> QED
  BY <1>4

\* The operator Min finds it.
LEMMA MinNat ==
  ASSUME NEW T \in SUBSET Nat, T # {}
  PROVE  Min(T) \in T /\ \A y \in T : Min(T) <= y
<1>1. \E x \in T : \A y \in T : x <= y
  BY LeastNat
<1> QED
  BY <1>1, Zenon DEF Min

\* A remainder is what is left when it is small enough.
LEMMA RemainderUnique ==
  ASSUME NEW n \in Nat \ {0}, NEW q \in Int, NEW m \in Nat, m < n
  PROVE  (n * q + m) % n = m
BY SMTT(30)

LEMMA RemainderType ==
  ASSUME NEW n \in Nat \ {0}, NEW a \in Nat
  PROVE  a % n \in Nat /\ a % n < n
OBVIOUS

\* Going on from a by less than a round.
LEMMA RemainderStep ==
  ASSUME NEW n \in Nat \ {0}, NEW a \in Nat, NEW i \in Nat, i < n
  PROVE  (a + i) % n = IF (a % n) + i < n THEN (a % n) + i ELSE (a % n) + i - n
<1> DEFINE q == a \div n
           r == a % n
<1>1. q \in Int /\ a = n * q + r
  OBVIOUS
<1>2. r \in Nat /\ r < n
  BY RemainderType
<1> HIDE DEF q, r
<1>3. CASE r + i < n
  <2>1. a + i = n * q + (r + i)
    BY <1>1, <1>2
  <2>2. (n * q + (r + i)) % n = r + i
    BY <1>1, <1>2, <1>3, RemainderUnique
  <2> QED
    BY <1>3, <2>1, <2>2 DEF r
<1>4. CASE r + i >= n
  <2>1. n * (q + 1) = n * q + n
    BY <1>1
  <2>2. a + i = n * (q + 1) + (r + i - n)
    BY <1>1, <1>2, <2>1
  <2>3. r + i - n \in Nat /\ r + i - n < n /\ q + 1 \in Int
    BY <1>1, <1>2, <1>4
  <2>4. (n * (q + 1) + (r + i - n)) % n = r + i - n
    BY <2>3, RemainderUnique
  <2>5. (a + i) % n = r + i - n
    BY <2>2, <2>4
  <2> QED
    BY <1>2, <1>4, <2>5 DEF r
<1> QED
  BY <1>2, <1>3, <1>4

\* What is small enough is its own remainder.
LEMMA RemainderSmall ==
  ASSUME NEW n \in Nat \ {0}, NEW a \in Nat, a < n
  PROVE  a % n = a
OBVIOUS

-----------------------------------------------------------------------------
(* The entries of the expanded list.                                       *)

\* Every pool has at least one entry.
LEMMA RepeatType == ASSUME NEW w \in Int PROVE Repeat(w) \in Nat \ {0}
BY DEF Repeat

\* One pool has as many entries as its weight says.
LEMMA OwnEntries ==
  ASSUME NEW p, NEW n \in Nat
  PROVE  IsFiniteSet({p} \X (1..n)) /\ Cardinality({p} \X (1..n)) = n
<1> DEFINE f == [c \in 1..n |-> <<p, c>>]
<1>1. f \in [1..n -> {p} \X (1..n)]
  OBVIOUS
<1>2. \A b, c \in 1..n : f[b] = f[c] => b = c
  OBVIOUS
<1>3. \A e \in {p} \X (1..n) : \E c \in 1..n : f[c] = e
  OBVIOUS
<1> HIDE DEF f
<1>4. f \in Bijection(1..n, {p} \X (1..n))
  BY <1>1, <1>2, <1>3 DEF Bijection, Injection, Surjection, IsInjective
<1>5. IsFiniteSet(1..n) /\ Cardinality(1..n) = n
  BY FS_Interval
<1> QED
  BY <1>4, <1>5, FS_Bijection DEF ExistsBijection

\* A finite group has a finite number of entries.
LEMMA EntriesFinite ==
  ASSUME NEW T, NEW weight, IsFiniteSet(T), \A p \in T : weight[p] \in Int
  PROVE  IsFiniteSet(Entries(T, weight)) /\ Total(T, weight) \in Nat
<1> DEFINE own(p) == {p} \X (1..Repeat(weight[p]))
           parts  == {own(p) : p \in T}
           f      == [p \in T |-> own(p)]
<1>1. \A p \in T : IsFiniteSet(own(p))
  BY OwnEntries, RepeatType
<1>2. f \in Surjection(T, parts)
  BY DEF Surjection
<1>3. IsFiniteSet(parts)
  BY <1>2, FS_Surjection
<1>4. IsFiniteSet(UNION parts)
  BY <1>1, <1>3, FS_UNION
<1> QED
  BY <1>4, FS_CardinalityType DEF Entries, Total

\* One more pool adds its entries.
LEMMA EntriesAdd ==
  ASSUME NEW T, NEW weight, IsFiniteSet(T), \A q \in T : weight[q] \in Int,
         NEW p, p \notin T, weight[p] \in Int
  PROVE  Total(T \cup {p}, weight) = Total(T, weight) + Repeat(weight[p])
<1> DEFINE own == {p} \X (1..Repeat(weight[p]))
<1>1. IsFiniteSet(Entries(T, weight)) /\ Total(T, weight) \in Nat
  BY EntriesFinite
<1>2. IsFiniteSet(own) /\ Cardinality(own) = Repeat(weight[p]) /\ Repeat(weight[p]) \in Nat
  BY OwnEntries, RepeatType
<1>3. Entries(T \cup {p}, weight) = Entries(T, weight) \cup own
  BY DEF Entries
<1>4. Entries(T, weight) \cap own = {}
  BY DEF Entries
<1> HIDE DEF own
<1>5. Cardinality(Entries(T, weight) \cup own)
        = Cardinality(Entries(T, weight)) + Cardinality(own) - Cardinality({})
  BY <1>1, <1>2, <1>4, FS_Union
<1>6. Cardinality({}) = 0
  BY FS_EmptySet
<1>7. Total(T \cup {p}, weight) = Cardinality(Entries(T, weight) \cup own)
  BY <1>3, Zenon DEF Total
<1> QED
  BY <1>1, <1>2, <1>5, <1>6, <1>7 DEF Total

\* More pools have no fewer entries.
LEMMA EntriesMonotone ==
  ASSUME NEW U, NEW weight, IsFiniteSet(U), \A q \in U : weight[q] \in Int,
         NEW T \in SUBSET U
  PROVE  Total(T, weight) <= Total(U, weight)
<1>1. IsFiniteSet(Entries(U, weight))
  BY EntriesFinite
<1>2. Entries(T, weight) \subseteq Entries(U, weight)
  BY DEF Entries
<1> QED
  BY <1>1, <1>2, FS_Subset DEF Total
-----------------------------------------------------------------------------
(* The indices of the pools of a group.                                    *)

\* The indices of p lie in the list, after those of the earlier pools.
LEMMA IndicesRange ==
  ASSUME NEW group, NEW pos, NEW weight, IsGroup(group, pos, weight), NEW p \in group
  PROVE  /\ Total(Earlier(p, group, pos), weight) \in Nat
         /\ Repeat(weight[p]) \in Nat \ {0}
         /\ Indices(p, group, pos, weight)
              = Total(Earlier(p, group, pos), weight) ..
                  Total(Earlier(p, group, pos), weight) + Repeat(weight[p]) - 1
         /\ Total(Earlier(p, group, pos), weight) + Repeat(weight[p]) <= Total(group, weight)
         /\ Total(group, weight) \in Nat \ {0}
<1> DEFINE E == Earlier(p, group, pos)
<1>1. E \subseteq group /\ p \notin E /\ E \cup {p} \subseteq group
  BY DEF Earlier, IsGroup
<1>2. IsFiniteSet(group) /\ IsFiniteSet(E) /\ \A q \in group : weight[q] \in Int
  BY <1>1, FS_Subset DEF IsGroup
<1>3. Total(E, weight) \in Nat /\ Total(group, weight) \in Nat
  BY <1>1, <1>2, EntriesFinite
<1>4. Repeat(weight[p]) \in Nat \ {0}
  BY RepeatType DEF IsGroup
<1>5. Total(E \cup {p}, weight) = Total(E, weight) + Repeat(weight[p])
  BY <1>1, <1>2, EntriesAdd
<1>6. Total(E \cup {p}, weight) <= Total(group, weight)
  BY <1>1, <1>2, EntriesMonotone
<1>7. Indices(p, group, pos, weight) = Total(E, weight) .. Total(E, weight) + Repeat(weight[p]) - 1
  BY DEF Indices, Total, Earlier
<1> QED
  BY <1>3, <1>4, <1>5, <1>6, <1>7

\* An earlier pool has smaller indices.
LEMMA IndicesOrdered ==
  ASSUME NEW group, NEW pos, NEW weight, IsGroup(group, pos, weight),
         NEW p \in group, NEW q \in group, pos[p] < pos[q]
  PROVE  Total(Earlier(p, group, pos), weight) + Repeat(weight[p])
            <= Total(Earlier(q, group, pos), weight)
<1> DEFINE E == Earlier(p, group, pos)
           F == Earlier(q, group, pos)
<1>1. E \cup {p} \subseteq F /\ p \notin E /\ F \subseteq group
  BY DEF Earlier, IsGroup
<1>2. IsFiniteSet(E) /\ IsFiniteSet(F) /\ \A o \in F : weight[o] \in Int
  BY <1>1, FS_Subset DEF IsGroup
<1>3. Total(E \cup {p}, weight) = Total(E, weight) + Repeat(weight[p])
  BY <1>1, <1>2, EntriesAdd DEF IsGroup
<1>4. Total(E \cup {p}, weight) <= Total(F, weight)
  BY <1>1, <1>2, EntriesMonotone
<1> QED
  BY <1>3, <1>4

\* An index belongs to one pool.
LEMMA IndicesApart ==
  ASSUME NEW group, NEW pos, NEW weight, IsGroup(group, pos, weight),
         NEW p \in group, NEW q \in group,
         NEW k \in Indices(p, group, pos, weight), k \in Indices(q, group, pos, weight)
  PROVE  p = q
<1> DEFINE a(o) == Total(Earlier(o, group, pos), weight)
           r(o) == Repeat(weight[o])
<1>1. \A o \in {p, q} : a(o) \in Nat /\ r(o) \in Nat /\ a(o) <= k /\ k < a(o) + r(o)
  BY IndicesRange
<1>a. k \in Int
  BY IndicesRange
<1>2. ~(pos[p] < pos[q]) /\ ~(pos[q] < pos[p])
  <2>1. pos[p] < pos[q] => a(p) + r(p) <= a(q)
    BY IndicesOrdered
  <2>2. pos[q] < pos[p] => a(q) + r(q) <= a(p)
    BY IndicesOrdered
  <2> HIDE DEF a, r
  <2> QED
    BY <1>1, <1>a, <2>1, <2>2
<1>3. pos[p] \in Int /\ pos[q] \in Int
  BY DEF IsGroup
<1>4. pos[p] = pos[q]
  BY <1>2, <1>3
<1> QED
  BY <1>4 DEF IsGroup

\* Every index belongs to a pool: the entries, numbered, fill the list.
LEMMA IndicesCover ==
  ASSUME NEW group, NEW pos, NEW weight, IsGroup(group, pos, weight),
         NEW k \in 0..Total(group, weight) - 1
  PROVE  \E p \in group : k \in Indices(p, group, pos, weight)
<1> DEFINE a(o)    == Total(Earlier(o, group, pos), weight)
           entries == Entries(group, weight)
           n       == Total(group, weight)
           number  == [e \in entries |-> a(e[1]) + e[2] - 1]
<1>1. \A e \in entries : /\ e[1] \in group
                         /\ e[2] \in 1..Repeat(weight[e[1]])
                         /\ e = <<e[1], e[2]>>
  BY DEF Entries
<1>2. \A e \in entries : number[e] \in Indices(e[1], group, pos, weight)
  <2> SUFFICES ASSUME NEW e \in entries
               PROVE  number[e] \in Indices(e[1], group, pos, weight)
    OBVIOUS
  <2>1. a(e[1]) \in Nat /\ Repeat(weight[e[1]]) \in Nat
        /\ Indices(e[1], group, pos, weight) = a(e[1]) .. a(e[1]) + Repeat(weight[e[1]]) - 1
    BY <1>1, IndicesRange
  <2>2. number[e] = a(e[1]) + e[2] - 1
    OBVIOUS
  <2> HIDE DEF a, number, entries
  <2> QED
    BY <1>1, <2>1, <2>2
<1>3. \A p \in group : Indices(p, group, pos, weight) \subseteq 0..n - 1
  <2> SUFFICES ASSUME NEW p \in group PROVE Indices(p, group, pos, weight) \subseteq 0..n - 1
    OBVIOUS
  <2>1. a(p) \in Nat /\ Repeat(weight[p]) \in Nat /\ a(p) + Repeat(weight[p]) <= n /\ n \in Nat
        /\ Indices(p, group, pos, weight) = a(p) .. a(p) + Repeat(weight[p]) - 1
    BY IndicesRange
  <2> HIDE DEF a, n
  <2> QED
    BY <2>1
<1>4. number \in [entries -> 0..n - 1]
  <2>1. \A e \in entries : number[e] \in 0..n - 1
    BY <1>1, <1>2, <1>3
  <2>2. DOMAIN number = entries /\ number = [e \in DOMAIN number |-> number[e]]
    OBVIOUS
  <2> HIDE DEF number, entries, n
  <2> QED
    BY <2>1, <2>2
<1>5. \A d, e \in entries : number[d] = number[e] => d = e
  <2> SUFFICES ASSUME NEW d \in entries, NEW e \in entries, number[d] = number[e] PROVE d = e
    OBVIOUS
  <2>1. d[1] = e[1]
    <3>1. /\ number[d] \in Indices(d[1], group, pos, weight)
          /\ number[d] \in Indices(e[1], group, pos, weight)
      BY <1>2
    <3> HIDE DEF number
    <3> QED
      BY <1>1, <3>1, IndicesApart
  <2>2. a(d[1]) + d[2] - 1 = a(d[1]) + e[2] - 1
    BY <2>1
  <2>3. a(d[1]) \in Nat /\ d[2] \in Int /\ e[2] \in Int
    BY <1>1, IndicesRange
  <2>4. d[2] = e[2]
    <3> HIDE DEF a
    <3> QED
      BY <2>2, <2>3
  <2> QED
    BY <1>1, <2>1, <2>4
<1>6. number \in Injection(entries, 0..n - 1)
  <2> HIDE DEF number, entries, n
  <2> QED
    BY <1>4, <1>5 DEF Injection, IsInjective
<1>7. IsFiniteSet(0..n - 1) /\ Cardinality(0..n - 1) = n
  <2>1. n \in Nat
    BY EntriesFinite DEF IsGroup
  <2> HIDE DEF n
  <2> QED
    BY <2>1, FS_Interval
<1>8. number \in Surjection(entries, 0..n - 1)
  <2>1. Cardinality(entries) = Cardinality(0..n - 1)
    BY <1>7 DEF Total
  <2> HIDE DEF number, entries, n
  <2> QED
    BY <1>6, <1>7, <2>1, FS_Injection
<1>9. PICK e \in entries : number[e] = k
  <2> HIDE DEF number, entries
  <2> QED
    BY <1>8 DEF Surjection
<1> QED
  BY <1>1, <1>2, <1>9

-----------------------------------------------------------------------------
(* Ranks.                                                                  *)

\* The rank of p among S, f telling who comes when.
Rank(S, f, p) == Cardinality({q \in S : f[q] <= f[p]})

\* Ranks go from 1 to the number of elements, and grow with f.
LEMMA RankGrows ==
  ASSUME NEW S, NEW f, IsFiniteSet(S), \A p \in S : f[p] \in Int
  PROVE  /\ \A p \in S : Rank(S, f, p) \in 1..Cardinality(S)
         /\ \A p, q \in S : f[p] < f[q] => Rank(S, f, p) < Rank(S, f, q)
<1> DEFINE upTo(p) == {q \in S : f[q] <= f[p]}
<1>0. Cardinality(S) \in Nat
  BY FS_CardinalityType
<1>1. \A p \in S : /\ IsFiniteSet(upTo(p))
                   /\ Cardinality(upTo(p)) \in Nat
                   /\ Cardinality(upTo(p)) <= Cardinality(S)
                   /\ p \in upTo(p)
  <2> SUFFICES ASSUME NEW p \in S
               PROVE  /\ IsFiniteSet(upTo(p))
                      /\ Cardinality(upTo(p)) \in Nat
                      /\ Cardinality(upTo(p)) <= Cardinality(S)
                      /\ p \in upTo(p)
    OBVIOUS
  <2>1. upTo(p) \in SUBSET S /\ p \in upTo(p)
    OBVIOUS
  <2> HIDE DEF upTo
  <2> QED
    BY <2>1, FS_Subset, FS_CardinalityType
<1>2. \A p \in S : Cardinality(upTo(p)) # 0
  <2> SUFFICES ASSUME NEW p \in S PROVE Cardinality(upTo(p)) # 0
    OBVIOUS
  <2> HIDE DEF upTo
  <2> QED
    BY <1>1, FS_EmptySet
<1>3. ASSUME NEW p \in S, NEW q \in S, f[p] < f[q]
      PROVE  Cardinality(upTo(p)) < Cardinality(upTo(q))
  <2>1. upTo(p) \in SUBSET upTo(q) /\ q \notin upTo(p)
    BY <1>3
  <2> HIDE DEF upTo
  <2>2. upTo(p) # upTo(q)
    BY <1>1, <2>1
  <2> QED
    BY <1>1, <2>1, <2>2, FS_Subset
<1> HIDE DEF upTo
<1>4. \A p \in S : Rank(S, f, p) = Cardinality(upTo(p))
  BY DEF Rank, upTo
<1> QED
  BY <1>0, <1>1, <1>2, <1>3, <1>4

-----------------------------------------------------------------------------
(* The order of one group.                                                 *)

\* Going round, every pool is met, no two pools are met at once, and the first
\* is the one the seed points at.
LEMMA FirstMetUnique ==
  ASSUME NEW group, NEW pos, NEW weight, IsGroup(group, pos, weight), NEW seed \in Nat
  PROVE  /\ \A p \in group : FirstMet(p, group, pos, weight, seed) \in Nat
         /\ \A p, q \in group :
              FirstMet(p, group, pos, weight, seed) = FirstMet(q, group, pos, weight, seed) => p = q
         /\ \A p \in group : FirstMet(p, group, pos, weight, seed) = 0
                              <=> seed % Total(group, weight) \in Indices(p, group, pos, weight)
<1> DEFINE n == Total(group, weight)
           s == seed % n
           at(p) == Indices(p, group, pos, weight)
           offsets(p) == {o \in 0..n - 1 : (s + o) % n \in at(p)}
           met(p) == FirstMet(p, group, pos, weight, seed)
<1>1. \A p \in group : met(p) = Min(offsets(p))
  BY DEF FirstMet, Total
<1>2. ASSUME NEW p \in group
      PROVE  /\ n \in Nat \ {0}
             /\ at(p) # {}
             /\ \A k \in at(p) : k \in 0..n - 1
  <2> DEFINE b == Total(Earlier(p, group, pos), weight)
             r == Repeat(weight[p])
  <2>1. b \in Nat /\ r \in Nat \ {0} /\ at(p) = b .. b + r - 1 /\ b + r <= n /\ n \in Nat \ {0}
    BY IndicesRange
  <2> HIDE DEF b, r, n, at
  <2> QED
    BY <2>1
<1>3. ASSUME NEW p \in group PROVE s \in Nat /\ s < n
  BY <1>2, RemainderType
<1>4. ASSUME NEW p \in group PROVE offsets(p) # {}
  <2>1. PICK k \in at(p) : TRUE
    BY <1>2
  <2>2. k \in 0..n - 1 /\ n \in Nat \ {0}
    BY <1>2
  <2> DEFINE o == IF k >= s THEN k - s ELSE k - s + n
  <2> HIDE DEF at, n, s
  <2>3. o \in 0..n - 1 /\ (s + o = k \/ s + o = k + n)
    BY <1>3, <2>2
  <2>4. (s + o) % n = IF (s % n) + o < n THEN (s % n) + o ELSE (s % n) + o - n
    <3>1. o \in Nat /\ o < n
      BY <2>2, <2>3
    <3> HIDE DEF o
    <3> QED
      BY <1>3, <2>2, <3>1, RemainderStep
  <2>5. s % n = s
    BY <1>3, <2>2, RemainderSmall
  <2>6. (s + o) % n = k
    <3> HIDE DEF o
    <3> QED
      BY <1>3, <2>2, <2>3, <2>4, <2>5
  <2> HIDE DEF o
  <2> QED
    BY <2>1, <2>3, <2>6
<1>5. ASSUME NEW p \in group
      PROVE  /\ met(p) \in offsets(p)
             /\ \A o \in offsets(p) : met(p) <= o
  <2>1. offsets(p) \in SUBSET Nat /\ offsets(p) # {}
    BY <1>4
  <2>2. Min(offsets(p)) \in offsets(p) /\ \A o \in offsets(p) : Min(offsets(p)) <= o
    <3> HIDE DEF offsets
    <3> QED
      BY <2>1, MinNat
  <2> HIDE DEF offsets, met
  <2> QED
    BY <1>1, <2>2
<1>6. ASSUME NEW p \in group, NEW q \in group, met(p) = met(q) PROVE p = q
  <2>1. (s + met(p)) % n \in at(p) /\ (s + met(q)) % n \in at(q)
    BY <1>5
  <2> HIDE DEF met, s, n
  <2> QED
    BY <1>6, <2>1, IndicesApart
<1>7. ASSUME NEW p \in group PROVE met(p) = 0 <=> s \in at(p)
  <2>1. s + 0 = s /\ s % n = s /\ 0 \in 0..n - 1
    BY <1>2, <1>3, RemainderSmall
  <2>2. 0 \in offsets(p) <=> s \in at(p)
    BY <2>1
  <2>3. met(p) \in Nat
    BY <1>5
  <2>4. 0 \in offsets(p) => met(p) <= 0
    BY <1>5
  <2>5. met(p) = 0 => 0 \in offsets(p)
    BY <1>5
  <2> HIDE DEF met, offsets, s, at
  <2> QED
    BY <2>2, <2>3, <2>4, <2>5
<1>8. \A p \in group : met(p) \in Nat
  BY <1>5
<1> QED
  BY <1>6, <1>7, <1>8

\* Every pool of a group has a place of its own in it, and is first exactly
\* when the seed points at one of its entries.
LEMMA WeightedOrder ==
  ASSUME NEW group, NEW pos, NEW weight, IsGroup(group, pos, weight), NEW seed \in Nat
  PROVE  LET place == weightedPoolOrder(group, pos, weight, seed)
         IN  /\ \A p \in group : place[p] \in 1..Cardinality(group)
             /\ \A p, q \in group : place[p] = place[q] => p = q
             /\ \A p \in group : place[p] = 1
                                  <=> seed % Total(group, weight) \in Indices(p, group, pos, weight)
<1> DEFINE place == weightedPoolOrder(group, pos, weight, seed)
           met   == [p \in group |-> FirstMet(p, group, pos, weight, seed)]
           n     == Total(group, weight)
           at(p) == Indices(p, group, pos, weight)
<1>0. IsFiniteSet(group)
  BY DEF IsGroup
<1>1. /\ \A p \in group : met[p] \in Nat
      /\ \A p, q \in group : met[p] = met[q] => p = q
      /\ \A p \in group : met[p] = 0 <=> seed % n \in at(p)
  BY FirstMetUnique
<1>2. \A p \in group : place[p] = Rank(group, met, p)
  BY DEF weightedPoolOrder, Rank
<1> HIDE DEF met, place
<1>3. /\ \A p \in group : Rank(group, met, p) \in 1..Cardinality(group)
      /\ \A p, q \in group : met[p] < met[q] => Rank(group, met, p) < Rank(group, met, q)
  BY <1>0, <1>1, RankGrows
<1>3a. Cardinality(group) \in Nat
  BY <1>0, FS_CardinalityType
<1>4. ASSUME NEW p \in group, NEW q \in group, place[p] = place[q] PROVE p = q
  BY <1>1, <1>2, <1>3, <1>3a, <1>4
<1>5. ASSUME NEW p \in group, seed % n \in at(p) PROVE place[p] = 1
  <2>1. met[p] = 0
    BY <1>1, <1>5
  <2>2. {q \in group : met[q] <= met[p]} = {p}
    BY <1>1, <2>1
  <2>3. Cardinality({q \in group : met[q] <= met[p]}) = Cardinality({p})
    BY <2>2, Zenon
  <2>4. Cardinality({p}) = 1
    BY FS_Singleton
  <2> QED
    BY <1>2, <2>3, <2>4 DEF Rank
<1>6. ASSUME NEW p \in group, place[p] = 1 PROVE seed % n \in at(p)
  <2>1. n \in Nat \ {0}
    BY IndicesRange
  <2>2. seed % n \in 0..n - 1
    <3> HIDE DEF n
    <3> QED
      BY <2>1, RemainderType
  <2>3. PICK q \in group : seed % n \in at(q)
    BY <2>2, IndicesCover
  <2>4. place[q] = 1
    BY <1>5, <2>3
  <2>5. p = q
    BY <1>4, <1>6, <2>4
  <2> QED
    BY <2>3, <2>5
<1> QED
  <2>1. \A p \in group : place[p] \in 1..Cardinality(group)
    BY <1>2, <1>3
  <2> QED
    BY <2>1, <1>4, <1>5, <1>6 DEF place

-----------------------------------------------------------------------------
(* The order of all candidates.                                            *)

\* Disjoint subsets have no more elements together than the whole.
LEMMA DisjointSubsets ==
  ASSUME NEW U, IsFiniteSet(U), NEW A \in SUBSET U, NEW B \in SUBSET U, A \cap B = {}
  PROVE  Cardinality(A) + Cardinality(B) <= Cardinality(U)
<1>1. IsFiniteSet(A) /\ IsFiniteSet(B)
  BY FS_Subset
<1>2. Cardinality(A \cup B) = Cardinality(A) + Cardinality(B) - Cardinality({})
  BY <1>1, FS_Union
<1>3. Cardinality({}) = 0
  BY FS_EmptySet
<1>4. Cardinality(A \cup B) <= Cardinality(U)
  BY FS_Subset
<1>5. Cardinality(A) \in Nat /\ Cardinality(B) \in Nat
  BY <1>1, FS_CardinalityType
<1> QED
  BY <1>2, <1>3, <1>4, <1>5

\* The pools of the priority of p, and those of higher ones.
GroupOf(p, S, prio) == {q \in S : prio[q] = prio[p]}
Above(p, S, prio) == {q \in S : prio[q] > prio[p]}

\* What sort.Slice leaves is an order of each group.
LEMMA SortedGroups ==
  ASSUME NEW S, IsFiniteSet(S), NEW prio \in [S -> Int], NEW weight \in [S -> Int], NEW label,
         NEW pos \in groupPoolsByPriority(S, prio, weight, label), NEW group \in SUBSET S
  PROVE  IsGroup(group, pos, weight)
<1>1. pos \in [S -> 1..Cardinality(S)] /\ \A p, q \in S : pos[p] = pos[q] => p = q
  BY DEF groupPoolsByPriority, Bijection, Injection, IsInjective
<1>2. IsFiniteSet(group)
  BY FS_Subset
<1> QED
  BY <1>1, <1>2 DEF IsGroup

\* Acquire comes to every candidate, to each once, and to those of higher
\* priority first, for any finite set of pools, whatever the priorities, the
\* weights, the labels and the seed are.
THEOREM OrderIsComplete ==
  ASSUME NEW S, IsFiniteSet(S), NEW prio \in [S -> Int], NEW weight \in [S -> Int], NEW label,
         NEW pos \in groupPoolsByPriority(S, prio, weight, label), NEW seed \in Nat
  PROVE  LET place == AcquireOrder(S, pos, prio, weight, seed)
         IN  /\ place \in Bijection(S, 1..Cardinality(S))
             /\ \A p, q \in S : prio[p] > prio[q] => place[p] < place[q]
<1> DEFINE place    == AcquireOrder(S, pos, prio, weight, seed)
           group(p) == GroupOf(p, S, prio)
           above(p) == Above(p, S, prio)
           inner(p) == weightedPoolOrder(group(p), pos, weight, seed)
<1>0. Cardinality(S) \in Nat
  BY FS_CardinalityType
<1>1. \A p \in S : place[p] = Cardinality(above(p)) + inner(p)[p]
  BY DEF AcquireOrder, GroupOf, Above
<1>2. \A p \in S : IsGroup(group(p), pos, weight)
  BY SortedGroups DEF GroupOf
<1>3. \A p \in S : /\ \A q \in group(p) : inner(p)[q] \in 1..Cardinality(group(p))
                   /\ \A q, o \in group(p) : inner(p)[q] = inner(p)[o] => q = o
  BY <1>2, WeightedOrder
<1>4. \A p \in S : /\ p \in group(p)
                   /\ group(p) \in SUBSET S
                   /\ above(p) \in SUBSET S
                   /\ above(p) \cap group(p) = {}
  BY DEF GroupOf, Above
<1>5. \A p \in S : /\ Cardinality(above(p)) \in Nat
                   /\ Cardinality(group(p)) \in Nat
                   /\ Cardinality(above(p)) + Cardinality(group(p)) <= Cardinality(S)
  <2> SUFFICES ASSUME NEW p \in S
               PROVE  /\ Cardinality(above(p)) \in Nat
                      /\ Cardinality(group(p)) \in Nat
                      /\ Cardinality(above(p)) + Cardinality(group(p)) <= Cardinality(S)
    OBVIOUS
  <2>1. /\ group(p) \in SUBSET S /\ above(p) \in SUBSET S /\ above(p) \cap group(p) = {}
    BY <1>4
  <2>2. IsFiniteSet(group(p)) /\ IsFiniteSet(above(p))
    BY <2>1, FS_Subset
  <2> QED
    BY <2>1, <2>2, FS_CardinalityType, DisjointSubsets
<1>6. ASSUME NEW p \in S, NEW q \in S, prio[p] > prio[q]
      PROVE  Cardinality(above(p)) + Cardinality(group(p)) <= Cardinality(above(q))
  <2>1. above(p) \in SUBSET above(q) /\ group(p) \in SUBSET above(q)
    BY <1>6 DEF GroupOf, Above
  <2>2. IsFiniteSet(above(q))
    BY <1>4, FS_Subset
  <2> QED
    BY <1>4, <2>1, <2>2, DisjointSubsets
<1> HIDE DEF place, group, above, inner
<1>7. \A p \in S : place[p] \in 1..Cardinality(S)
  BY <1>0, <1>1, <1>3, <1>4, <1>5
<1>8. \A p, q \in S : prio[p] > prio[q] => place[p] < place[q]
  BY <1>1, <1>3, <1>4, <1>5, <1>6
<1>9. ASSUME NEW p \in S, NEW q \in S, place[p] = place[q] PROVE p = q
  <2>1. prio[p] = prio[q]
    BY <1>1, <1>3, <1>4, <1>5, <1>8, <1>9
  <2>2. group(p) = group(q) /\ above(p) = above(q)
    BY <2>1 DEF group, above, GroupOf, Above
  <2>3. inner(p) = inner(q)
    BY <2>2, Zenon DEF inner
  <2>4. inner(p)[p] = inner(p)[q]
    <3>1. Cardinality(above(p)) = Cardinality(above(q))
      BY <2>2, Zenon
    <3>2. inner(p)[p] \in Int /\ inner(q)[q] \in Int
      BY <1>3, <1>4
    <3>3. inner(p)[p] = inner(q)[q]
      <4>1. /\ place[p] = Cardinality(above(p)) + inner(p)[p]
            /\ place[q] = Cardinality(above(p)) + inner(q)[q]
        BY <1>1, <3>1
      <4>2. Cardinality(above(p)) + inner(p)[p] = Cardinality(above(p)) + inner(q)[q]
        BY <1>9, <4>1, Zenon
      <4>3. \A k, i, j \in Int : k + i = k + j => i = j
        OBVIOUS
      <4>4. Cardinality(above(p)) \in Int
        BY <1>5
      <4> QED
        BY <3>2, <4>2, <4>3, <4>4, Zenon
    <3> QED
      BY <2>3, <3>3, Zenon
  <2>5. p \in group(p) /\ q \in group(p)
    BY <1>4, <2>2
  <2> QED
    BY <1>3, <2>4, <2>5
<1>10. place \in Injection(S, 1..Cardinality(S))
  <2>1. place \in [S -> 1..Cardinality(S)]
    BY <1>7 DEF place, AcquireOrder
  <2> QED
    BY <1>9, <2>1 DEF Injection, IsInjective
<1>11. place \in Surjection(S, 1..Cardinality(S))
  <2>1. IsFiniteSet(1..Cardinality(S)) /\ Cardinality(1..Cardinality(S)) = Cardinality(S)
    BY <1>0, FS_Interval
  <2> QED
    BY <1>10, <2>1, FS_Injection
<1> QED
  BY <1>8, <1>10, <1>11 DEF Bijection, place

-----------------------------------------------------------------------------
(* The fairness of a round.                                                *)

\* The requests of a round, counted from 0, whose seed points into T.
Hits(n, a, T) == {i \in 0..n - 1 : (a + i) % n \in T}

\* Pools of one priority, no two of which tie.
OnePriority(group, prio) == \A p, q \in group : prio[p] = prio[q]
NoTies(group, weight, label) ==
    \A p, q \in group : weight[p] = weight[q] /\ label[p] = label[q] => p = q

\* A round of seeds points at every index once.
LEMMA RoundHits ==
  ASSUME NEW n \in Nat \ {0}, NEW a \in Nat, NEW T \in SUBSET (0..n - 1)
  PROVE  Cardinality(Hits(n, a, T)) = Cardinality(T)
<1> DEFINE hit == [i \in 0..n - 1 |-> (a + i) % n]
           I   == Hits(n, a, T)
           h   == [i \in I |-> (a + i) % n]
<1>0. IsFiniteSet(0..n - 1)
  BY FS_Interval
<1>1. \A i \in 0..n - 1 : (a + i) % n \in 0..n - 1
  BY RemainderType
<1>2. ASSUME NEW i \in 0..n - 1, NEW j \in 0..n - 1, (a + i) % n = (a + j) % n PROVE i = j
  <2> DEFINE r == a % n
  <2>1. r \in Nat /\ r < n
    BY RemainderType
  <2>2. /\ (a + i) % n = IF r + i < n THEN r + i ELSE r + i - n
        /\ (a + j) % n = IF r + j < n THEN r + j ELSE r + j - n
    <3>1. i \in Nat /\ i < n /\ j \in Nat /\ j < n
      OBVIOUS
    <3> QED
      BY <3>1, RemainderStep
  <2> HIDE DEF r
  <2> QED
    BY <1>2, <2>1, <2>2
<1>3. hit \in Injection(0..n - 1, 0..n - 1)
  BY <1>1, <1>2 DEF Injection, IsInjective
<1>4. \A k \in 0..n - 1 : \E i \in 0..n - 1 : (a + i) % n = k
  <2>1. hit \in Surjection(0..n - 1, 0..n - 1)
    <3> HIDE DEF hit
    <3> QED
      BY <1>0, <1>3, FS_Injection
  <2>2. \A k \in 0..n - 1 : \E i \in 0..n - 1 : hit[i] = k
    BY <2>1, Zenon DEF Surjection
  <2> QED
    BY <2>2
<1>5. \A i \in I : i \in 0..n - 1 /\ (a + i) % n \in T
  BY DEF Hits
<1>6. \A k \in T : \E i \in I : (a + i) % n = k
  BY <1>4 DEF Hits
<1> HIDE DEF I
<1>7. h \in Bijection(I, T)
  BY <1>2, <1>5, <1>6 DEF Bijection, Injection, Surjection, IsInjective
<1>8. IsFiniteSet(I)
  BY <1>0, <1>5, FS_Subset
<1>9. Cardinality(T) = Cardinality(I)
  BY <1>7, <1>8, FS_Bijection DEF ExistsBijection
<1> QED
  BY <1>9 DEF I

\* A group as the sort leaves it.
IsSorted(group, pos, prio, weight, label) ==
    /\ \A p \in group : prio[p] \in Int /\ weight[p] \in Int /\ label[p] \in Int /\ pos[p] \in Int
    /\ \A p, q \in group : Before(p, q, prio, weight, label) => pos[p] < pos[q]

\* The pools of its group that p is sorted behind.
Ahead(p, group, prio, weight, label) == {q \in group : Before(q, p, prio, weight, label)}

\* Without ties, who stands before p in its group does not depend on how the
\* sort went.
LEMMA EarlierFixed ==
  ASSUME NEW group, NEW pos, NEW prio, NEW weight, NEW label,
         IsSorted(group, pos, prio, weight, label),
         OnePriority(group, prio), NoTies(group, weight, label),
         NEW p \in group
  PROVE  Earlier(p, group, pos) = Ahead(p, group, prio, weight, label)
<1>1. \A q \in group : pos[q] \in Int
  BY DEF IsSorted
<1>2. \A q, o \in group : Before(q, o, prio, weight, label) => pos[q] < pos[o]
  BY DEF IsSorted
<1>3. ASSUME NEW q \in group, q # p
      PROVE  Before(q, p, prio, weight, label) \/ Before(p, q, prio, weight, label)
  BY <1>3 DEF Before, OnePriority, NoTies, IsSorted
<1>4. ASSUME NEW q \in group PROVE pos[q] < pos[p] <=> Before(q, p, prio, weight, label)
  <2>1. pos[q] \in Int /\ pos[p] \in Int
    BY <1>1
  <2>2. pos[q] < pos[p] => q # p
    BY <2>1
  <2>3. Before(p, q, prio, weight, label) => pos[p] < pos[q]
    BY <1>2
  <2> QED
    BY <1>2, <1>3, <2>1, <2>2, <2>3
<1> QED
  BY <1>4 DEF Earlier, Ahead

\* The requests of a round, counted from 0, for which p comes first.
Firsts(p, S, pos, prio, weight, seed, round) ==
    {i \in 0..round - 1 : AcquireOrder(S, pos[i], prio, weight, seed + i)[p] = 1}

\* A finite set of pools, and a sorting of it for each request of a round.
ArePools(S, prio, weight, label) ==
    /\ IsFiniteSet(S)
    /\ prio \in [S -> Int]
    /\ weight \in [S -> Int]
    /\ label \in [S -> Int]

AreSorted(pos, round, S, prio, weight, label) ==
    \A i \in 0..round - 1 : pos[i] \in groupPoolsByPriority(S, prio, weight, label)

\* A group of one priority, above all others.
IsBest(best, S, prio) ==
    /\ best \in SUBSET S
    /\ OnePriority(best, prio)
    /\ \A o \in S \ best : \A q \in best : prio[o] < prio[q]

\* Every pool of a best group without ties comes first as often as its weight
\* says.
LEMMA RoundOfGroup ==
  ASSUME NEW S, NEW prio, NEW weight, NEW label, ArePools(S, prio, weight, label),
         NEW best, IsBest(best, S, prio), NoTies(best, weight, label),
         NEW round, round = Total(best, weight), NEW seed \in Nat,
         NEW pos, AreSorted(pos, round, S, prio, weight, label),
         NEW p \in best
  PROVE  Cardinality(Firsts(p, S, pos, prio, weight, seed, round)) = Repeat(weight[p])
<1>0. /\ IsFiniteSet(S)
      /\ prio \in [S -> Int]
      /\ weight \in [S -> Int]
      /\ label \in [S -> Int]
  BY DEF ArePools
<1> DEFINE sorted == groupPoolsByPriority(S, prio, weight, label)
           ahead  == Total(Ahead(p, best, prio, weight, label), weight)
           mine   == ahead .. ahead + Repeat(weight[p]) - 1
<1>1. best \in SUBSET S /\ p \in S
  BY DEF IsBest
<1>2. OnePriority(best, prio) /\ NoTies(best, weight, label)
  BY DEF IsBest
<1>3. GroupOf(p, S, prio) = best /\ Above(p, S, prio) = {}
  BY <1>0, <1>1 DEF GroupOf, Above, OnePriority, IsBest
<1>4. ASSUME NEW s \in sorted
      PROVE  /\ Indices(p, best, s, weight) = mine
             /\ ahead \in Nat
             /\ Repeat(weight[p]) \in Nat \ {0}
             /\ ahead + Repeat(weight[p]) <= round
             /\ round \in Nat \ {0}
  <2>1. IsGroup(best, s, weight)
    BY <1>0, <1>1, SortedGroups
  <2>2. Earlier(p, best, s) = Ahead(p, best, prio, weight, label)
    <3>1. s \in [S -> 1..Cardinality(S)]
      BY DEF groupPoolsByPriority, Bijection, Injection
    <3>2. \A q, o \in best : Before(q, o, prio, weight, label) => s[q] < s[o]
      BY <1>1 DEF groupPoolsByPriority
    <3>3. \A q \in best : prio[q] \in Int /\ weight[q] \in Int /\ label[q] \in Int /\ s[q] \in Int
      BY <1>0, <1>1, <3>1
    <3>4. IsSorted(best, s, prio, weight, label)
      BY <3>2, <3>3 DEF IsSorted
    <3> QED
      BY <1>2, <3>4, EarlierFixed
  <2>3. Total(Earlier(p, best, s), weight) = ahead
    BY <2>2, Zenon
  <2> HIDE DEF ahead
  <2> QED
    BY <2>1, <2>3, IndicesRange
<1>5. ASSUME NEW s \in sorted, NEW i \in Nat
      PROVE  AcquireOrder(S, s, prio, weight, seed + i)[p] = 1 <=> (seed + i) % round \in mine
  <2>1. AcquireOrder(S, s, prio, weight, seed + i)[p]
          = Cardinality({}) + weightedPoolOrder(best, s, weight, seed + i)[p]
    <3>1. AcquireOrder(S, s, prio, weight, seed + i)[p]
            = Cardinality(Above(p, S, prio))
                + weightedPoolOrder(GroupOf(p, S, prio), s, weight, seed + i)[p]
      BY <1>1 DEF AcquireOrder, Above, GroupOf
    <3> QED
      BY <1>3, <3>1, Zenon
  <2>2. IsGroup(best, s, weight)
    BY <1>0, <1>1, SortedGroups
  <2>3. seed + i \in Nat
    OBVIOUS
  <2>4. /\ weightedPoolOrder(best, s, weight, seed + i)[p] \in 1..Cardinality(best)
        /\ weightedPoolOrder(best, s, weight, seed + i)[p] = 1
             <=> (seed + i) % Total(best, weight) \in Indices(p, best, s, weight)
    BY <2>2, <2>3, WeightedOrder
  <2>5. (seed + i) % Total(best, weight) \in Indices(p, best, s, weight)
          <=> (seed + i) % round \in mine
    BY <1>4
  <2>6. Cardinality({}) = 0
    BY FS_EmptySet
  <2> HIDE DEF mine
  <2> QED
    BY <2>1, <2>4, <2>5, <2>6
<1>6. round \in Nat /\ round # 0
  <2>1. IsFiniteSet(best) /\ weight[p] \in Int /\ \A q \in best : weight[q] \in Int
    BY <1>0, <1>1, FS_Subset
  <2>2. round \in Nat
    BY <1>1, <2>1, EntriesFinite
  <2>3. <<p, 1>> \in Entries(best, weight)
    <3>1. Repeat(weight[p]) \in Nat \ {0}
      BY <2>1, RepeatType
    <3>2. 1 \in 1..Repeat(weight[p])
      BY <3>1
    <3> QED
      BY <3>2 DEF Entries
  <2>4. IsFiniteSet(Entries(best, weight)) /\ Entries(best, weight) # {}
    BY <1>1, <2>1, <2>3, EntriesFinite
  <2>5. Cardinality(Entries(best, weight)) # 0
    BY <2>4, FS_EmptySet
  <2> QED
    BY <2>2, <2>5 DEF Total
<1>7. \A i \in 0..round - 1 : pos[i] \in sorted
  BY DEF AreSorted
<1>8. 0 \in 0..round - 1
  BY <1>6
<1>9. mine \in SUBSET (0..round - 1) /\ Cardinality(mine) = Repeat(weight[p])
  <2>1. ahead \in Nat /\ Repeat(weight[p]) \in Nat \ {0} /\ ahead + Repeat(weight[p]) <= round
    BY <1>4, <1>7, <1>8
  <2> DEFINE last == ahead + Repeat(weight[p]) - 1
  <2>2. ahead \in Int /\ last \in Int /\ ahead <= last /\ last - ahead + 1 = Repeat(weight[p])
        /\ last <= round - 1
    <3> HIDE DEF ahead
    <3> QED
      BY <1>6, <2>1
  <2>3. mine = ahead .. last
    OBVIOUS
  <2> HIDE DEF ahead, last, mine
  <2>4. Cardinality(ahead .. last) = Repeat(weight[p])
    BY <2>2, FS_Interval
  <2>5. (ahead .. last) \subseteq 0..round - 1
    <3>1. ahead >= 0
      BY <2>1
    <3> QED
      BY <1>6, <2>2, <3>1
  <2> QED
    BY <2>3, <2>4, <2>5, Zenon
<1> HIDE DEF mine, sorted
<1>10. Firsts(p, S, pos, prio, weight, seed, round) = Hits(round, seed, mine)
  <2>1. \A i \in 0..round - 1 :
           AcquireOrder(S, pos[i], prio, weight, seed + i)[p] = 1 <=> (seed + i) % round \in mine
    <3>1. \A i \in 0..round - 1 : i \in Nat
      BY <1>6
    <3> QED
      BY <1>5, <1>7, <3>1, Zenon
  <2> QED
    BY <2>1, Zenon DEF Firsts, Hits
<1>11. Cardinality(Hits(round, seed, mine)) = Cardinality(mine)
  <2>1. round \in Nat \ {0}
    BY <1>6
  <2> QED
    BY <1>9, <2>1, RoundHits
<1> QED
  BY <1>9, <1>10, <1>11, Zenon

\* Over a round of seeds, one for each entry of the best group, every pool of
\* the group is first as often as its weight says, whatever seed the round
\* begins with and however each request sorts, unless two pools of the group
\* have the same weight and label.
THEOREM RoundsAreFair ==
  ASSUME NEW S, IsFiniteSet(S),
         NEW prio \in [S -> Int], NEW weight \in [S -> Int], NEW label \in [S -> Int],
         NEW seed \in Nat
  PROVE  LET best  == {p \in S : \A o \in S : prio[o] <= prio[p]}
             round == Cardinality(Entries(best, weight))
         IN  (\A p, q \in best : weight[p] = weight[q] /\ label[p] = label[q] => p = q)
             => \A pos \in [0..round - 1 -> groupPoolsByPriority(S, prio, weight, label)],
                   p \in best :
                   Cardinality({i \in 0..round - 1 :
                                  AcquireOrder(S, pos[i], prio, weight, seed + i)[p] = 1})
                     = Repeat(weight[p])
<1> DEFINE best == {p \in S : \A o \in S : prio[o] <= prio[p]}
           round == Cardinality(Entries(best, weight))
<1>1. IsBest(best, S, prio)
  BY DEF IsBest, OnePriority
<1>2. round = Total(best, weight)
  BY DEF Total
<1> SUFFICES ASSUME \A p, q \in best : weight[p] = weight[q] /\ label[p] = label[q] => p = q,
                    NEW pos \in [0..round - 1 -> groupPoolsByPriority(S, prio, weight, label)],
                    NEW p \in best
             PROVE  Cardinality({i \in 0..round - 1 :
                                   AcquireOrder(S, pos[i], prio, weight, seed + i)[p] = 1})
                      = Repeat(weight[p])
  OBVIOUS
<1>3. NoTies(best, weight, label)
  BY DEF NoTies
<1>4. ArePools(S, prio, weight, label) /\ AreSorted(pos, round, S, prio, weight, label)
  BY DEF ArePools, AreSorted
<1> HIDE DEF best, round
<1>5. Cardinality(Firsts(p, S, pos, prio, weight, seed, round)) = Repeat(weight[p])
  BY <1>1, <1>2, <1>3, <1>4, RoundOfGroup
<1> QED
  BY <1>5 DEF Firsts

=============================================================================
