-------------------------- MODULE UpstreamBodyProofs --------------------------
(***************************************************************************)
(* Proofs about the bodies sent upstream.                                  *)
(*                                                                         *)
(* One node: what normalizeSchemaMap makes of it, for any JSON values in   *)
(* it and lists of any length, provided its children are normalised, is a  *)
(* node that speaks of no null and allows what it allowed before.          *)
(*                                                                         *)
(* The whole schema: it is tidy all the way down, and allows what it       *)
(* allowed, for schemas of any size that the depth reaches.  Of the        *)
(* recursive operators only their defining equations are used (Recursion,  *)
(* Reachability, Meaning, Inheritance); the induction over the depth is    *)
(* that there is no least depth at which something goes wrong.             *)
(*                                                                         *)
(* The attempts: what they send is what became of the client's tools, and  *)
(* nothing of each other.                                                  *)
(***************************************************************************)
EXTENDS UpstreamBody, FiniteSetTheorems, SequenceTheorems, TLAPS

CONSTANTS
    ValueTo(_, _, _) \* normalizeSchemaValue

\* schema, in which there are no references, allows v.
Allow(schema, v) == AllowedBy(schema, Empty, v)

-----------------------------------------------------------------------------
(* The entries of a sequence at some of its indices.                       *)

\* The index that comes at place n among those of I.
Pick(I, n) == CHOOSE i \in I : Cardinality({j \in I : j <= i}) = n

\* Each index has a place of its own, and no place is left free.
LEMMA Places ==
  ASSUME NEW n \in Nat, NEW I \in SUBSET (1..n)
  PROVE  /\ Cardinality(I) \in Nat
         /\ \A m \in 1..Cardinality(I) : Pick(I, m) \in I
         /\ \A i \in I : \E m \in 1..Cardinality(I) : Pick(I, m) = i
         /\ \A l, m \in 1..Cardinality(I) : Pick(I, l) = Pick(I, m) => l = m
<1> DEFINE Upto(i) == {j \in I : j <= i}
           place   == [i \in I |-> Cardinality(Upto(i))]
           c       == Cardinality(I)
<1>1. IsFiniteSet(I) /\ c \in Nat
  <2>1. IsFiniteSet(1..n)
    BY FS_Interval
  <2> QED
    BY <2>1, FS_Subset, FS_CardinalityType
<1>2. \A i \in I : IsFiniteSet(Upto(i)) /\ Cardinality(Upto(i)) \in 1..c
  <2>1. ASSUME NEW i \in I PROVE IsFiniteSet(Upto(i)) /\ Cardinality(Upto(i)) \in 1..c
    <3>1. Upto(i) \in SUBSET I /\ Upto(i) # {}
      OBVIOUS
    <3>2. IsFiniteSet(Upto(i)) /\ Cardinality(Upto(i)) <= c
      BY <1>1, <3>1, FS_Subset
    <3>3. Cardinality(Upto(i)) \in Nat /\ Cardinality(Upto(i)) # 0
      BY <3>1, <3>2, FS_CardinalityType, FS_EmptySet
    <3> QED
      BY <1>1, <3>2, <3>3
  <2> QED
    BY <2>1
<1>3. ASSUME NEW i \in I, NEW j \in I, i < j PROVE Cardinality(Upto(i)) < Cardinality(Upto(j))
  <2>1. \A x \in I : x \in Nat
    OBVIOUS
  <2>2. \A x \in I : x <= i => x <= j
    BY <1>3, <2>1
  <2>3. Upto(i) \in SUBSET Upto(j)
    BY <2>2
  <2>4. j \in Upto(j) /\ j \notin Upto(i)
    BY <1>3, <2>1
  <2>5. Cardinality(Upto(i)) <= Cardinality(Upto(j)) /\ Cardinality(Upto(i)) # Cardinality(Upto(j))
    BY <1>2, <2>3, <2>4, FS_Subset
  <2> QED
    BY <1>2, <2>5
<1>4. \A i, j \in I : place[i] = place[j] => i = j
  <2>1. ASSUME NEW i \in I, NEW j \in I, Cardinality(Upto(i)) = Cardinality(Upto(j)) PROVE i = j
    <3>1. i \in Int /\ j \in Int /\ ~(i < j) /\ ~(j < i)
      BY <1>2, <1>3, <2>1
    <3> QED
      BY <3>1
  <2> QED
    BY <2>1
<1>5. place \in Injection(I, 1..c)
  BY <1>2, <1>4 DEF Injection, IsInjective
<1>6. place \in Surjection(I, 1..c)
  <2>1. IsFiniteSet(1..c) /\ Cardinality(1..c) = c
    BY <1>1, FS_Interval
  <2> QED
    BY <1>5, <2>1, FS_Injection
<1>7. \A m \in 1..c : \E i \in I : Cardinality(Upto(i)) = m
  BY <1>6 DEF Surjection
<1>8. \A m \in 1..c : Pick(I, m) \in I /\ place[Pick(I, m)] = m
  BY <1>7 DEF Pick
<1>9. \A i \in I : place[i] \in 1..c /\ Pick(I, place[i]) = i
  <2>1. ASSUME NEW i \in I PROVE place[i] \in 1..c /\ Pick(I, place[i]) = i
    <3>1. place[i] \in 1..c
      BY <1>2
    <3> QED
      BY <1>4, <1>8, <3>1
  <2> QED
    BY <2>1
<1> HIDE DEF place
<1> QED
  BY <1>1, <1>8, <1>9

\* A sequence of anything.
IsSeq(s) == \E n \in Nat : DOMAIN s = 1..n /\ s = [i \in 1..n |-> s[i]]

\* What a sequence is, in the words of the module Sequences.
LEMMA SeqFacts ==
  ASSUME NEW s, IsSeq(s)
  PROVE  /\ s \in Seq(ToSet(s)) /\ Len(s) \in Nat /\ DOMAIN s = 1..Len(s)
         /\ s = <<>> <=> DOMAIN s = {}
<1>1. PICK n \in Nat : DOMAIN s = 1..n /\ s = [i \in 1..n |-> s[i]]
  BY DEF IsSeq
<1>2. s \in Seq(ToSet(s)) /\ Len(s) = n
  BY <1>1 DEF ToSet
<1> QED
  BY <1>1, <1>2

\* The entries of s at the indices of I: how many there are, and which is which.
LEMMA EntriesFacts ==
  ASSUME NEW s, IsSeq(s), NEW I \in SUBSET DOMAIN s
  PROVE  /\ IsSeq(EntriesAt(s, I))
         /\ Cardinality(I) \in Nat /\ DOMAIN EntriesAt(s, I) = 1..Cardinality(I)
         /\ \A m \in DOMAIN EntriesAt(s, I) : Pick(I, m) \in I /\ EntriesAt(s, I)[m] = s[Pick(I, m)]
         /\ \A i \in I : \E m \in DOMAIN EntriesAt(s, I) : Pick(I, m) = i
         /\ \A l, m \in DOMAIN EntriesAt(s, I) : Pick(I, l) = Pick(I, m) => l = m
         /\ EntriesAt(s, I) = <<>> <=> I = {}
<1>1. PICK n \in Nat : DOMAIN s = 1..n
  BY DEF IsSeq
<1>2. /\ Cardinality(I) \in Nat
      /\ \A m \in 1..Cardinality(I) : Pick(I, m) \in I
      /\ \A i \in I : \E m \in 1..Cardinality(I) : Pick(I, m) = i
      /\ \A l, m \in 1..Cardinality(I) : Pick(I, l) = Pick(I, m) => l = m
  BY <1>1, Places
<1>3. EntriesAt(s, I) = [m \in 1..Cardinality(I) |-> s[Pick(I, m)]]
  BY DEF EntriesAt, Pick
<1>4. IsSeq(EntriesAt(s, I))
  <2> DEFINE e == EntriesAt(s, I)
  <2>1. DOMAIN e = 1..Cardinality(I) /\ e = [m \in DOMAIN e |-> e[m]]
    BY <1>3
  <2> QED
    BY <1>2, <2>1 DEF IsSeq
<1>5. EntriesAt(s, I) = <<>> <=> I = {}
  <2>1. EntriesAt(s, I) = <<>> <=> DOMAIN EntriesAt(s, I) = {}
    BY <1>4, SeqFacts
  <2>2. DOMAIN EntriesAt(s, I) = 1..Cardinality(I)
    BY <1>3
  <2> QED
    BY <1>2, <2>1, <2>2
<1> QED
  BY <1>2, <1>3, <1>4, <1>5

-----------------------------------------------------------------------------
(* JSON values.                                                            *)

\* A value has one kind.
IsValue(v) ==
    /\ \E kind \in {"null", "num", "str", "ref", "seq", "map"} : DOMAIN v = {kind}
    /\ v = [kind \in DOMAIN v |-> v[kind]]
    /\ Is("null", v) => v = Null

\* Objects and lists are values.
LEMMA MadeValues ==
  ASSUME NEW x PROVE IsValue(Map(x)) /\ IsValue(Seq_(x))
BY DEF IsValue, Map, Seq_, Is

IsNullOption(o) == Is("map", o) /\ isNullSchema(o.map)

\* The fields of an object, and the entries of the lists among them, are values.
IsNode(node) ==
    \A k \in DOMAIN node :
      /\ IsValue(node[k])
      /\ Is("seq", node[k]) =>
           /\ IsSeq(node[k].seq)
           /\ \A i \in DOMAIN node[k].seq : IsValue(node[k].seq[i])

\* The options that are not null, and no others, are left.
LEMMA NotNullFacts ==
  ASSUME NEW options, IsSeq(options)
  PROVE  /\ IsSeq(NotNull(options))
         /\ \A m \in DOMAIN NotNull(options) :
              \E i \in DOMAIN options : NotNull(options)[m] = options[i] /\ ~IsNullOption(options[i])
         /\ \A i \in DOMAIN options : ~IsNullOption(options[i]) =>
              \E m \in DOMAIN NotNull(options) : NotNull(options)[m] = options[i]
<1> DEFINE I == {i \in DOMAIN options : ~IsNullOption(options[i])}
<1>1. NotNull(options) = EntriesAt(options, I)
  BY DEF NotNull, IsNullOption
<1>2. I \in SUBSET DOMAIN options
  OBVIOUS
<1>3. /\ IsSeq(NotNull(options))
      /\ \A m \in DOMAIN NotNull(options) : Pick(I, m) \in I /\ NotNull(options)[m] = options[Pick(I, m)]
      /\ \A i \in I : \E m \in DOMAIN NotNull(options) : Pick(I, m) = i
  <2> HIDE DEF I
  <2> QED
    BY <1>1, <1>2, EntriesFacts
<1> QED
  BY <1>3

\* When none is null, as many are left as there were.
LEMMA NoneIsNull ==
  ASSUME NEW options, IsSeq(options), \A i \in DOMAIN options : ~IsNullOption(options[i])
  PROVE  Len(NotNull(options)) = Len(options)
<1> DEFINE I == {i \in DOMAIN options : ~IsNullOption(options[i])}
<1>1. NotNull(options) = EntriesAt(options, I) /\ I = DOMAIN options
  BY DEF NotNull, IsNullOption
<1>2. IsSeq(NotNull(options)) /\ DOMAIN NotNull(options) = 1..Cardinality(I) /\ Cardinality(I) \in Nat
  BY <1>1, EntriesFacts
<1>3. Len(options) \in Nat /\ DOMAIN options = 1..Len(options)
  BY SeqFacts
<1>4. Cardinality(I) = Len(options)
  <2>1. Cardinality(1..Len(options)) = Len(options)
    BY <1>3, FS_Interval
  <2>2. I = 1..Len(options)
    BY <1>1, <1>3
  <2> HIDE DEF I
  <2> QED
    BY <2>1, <2>2
<1>5. Len(NotNull(options)) \in Nat /\ DOMAIN NotNull(options) = 1..Len(NotNull(options))
  BY <1>2, SeqFacts
<1> QED
  BY <1>2, <1>4, <1>5

\* What null does not allow, it does not matter whether null is an option.
LEMMA NotNullAllow ==
  ASSUME NEW options, IsSeq(options), NEW v,
         \A i \in DOMAIN options : IsNullOption(options[i]) => ~Allow(options[i], v)
  PROVE  /\ SomeAllows(NotNull(options), v, Allow) <=> SomeAllows(options, v, Allow)
         /\ OneAllows(NotNull(options), v, Allow) <=> OneAllows(options, v, Allow)
<1> DEFINE I == {i \in DOMAIN options : ~IsNullOption(options[i])}
           r == NotNull(options)
<1>1. r = EntriesAt(options, I)
  BY DEF NotNull, IsNullOption
<1>2. /\ \A m \in DOMAIN r : Pick(I, m) \in I /\ r[m] = options[Pick(I, m)]
      /\ \A i \in I : \E m \in DOMAIN r : Pick(I, m) = i
      /\ \A l, m \in DOMAIN r : Pick(I, l) = Pick(I, m) => l = m
  <2>1. I \in SUBSET DOMAIN options
    OBVIOUS
  <2> HIDE DEF I, r
  <2> QED
    BY <1>1, <2>1, EntriesFacts
<1>3. SomeAllows(r, v, Allow) <=> SomeAllows(options, v, Allow)
  BY <1>2 DEF SomeAllows
<1>4. ASSUME OneAllows(options, v, Allow) PROVE OneAllows(r, v, Allow)
  <2>1. PICK i \in DOMAIN options : \A j \in DOMAIN options : Allow(options[j], v) <=> j = i
    BY <1>4 DEF OneAllows
  <2>2. PICK m \in DOMAIN r : Pick(I, m) = i
    BY <1>2, <2>1
  <2>3. \A l \in DOMAIN r : Allow(r[l], v) <=> l = m
    BY <1>2, <2>1, <2>2
  <2> QED
    BY <2>3 DEF OneAllows
<1>5. ASSUME OneAllows(r, v, Allow) PROVE OneAllows(options, v, Allow)
  <2>1. PICK m \in DOMAIN r : \A l \in DOMAIN r : Allow(r[l], v) <=> l = m
    BY <1>5 DEF OneAllows
  <2>2. Pick(I, m) \in DOMAIN options
    BY <1>2
  <2>3. \A j \in DOMAIN options : Allow(options[j], v) <=> j = Pick(I, m)
    BY <1>2, <2>1
  <2> QED
    BY <2>2, <2>3 DEF OneAllows
<1> QED
  BY <1>3, <1>4, <1>5

-----------------------------------------------------------------------------
(* A combinator.                                                           *)

\* The options that are objects are normalised already.
OptionsNormal(node, key) ==
    Has("seq", node, key) =>
        \A i \in DOMAIN node[key].seq : Is("map", node[key].seq[i]) =>
            IsNode(node[key].seq[i].map) /\ Normal(node[key].seq[i].map)

\* Of the combinators of a node one may come from an option, simplified.
Expected(node, key) == Simplified(node, key) \/ OptionsNormal(node, key)

\* Nothing is left of a combinator whose options are all null.
Vanishes(s, key) ==
    /\ Has("seq", s, key) /\ NotNull(s[key].seq) = <<>>
    /\ simplifyNullableCombinator(s, key) = Without(s, {key})

\* The option that is left takes the place of the combinator.
GivesWay(s, key, o) ==
    /\ Has("seq", s, key) /\ DOMAIN NotNull(s[key].seq) = {1} /\ NotNull(s[key].seq)[1] = o
    /\ Is("map", o) /\ IsNode(o.map) /\ Normal(o.map)
    /\ simplifyNullableCombinator(s, key) = Over(o.map, Without(s, {key}))

\* The options that are left are those of the combinator.
Stays(s, key) ==
    /\ Has("seq", s, key)
    /\ simplifyNullableCombinator(s, key) = [s EXCEPT ![key] = Seq_(NotNull(s[key].seq))]
    /\ Simplified(simplifyNullableCombinator(s, key), key)

\* The four ways a combinator can go.
LEMMA FourWays ==
  ASSUME NEW s, IsNode(s), NEW key, Expected(s, key)
  PROVE  \/ ~Has("seq", s, key) /\ simplifyNullableCombinator(s, key) = s
         \/ Vanishes(s, key)
         \/ \E i \in DOMAIN s[key].seq : GivesWay(s, key, s[key].seq[i])
         \/ Stays(s, key)
<1> DEFINE old == s[key].seq
           new == NotNull(old)
           r   == simplifyNullableCombinator(s, key)
<1>1. CASE ~Has("seq", s, key)
  BY <1>1 DEF simplifyNullableCombinator
<1>2. CASE Has("seq", s, key)
  <2>1. IsSeq(old) /\ key \in DOMAIN s
    BY <1>2 DEF IsNode, Has
  <2>2. /\ IsSeq(new)
        /\ \A m \in DOMAIN new : \E i \in DOMAIN old : new[m] = old[i] /\ ~IsNullOption(old[i])
        /\ \A i \in DOMAIN old : ~IsNullOption(old[i]) => \E m \in DOMAIN new : new[m] = old[i]
    BY <2>1, NotNullFacts
  <2>3. Len(new) \in Nat /\ DOMAIN new = 1..Len(new) /\ (new = <<>> <=> DOMAIN new = {})
    BY <2>2, SeqFacts
  <2>4. r = CASE new = <<>> -> Without(s, {key})
              [] Len(new) = 1 /\ Is("map", new[1]) -> Over(new[1].map, Without(s, {key}))
              [] OTHER -> [s EXCEPT ![key] = Seq_(new)]
    BY <1>2, Zenon DEF simplifyNullableCombinator
  <2> HIDE DEF old, new, r
  <2>5. CASE new = <<>>
    <3>1. r = Without(s, {key})
      <4>1. ~(Len(new) = 1)
        BY <2>3, <2>5
      <4> QED
        BY <2>4, <2>5, <4>1
    <3> QED
      BY <1>2, <2>5, <3>1 DEF Vanishes, old, new, r
  <2>6. CASE Len(new) = 1 /\ Is("map", new[1])
    <3>1. new # <<>> /\ DOMAIN new = {1}
      BY <2>3, <2>6
    <3>2. r = Over(new[1].map, Without(s, {key}))
      BY <2>4, <2>6, <3>1
    <3>3. PICK i \in DOMAIN old : new[1] = old[i] /\ ~IsNullOption(old[i])
      BY <2>2, <3>1
    <3>4. ~Simplified(s, key)
      <4>1. SUFFICES ASSUME Simplified(s, key) PROVE FALSE
        OBVIOUS
      <4>2. \A j \in DOMAIN old : ~IsNullOption(old[j])
        BY <1>2, <4>1 DEF Simplified, IsNullOption, ToSet, old
      <4>3. Len(old) = 1 /\ DOMAIN old = 1..Len(old)
        BY <2>1, <2>6, <4>2, NoneIsNull, SeqFacts DEF new
      <4>4. i = 1
        BY <3>3, <4>3
      <4> QED
        BY <1>2, <2>6, <3>3, <4>1, <4>3, <4>4 DEF Simplified, old
    <3>5. IsNode(old[i].map) /\ Normal(old[i].map)
      BY <1>2, <2>6, <3>3, <3>4 DEF Expected, OptionsNormal, old
    <3>6. GivesWay(s, key, old[i])
      BY <1>2, <2>6, <3>1, <3>2, <3>3, <3>5 DEF GivesWay, old, new, r
    <3> QED
      BY <3>6 DEF old
  <2>7. CASE new # <<>> /\ ~(Len(new) = 1 /\ Is("map", new[1]))
    <3>1. r = [s EXCEPT ![key] = Seq_(new)]
      BY <2>4, <2>7
    <3>2. r[key] = Seq_(new) /\ Seq_(new).seq = new
      BY <2>1, <3>1 DEF Seq_
    <3>3. \A o \in ToSet(new) : ~(Is("map", o) /\ isNullSchema(o.map))
      BY <2>2 DEF ToSet, IsNullOption
    <3>4. Simplified(r, key)
      BY <2>7, <3>2, <3>3 DEF Simplified
    <3> QED
      BY <1>2, <3>1, <3>4 DEF Stays, old, new, r
  <2> QED
    BY <2>5, <2>6, <2>7
<1> QED
  BY <1>1, <1>2

\* Two objects agree on a key.
SameAt(f, g, k) == (k \in DOMAIN f <=> k \in DOMAIN g) /\ (k \in DOMAIN f => f[k] = g[k])

\* Taking a key away, and putting one object over another, make objects again.
LEMMA WithoutNode ==
  ASSUME NEW s, IsNode(s), NEW key
  PROVE  /\ IsNode(Without(s, {key})) /\ DOMAIN Without(s, {key}) = DOMAIN s \ {key}
         /\ \A k \in DOMAIN s \ {key} : Without(s, {key})[k] = s[k]
         /\ \A k : k # key => SameAt(Without(s, {key}), s, k)
<1>1. /\ DOMAIN Without(s, {key}) = DOMAIN s \ {key}
      /\ \A k \in DOMAIN s \ {key} : Without(s, {key})[k] = s[k]
  BY DEF Without, Restrict
<1>2. IsNode(Without(s, {key}))
  BY <1>1 DEF IsNode
<1>3. \A k : k # key => SameAt(Without(s, {key}), s, k)
  BY <1>1 DEF SameAt
<1> QED
  BY <1>1, <1>2, <1>3

LEMMA OverNode ==
  ASSUME NEW f, IsNode(f), NEW g, IsNode(g)
  PROVE  /\ IsNode(Over(f, g)) /\ DOMAIN Over(f, g) = DOMAIN f \cup DOMAIN g
         /\ \A k \in DOMAIN f : Over(f, g)[k] = f[k]
         /\ \A k \in DOMAIN g \ DOMAIN f : Over(f, g)[k] = g[k]
BY DEF IsNode, Over

\* A list in the place of a list makes an object again.
LEMMA ListNode ==
  ASSUME NEW s, IsNode(s), NEW key, Has("seq", s, key), NEW list, IsSeq(list),
         \A m \in DOMAIN list : \E i \in DOMAIN s[key].seq : list[m] = s[key].seq[i]
  PROVE  /\ IsNode([s EXCEPT ![key] = Seq_(list)])
         /\ [s EXCEPT ![key] = Seq_(list)][key].seq = list
<1> DEFINE r == [s EXCEPT ![key] = Seq_(list)]
<1>1. DOMAIN r = DOMAIN s /\ key \in DOMAIN s /\ r[key] = Seq_(list)
      /\ \A k \in DOMAIN s \ {key} : r[k] = s[k]
  BY DEF Has
<1>2. DOMAIN Seq_(list) = {"seq"} /\ Seq_(list).seq = list
  BY DEF Seq_
<1>3. \A m \in DOMAIN list : IsValue(list[m])
  BY DEF IsNode, Has
<1> HIDE DEF r
<1>4. IsValue(r[key]) /\ IsSeq(r[key].seq) /\ \A m \in DOMAIN r[key].seq : IsValue(r[key].seq[m])
  BY <1>1, <1>2, <1>3, MadeValues
<1>5. IsNode(r)
  BY <1>1, <1>4 DEF IsNode
<1> QED
  BY <1>1, <1>2, <1>5 DEF r

\* What is promised of a combinator is promised of its key alone.
LEMMA SameCombinator ==
  ASSUME NEW f, NEW g, NEW key, SameAt(f, g, key)
  PROVE  /\ Simplified(f, key) <=> Simplified(g, key)
         /\ Expected(f, key) <=> Expected(g, key)
BY DEF SameAt, Simplified, Expected, OptionsNormal, Has

\* A combinator is simplified, and the other one is none the worse for it.
LEMMA SimplifyNormal ==
  ASSUME NEW s, IsNode(s), NEW key \in Combinators, NEW other \in Combinators \ {key},
         Expected(s, key), Expected(s, other)
  PROVE  LET r == simplifyNullableCombinator(s, key)
         IN  /\ IsNode(r) /\ Simplified(r, key)
             /\ Expected(r, other) /\ (Simplified(s, other) => Simplified(r, other))
<1> DEFINE r == simplifyNullableCombinator(s, key)
           Goal == /\ IsNode(r) /\ Simplified(r, key)
                   /\ Expected(r, other) /\ (Simplified(s, other) => Simplified(r, other))
<1> SUFFICES Goal
  OBVIOUS
<1>1. CASE ~Has("seq", s, key) /\ r = s
  BY <1>1 DEF Simplified
<1>2. CASE Vanishes(s, key)
  <2>1. r = Without(s, {key})
    BY <1>2 DEF Vanishes
  <2> HIDE DEF r
  <2>2. IsNode(r) /\ DOMAIN r = DOMAIN s \ {key} /\ \A k \in DOMAIN r : r[k] = s[k]
    BY <2>1, WithoutNode
  <2>3. key \notin DOMAIN r /\ SameAt(r, s, other)
    BY <2>2 DEF SameAt
  <2> QED
    BY <2>2, <2>3, SameCombinator DEF Simplified, Has
<1>3. ASSUME NEW i \in DOMAIN s[key].seq, GivesWay(s, key, s[key].seq[i]) PROVE Goal
  <2> DEFINE o == s[key].seq[i].map
             w == Without(s, {key})
  <2>1. r = Over(o, w) /\ IsNode(o) /\ Normal(o)
    BY <1>3 DEF GivesWay
  <2>2. IsNode(w) /\ DOMAIN w = DOMAIN s \ {key} /\ \A k \in DOMAIN w : w[k] = s[k]
    BY WithoutNode
  <2> HIDE DEF o, w, r
  <2>3. /\ IsNode(r) /\ DOMAIN r = DOMAIN o \cup DOMAIN w
        /\ \A k \in DOMAIN o : r[k] = o[k]
        /\ \A k \in DOMAIN w \ DOMAIN o : r[k] = w[k]
    <3>1. /\ IsNode(Over(o, w)) /\ DOMAIN Over(o, w) = DOMAIN o \cup DOMAIN w
          /\ \A k \in DOMAIN o : Over(o, w)[k] = o[k]
          /\ \A k \in DOMAIN w \ DOMAIN o : Over(o, w)[k] = w[k]
      BY <2>1, <2>2, OverNode
    <3> QED
      BY <2>1, <3>1
  <2>4. Simplified(o, key) /\ Simplified(o, other)
    BY <2>1 DEF Normal
  <2>5. SameAt(r, o, key)
    BY <2>2, <2>3 DEF SameAt
  <2>6. SameAt(r, o, other) \/ SameAt(r, s, other)
    BY <2>2, <2>3 DEF SameAt
  <2>7. Expected(r, other) /\ (Simplified(s, other) => Simplified(r, other))
    BY <2>4, <2>6, SameCombinator DEF Expected
  <2>8. Simplified(r, key)
    BY <2>4, <2>5, SameCombinator
  <2> QED
    BY <2>3, <2>7, <2>8
<1>4. CASE Stays(s, key)
  <2>1. r = [s EXCEPT ![key] = Seq_(NotNull(s[key].seq))] /\ Simplified(r, key) /\ Has("seq", s, key)
    BY <1>4 DEF Stays
  <2>2. IsSeq(s[key].seq)
    BY <2>1 DEF IsNode, Has
  <2>3. IsNode(r)
    <3> DEFINE list == NotNull(s[key].seq)
    <3>1. /\ IsSeq(list)
          /\ \A m \in DOMAIN list : \E i \in DOMAIN s[key].seq : list[m] = s[key].seq[i]
      BY <2>2, NotNullFacts
    <3>2. r = [s EXCEPT ![key] = Seq_(list)]
      BY <2>1
    <3> HIDE DEF list, r
    <3>3. IsNode([s EXCEPT ![key] = Seq_(list)])
      BY <2>1, <3>1, ListNode
    <3> QED
      BY <3>2, <3>3
  <2>4. SameAt(r, s, other)
    BY <2>1 DEF SameAt
  <2> QED
    BY <2>1, <2>3, <2>4, SameCombinator
<1> QED
  BY <1>1, <1>2, <1>3, <1>4, FourWays

-----------------------------------------------------------------------------
(* The type, the enumeration and the constant.                             *)

\* A type is one type afterwards, or none.
LEMMA TypeNormal ==
  ASSUME NEW s, IsNode(s)
  PROVE  LET r == normalizeTypeField(s)
         IN  IsNode(r) /\ ~Has("seq", r, "type") /\ \A k : k # "type" => SameAt(r, s, k)
<1> DEFINE listed == s["type"].seq
           I      == {i \in DOMAIN listed : Is("str", listed[i]) /\ listed[i] # Str("null")}
           types  == EntriesAt(listed, I)
           r      == normalizeTypeField(s)
           Goal   == IsNode(r) /\ ~Has("seq", r, "type") /\ \A k : k # "type" => SameAt(r, s, k)
<1> SUFFICES Goal
  OBVIOUS
<1>1. CASE ~Has("seq", s, "type")
  BY <1>1 DEF normalizeTypeField, SameAt
<1>2. CASE Has("seq", s, "type")
  <2>1. IsSeq(listed) /\ (\A i \in DOMAIN listed : IsValue(listed[i])) /\ I \in SUBSET DOMAIN listed
    BY <1>2 DEF IsNode, Has
  <2>2. /\ IsSeq(types)
        /\ \A m \in DOMAIN types : Pick(I, m) \in I /\ types[m] = listed[Pick(I, m)]
    <3> HIDE DEF I
    <3> QED
      BY <2>1, EntriesFacts
  <2>3. r = IF types = <<>> THEN Without(s, {"type"}) ELSE [s EXCEPT !["type"] = types[1]]
    BY <1>2 DEF normalizeTypeField
  <2>4. CASE types = <<>>
    <3>1. r = Without(s, {"type"})
      BY <2>3, <2>4
    <3>2. /\ IsNode(Without(s, {"type"})) /\ DOMAIN Without(s, {"type"}) = DOMAIN s \ {"type"}
          /\ \A k : k # "type" => SameAt(Without(s, {"type"}), s, k)
      BY WithoutNode
    <3> HIDE DEF r
    <3> QED
      BY <3>1, <3>2 DEF Has
  <2>5. CASE types # <<>>
    <3>1. 1 \in DOMAIN types
      <4> HIDE DEF types
      <4> QED
        BY <2>2, <2>5, SeqFacts
    <3>2. Is("str", types[1]) /\ IsValue(types[1])
      BY <2>1, <2>2, <3>1
    <3>3. ~Is("seq", types[1])
      BY <3>2 DEF IsValue, Is
    <3>4. /\ DOMAIN r = DOMAIN s /\ r["type"] = types[1]
          /\ \A k \in DOMAIN s \ {"type"} : r[k] = s[k]
      BY <1>2, <2>3, <2>5 DEF Has
    <3> HIDE DEF r, types
    <3>5. IsNode(r)
      BY <3>2, <3>3, <3>4 DEF IsNode
    <3>6. ~Has("seq", r, "type") /\ \A k : k # "type" => SameAt(r, s, k)
      BY <3>3, <3>4 DEF SameAt, Has
    <3> QED
      BY <3>5, <3>6
  <2> QED
    BY <2>4, <2>5
<1> QED
  BY <1>1, <1>2

\* The enumerated are afterwards those that are not null, as far as there are any.
LEMMA EnumNormal ==
  ASSUME NEW s, IsNode(s)
  PROVE  LET r == normalizeEnumField(s)
         IN  /\ IsNode(r)
             /\ Has("seq", r, "enum") => r["enum"].seq # <<>> /\ ~Contains(r["enum"].seq, Null)
             /\ \A k : k # "enum" => SameAt(r, s, k)
<1> DEFINE listed  == s["enum"].seq
           I       == {i \in DOMAIN listed :
                         listed[i] # Null /\ \A j \in 1..i-1 : listed[j] # listed[i]}
           entries == EntriesAt(listed, I)
           r       == normalizeEnumField(s)
           Goal    == /\ IsNode(r)
                      /\ Has("seq", r, "enum") => r["enum"].seq # <<>> /\ ~Contains(r["enum"].seq, Null)
                      /\ \A k : k # "enum" => SameAt(r, s, k)
<1> SUFFICES Goal
  OBVIOUS
<1>1. CASE ~Has("seq", s, "enum")
  BY <1>1 DEF normalizeEnumField, SameAt
<1>2. CASE Has("seq", s, "enum")
  <2>1. IsSeq(listed) /\ I \in SUBSET DOMAIN listed
    BY <1>2 DEF IsNode, Has
  <2>2. /\ IsSeq(entries)
        /\ \A m \in DOMAIN entries : Pick(I, m) \in I /\ entries[m] = listed[Pick(I, m)]
    <3> HIDE DEF I
    <3> QED
      BY <2>1, EntriesFacts
  <2>3. \A m \in DOMAIN entries : entries[m] # Null /\ \E i \in DOMAIN listed : entries[m] = listed[i]
    BY <2>2
  <2>4. r = IF entries = <<>> THEN Without(s, {"enum"}) ELSE [s EXCEPT !["enum"] = Seq_(entries)]
    BY <1>2 DEF normalizeEnumField
  <2>5. CASE entries = <<>>
    <3>1. r = Without(s, {"enum"})
      BY <2>4, <2>5
    <3>2. /\ IsNode(Without(s, {"enum"})) /\ DOMAIN Without(s, {"enum"}) = DOMAIN s \ {"enum"}
          /\ \A k : k # "enum" => SameAt(Without(s, {"enum"}), s, k)
      BY WithoutNode
    <3> HIDE DEF r
    <3> QED
      BY <3>1, <3>2 DEF Has
  <2>6. CASE entries # <<>>
    <3>1. r = [s EXCEPT !["enum"] = Seq_(entries)]
      BY <2>4, <2>6
    <3> HIDE DEF r, entries
    <3>2. /\ IsNode([s EXCEPT !["enum"] = Seq_(entries)])
          /\ [s EXCEPT !["enum"] = Seq_(entries)]["enum"].seq = entries
      BY <1>2, <2>2, <2>3, ListNode
    <3>3. ~Contains(entries, Null)
      BY <2>2, <2>3, SeqFacts DEF Contains
    <3>4. \A k : k # "enum" => SameAt(r, s, k)
      BY <3>1 DEF SameAt
    <3> QED
      BY <2>6, <3>1, <3>2, <3>3, <3>4
  <2> QED
    BY <2>5, <2>6
<1> QED
  BY <1>1, <1>2

\* No constant is null afterwards.
LEMMA ConstNormal ==
  ASSUME NEW s, IsNode(s)
  PROVE  LET r == normalizeConstField(s)
         IN  IsNode(r) /\ ~Has("null", r, "const") /\ \A k : k # "const" => SameAt(r, s, k)
<1>1. CASE ~Has("null", s, "const")
  BY <1>1 DEF normalizeConstField, SameAt
<1>2. CASE Has("null", s, "const")
  <2>1. normalizeConstField(s) = Without(s, {"const"})
    BY <1>2 DEF normalizeConstField
  <2>2. /\ IsNode(Without(s, {"const"})) /\ DOMAIN Without(s, {"const"}) = DOMAIN s \ {"const"}
        /\ \A k : k # "const" => SameAt(Without(s, {"const"}), s, k)
    BY WithoutNode
  <2> QED
    BY <2>1, <2>2 DEF Has
<1> QED
  BY <1>1, <1>2

\* What NoNullLeft of UpstreamBody says of every node sent, for one node with
\* any fields: when its options speak of no null, it speaks of none either.
\* Without the second half of Simplified, that no object is left alone among
\* the options, it would not carry over from the options to the node: the
\* option that takes the place of "anyOf" may bring a "oneOf" of its own, which
\* is then simplified a second time.
THEOREM NodeBecomesNormal ==
  ASSUME NEW node, IsNode(node), \A key \in Combinators : OptionsNormal(node, key)
  PROVE  Normal(NormalizedFields(node))
<1> DEFINE s1 == simplifyNullableCombinator(node, "anyOf")
           s2 == simplifyNullableCombinator(s1, "oneOf")
           s3 == normalizeTypeField(s2)
           s4 == normalizeEnumField(s3)
           s5 == normalizeConstField(s4)
<1>0. "anyOf" \in Combinators \ {"oneOf"} /\ "oneOf" \in Combinators \ {"anyOf"}
  BY DEF Combinators
<1>1. IsNode(s1) /\ Simplified(s1, "anyOf") /\ Expected(s1, "oneOf")
  BY <1>0, SimplifyNormal DEF Expected
<1>2. IsNode(s2) /\ Simplified(s2, "anyOf") /\ Simplified(s2, "oneOf")
  <2> HIDE DEF s1
  <2> QED
    BY <1>0, <1>1, SimplifyNormal DEF Expected
<1>3. IsNode(s3) /\ ~Has("seq", s3, "type") /\ \A k : k # "type" => SameAt(s3, s2, k)
  <2> HIDE DEF s2
  <2> QED
    BY <1>2, TypeNormal
<1>4. /\ IsNode(s4) /\ \A k : k # "enum" => SameAt(s4, s3, k)
      /\ Has("seq", s4, "enum") => s4["enum"].seq # <<>> /\ ~Contains(s4["enum"].seq, Null)
  <2> HIDE DEF s3
  <2> QED
    BY <1>3, EnumNormal
<1>5. ~Has("null", s5, "const") /\ \A k : k # "const" => SameAt(s5, s4, k)
  <2> HIDE DEF s4
  <2> QED
    BY <1>4, ConstNormal
<1>6. NormalizedFields(node) = s5
  BY DEF NormalizedFields
<1> HIDE DEF s1, s2, s3, s4, s5
<1>7. \A key \in Combinators : SameAt(s3, s2, key) /\ SameAt(s4, s3, key) /\ SameAt(s5, s4, key)
  BY <1>3, <1>4, <1>5 DEF Combinators
<1>8. \A key \in Combinators : Simplified(s5, key)
  BY <1>2, <1>7, SameCombinator DEF Combinators
<1>9. SameAt(s4, s3, "type") /\ SameAt(s5, s4, "type") /\ SameAt(s5, s4, "enum")
  BY <1>4, <1>5
<1>10. ~Has("seq", s5, "type")
  BY <1>3, <1>9 DEF SameAt, Has
<1>11. Has("seq", s5, "enum") => s5["enum"].seq # <<>> /\ ~Contains(s5["enum"].seq, Null)
  BY <1>4, <1>9 DEF SameAt, Has
<1> QED
  BY <1>5, <1>6, <1>8, <1>10, <1>11 DEF Normal

-----------------------------------------------------------------------------
(* What a node allows.                                                     *)

\* An argument a model may call a tool with: a value that is not null.
IsArgument(v) == \E kind \in {"num", "str", "seq", "map"} : DOMAIN v = {kind}

LEMMA ArgumentIsNotNull ==
  ASSUME NEW v, IsArgument(v) PROVE TypeOf(v) # "null" /\ v # Null
BY DEF IsArgument, TypeOf, Is, Null

\* A list of types has one that is not null.
OneType(node) ==
    Has("seq", node, "type") =>
        \E t \in Types(node["type"]) \ {"null"} :
            \A i \in DOMAIN node["type"].seq : node["type"].seq[i] \in {Str(t), Str("null")}

\* Something that is not null is enumerated.
SomeListed(node) ==
    Has("seq", node, "enum") => \E i \in DOMAIN node["enum"].seq : node["enum"].seq[i] # Null

\* Of a list of types the one that is not null is kept.
LEMMA OneTypeKept ==
  ASSUME NEW s, IsNode(s), OneType(s), Has("seq", s, "type")
  PROVE  \E t : /\ t # "null" /\ normalizeTypeField(s) = [s EXCEPT !["type"] = Str(t)]
               /\ t \in Types(s["type"]) /\ Types(s["type"]) \subseteq {t, "null"}
<1> DEFINE listed == s["type"].seq
           I      == {i \in DOMAIN listed : Is("str", listed[i]) /\ listed[i] # Str("null")}
           types  == EntriesAt(listed, I)
           r      == normalizeTypeField(s)
<1>1. IsSeq(listed) /\ I \in SUBSET DOMAIN listed
  BY DEF IsNode, Has
<1>2. PICK t \in Types(s["type"]) \ {"null"} :
        \A i \in DOMAIN listed : listed[i] \in {Str(t), Str("null")}
  BY DEF OneType
<1>3. /\ Str(t).str = t /\ Str("null").str = "null" /\ Is("str", Str(t))
      /\ Str(t) # Str("null")
  BY <1>2 DEF Str, Is
<1>4. Types(s["type"]) = {listed[i].str : i \in DOMAIN listed}
  BY DEF Types, Has
<1>5. I # {} /\ \A i \in I : listed[i] = Str(t)
  <2>1. PICK i \in DOMAIN listed : listed[i].str = t
    BY <1>2, <1>4
  <2>2. listed[i] = Str(t)
    BY <1>2, <1>3, <2>1
  <2> QED
    BY <1>2, <1>3, <2>2
<1>6. types # <<>> /\ types[1] = Str(t)
  <2> HIDE DEF I, listed
  <2>1. /\ IsSeq(types) /\ types # <<>>
        /\ \A m \in DOMAIN types : Pick(I, m) \in I /\ types[m] = listed[Pick(I, m)]
    BY <1>1, <1>5, EntriesFacts
  <2>2. 1 \in DOMAIN types
    <3> HIDE DEF types
    <3> QED
      BY <2>1, SeqFacts
  <2> QED
    BY <1>5, <2>1, <2>2
<1>7. r = [s EXCEPT !["type"] = Str(t)]
  BY <1>6 DEF normalizeTypeField
<1>8. Types(s["type"]) \subseteq {t, "null"}
  BY <1>2, <1>3, <1>4
<1> HIDE DEF r
<1> QED
  BY <1>2, <1>7, <1>8 DEF r

\* The one type that is kept is the one that mattered.
LEMMA TypeKept ==
  ASSUME NEW s, IsNode(s), OneType(s), NEW v, IsArgument(v)
  PROVE  LET r == normalizeTypeField(s)
         IN  ("type" \in DOMAIN r => TypeOf(v) \in Types(r["type"]))
               <=> ("type" \in DOMAIN s => TypeOf(v) \in Types(s["type"]))
<1>1. CASE ~Has("seq", s, "type")
  BY <1>1 DEF normalizeTypeField
<1>2. CASE Has("seq", s, "type")
  <2> DEFINE r == normalizeTypeField(s)
  <2>1. PICK t : /\ t # "null" /\ r = [s EXCEPT !["type"] = Str(t)]
                 /\ t \in Types(s["type"]) /\ Types(s["type"]) \subseteq {t, "null"}
    BY <1>2, OneTypeKept
  <2>2. "type" \in DOMAIN s
    BY <1>2 DEF Has
  <2> HIDE DEF r
  <2>3. "type" \in DOMAIN r /\ Types(r["type"]) = {t}
    BY <2>1, <2>2 DEF Types, Str, Is
  <2>4. TypeOf(v) # "null"
    BY ArgumentIsNotNull
  <2> QED
    BY <2>1, <2>2, <2>3, <2>4 DEF r
<1> QED
  BY <1>1, <1>2

\* A set of natural numbers has a least one: what stands in for induction.
LEMMA LeastIndex ==
  ASSUME NEW T \in SUBSET Nat, T # {}
  PROVE  \E x \in T : \A y \in T : x <= y
<1>1. IsWellFoundedOn(OpToRel(<, Nat), Nat)
  BY NatLessThanWellFounded
<1>2. PICK x \in T : \A y \in T : ~(<<y, x>> \in OpToRel(<, Nat))
  BY <1>1, WFMin
<1>3. \A y \in T : <<y, x>> \in Nat \X Nat
  OBVIOUS
<1>4. \A y \in T : ~(y < x)
  BY <1>2, <1>3, Zenon DEF OpToRel
<1> QED
  BY <1>4

\* Every entry that is not null is still enumerated, where it came first.
LEMMA EnumKept ==
  ASSUME NEW s, IsNode(s), SomeListed(s), NEW v, IsArgument(v)
  PROVE  LET r == normalizeEnumField(s)
         IN  ("enum" \in DOMAIN r => Contains(r["enum"].seq, v))
               <=> ("enum" \in DOMAIN s => Contains(s["enum"].seq, v))
<1> DEFINE listed  == s["enum"].seq
           I       == {i \in DOMAIN listed :
                         listed[i] # Null /\ \A j \in 1..i-1 : listed[j] # listed[i]}
           entries == EntriesAt(listed, I)
           r       == normalizeEnumField(s)
           Goal    == ("enum" \in DOMAIN r => Contains(r["enum"].seq, v))
                        <=> ("enum" \in DOMAIN s => Contains(s["enum"].seq, v))
<1> SUFFICES Goal
  OBVIOUS
<1>1. CASE ~Has("seq", s, "enum")
  BY <1>1 DEF normalizeEnumField
<1>2. CASE Has("seq", s, "enum")
  <2>1. IsSeq(listed) /\ I \in SUBSET DOMAIN listed /\ "enum" \in DOMAIN s
    BY <1>2 DEF IsNode, Has
  <2>2. PICK n \in Nat : DOMAIN listed = 1..n
    BY <2>1 DEF IsSeq
  <2>3. ASSUME NEW i \in DOMAIN listed, listed[i] # Null
        PROVE  \E j \in I : listed[j] = listed[i]
    <3> DEFINE T == {j \in DOMAIN listed : listed[j] = listed[i]}
    <3>1. T \in SUBSET Nat /\ T # {}
      BY <2>2
    <3>2. PICK j \in T : \A l \in T : j <= l
      BY <3>1, LeastIndex
    <3>3. \A l \in 1..j-1 : listed[l] # listed[j]
      <4>1. ASSUME NEW l \in 1..j-1, listed[l] = listed[j] PROVE FALSE
        <5>1. j \in 1..n /\ l \in 1..n /\ l < j
          BY <2>2
        <5>2. l \in T
          BY <2>2, <4>1, <5>1
        <5> QED
          BY <3>2, <5>1, <5>2
      <4> QED
        BY <4>1
    <3> QED
      BY <2>3, <3>3
  <2>4. PICK i \in DOMAIN listed : listed[i] # Null
    BY <1>2 DEF SomeListed, Has
  <2>5. I # {}
    BY <2>3, <2>4
  <2>6. /\ IsSeq(entries) /\ entries # <<>>
        /\ \A m \in DOMAIN entries : Pick(I, m) \in I /\ entries[m] = listed[Pick(I, m)]
        /\ \A j \in I : \E m \in DOMAIN entries : Pick(I, m) = j
    <3> HIDE DEF I, listed
    <3> QED
      BY <2>1, <2>5, EntriesFacts
  <2>7. r = [s EXCEPT !["enum"] = Seq_(entries)]
    BY <1>2, <2>6 DEF normalizeEnumField
  <2>8. "enum" \in DOMAIN r /\ r["enum"].seq = entries
    BY <2>1, <2>7 DEF Seq_
  <2>9. v # Null
    BY ArgumentIsNotNull
  <2>10. \A x : x # Null => ((\E m \in DOMAIN entries : entries[m] = x)
                             <=> \E j \in DOMAIN listed : listed[j] = x)
    <3>1. ASSUME NEW m \in DOMAIN entries PROVE \E j \in DOMAIN listed : listed[j] = entries[m]
      BY <2>1, <2>6
    <3>2. ASSUME NEW j \in DOMAIN listed, listed[j] # Null
          PROVE  \E m \in DOMAIN entries : entries[m] = listed[j]
      <4>1. PICK l \in I : listed[l] = listed[j]
        BY <2>3, <3>2
      <4> HIDE DEF I, entries
      <4> QED
        BY <2>6, <4>1
    <3> HIDE DEF entries
    <3> QED
      BY <3>1, <3>2
  <2>11. \A e : IsSeq(e) => (Contains(e, v) <=> \E m \in DOMAIN e : e[m] = v)
    BY SeqFacts DEF Contains
  <2>12. Contains(entries, v) <=> Contains(listed, v)
    BY <2>1, <2>6, <2>9, <2>10, <2>11
  <2> HIDE DEF r, entries
  <2> QED
    BY <2>1, <2>8, <2>12
<1> QED
  BY <1>1, <1>2

-----------------------------------------------------------------------------
(* The keywords, one by one.                                               *)

Keywords == {"type", "const", "enum", "anyOf", "oneOf", "properties"}

\* What a node asks of v under the keyword k.
Asks(node, k, v) ==
    CASE k = "type"  -> ("type" \in DOMAIN node => TypeOf(v) \in Types(node["type"]))
      [] k = "const" -> ("const" \in DOMAIN node => v = node["const"])
      [] k = "enum"  -> ("enum" \in DOMAIN node => Contains(node["enum"].seq, v))
      [] k = "anyOf" -> ("anyOf" \in DOMAIN node => SomeAllows(node["anyOf"].seq, v, Allow))
      [] k = "oneOf" -> ("oneOf" \in DOMAIN node => OneAllows(node["oneOf"].seq, v, Allow))
      [] k = "properties" ->
            (Has("map", node, "properties") /\ Is("map", v) =>
               \A n \in DOMAIN node["properties"].map \cap DOMAIN v.map :
                   Allow(node["properties"].map[n], v.map[n]))

\* A node allows what it asks for under each keyword.
LEMMA ByKeyword ==
  ASSUME NEW node, NEW v
  PROVE  NodeAllows(node, v, Allow) <=> \A k \in Keywords : Asks(node, k, v)
BY DEF NodeAllows, Keywords, Asks

\* What is asked under a keyword depends on its entry alone.
LEMMA SameAsked ==
  ASSUME NEW f, NEW g, NEW v, NEW k \in Keywords, SameAt(f, g, k)
  PROVE  Asks(f, k, v) <=> Asks(g, k, v)
<1>1. CASE k = "type"
  BY <1>1 DEF Asks, SameAt
<1>2. CASE k = "const"
  BY <1>2 DEF Asks, SameAt
<1>3. CASE k = "enum"
  BY <1>3 DEF Asks, SameAt
<1>4. CASE k = "anyOf"
  BY <1>4 DEF Asks, SameAt, SomeAllows
<1>5. CASE k = "oneOf"
  BY <1>5 DEF Asks, SameAt, OneAllows
<1>6. CASE k = "properties"
  BY <1>6 DEF Asks, SameAt, Has
<1> QED
  BY <1>1, <1>2, <1>3, <1>4, <1>5, <1>6 DEF Keywords

\* Nothing is asked under a keyword that is not there.
LEMMA NothingAsked ==
  ASSUME NEW node, NEW v, NEW k \in Keywords, k \notin DOMAIN node
  PROVE  Asks(node, k, v)
BY DEF Asks, Keywords, Has

\* What is asked under a combinator, of its options alone.
AsksOf(key, options, v) ==
    IF key = "anyOf" THEN SomeAllows(options, v, Allow) ELSE OneAllows(options, v, Allow)

LEMMA AskedOfOptions ==
  ASSUME NEW node, NEW v, NEW key \in Combinators, key \in DOMAIN node
  PROVE  Asks(node, key, v) <=> AsksOf(key, node[key].seq, v)
BY DEF Asks, AsksOf, Combinators

LEMMA AskedOfOne ==
  ASSUME NEW key, NEW options, NEW v, DOMAIN options = {1}
  PROVE  AsksOf(key, options, v) <=> Allow(options[1], v)
BY DEF AsksOf, SomeAllows, OneAllows

\* A schema for null alone allows no argument.
LEMMA NullAllowsNone ==
  ASSUME NEW node, IsNode(node), isNullSchema(node), NEW v, IsArgument(v)
  PROVE  ~NodeAllows(node, v, Allow)
<1>1. CASE Has("str", node, "type") /\ node["type"] = Str("null")
  <2>1. Types(node["type"]) = {"null"}
    BY <1>1 DEF Types, Str, Is
  <2> QED
    BY <1>1, <2>1, ArgumentIsNotNull DEF NodeAllows, Has
<1>2. CASE Has("null", node, "const")
  <2>1. DOMAIN node["const"] = {"null"}
    BY <1>2 DEF Has, Is, IsNode, IsValue
  <2>2. v # node["const"]
    BY <2>1 DEF IsArgument
  <2> QED
    BY <1>2, <2>2 DEF NodeAllows, Has
<1>3. CASE Has("seq", node, "enum") /\ node["enum"] = Seq_(<<Null>>)
  <2>1. node["enum"].seq = <<Null>>
    BY <1>3 DEF Seq_
  <2>2. ~Contains(<<Null>>, v)
    BY ArgumentIsNotNull DEF Contains
  <2> QED
    BY <1>3, <2>1, <2>2 DEF NodeAllows, Has
<1> QED
  BY <1>1, <1>2, <1>3 DEF isNullSchema

-----------------------------------------------------------------------------
(* A combinator means what it meant.                                       *)

\* An option that is an object allows what it says.
OptionsMeant(node, key, v) ==
    Has("seq", node, key) =>
        \A i \in DOMAIN node[key].seq : Is("map", node[key].seq[i]) =>
            (Allow(node[key].seq[i], v) <=> NodeAllows(node[key].seq[i].map, v, Allow))

\* Some option says more than null.
SomeOption(node, key) ==
    Has("seq", node, key) => \E i \in DOMAIN node[key].seq : ~IsNullOption(node[key].seq[i])

\* The keys that take the place of a combinator.
Heirs(node, key) ==
    IF Has("seq", node, key) /\ DOMAIN NotNull(node[key].seq) = {1}
                             /\ Is("map", NotNull(node[key].seq)[1])
    THEN DOMAIN NotNull(node[key].seq)[1].map
    ELSE {}

\* A combinator that may be simplified without changing what the node allows.
Sound(node, key, v) ==
    /\ OptionsNormal(node, key) /\ OptionsMeant(node, key, v)
    /\ SomeOption(node, key)
    /\ Heirs(node, key) \cap (DOMAIN node \ {key}) = {}

\* Of a simplified combinator no object is left alone, and something is left.
LEMMA NoneAlone ==
  ASSUME NEW s, IsNode(s), NEW key, Simplified(s, key), Has("seq", s, key)
  PROVE  LET new == NotNull(s[key].seq)
         IN  new # <<>> /\ ~(DOMAIN new = {1} /\ Is("map", new[1]))
<1> DEFINE old == s[key].seq
           new == NotNull(old)
<1>1. SUFFICES new # <<>> /\ ~(DOMAIN new = {1} /\ Is("map", new[1]))
  OBVIOUS
<1>2. IsSeq(old)
  BY DEF IsNode, Has
<1>3. /\ old # <<>> /\ ~(Len(old) = 1 /\ Is("map", old[1]))
      /\ \A i \in DOMAIN old : ~IsNullOption(old[i])
  BY DEF Simplified, IsNullOption, ToSet
<1>4. /\ Len(old) \in Nat /\ DOMAIN old = 1..Len(old) /\ (old = <<>> <=> DOMAIN old = {})
      /\ Len(new) = Len(old)
  BY <1>2, <1>3, SeqFacts, NoneIsNull
<1>5. /\ IsSeq(new) /\ DOMAIN new = 1..Len(new)
      /\ \A m \in DOMAIN new : \E i \in DOMAIN old : new[m] = old[i]
  BY <1>2, NotNullFacts, SeqFacts
<1>6. new # <<>>
  BY <1>2, <1>3, <1>4, <1>5, SeqFacts
<1>7. ASSUME DOMAIN new = {1}, Is("map", new[1]) PROVE FALSE
  <2> HIDE DEF old, new
  <2>1. Len(old) = 1
    <3>1. Len(old) \in Nat /\ 1 \in 1..Len(old) /\ (Len(old) \in 1..Len(old) => Len(old) \in {1})
      BY <1>4, <1>5, <1>7
    <3> QED
      BY <3>1
  <2>2. new[1] = old[1]
    BY <1>4, <1>5, <1>7, <2>1
  <2> QED
    BY <1>3, <1>7, <2>1, <2>2
<1> QED
  BY <1>6, <1>7

\* So it stays, and gives way to nothing.
LEMMA SimplifiedStays ==
  ASSUME NEW s, IsNode(s), NEW key, Simplified(s, key)
  PROVE  /\ ~Vanishes(s, key)
         /\ \A i : ~GivesWay(s, key, s[key].seq[i])
         /\ Heirs(s, key) = {}
BY NoneAlone DEF Vanishes, GivesWay, Heirs

\* When an option takes the place of a combinator, an entry of the node is that
\* of the option or, if that has none, the one it was.
LEMMA GivesWayEntries ==
  ASSUME NEW s, IsNode(s), NEW key, NEW o, GivesWay(s, key, o)
  PROVE  LET r == simplifyNullableCombinator(s, key)
         IN  /\ DOMAIN r = DOMAIN o.map \cup (DOMAIN s \ {key})
             /\ \A k : k = key \/ k \in DOMAIN o.map => SameAt(r, o.map, k)
             /\ \A k : k # key /\ k \notin DOMAIN o.map => SameAt(r, s, k)
<1> DEFINE r == simplifyNullableCombinator(s, key)
           w == Without(s, {key})
           Goal == /\ DOMAIN r = DOMAIN o.map \cup (DOMAIN s \ {key})
                   /\ \A k : k = key \/ k \in DOMAIN o.map => SameAt(r, o.map, k)
                   /\ \A k : k # key /\ k \notin DOMAIN o.map => SameAt(r, s, k)
<1> SUFFICES Goal
  OBVIOUS
<1>1. r = Over(o.map, w) /\ IsNode(o.map)
  BY DEF GivesWay
<1>2. IsNode(w) /\ DOMAIN w = DOMAIN s \ {key} /\ \A k \in DOMAIN s \ {key} : w[k] = s[k]
  BY WithoutNode
<1> HIDE DEF w, r
<1>3. /\ DOMAIN r = DOMAIN o.map \cup DOMAIN w
      /\ \A k \in DOMAIN o.map : r[k] = o.map[k]
      /\ \A k \in DOMAIN w \ DOMAIN o.map : r[k] = w[k]
  <2>1. /\ DOMAIN Over(o.map, w) = DOMAIN o.map \cup DOMAIN w
        /\ \A k \in DOMAIN o.map : Over(o.map, w)[k] = o.map[k]
        /\ \A k \in DOMAIN w \ DOMAIN o.map : Over(o.map, w)[k] = w[k]
    BY <1>1, <1>2, OverNode
  <2> QED
    BY <1>1, <2>1
<1> QED
  BY <1>2, <1>3 DEF SameAt

\* Simplifying it changes nothing a node allows, nulls aside.
LEMMA SimplifyMeans ==
  ASSUME NEW s, IsNode(s), NEW v, IsArgument(v), NEW key \in Combinators,
         Simplified(s, key) \/ Sound(s, key, v)
  PROVE  NodeAllows(simplifyNullableCombinator(s, key), v, Allow) <=> NodeAllows(s, v, Allow)
<1> DEFINE r   == simplifyNullableCombinator(s, key)
           old == s[key].seq
           new == NotNull(old)
           Goal == (\A k \in Keywords : Asks(r, k, v)) <=> \A k \in Keywords : Asks(s, k, v)
<1> SUFFICES Goal
  BY ByKeyword
<1>1. key \in Keywords
  BY DEF Combinators, Keywords
<1>2. CASE ~Has("seq", s, key) /\ r = s
  BY <1>2
<1>3. ASSUME Has("seq", s, key)
      PROVE  /\ key \in DOMAIN s /\ IsSeq(old)
             /\ \A i \in DOMAIN old : IsNullOption(old[i]) => ~Allow(old[i], v)
             /\ AsksOf(key, new, v) <=> Asks(s, key, v)
  <2>1. key \in DOMAIN s /\ IsSeq(old)
    BY <1>3 DEF IsNode, Has
  <2>2. ASSUME NEW i \in DOMAIN old, IsNullOption(old[i]) PROVE ~Allow(old[i], v)
    <3>1. Sound(s, key, v)
      BY <1>3, <2>2 DEF Simplified, IsNullOption, ToSet
    <3>2. /\ IsNode(old[i].map) /\ isNullSchema(old[i].map)
          /\ Allow(old[i], v) <=> NodeAllows(old[i].map, v, Allow)
      BY <1>3, <2>2, <3>1 DEF Sound, OptionsNormal, OptionsMeant, IsNullOption
    <3> QED
      BY <3>2, NullAllowsNone
  <2>3. AsksOf(key, new, v) <=> AsksOf(key, old, v)
    <3> HIDE DEF old
    <3> QED
      BY <2>1, <2>2, NotNullAllow DEF AsksOf
  <2> QED
    BY <2>1, <2>2, <2>3, AskedOfOptions
<1>4. CASE Vanishes(s, key)
  <2>1. Sound(s, key, v) /\ Has("seq", s, key) /\ new = <<>>
    BY <1>4, SimplifiedStays DEF Vanishes
  <2>2. PICK i \in DOMAIN old : ~IsNullOption(old[i])
    BY <2>1 DEF Sound, SomeOption
  <2> QED
    BY <1>3, <2>1, <2>2, NotNullFacts
<1>5. ASSUME NEW i \in DOMAIN old, GivesWay(s, key, old[i]) PROVE Goal
  <2> DEFINE o == old[i]
  <2>1. /\ Sound(s, key, v) /\ Has("seq", s, key)
        /\ DOMAIN new = {1} /\ new[1] = o /\ Is("map", o)
    BY <1>5, SimplifiedStays DEF GivesWay
  <2>2. DOMAIN o.map \cap (DOMAIN s \ {key}) = {}
    BY <2>1 DEF Sound, Heirs
  <2>3. Asks(s, key, v) <=> \A k \in Keywords : Asks(o.map, k, v)
    <3>1. Asks(s, key, v) <=> Allow(o, v)
      BY <1>3, <2>1, AskedOfOne
    <3>2. Allow(o, v) <=> NodeAllows(o.map, v, Allow)
      BY <1>5, <2>1 DEF Sound, OptionsMeant
    <3> QED
      BY <3>1, <3>2, ByKeyword
  <2>4. /\ \A k : k = key \/ k \in DOMAIN o.map => SameAt(r, o.map, k)
        /\ \A k : k # key /\ k \notin DOMAIN o.map => SameAt(r, s, k)
    BY <1>5, GivesWayEntries
  <2> HIDE DEF o, r
  <2>5. Asks(r, key, v) <=> Asks(o.map, key, v)
    BY <1>1, <2>4, SameAsked
  <2>6. ASSUME NEW k \in Keywords, k # key
        PROVE  Asks(r, k, v) <=> Asks(s, k, v) /\ Asks(o.map, k, v)
    <3>1. CASE k \in DOMAIN o.map
      <4>1. Asks(r, k, v) <=> Asks(o.map, k, v)
        BY <2>4, <3>1, SameAsked
      <4>2. k \notin DOMAIN s
        BY <2>2, <2>6, <3>1
      <4> QED
        BY <4>1, <4>2, NothingAsked
    <3>2. CASE k \notin DOMAIN o.map
      <4>1. Asks(r, k, v) <=> Asks(s, k, v)
        BY <2>4, <2>6, <3>2, SameAsked
      <4> QED
        BY <4>1, <3>2, NothingAsked
    <3> QED
      BY <3>1, <3>2
  <2> QED
    BY <1>1, <2>3, <2>5, <2>6
<1>6. CASE Stays(s, key)
  <2>1. Has("seq", s, key) /\ r = [s EXCEPT ![key] = Seq_(new)]
    BY <1>6 DEF Stays
  <2>2. key \in DOMAIN r /\ r[key].seq = new
    BY <1>3, <2>1 DEF Seq_
  <2>3. \A k : k # key => SameAt(r, s, k)
    BY <2>1 DEF SameAt
  <2> HIDE DEF r
  <2>4. Asks(r, key, v) <=> Asks(s, key, v)
    BY <1>3, <2>1, <2>2, AskedOfOptions
  <2>5. \A k \in Keywords : k # key => (Asks(r, k, v) <=> Asks(s, k, v))
    BY <2>3, SameAsked
  <2> QED
    BY <2>4, <2>5
<1>7. Expected(s, key)
  BY DEF Expected, Sound
<1> QED
  BY <1>2, <1>4, <1>5, <1>6, <1>7, FourWays

-----------------------------------------------------------------------------
(* A node means what it meant.                                             *)

\* Under the keywords that hold types and values it says more than null.
Plain(node) == OneType(node) /\ ~Has("null", node, "const") /\ SomeListed(node)

\* What is said of a keyword is said of its entry alone.
LEMMA SamePlain ==
  ASSUME NEW f, NEW g
  PROVE  /\ SameAt(f, g, "type") => (OneType(f) <=> OneType(g))
         /\ SameAt(f, g, "const") => (Has("null", f, "const") <=> Has("null", g, "const"))
         /\ SameAt(f, g, "enum") => (SomeListed(f) <=> SomeListed(g))
BY DEF SameAt, OneType, SomeListed, Has

\* A normal node says more than null.
LEMMA NormalPlain ==
  ASSUME NEW node, IsNode(node), Normal(node)
  PROVE  Plain(node)
<1>1. ASSUME Has("seq", node, "enum")
      PROVE  \E i \in DOMAIN node["enum"].seq : node["enum"].seq[i] # Null
  <2> DEFINE listed == node["enum"].seq
  <2>1. IsSeq(listed) /\ listed # <<>> /\ ~Contains(listed, Null)
    BY <1>1 DEF IsNode, Normal, Has
  <2> HIDE DEF listed
  <2>2. DOMAIN listed = 1..Len(listed) /\ Len(listed) \in Nat /\ DOMAIN listed # {}
    BY <2>1, SeqFacts
  <2>3. \A i \in DOMAIN listed : listed[i] # Null
    BY <2>1, <2>2 DEF Contains
  <2> QED
    BY <2>2, <2>3 DEF listed
<1> QED
  BY <1>1 DEF Plain, OneType, SomeListed, Normal

\* It still does when a combinator is simplified.
LEMMA SimplifyPlain ==
  ASSUME NEW s, IsNode(s), NEW key \in Combinators, Expected(s, key), Plain(s)
  PROVE  Plain(simplifyNullableCombinator(s, key))
<1> DEFINE r == simplifyNullableCombinator(s, key)
           Fields == {"type", "const", "enum"}
<1> SUFFICES Plain(r)
  OBVIOUS
<1>1. \A k \in Fields : k # key
  BY DEF Combinators
<1>2. CASE \A k \in Fields : SameAt(r, s, k)
  BY <1>2, SamePlain DEF Plain
<1>3. CASE ~Has("seq", s, key) /\ r = s
  BY <1>3
<1>4. CASE Vanishes(s, key)
  <2>1. r = Without(s, {key})
    BY <1>4 DEF Vanishes
  <2>2. \A k : k # key => SameAt(Without(s, {key}), s, k)
    BY WithoutNode
  <2> QED
    BY <1>1, <1>2, <2>1, <2>2
<1>5. ASSUME NEW i \in DOMAIN s[key].seq, GivesWay(s, key, s[key].seq[i]) PROVE Plain(r)
  <2> DEFINE o == s[key].seq[i]
  <2>1. \A k \in Fields : SameAt(r, o.map, k) \/ SameAt(r, s, k)
    BY <1>1, <1>5, GivesWayEntries
  <2>2. Plain(o.map)
    BY <1>5, NormalPlain DEF GivesWay
  <2> HIDE DEF o, r
  <2> QED
    BY <2>1, <2>2, SamePlain DEF Plain
<1>6. CASE Stays(s, key)
  <2>1. r = [s EXCEPT ![key] = Seq_(NotNull(s[key].seq))]
    BY <1>6 DEF Stays
  <2>2. \A k : k # key => SameAt(r, s, k)
    BY <2>1 DEF SameAt
  <2> QED
    BY <1>1, <1>2, <2>2
<1> QED
  BY <1>3, <1>4, <1>5, <1>6, FourWays

\* A combinator is as sound in another node, unless that has keys in its way.
LEMMA SoundCarries ==
  ASSUME NEW f, NEW g, NEW key, NEW v, SameAt(f, g, key), Sound(g, key, v),
         Heirs(g, key) \cap (DOMAIN f \ {key}) = {}
  PROVE  Sound(f, key, v)
<1>1. Has("seq", f, key) <=> Has("seq", g, key)
  BY DEF SameAt, Has
<1>2. Has("seq", f, key) => f[key] = g[key]
  BY DEF SameAt, Has
<1>3. Heirs(f, key) = Heirs(g, key)
  BY <1>1, <1>2 DEF Heirs
<1>4. OptionsNormal(f, key) /\ OptionsMeant(f, key, v) /\ SomeOption(f, key)
  BY <1>1, <1>2 DEF Sound, OptionsNormal, OptionsMeant, SomeOption
<1> QED
  BY <1>3, <1>4 DEF Sound

\* The first combinator simplified, the second one may be: what has taken the
\* place of the first brings a second one that is simplified, or none.
LEMMA OtherSound ==
  ASSUME NEW s, IsNode(s), NEW v, NEW key \in Combinators, NEW other \in Combinators \ {key},
         Sound(s, key, v), Sound(s, other, v), Heirs(s, key) \cap Heirs(s, other) = {}
  PROVE  LET r == simplifyNullableCombinator(s, key)
         IN  Simplified(r, other) \/ Sound(r, other, v)
<1> DEFINE r == simplifyNullableCombinator(s, key)
<1> SUFFICES Simplified(r, other) \/ Sound(r, other, v)
  OBVIOUS
<1>1. CASE DOMAIN r \subseteq DOMAIN s /\ SameAt(r, s, other)
  <2>1. Heirs(s, other) \cap (DOMAIN r \ {other}) = {}
    BY <1>1 DEF Sound
  <2> QED
    BY <1>1, <2>1, SoundCarries
<1>2. CASE ~Has("seq", s, key) /\ r = s
  BY <1>2
<1>3. CASE Vanishes(s, key)
  <2>1. r = Without(s, {key})
    BY <1>3 DEF Vanishes
  <2>2. /\ DOMAIN Without(s, {key}) = DOMAIN s \ {key}
        /\ \A k : k # key => SameAt(Without(s, {key}), s, k)
    BY WithoutNode
  <2> QED
    BY <1>1, <2>1, <2>2
<1>4. ASSUME NEW i \in DOMAIN s[key].seq, GivesWay(s, key, s[key].seq[i])
      PROVE  Simplified(r, other) \/ Sound(r, other, v)
  <2> DEFINE o == s[key].seq[i]
  <2>1. /\ DOMAIN r = DOMAIN o.map \cup (DOMAIN s \ {key})
        /\ other \in DOMAIN o.map => SameAt(r, o.map, other)
        /\ other \notin DOMAIN o.map => SameAt(r, s, other)
    BY <1>4, GivesWayEntries
  <2>2. Normal(o.map) /\ DOMAIN o.map = Heirs(s, key)
    BY <1>4 DEF GivesWay, Heirs
  <2> HIDE DEF o, r
  <2>3. CASE other \in DOMAIN o.map
    BY <2>1, <2>2, <2>3, SameCombinator DEF Normal
  <2>4. CASE other \notin DOMAIN o.map
    <3>1. Heirs(s, other) \cap (DOMAIN r \ {other}) = {}
      BY <2>1, <2>2 DEF Sound
    <3> QED
      BY <2>1, <2>4, <3>1, SoundCarries
  <2> QED
    BY <2>3, <2>4
<1>5. CASE Stays(s, key)
  <2>1. r = [s EXCEPT ![key] = Seq_(NotNull(s[key].seq))]
    BY <1>5 DEF Stays
  <2>2. DOMAIN r = DOMAIN s /\ SameAt(r, s, other)
    BY <2>1 DEF SameAt
  <2> QED
    BY <1>1, <2>2
<1>6. Expected(s, key)
  BY DEF Expected, Sound
<1> QED
  BY <1>2, <1>3, <1>4, <1>5, <1>6, FourWays

\* What SameMeaning of UpstreamBody says of a schema, for one node with any
\* fields, whatever the schemas in it allow: when its options are normalised and
\* allow what they say, the node allows the same arguments after as before.
\* What is exempt is what Ordinary exempts: no option, type or value but null,
\* several types, and combinators that give way to keys that are there already
\* or that the other one gives way to.
THEOREM NodeMeansTheSame ==
  ASSUME NEW node, IsNode(node), NEW v, IsArgument(v), Plain(node),
         \A key \in Combinators : Sound(node, key, v),
         Heirs(node, "anyOf") \cap Heirs(node, "oneOf") = {}
  PROVE  NodeAllows(NormalizedFields(node), v, Allow) <=> NodeAllows(node, v, Allow)
<1> DEFINE s1 == simplifyNullableCombinator(node, "anyOf")
           s2 == simplifyNullableCombinator(s1, "oneOf")
           s3 == normalizeTypeField(s2)
           s4 == normalizeEnumField(s3)
           s5 == normalizeConstField(s4)
<1>0. "anyOf" \in Combinators \ {"oneOf"} /\ "oneOf" \in Combinators \ {"anyOf"}
  BY DEF Combinators
<1>1. \A key \in Combinators : Expected(node, key)
  BY DEF Expected, Sound
<1>2. /\ IsNode(s1) /\ Expected(s1, "oneOf") /\ Plain(s1)
      /\ Simplified(s1, "oneOf") \/ Sound(s1, "oneOf", v)
      /\ NodeAllows(s1, v, Allow) <=> NodeAllows(node, v, Allow)
  BY <1>0, <1>1, SimplifyNormal, SimplifyPlain, OtherSound, SimplifyMeans
<1>3. /\ IsNode(s2) /\ Plain(s2)
      /\ NodeAllows(s2, v, Allow) <=> NodeAllows(s1, v, Allow)
  <2>1. Expected(s1, "anyOf")
    BY <1>0, <1>1, SimplifyNormal DEF Expected
  <2> HIDE DEF s1
  <2> QED
    BY <1>0, <1>2, <2>1, SimplifyNormal, SimplifyPlain, SimplifyMeans
<1>4. /\ IsNode(s3) /\ \A k : k # "type" => SameAt(s3, s2, k)
      /\ Asks(s3, "type", v) <=> Asks(s2, "type", v)
  <2> HIDE DEF s2
  <2> QED
    BY <1>3, TypeNormal, TypeKept DEF Plain, Asks
<1>5. SomeListed(s3) /\ ~Has("null", s3, "const")
  <2> HIDE DEF s3
  <2> QED
    BY <1>3, <1>4, SamePlain DEF Plain
<1>6. /\ IsNode(s4) /\ \A k : k # "enum" => SameAt(s4, s3, k)
      /\ Asks(s4, "enum", v) <=> Asks(s3, "enum", v)
  <2> HIDE DEF s3
  <2> QED
    BY <1>4, <1>5, EnumNormal, EnumKept DEF Asks
<1>7. s5 = s4
  <2>1. ~Has("null", s4, "const")
    <3> HIDE DEF s4
    <3> QED
      BY <1>5, <1>6, SamePlain
  <2> QED
    BY <2>1 DEF normalizeConstField
<1>8. NormalizedFields(node) = s5
  BY DEF NormalizedFields
<1> HIDE DEF s1, s2, s3, s4, s5
<1>9. \A k \in Keywords : Asks(s3, k, v) <=> Asks(s2, k, v)
  BY <1>4, SameAsked
<1>10. \A k \in Keywords : Asks(s4, k, v) <=> Asks(s3, k, v)
  BY <1>6, SameAsked
<1>11. NodeAllows(s4, v, Allow) <=> NodeAllows(s2, v, Allow)
  BY <1>9, <1>10, ByKeyword
<1> QED
  BY <1>2, <1>3, <1>7, <1>8, <1>11

-----------------------------------------------------------------------------
(* A schema that is tidy all the way down.                                 *)

\* A value of one kind; an object speaks of no null and has no key of gone.
Fine(v, gone) ==
    /\ IsValue(v)
    /\ Is("seq", v) => IsSeq(v.seq)
    /\ Is("map", v) => Normal(v.map) /\ DOMAIN v.map \cap gone = {}

\* All values in v are fine.  The values in v are those of the least set that
\* has v and the children of what it has; some such set is enough here.
Within(S, v, gone) == v \in S /\ \A x \in S : Fine(x, gone) /\ Children(x) \subseteq S

Tidy(v, gone) == \E S : Within(S, v, gone)

LEMMA TidyParts ==
  ASSUME NEW v, NEW gone
  PROVE  Tidy(v, gone) <=> Fine(v, gone) /\ \A c \in Children(v) : Tidy(c, gone)
<1>1. ASSUME Tidy(v, gone) PROVE Fine(v, gone) /\ \A c \in Children(v) : Tidy(c, gone)
  <2>1. PICK S : Within(S, v, gone)
    BY <1>1 DEF Tidy
  <2>2. \A c \in Children(v) : Within(S, c, gone)
    BY <2>1 DEF Within
  <2> QED
    BY <2>1, <2>2 DEF Tidy, Within
<1>2. ASSUME Fine(v, gone), \A c \in Children(v) : Tidy(c, gone) PROVE Tidy(v, gone)
  <2> DEFINE W(c) == CHOOSE S : Within(S, c, gone)
             All  == {v} \cup UNION {W(c) : c \in Children(v)}
  <2>1. \A c \in Children(v) : Within(W(c), c, gone)
    BY <1>2 DEF Tidy
  <2> HIDE DEF W
  <2>2. \A x \in All : Fine(x, gone) /\ Children(x) \subseteq All
    BY <1>2, <2>1 DEF Within
  <2>3. Within(All, v, gone)
    BY <2>2 DEF Within
  <2> QED
    BY <2>3 DEF Tidy
<1> QED
  BY <1>1, <1>2

LEMMA ChildrenOf ==
  ASSUME NEW v, IsValue(v)
  PROVE  /\ Is("map", v) => Children(v) = {v.map[k] : k \in DOMAIN v.map}
         /\ Is("seq", v) => Children(v) = {v.seq[i] : i \in DOMAIN v.seq}
         /\ ~Is("map", v) /\ ~Is("seq", v) => Children(v) = {}
BY DEF Children, Is, IsValue

\* The values in an object are tidy, and it has no key that is gone.
TidyNode(node, gone) == DOMAIN node \cap gone = {} /\ \A k \in DOMAIN node : Tidy(node[k], gone)

\* What tidy values are, in the words of the lemmas about one node.
LEMMA TidyNodeFacts ==
  ASSUME NEW node, NEW gone, TidyNode(node, gone)
  PROVE  /\ IsNode(node)
         /\ \A key : OptionsNormal(node, key)
         /\ \A key : Has("seq", node, key) =>
              \A i \in DOMAIN node[key].seq : Tidy(node[key].seq[i], gone)
<1>1. \A k \in DOMAIN node : IsValue(node[k]) /\ (Is("seq", node[k]) => IsSeq(node[k].seq))
  BY TidyParts DEF TidyNode, Fine
<1>2. \A v : Is("seq", v) /\ IsValue(v) => Children(v) = {v.seq[i] : i \in DOMAIN v.seq}
  BY ChildrenOf
<1>3. \A v : Is("map", v) /\ IsValue(v) => Children(v) = {v.map[k] : k \in DOMAIN v.map}
  BY ChildrenOf
<1>4. \A k \in DOMAIN node : Is("seq", node[k]) =>
        \A i \in DOMAIN node[k].seq : Tidy(node[k].seq[i], gone) /\ Fine(node[k].seq[i], gone)
  BY <1>1, <1>2, TidyParts DEF TidyNode
<1>5. ASSUME NEW v, Tidy(v, gone), Is("map", v) PROVE IsNode(v.map) /\ Normal(v.map)
  <2>1. Fine(v, gone) /\ \A k \in DOMAIN v.map : Tidy(v.map[k], gone)
    BY <1>3, <1>5, TidyParts DEF Fine
  <2>2. \A k \in DOMAIN v.map : Fine(v.map[k], gone)
    BY <2>1, TidyParts
  <2>3. ASSUME NEW k \in DOMAIN v.map, Is("seq", v.map[k]), NEW i \in DOMAIN v.map[k].seq
        PROVE  IsValue(v.map[k].seq[i])
    <3>1. v.map[k].seq[i] \in Children(v.map[k])
      BY <1>2, <2>2, <2>3 DEF Fine
    <3> QED
      BY <2>1, <3>1, TidyParts DEF Fine
  <2> QED
    BY <1>5, <2>1, <2>2, <2>3 DEF Fine, IsNode
<1> QED
  BY <1>1, <1>4, <1>5 DEF IsNode, Has, OptionsNormal, Fine

\* Tidy values make a tidy list, and a normal node of them is tidy.
LEMMA TidyList ==
  ASSUME NEW list, IsSeq(list), NEW gone, \A i \in DOMAIN list : Tidy(list[i], gone)
  PROVE  Tidy(Seq_(list), gone)
<1>1. /\ DOMAIN Seq_(list) = {"seq"} /\ Seq_(list).seq = list
      /\ Is("seq", Seq_(list)) /\ ~Is("map", Seq_(list))
  BY DEF Seq_, Is
<1>2. Fine(Seq_(list), gone)
  BY <1>1, MadeValues DEF Fine
<1>3. Children(Seq_(list)) = {list[i] : i \in DOMAIN list}
  BY <1>1 DEF Children
<1> QED
  BY <1>2, <1>3, TidyParts

LEMMA TidyMap ==
  ASSUME NEW node, NEW gone
  PROVE  Tidy(Map(node), gone) <=> Normal(node) /\ TidyNode(node, gone)
<1>1. /\ DOMAIN Map(node) = {"map"} /\ Map(node).map = node
      /\ Is("map", Map(node)) /\ ~Is("seq", Map(node))
  BY DEF Map, Is
<1>2. Children(Map(node)) = {node[k] : k \in DOMAIN node}
  BY <1>1 DEF Children
<1>3. Fine(Map(node), gone) <=> Normal(node) /\ DOMAIN node \cap gone = {}
  BY <1>1, MadeValues DEF Fine
<1> QED
  BY <1>2, <1>3, TidyParts DEF TidyNode

\* An object stays tidy when a key is taken away.
LEMMA WithoutTidy ==
  ASSUME NEW s, NEW gone, TidyNode(s, gone), NEW key
  PROVE  TidyNode(Without(s, {key}), gone)
<1> DEFINE w == Without(s, {key})
<1>1. DOMAIN w = DOMAIN s \ {key} /\ \A k \in DOMAIN s \ {key} : w[k] = s[k]
  BY TidyNodeFacts, WithoutNode
<1> HIDE DEF w
<1> QED
  BY <1>1 DEF TidyNode, w

\* An option that takes the place of a combinator is tidy like the rest.
LEMMA SimplifyTidy ==
  ASSUME NEW s, NEW gone, TidyNode(s, gone), NEW key
  PROVE  TidyNode(simplifyNullableCombinator(s, key), gone)
<1> DEFINE r == simplifyNullableCombinator(s, key)
<1> SUFFICES TidyNode(r, gone)
  OBVIOUS
<1>1. /\ IsNode(s) /\ Expected(s, key)
      /\ Has("seq", s, key) => \A i \in DOMAIN s[key].seq : Tidy(s[key].seq[i], gone)
  BY TidyNodeFacts DEF Expected
<1>2. CASE ~Has("seq", s, key) /\ r = s
  BY <1>2
<1>3. CASE Vanishes(s, key)
  <2>1. r = Without(s, {key})
    BY <1>3 DEF Vanishes
  <2> QED
    BY <2>1, WithoutTidy
<1>4. ASSUME NEW i \in DOMAIN s[key].seq, GivesWay(s, key, s[key].seq[i]) PROVE TidyNode(r, gone)
  <2> DEFINE o == s[key].seq[i]
  <2>1. /\ DOMAIN r = DOMAIN o.map \cup (DOMAIN s \ {key})
        /\ \A k : k = key \/ k \in DOMAIN o.map => SameAt(r, o.map, k)
        /\ \A k : k # key /\ k \notin DOMAIN o.map => SameAt(r, s, k)
    BY <1>1, <1>4, GivesWayEntries
  <2>2. Tidy(o, gone) /\ Is("map", o)
    BY <1>1, <1>4 DEF GivesWay
  <2>3. TidyNode(o.map, gone)
    <3>1. Children(o) = {o.map[k] : k \in DOMAIN o.map}
      BY <2>2, TidyParts, ChildrenOf DEF Fine
    <3> QED
      BY <2>2, <3>1, TidyParts DEF TidyNode, Fine
  <2> HIDE DEF o, r
  <2>4. \A k \in DOMAIN r : Tidy(r[k], gone)
    BY <2>1, <2>3 DEF SameAt, TidyNode
  <2> QED
    BY <2>1, <2>3, <2>4 DEF TidyNode
<1>5. CASE Stays(s, key)
  <2> DEFINE new == NotNull(s[key].seq)
  <2>1. Has("seq", s, key) /\ r = [s EXCEPT ![key] = Seq_(new)]
    BY <1>5 DEF Stays
  <2>2. IsSeq(new) /\ \A m \in DOMAIN new : \E i \in DOMAIN s[key].seq : new[m] = s[key].seq[i]
    BY <1>1, <2>1, NotNullFacts DEF IsNode, Has
  <2> HIDE DEF new
  <2>3. Tidy(Seq_(new), gone)
    BY <1>1, <2>1, <2>2, TidyList
  <2> QED
    BY <2>1, <2>3 DEF TidyNode
<1> QED
  BY <1>1, <1>2, <1>3, <1>4, <1>5, FourWays

\* What normalizeSchemaMap does to its fields leaves an object tidy.
LEMMA FieldsTidy ==
  ASSUME NEW node, NEW gone, TidyNode(node, gone)
  PROVE  Tidy(Map(NormalizedFields(node)), gone)
<1> DEFINE s1 == simplifyNullableCombinator(node, "anyOf")
           s2 == simplifyNullableCombinator(s1, "oneOf")
           s3 == normalizeTypeField(s2)
           s4 == normalizeEnumField(s3)
           s5 == normalizeConstField(s4)
<1>1. TidyNode(s2, gone)
  <2>1. TidyNode(s1, gone)
    BY SimplifyTidy
  <2> HIDE DEF s1
  <2> QED
    BY <2>1, SimplifyTidy
<1> HIDE DEF s2
<1>2. TidyNode(s3, gone)
  <2> DEFINE listed == s2["type"].seq
             I      == {i \in DOMAIN listed : Is("str", listed[i]) /\ listed[i] # Str("null")}
             types  == EntriesAt(listed, I)
  <2>1. CASE ~Has("seq", s2, "type")
    BY <1>1, <2>1 DEF normalizeTypeField
  <2>2. CASE Has("seq", s2, "type") /\ types = <<>>
    <3>1. s3 = Without(s2, {"type"})
      BY <2>2 DEF normalizeTypeField
    <3> QED
      BY <1>1, <3>1, WithoutTidy
  <2>3. CASE Has("seq", s2, "type") /\ types # <<>>
    <3>1. IsSeq(listed) /\ I \in SUBSET DOMAIN listed /\ \A i \in DOMAIN listed : Tidy(listed[i], gone)
      BY <1>1, <2>3, TidyNodeFacts DEF IsNode, Has
    <3>2. Tidy(types[1], gone)
      <4> HIDE DEF I, listed
      <4>1. /\ IsSeq(types)
            /\ \A m \in DOMAIN types : Pick(I, m) \in I /\ types[m] = listed[Pick(I, m)]
        BY <3>1, EntriesFacts
      <4>2. 1 \in DOMAIN types
        <5> HIDE DEF types
        <5> QED
          BY <2>3, <4>1, SeqFacts
      <4> QED
        BY <3>1, <4>1, <4>2
    <3>3. s3 = [s2 EXCEPT !["type"] = types[1]]
      BY <2>3 DEF normalizeTypeField
    <3> HIDE DEF types
    <3> QED
      BY <1>1, <3>2, <3>3 DEF TidyNode
  <2> QED
    BY <2>1, <2>2, <2>3
<1> HIDE DEF s3
<1>3. TidyNode(s4, gone)
  <2> DEFINE listed  == s3["enum"].seq
             I       == {i \in DOMAIN listed :
                           listed[i] # Null /\ \A j \in 1..i-1 : listed[j] # listed[i]}
             entries == EntriesAt(listed, I)
  <2>1. CASE ~Has("seq", s3, "enum")
    BY <1>2, <2>1 DEF normalizeEnumField
  <2>2. CASE Has("seq", s3, "enum") /\ entries = <<>>
    <3>1. s4 = Without(s3, {"enum"})
      BY <2>2 DEF normalizeEnumField
    <3> QED
      BY <1>2, <3>1, WithoutTidy
  <2>3. CASE Has("seq", s3, "enum") /\ entries # <<>>
    <3>1. IsSeq(listed) /\ I \in SUBSET DOMAIN listed /\ \A i \in DOMAIN listed : Tidy(listed[i], gone)
      BY <1>2, <2>3, TidyNodeFacts DEF IsNode, Has
    <3>2. Tidy(Seq_(entries), gone)
      <4> HIDE DEF I, listed
      <4>1. /\ IsSeq(entries)
            /\ \A m \in DOMAIN entries : Pick(I, m) \in I /\ entries[m] = listed[Pick(I, m)]
        BY <3>1, EntriesFacts
      <4>2. \A m \in DOMAIN entries : Tidy(entries[m], gone)
        BY <3>1, <4>1
      <4> HIDE DEF entries
      <4> QED
        BY <4>1, <4>2, TidyList
    <3>3. s4 = [s3 EXCEPT !["enum"] = Seq_(entries)]
      BY <2>3 DEF normalizeEnumField
    <3> HIDE DEF entries
    <3> QED
      BY <1>2, <3>2, <3>3 DEF TidyNode
  <2> QED
    BY <2>1, <2>2, <2>3
<1> HIDE DEF s4
<1>4. TidyNode(s5, gone)
  <2>1. s5 = s4 \/ s5 = Without(s4, {"const"})
    BY DEF normalizeConstField
  <2> QED
    BY <1>3, <2>1, WithoutTidy
<1>5. NormalizedFields(node) = s5
  BY DEF NormalizedFields, s2, s3, s4
<1>6. Normal(NormalizedFields(node))
  BY TidyNodeFacts, NodeBecomesNormal
<1> HIDE DEF s5
<1> QED
  BY <1>4, <1>5, <1>6, TidyMap

-----------------------------------------------------------------------------
(* The whole schema.  The operators of ToolSchemas are recursive; all that *)
(* is used of them here is that they satisfy their definitions, which are  *)
(* repeated here.                                                          *)

NormalizedValue(value, defs, depth) ==
    CASE Is("map", value) -> Map(MapTo(value.map, defs, depth))
      [] Is("seq", value) /\ depth > 0 ->
             Seq_([i \in DOMAIN value.seq |-> ValueTo(value.seq[i], defs, depth - 1)])
      [] OTHER -> value

NormalizedMap(node, defs, depth) ==
    IF depth <= 0 THEN node
    ELSE LET known    == mergeDefinitions(defs, extractDefinitions(node))
             children == Without(node, {"definitions", "$defs", "nullable"})
         IN  IF Refers(node, known)
             THEN NormalizedReferent(node, known,
                      MapTo(Referent(node, known).map, known, depth - 1)).map
             ELSE NormalizedFields(
                      [k \in DOMAIN children |-> ValueTo(children[k], known, depth - 1)])

Recursion ==
    \A defs : \A depth \in Nat :
      /\ \A node : MapTo(node, defs, depth) = NormalizedMap(node, defs, depth)
      /\ \A value : ValueTo(value, defs, depth) = NormalizedValue(value, defs, depth)

\* The values in a schema.
IsSchema(D) == \A v \in D : IsValue(v) /\ (Is("seq", v) => IsSeq(v.seq)) /\ Children(v) \subseteq D

\* What the objects of the schema define as n.
Meanings(D, n) ==
    {extractDefinitions(v.map)[n] :
        v \in {w \in D : Is("map", w) /\ n \in DOMAIN extractDefinitions(w.map)}}

\* Keys that leave every object.
Dropped == {"definitions", "$defs", "nullable"}

\* How much of the depth a value takes: an object, every level in it and every
\* reference followed takes one.  No reference leads back to where it stands.
Ranked(D, rank) ==
    /\ rank \in [D -> Nat]
    /\ \A v \in D :
         /\ Is("seq", v) => \A i \in DOMAIN v.seq : rank[v.seq[i]] < rank[v]
         /\ Is("map", v) =>
              /\ rank[v] > 0
              /\ \A k \in DOMAIN v.map \ Dropped : rank[v.map[k]] < rank[v]
              /\ Has("ref", v.map, "$ref") =>
                   \A m \in Meanings(D, v.map["$ref"].ref) : rank[m] < rank[v]

\* Every reference stands alone in its object, and names an object that is
\* defined, one of names.
AllRefer(D, names) ==
    \A v \in D : Is("map", v) /\ "$ref" \in DOMAIN v.map =>
      /\ DOMAIN v.map = {"$ref"} /\ Has("ref", v.map, "$ref") /\ v.map["$ref"].ref \in names
      /\ \A m \in Meanings(D, v.map["$ref"].ref) : Is("map", m)

\* Definitions of the schema, those of names among them.
Known(D, names, defs) ==
    names \subseteq DOMAIN defs /\ \A n \in DOMAIN defs : defs[n] \in Meanings(D, n)

Setting(D, rank, names, gone) ==
    /\ IsSchema(D) /\ Ranked(D, rank)
    /\ gone \subseteq Dropped \cup {"$ref"} /\ ("$ref" \in gone => AllRefer(D, names))

\* What is within the depth becomes tidy.
Done(D, rank, names, gone, depth) ==
    \A v \in D : \A defs : Known(D, names, defs) /\ rank[v] <= depth =>
        /\ Tidy(ValueTo(v, defs, depth), gone)
        /\ Is("map", v) => Tidy(Map(MapTo(v.map, defs, depth)), gone)

\* What is defined in a schema is a value of it.
LEMMA MeaningsAreValues ==
  ASSUME NEW D, IsSchema(D), NEW n PROVE Meanings(D, n) \subseteq D
<1> SUFFICES ASSUME NEW v \in D, Is("map", v), n \in DOMAIN extractDefinitions(v.map)
             PROVE  extractDefinitions(v.map)[n] \in D
  BY DEF Meanings
<1> DEFINE under(key) == IF Has("map", v.map, key) THEN v.map[key].map ELSE Empty
<1>1. \A w \in D : Is("map", w) => \A k \in DOMAIN w.map : w.map[k] \in D
  BY ChildrenOf DEF IsSchema
<1>2. \A key : \A k \in DOMAIN under(key) : under(key)[k] \in D
  BY <1>1 DEF Has, Empty
<1>3. extractDefinitions(v.map) = Over(under("$defs"), under("definitions"))
  BY DEF extractDefinitions
<1> HIDE DEF under
<1> QED
  BY <1>2, <1>3 DEF Over

\* The definitions of an object are known in it, besides those around it.
LEMMA MergedAreKnown ==
  ASSUME NEW D, NEW names, NEW defs, Known(D, names, defs), NEW v \in D, Is("map", v)
  PROVE  Known(D, names, mergeDefinitions(defs, extractDefinitions(v.map)))
<1> DEFINE local == extractDefinitions(v.map)
<1>1. \A n \in DOMAIN local : local[n] \in Meanings(D, n)
  BY DEF Meanings
<1> HIDE DEF local
<1> QED
  BY <1>1 DEF Known, mergeDefinitions, Over, local

\* An object becomes tidy when what is in it and what it refers to does.
LEMMA MapDone ==
  ASSUME Recursion, NEW D, NEW rank, NEW names, NEW gone, Setting(D, rank, names, gone),
         NEW depth \in Nat, depth > 0, Done(D, rank, names, gone, depth - 1),
         NEW v \in D, Is("map", v), rank[v] <= depth, NEW defs, Known(D, names, defs)
  PROVE  Tidy(Map(MapTo(v.map, defs, depth)), gone)
<1> DEFINE node     == v.map
           known    == mergeDefinitions(defs, extractDefinitions(node))
           children == Without(node, Dropped)
           new      == [k \in DOMAIN children |-> ValueTo(children[k], known, depth - 1)]
           r        == MapTo(node, defs, depth)
<1>1. r = IF Refers(node, known)
          THEN NormalizedReferent(node, known, MapTo(Referent(node, known).map, known, depth - 1)).map
          ELSE NormalizedFields(new)
  <2>1. r = NormalizedMap(node, defs, depth)
    BY DEF Recursion
  <2> QED
    BY <2>1 DEF NormalizedMap, Dropped
<1>2. Known(D, names, known)
  BY MergedAreKnown
<1>3. rank[v] \in Nat /\ depth - 1 \in Nat
  BY DEF Setting, Ranked
<1> HIDE DEF known, r
<1>4. CASE Refers(node, known)
  <2> DEFINE m == Referent(node, known)
  <2>1. /\ DOMAIN node = {"$ref"} /\ Has("ref", node, "$ref")
        /\ m \in Meanings(D, node["$ref"].ref)
    BY <1>2, <1>4 DEF Refers, Referent, Known
  <2>2. m \in D /\ rank[m] \in Nat /\ rank[m] < rank[v]
    BY <2>1, MeaningsAreValues DEF Setting, Ranked
  <2>3. rank[m] <= depth - 1
    BY <1>3, <2>2
  <2>4. r = NormalizedReferent(node, known, MapTo(Referent(node, known).map, known, depth - 1)).map
    BY <1>1, <1>4
  <2>5. CASE Is("map", m)
    <3>1. r = MapTo(m.map, known, depth - 1)
      BY <2>4, <2>5 DEF NormalizedReferent, Map
    <3>2. Tidy(Map(MapTo(m.map, known, depth - 1)), gone)
      BY <1>2, <2>2, <2>3, <2>5 DEF Done
    <3> QED
      BY <3>1, <3>2 DEF r
  <2>6. CASE ~Is("map", m)
    <3>1. r = node
      BY <2>4, <2>6 DEF NormalizedReferent, Map
    <3>2. "$ref" \notin gone
      BY <2>1, <2>6 DEF Setting, AllRefer
    <3>3. Normal(node)
      BY <2>1 DEF Normal, Simplified, Has, Combinators
    <3>4. node["$ref"] \in D /\ Is("ref", node["$ref"])
      BY <2>1, ChildrenOf DEF Setting, IsSchema, Has
    <3>5. IsValue(node["$ref"]) /\ ~Is("map", node["$ref"]) /\ ~Is("seq", node["$ref"])
      BY <3>4 DEF Setting, IsSchema, IsValue, Is
    <3>6. Tidy(node["$ref"], gone)
      BY <3>5, ChildrenOf, TidyParts DEF Fine
    <3>7. TidyNode(node, gone)
      BY <2>1, <3>2, <3>6 DEF TidyNode
    <3> QED
      BY <3>1, <3>3, <3>7, TidyMap DEF r
  <2> QED
    BY <2>5, <2>6
<1>5. CASE ~Refers(node, known)
  <2>1. DOMAIN children = DOMAIN node \ Dropped /\ \A k \in DOMAIN children : children[k] = node[k]
    BY DEF Without, Restrict
  <2> HIDE DEF children
  <2>2. \A k \in DOMAIN children : children[k] \in D
    BY <2>1, ChildrenOf DEF Setting, IsSchema
  <2>3. \A k \in DOMAIN children : rank[children[k]] <= depth - 1
    BY <1>3, <2>1, <2>2 DEF Setting, Ranked
  <2>4. \A k \in DOMAIN children : Tidy(new[k], gone)
    BY <1>2, <2>2, <2>3 DEF Done
  <2>5. "$ref" \in gone => "$ref" \notin DOMAIN node
    BY <1>2, <1>5 DEF Setting, AllRefer, Refers, Known
  <2>6. DOMAIN new \cap gone = {}
    BY <2>1, <2>5 DEF Setting
  <2>7. TidyNode(new, gone)
    BY <2>4, <2>6 DEF TidyNode
  <2> HIDE DEF new
  <2> QED
    BY <1>1, <1>5, <2>7, FieldsTidy DEF r
<1> QED
  BY <1>4, <1>5

\* So does a value.
LEMMA ValueDone ==
  ASSUME Recursion, NEW D, NEW rank, NEW names, NEW gone, Setting(D, rank, names, gone),
         NEW depth \in Nat, depth > 0 => Done(D, rank, names, gone, depth - 1),
         NEW v \in D, rank[v] <= depth, NEW defs, Known(D, names, defs)
  PROVE  /\ Tidy(ValueTo(v, defs, depth), gone)
         /\ Is("map", v) => Tidy(Map(MapTo(v.map, defs, depth)), gone)
<1> DEFINE r == ValueTo(v, defs, depth)
<1>1. r = CASE Is("map", v) -> Map(MapTo(v.map, defs, depth))
            [] Is("seq", v) /\ depth > 0 ->
                  Seq_([i \in DOMAIN v.seq |-> ValueTo(v.seq[i], defs, depth - 1)])
            [] OTHER -> v
  <2>1. r = NormalizedValue(v, defs, depth)
    BY DEF Recursion
  <2> QED
    BY <2>1 DEF NormalizedValue
<1>2. IsValue(v) /\ rank[v] \in Nat
  BY DEF Setting, IsSchema, Ranked
<1> HIDE DEF r
<1>3. CASE Is("map", v)
  <2>1. rank[v] > 0
    BY <1>3 DEF Setting, Ranked
  <2>2. depth > 0
    BY <1>2, <2>1
  <2>3. Tidy(Map(MapTo(v.map, defs, depth)), gone)
    BY <1>3, <2>2, MapDone
  <2>4. r = Map(MapTo(v.map, defs, depth))
    BY <1>1, <1>2, <1>3 DEF IsValue, Is
  <2> QED
    BY <2>3, <2>4 DEF r
<1>4. CASE Is("seq", v) /\ depth > 0
  <2> DEFINE list == [i \in DOMAIN v.seq |-> ValueTo(v.seq[i], defs, depth - 1)]
  <2>1. ~Is("map", v)
    BY <1>2, <1>4 DEF IsValue, Is
  <2>2. r = Seq_(list)
    BY <1>1, <1>4, <2>1
  <2>3. IsSeq(v.seq) /\ \A i \in DOMAIN v.seq : v.seq[i] \in D /\ rank[v.seq[i]] \in Nat
    BY <1>2, <1>4, ChildrenOf DEF Setting, IsSchema, Ranked
  <2>4. \A i \in DOMAIN v.seq : rank[v.seq[i]] <= depth - 1
    BY <1>2, <1>4, <2>3 DEF Setting, Ranked
  <2>5. \A i \in DOMAIN list : Tidy(list[i], gone)
    BY <1>4, <2>3, <2>4 DEF Done
  <2>6. IsSeq(list)
    BY <2>3 DEF IsSeq
  <2> HIDE DEF list
  <2> QED
    BY <2>1, <2>2, <2>5, <2>6, TidyList DEF r
<1>5. CASE ~Is("map", v) /\ ~(Is("seq", v) /\ depth > 0)
  <2>1. r = v
    BY <1>1, <1>5
  <2>2. Children(v) = {}
    <3>1. CASE Is("seq", v)
      <4>1. \A i \in DOMAIN v.seq : v.seq[i] \in D
        BY <1>2, <3>1, ChildrenOf DEF Setting, IsSchema
      <4>2. DOMAIN v.seq = {}
        <5>1. ASSUME NEW i \in DOMAIN v.seq PROVE FALSE
          <6>1. rank[v.seq[i]] \in Nat /\ rank[v.seq[i]] < rank[v]
            BY <3>1, <4>1 DEF Setting, Ranked
          <6> QED
            BY <1>2, <1>5, <3>1, <6>1
        <5> QED
          BY <5>1
      <4> QED
        BY <1>2, <3>1, <4>2, ChildrenOf
    <3> QED
      BY <1>2, <1>5, <3>1, ChildrenOf
  <2>3. Fine(v, gone)
    BY <1>5 DEF Fine, Setting, IsSchema
  <2> QED
    BY <1>5, <2>1, <2>2, <2>3, TidyParts DEF r
<1> QED
  BY <1>3, <1>4, <1>5

\* There is no least depth at which something is left untidy.
LEMMA AllDone ==
  ASSUME Recursion, NEW D, NEW rank, NEW names, NEW gone, Setting(D, rank, names, gone)
  PROVE  \A depth \in Nat : Done(D, rank, names, gone, depth)
<1> DEFINE T == {d \in Nat : ~Done(D, rank, names, gone, d)}
<1>1. SUFFICES ASSUME T # {} PROVE FALSE
  OBVIOUS
<1>2. PICK d \in T : \A e \in T : d <= e
  BY <1>1, LeastIndex
<1>3. d > 0 => Done(D, rank, names, gone, d - 1)
  <2>1. SUFFICES ASSUME d > 0, ~Done(D, rank, names, gone, d - 1) PROVE FALSE
    OBVIOUS
  <2>2. d - 1 \in T /\ ~(d <= d - 1)
    BY <2>1
  <2> QED
    BY <1>2, <2>2
<1>4. Done(D, rank, names, gone, d)
  BY <1>3, ValueDone DEF Done
<1> QED
  BY <1>4

\* What NoNullLeft and NoDanglingReference of UpstreamBody say, of a schema with
\* any values, lists and objects of any size and of any depth, as far as the
\* depth given reaches: no node of what goes upstream speaks of null, says
\* "nullable" or has definitions left; and none has a reference left when every
\* reference of the schema names an object that it defines.
THEOREM SchemaBecomesTidy ==
  ASSUME Recursion, NEW D, IsSchema(D), NEW rank, Ranked(D, rank),
         NEW schema, Map(schema) \in D, NEW depth \in Nat, rank[Map(schema)] <= depth
  PROVE  LET defs   == extractDefinitions(schema)
             result == Map(MapTo(schema, defs, depth))
         IN  /\ Tidy(result, Dropped)
             /\ AllRefer(D, DOMAIN defs) => Tidy(result, Dropped \cup {"$ref"})
<1> DEFINE defs   == extractDefinitions(schema)
           result == Map(MapTo(schema, defs, depth))
<1>1. Is("map", Map(schema)) /\ Map(schema).map = schema
  BY DEF Is, Map
<1>2. Known(D, DOMAIN defs, defs)
  BY <1>1 DEF Known, Meanings
<1> HIDE DEF defs
<1>3. ASSUME NEW gone, Setting(D, rank, DOMAIN defs, gone) PROVE Tidy(result, gone)
  <2>1. Done(D, rank, DOMAIN defs, gone, depth)
    BY <1>3, AllDone
  <2> QED
    BY <1>1, <1>2, <2>1 DEF Done
<1>4. Setting(D, rank, DOMAIN defs, Dropped)
  BY DEF Setting, Dropped
<1>5. AllRefer(D, DOMAIN defs) => Setting(D, rank, DOMAIN defs, Dropped \cup {"$ref"})
  BY DEF Setting
<1> HIDE DEF result
<1> QED
  BY <1>3, <1>4, <1>5 DEF defs, result

-----------------------------------------------------------------------------
(* What is null, and where the keys come from, for one node.               *)

\* Its combinators give way to keys that are nowhere else.
Apart(node) ==
    /\ \A key \in Combinators : Heirs(node, key) \cap (DOMAIN node \ {key}) = {}
    /\ Heirs(node, "anyOf") \cap Heirs(node, "oneOf") = {}

\* The only way to be for null alone when neither constant nor enumeration is.
NullType(node) == Has("str", node, "type") /\ node["type"] = Str("null")

LEMMA NullByType ==
  ASSUME NEW node, Plain(node)
  PROVE  isNullSchema(node) <=> NullType(node)
<1>1. ~(Has("seq", node, "enum") /\ node["enum"] = Seq_(<<Null>>))
  <2>1. SUFFICES ASSUME Has("seq", node, "enum"), node["enum"] = Seq_(<<Null>>) PROVE FALSE
    OBVIOUS
  <2>2. node["enum"].seq = <<Null>>
    BY <2>1 DEF Seq_
  <2>3. \E i \in DOMAIN node["enum"].seq : node["enum"].seq[i] # Null
    BY <2>1 DEF Plain, SomeListed
  <2> QED
    BY <2>2, <2>3
<1> QED
  BY <1>1 DEF isNullSchema, NullType, Plain

\* The keys of an object are its own and the heirs of its combinator, which say
\* something else than null; the other combinator has the heirs it had, or none.
LEMMA SimplifyKeys ==
  ASSUME NEW s, IsNode(s), NEW key \in Combinators, NEW other \in Combinators \ {key},
         Expected(s, key), Expected(s, other)
  PROVE  LET r == simplifyNullableCombinator(s, key)
         IN  /\ DOMAIN r \subseteq DOMAIN s \cup Heirs(s, key)
             /\ "type" \notin DOMAIN s \cap Heirs(s, key) => (NullType(r) <=> NullType(s))
             /\ Heirs(r, other) \in {Heirs(s, other), {}}
<1> DEFINE r == simplifyNullableCombinator(s, key)
           Goal == /\ DOMAIN r \subseteq DOMAIN s \cup Heirs(s, key)
                   /\ "type" \notin DOMAIN s \cap Heirs(s, key) => (NullType(r) <=> NullType(s))
                   /\ Heirs(r, other) \in {Heirs(s, other), {}}
<1> SUFFICES Goal
  OBVIOUS
<1>1. IsNode(r)
  BY SimplifyNormal
<1>2. "type" # key
  BY DEF Combinators
<1>3. /\ SameAt(r, s, other) => Heirs(r, other) = Heirs(s, other)
      /\ SameAt(r, s, "type") => (NullType(r) <=> NullType(s))
  BY DEF SameAt, Heirs, Has, NullType
<1>4. CASE DOMAIN r \subseteq DOMAIN s /\ \A k : k # key => SameAt(r, s, k)
  BY <1>2, <1>3, <1>4
<1>5. CASE ~Has("seq", s, key) /\ r = s
  BY <1>5
<1>6. CASE Vanishes(s, key)
  <2>1. r = Without(s, {key})
    BY <1>6 DEF Vanishes
  <2>2. /\ DOMAIN Without(s, {key}) = DOMAIN s \ {key}
        /\ \A k : k # key => SameAt(Without(s, {key}), s, k)
    BY WithoutNode
  <2> QED
    BY <1>4, <2>1, <2>2
<1>7. ASSUME NEW i \in DOMAIN s[key].seq, GivesWay(s, key, s[key].seq[i]) PROVE Goal
  <2> DEFINE o == s[key].seq[i]
  <2>1. /\ DOMAIN r = DOMAIN o.map \cup (DOMAIN s \ {key})
        /\ \A k : k \in DOMAIN o.map => SameAt(r, o.map, k)
        /\ \A k : k # key /\ k \notin DOMAIN o.map => SameAt(r, s, k)
    BY <1>7, GivesWayEntries
  <2>2. DOMAIN o.map = Heirs(s, key) /\ Normal(o.map) /\ ~NullType(o.map)
    <3>1. IsSeq(s[key].seq) /\ 1 \in DOMAIN NotNull(s[key].seq) /\ NotNull(s[key].seq)[1] = o
      BY <1>7 DEF GivesWay, IsNode, Has
    <3>2. ~IsNullOption(o)
      BY <3>1, NotNullFacts
    <3> QED
      BY <1>7, <3>2 DEF GivesWay, Heirs, IsNullOption, isNullSchema, NullType
  <2> HIDE DEF o, r
  <2>3. "type" \notin DOMAIN s \cap Heirs(s, key) => (NullType(r) <=> NullType(s))
    <3>1. CASE "type" \in DOMAIN o.map
      BY <2>1, <2>2, <3>1 DEF NullType, Has, SameAt
    <3>2. CASE "type" \notin DOMAIN o.map
      BY <1>2, <1>3, <2>1, <3>2
    <3> QED
      BY <3>1, <3>2
  <2>4. Heirs(r, other) \in {Heirs(s, other), {}}
    <3>1. CASE other \in DOMAIN o.map
      <4>1. Simplified(r, other)
        BY <2>1, <2>2, <3>1, SameCombinator DEF Normal
      <4> QED
        BY <1>1, <4>1, SimplifiedStays
    <3>2. CASE other \notin DOMAIN o.map
      BY <1>3, <2>1, <3>2
    <3> QED
      BY <3>1, <3>2
  <2> QED
    BY <2>1, <2>2, <2>3, <2>4
<1>8. CASE Stays(s, key)
  <2>1. r = [s EXCEPT ![key] = Seq_(NotNull(s[key].seq))]
    BY <1>8 DEF Stays
  <2>2. DOMAIN r = DOMAIN s /\ \A k : k # key => SameAt(r, s, k)
    BY <2>1 DEF SameAt
  <2> QED
    BY <1>4, <2>2
<1> QED
  BY <1>5, <1>6, <1>7, <1>8, FourWays

\* A plain node is for null alone afterwards if it was before, and has the keys
\* it had and those of the options that took the place of its combinators.
LEMMA NullAndKeysKept ==
  ASSUME NEW node, IsNode(node), Plain(node), Apart(node),
         \A key \in Combinators : OptionsNormal(node, key)
  PROVE  LET r == NormalizedFields(node)
         IN  /\ isNullSchema(r) <=> isNullSchema(node)
             /\ DOMAIN r \subseteq DOMAIN node \cup Heirs(node, "anyOf") \cup Heirs(node, "oneOf")
<1> DEFINE s1 == simplifyNullableCombinator(node, "anyOf")
           s2 == simplifyNullableCombinator(s1, "oneOf")
           s3 == normalizeTypeField(s2)
           s4 == normalizeEnumField(s3)
           s5 == normalizeConstField(s4)
<1>0. "anyOf" \in Combinators \ {"oneOf"} /\ "oneOf" \in Combinators \ {"anyOf"}
  BY DEF Combinators
<1>1. \A key \in Combinators : Expected(node, key)
  BY DEF Expected
<1>2. /\ IsNode(s1) /\ Expected(s1, "anyOf") /\ Expected(s1, "oneOf") /\ Plain(s1)
      /\ DOMAIN s1 \subseteq DOMAIN node \cup Heirs(node, "anyOf")
      /\ Heirs(s1, "oneOf") \in {Heirs(node, "oneOf"), {}}
      /\ NullType(s1) <=> NullType(node)
  <2>1. "type" \notin DOMAIN node \cap Heirs(node, "anyOf")
    BY <1>0 DEF Apart
  <2> QED
    BY <1>0, <1>1, <2>1, SimplifyNormal, SimplifyPlain, SimplifyKeys DEF Expected
<1>3. /\ IsNode(s2) /\ Plain(s2)
      /\ DOMAIN s2 \subseteq DOMAIN node \cup Heirs(node, "anyOf") \cup Heirs(node, "oneOf")
      /\ NullType(s2) <=> NullType(node)
  <2> HIDE DEF s1
  <2>1. "type" \notin DOMAIN s1 \cap Heirs(s1, "oneOf")
    BY <1>0, <1>2 DEF Apart
  <2> QED
    BY <1>0, <1>2, <2>1, SimplifyNormal, SimplifyPlain, SimplifyKeys
<1> HIDE DEF s2
<1>4. IsNode(s3) /\ DOMAIN s3 \subseteq DOMAIN s2 /\ (NullType(s3) <=> NullType(s2))
  <2>1. CASE ~Has("seq", s2, "type")
    BY <1>3, <2>1 DEF normalizeTypeField
  <2>2. CASE Has("seq", s2, "type")
    <3>1. \E t : t # "null" /\ s3 = [s2 EXCEPT !["type"] = Str(t)]
      BY <1>3, <2>2, OneTypeKept DEF Plain
    <3>2. ~NullType(s2)
      BY <1>3, <2>2 DEF NullType, Has, IsNode, IsValue, Is
    <3>3. ~NullType(s3)
      BY <3>1 DEF NullType, Str, Has
    <3>4. DOMAIN s3 = DOMAIN s2
      BY <3>1
    <3> HIDE DEF s3
    <3> QED
      BY <1>3, <3>2, <3>3, <3>4, TypeNormal DEF s3
  <2> QED
    BY <2>1, <2>2
<1>5. SameAt(s3, s2, "enum") /\ SameAt(s3, s2, "const")
  BY <1>3, TypeNormal
<1> HIDE DEF s3
<1>6. IsNode(s4) /\ DOMAIN s4 \subseteq DOMAIN s3 /\ SameAt(s4, s3, "type") /\ SameAt(s4, s3, "const")
  <2>1. IsNode(s4) /\ \A k : k # "enum" => SameAt(s4, s3, k)
    BY <1>4, EnumNormal
  <2>2. "enum" \in DOMAIN s4 => "enum" \in DOMAIN s3
    BY DEF normalizeEnumField, Has
  <2> HIDE DEF s4
  <2> QED
    BY <2>1, <2>2 DEF SameAt
<1> HIDE DEF s4
<1>7. s5 = s4
  <2>1. ~Has("null", s4, "const")
    BY <1>3, <1>5, <1>6 DEF Plain, SameAt, Has
  <2> QED
    BY <2>1 DEF normalizeConstField
<1>8. NormalizedFields(node) = s4
  BY <1>7 DEF NormalizedFields, s2, s3, s4
<1>9. NullType(s4) <=> NullType(node)
  BY <1>3, <1>4, <1>6 DEF SameAt, NullType, Has
<1>10. isNullSchema(s4) <=> NullType(s4)
  <2>1. Normal(s4)
    BY <1>8, NodeBecomesNormal
  <2> QED
    BY <1>6, <2>1, NormalPlain, NullByType
<1> QED
  BY <1>3, <1>4, <1>6, <1>8, <1>9, <1>10, NullByType

-----------------------------------------------------------------------------
(* What a value consists of.  Parts of SchemaMeaning is recursive too; all *)
(* that is used of it is that it is the least set that has the value and,  *)
(* with a value, what is in it.                                            *)

Reachability ==
    \A v : /\ v \in PartsOf(v)
           /\ \A x \in PartsOf(v) : Children(x) \subseteq PartsOf(v)
           /\ \A S : v \in S /\ (\A x \in S : Children(x) \subseteq S) => PartsOf(v) \subseteq S

\* The depth reaches all that the schema consists of and refers to.
WithinDepth(schema) ==
    \E rank : Ranked(PartsOf(Map(schema)), rank) /\ rank[Map(schema)] <= MaxDepth

LEMMA JsonIsValue ==
  ASSUME NEW v, IsJson(v) PROVE IsValue(v) /\ (Is("seq", v) => IsSeq(v.seq))
<1>1. \A s, S : s \in Seq(S) => IsSeq(s)
  <2> SUFFICES ASSUME NEW s, NEW S, s \in Seq(S) PROVE IsSeq(s)
    OBVIOUS
  <2>1. /\ Len(s) \in Nat /\ DOMAIN s = 1..Len(s)
        /\ s = [i \in 1..Len(s) |-> s[i]]
    OBVIOUS
  <2> QED
    BY <2>1 DEF IsSeq
<1> QED
  BY <1>1 DEF IsJson, IsValue

LEMMA SchemaIsJson ==
  ASSUME Reachability, NEW schema \in Schemas
  PROVE  IsSchema(PartsOf(Map(schema))) /\ Map(schema) \in PartsOf(Map(schema))
BY ValuesAssumption, JsonIsValue DEF Reachability, IsSchema

\* What a tidy value consists of is fine.
LEMMA TidyThroughout ==
  ASSUME Reachability, NEW v, NEW gone, Tidy(v, gone)
  PROVE  \A x \in PartsOf(v) : Fine(x, gone)
<1>1. PICK S : Within(S, v, gone)
  BY DEF Tidy
<1>2. PartsOf(v) \subseteq S
  BY <1>1 DEF Reachability, Within
<1> QED
  BY <1>1, <1>2 DEF Within

\* The root is an object of the schema, and defines what the others refer to.
LEMMA ReferencesArePlain ==
  ASSUME Reachability, NEW schema \in Schemas, ProperReferences(schema)
  PROVE  LET D == PartsOf(Map(schema))
             defs == extractDefinitions(schema)
         IN  /\ \A n \in DOMAIN defs : Meanings(D, n) = {defs[n]}
             /\ AllRefer(D, DOMAIN defs)
             /\ \A v \in D : Is("map", v) /\ "$ref" \in DOMAIN v.map =>
                  Refers(v.map, defs) /\ Is("map", Referent(v.map, defs))
<1> DEFINE D == PartsOf(Map(schema))
           defs == extractDefinitions(schema)
<1>1. Is("map", Map(schema)) /\ Map(schema).map = schema /\ Map(schema) \in D
  BY SchemaIsJson DEF Is, Map
<1>2. \A v \in D : Is("map", v) => v.map \in Nodes(Map(schema))
  BY DEF Nodes
<1>3. \A n \in DOMAIN defs : Meanings(D, n) = {defs[n]}
  <2> SUFFICES ASSUME NEW n \in DOMAIN defs PROVE Meanings(D, n) = {defs[n]}
    OBVIOUS
  <2>1. defs[n] \in Meanings(D, n)
    BY <1>1 DEF Meanings
  <2>2. ASSUME NEW v \in D, Is("map", v), n \in DOMAIN extractDefinitions(v.map)
        PROVE  extractDefinitions(v.map)[n] = defs[n]
    BY <1>2, <2>2 DEF ProperReferences
  <2> HIDE DEF D, defs
  <2> QED
    BY <2>1, <2>2 DEF Meanings
<1>4. \A v \in D : Is("map", v) /\ "$ref" \in DOMAIN v.map =>
        Refers(v.map, defs) /\ Is("map", Referent(v.map, defs))
  BY <1>2 DEF ProperReferences
<1> HIDE DEF D, defs
<1>5. AllRefer(D, DOMAIN defs)
  BY <1>3, <1>4 DEF AllRefer, Refers, Referent
<1> QED
  BY <1>3, <1>4, <1>5 DEF D, defs

\* What goes upstream of a schema is tidy, as far as the depth reaches.
LEMMA SentIsTidy ==
  ASSUME Recursion, Reachability, NEW schema \in Schemas, WithinDepth(schema)
  PROVE  LET sent == Map(normalizeToolSchema(schema))
         IN  /\ Tidy(sent, Dropped)
             /\ ProperReferences(schema) => Tidy(sent, Dropped \cup {"$ref"})
<1> DEFINE D == PartsOf(Map(schema))
<1>1. PICK rank : Ranked(D, rank) /\ rank[Map(schema)] <= MaxDepth
  BY DEF WithinDepth
<1>2. IsSchema(D) /\ Map(schema) \in D
  BY SchemaIsJson
<1>3. ProperReferences(schema) => AllRefer(D, DOMAIN extractDefinitions(schema))
  BY ReferencesArePlain
<1> HIDE DEF D
<1> QED
  BY <1>1, <1>2, <1>3, SchemaBecomesTidy, ConstantsAssumption DEF normalizeToolSchema

-----------------------------------------------------------------------------
(* What the whole schema allows.  Allows and KeysFor of SchemaMeaning are  *)
(* recursive; what is used of them is that they satisfy their definitions, *)
(* for values without references and for schemas that the depth reaches.   *)

MeansAsDefined(s, defs, v) ==
    AllowedBy(s, defs, v) <=>
        IF Refers(s.map, defs) THEN AllowedBy(Referent(s.map, defs), defs, v)
        ELSE NodeAllows(s.map, v, LAMBDA t, w : AllowedBy(t, defs, w))

Meaning ==
    \A v :
      /\ \A D, s : IsSchema(D) /\ s \in D /\ Is("map", s) => MeansAsDefined(s, Empty, v)
      /\ \A schema \in Schemas : WithinDepth(schema) =>
           \A s \in PartsOf(Map(schema)) :
             Is("map", s) => MeansAsDefined(s, extractDefinitions(schema), v)

\* The keys of a node, and those that take the place of its combinators.
AllKeys(node, defs) == DOMAIN node \cup HeirsOf(node, "anyOf", defs) \cup HeirsOf(node, "oneOf", defs)

InheritsAsDefined(node, key, defs) ==
    HeirsOf(node, key, defs) =
        IF Cardinality(SayMore(node, key, defs)) # 1 THEN {}
        ELSE UNION {AllKeys(o, defs) : o \in SayMore(node, key, defs)}

Inheritance ==
    \A schema \in Schemas : WithinDepth(schema) =>
        \A node \in Nodes(Map(schema)), key \in Combinators :
            InheritsAsDefined(node, key, extractDefinitions(schema))

\* s is an object that a JSON schema may be, and what is to be a schema in it is
\* one of S.
SchemaObject(s, S) ==
    /\ Is("map", s)
    /\ "type" \in DOMAIN s.map =>
         \/ Is("str", s.map["type"])
         \/ Is("seq", s.map["type"]) /\ \A i \in DOMAIN s.map["type"].seq : Is("str", s.map["type"].seq[i])
    /\ "enum" \in DOMAIN s.map => Is("seq", s.map["enum"])
    /\ \A key \in Combinators \cap DOMAIN s.map :
         Is("seq", s.map[key]) /\ \A i \in DOMAIN s.map[key].seq : s.map[key].seq[i] \in S
    /\ "properties" \in DOMAIN s.map =>
         /\ Is("map", s.map["properties"])
         /\ \A k \in DOMAIN s.map["properties"].map : s.map["properties"].map[k] \in S

\* schema and all that is to be a schema in it are objects a JSON schema may be.
WellFormed(schema) ==
    \E S \in SUBSET PartsOf(Map(schema)) :
      /\ Map(schema) \in S
      /\ \A n \in DOMAIN extractDefinitions(schema) : extractDefinitions(schema)[n] \in S
      /\ \A s \in S : SchemaObject(s, S)

\* The values D of a schema, among them the schemas S in it, defs it defines,
\* and arguments A.
Scene(D, rank, S, defs, A) ==
    /\ Setting(D, rank, DOMAIN defs, Dropped)
    /\ S \subseteq D /\ \A s \in S : SchemaObject(s, S)
    /\ \A n \in DOMAIN defs : defs[n] \in S /\ Meanings(D, n) = {defs[n]}
    /\ \A s \in S : "$ref" \in DOMAIN s.map =>
         /\ Refers(s.map, defs)
         /\ LET m == Referent(s.map, defs)
            IN  "$ref" \in DOMAIN m.map => "$ref" \notin DOMAIN Referent(m.map, defs).map
    /\ \A s \in S : OrdinaryNode(s.map, defs)
    /\ \A s \in S, key \in Combinators : InheritsAsDefined(s.map, key, defs)
    /\ \A s \in S, x \in A : MeansAsDefined(s, defs, x)
    /\ \A x \in A : IsArgument(x) /\ Children(x) \subseteq A
    /\ \A E, s, x : IsSchema(E) /\ s \in E /\ Is("map", s) => MeansAsDefined(s, Empty, x)

\* r is what s means: it allows what s allows, is for null alone if s is, and
\* has no keys but those of s and those that take the place of combinators.
KeptAs(s, r, defs, A) ==
    LET o == Resolved(s.map, defs)
    IN  /\ Tidy(Map(r), Dropped)
        /\ \A x \in A : Allow(Map(r), x) <=> AllowedBy(s, defs, x)
        /\ isNullSchema(r) <=> isNullSchema(o)
        /\ DOMAIN r \subseteq AllKeys(o, defs)

\* The schemas within the depth keep their meaning.
KeptAt(D, rank, S, defs, A, depth) ==
    \A s \in S : \A known : Known(D, DOMAIN defs, known) /\ rank[s] <= depth =>
        KeptAs(s, MapTo(s.map, known, depth), defs, A)

\* What is no object and no list stays as it is, and so does a list of such.
LEMMA AtomsStay ==
  ASSUME Recursion, NEW v, IsValue(v), NEW defs, NEW depth \in Nat,
         IsAtom(v) \/ (IsSeq(v.seq) /\ Is("seq", v) /\ \A i \in DOMAIN v.seq : IsAtom(v.seq[i]))
  PROVE  ValueTo(v, defs, depth) = v
<1>1. \A w, e : e \in Nat /\ IsAtom(w) => ValueTo(w, defs, e) = w
  <2> SUFFICES ASSUME NEW w, NEW e \in Nat, IsAtom(w) PROVE ValueTo(w, defs, e) = w
    OBVIOUS
  <2>1. ValueTo(w, defs, e) = NormalizedValue(w, defs, e)
    BY DEF Recursion
  <2> QED
    BY <2>1 DEF NormalizedValue, IsAtom
<1>2. ASSUME ~IsAtom(v) PROVE ValueTo(v, defs, depth) = v
  <2>1. Is("seq", v) /\ IsSeq(v.seq) /\ ~Is("map", v) /\ v = Seq_(v.seq)
    <3>1. Is("seq", v) /\ IsSeq(v.seq) /\ ~Is("map", v) /\ DOMAIN v = {"seq"}
      BY <1>2 DEF IsValue, Is
    <3>2. v = [kind \in {"seq"} |-> v[kind]]
      BY <3>1 DEF IsValue
    <3> QED
      BY <3>1, <3>2 DEF Seq_
  <2>2. ValueTo(v, defs, depth) = NormalizedValue(v, defs, depth)
    BY DEF Recursion
  <2>3. CASE depth = 0
    BY <2>1, <2>2, <2>3 DEF NormalizedValue
  <2>4. CASE depth > 0
    <3>1. ValueTo(v, defs, depth) = Seq_([i \in DOMAIN v.seq |-> ValueTo(v.seq[i], defs, depth - 1)])
      BY <2>1, <2>2, <2>4 DEF NormalizedValue
    <3>2. \A i \in DOMAIN v.seq : ValueTo(v.seq[i], defs, depth - 1) = v.seq[i]
      BY <1>1, <1>2, <2>4
    <3>3. [i \in DOMAIN v.seq |-> ValueTo(v.seq[i], defs, depth - 1)] = v.seq
      BY <2>1, <3>2 DEF IsSeq
    <3> QED
      BY <2>1, <3>1, <3>3
  <2> QED
    BY <2>3, <2>4
<1> QED
  BY <1>1, <1>2

\* An object all of whose entries are objects has no field to normalise.
LEMMA ObjectsStay ==
  ASSUME NEW node, \A k \in DOMAIN node : IsValue(node[k]) /\ Is("map", node[k])
  PROVE  NormalizedFields(node) = node
<1>1. \A kind, k : kind # "map" => ~Has(kind, node, k)
  BY DEF Has, Is, IsValue
<1> QED
  <2>1. \A key : simplifyNullableCombinator(node, key) = node
    BY <1>1, Zenon DEF simplifyNullableCombinator
  <2>2. normalizeTypeField(node) = node /\ normalizeEnumField(node) = node
    BY <1>1, Zenon DEF normalizeTypeField, normalizeEnumField
  <2>3. normalizeConstField(node) = node
    BY <1>1 DEF normalizeConstField
  <2> QED
    BY <2>1, <2>2, <2>3 DEF NormalizedFields

\* The keys that take the place of a combinator are those of the only option
\* that is not null.
LEMMA HeirsOfOne ==
  ASSUME NEW node, IsNode(node), NEW key, NEW k \in Heirs(node, key)
  PROVE  /\ Has("seq", node, key)
         /\ \E i \in DOMAIN node[key].seq :
              /\ Is("map", node[key].seq[i]) /\ ~IsNullOption(node[key].seq[i])
              /\ k \in DOMAIN node[key].seq[i].map
              /\ \A j \in DOMAIN node[key].seq : j # i => IsNullOption(node[key].seq[j])
<1> DEFINE options == node[key].seq
           I == {i \in DOMAIN options : ~IsNullOption(options[i])}
           r == NotNull(options)
<1>1. /\ Has("seq", node, key) /\ DOMAIN r = {1} /\ Is("map", r[1]) /\ k \in DOMAIN r[1].map
      /\ IsSeq(options)
  BY DEF Heirs, IsNode, Has
<1>2. r = EntriesAt(options, I)
  BY DEF NotNull, IsNullOption
<1>3. /\ \A m \in DOMAIN r : Pick(I, m) \in I /\ r[m] = options[Pick(I, m)]
      /\ \A i \in I : \E m \in DOMAIN r : Pick(I, m) = i
  <2>1. I \in SUBSET DOMAIN options
    OBVIOUS
  <2> HIDE DEF I, r, options
  <2> QED
    BY <1>1, <1>2, <2>1, EntriesFacts
<1>4. Pick(I, 1) \in I /\ r[1] = options[Pick(I, 1)] /\ \A i \in I : i = Pick(I, 1)
  BY <1>1, <1>3
<1> HIDE DEF r
<1> QED
  BY <1>1, <1>4

-----------------------------------------------------------------------------
(* What becomes of the fields of a schema.                                 *)

\* A schema in it is what it was.
KeptIn(v, s, defs, A) == Is("map", v) /\ v = Map(v.map) /\ KeptAs(s, v.map, defs, A)

\* n has the types and values of s, and schemas that are what they were.
FieldsKept(s, n, defs, A) ==
    /\ DOMAIN n \subseteq DOMAIN s.map
    /\ \A k \in {"type", "const", "enum"} : SameAt(n, s.map, k)
    /\ \A key \in Combinators \cap DOMAIN s.map :
         /\ Has("seq", n, key) /\ DOMAIN n[key].seq = DOMAIN s.map[key].seq
         /\ \A i \in DOMAIN n[key].seq : KeptIn(n[key].seq[i], s.map[key].seq[i], defs, A)
    /\ "properties" \in DOMAIN s.map =>
         /\ Has("map", n, "properties")
         /\ DOMAIN n["properties"].map = DOMAIN s.map["properties"].map
         /\ \A k \in DOMAIN n["properties"].map :
              KeptIn(n["properties"].map[k], s.map["properties"].map[k], defs, A)

LEMMA SchemaKept ==
  ASSUME Recursion, NEW D, NEW rank, NEW S, NEW defs, NEW A, Scene(D, rank, S, defs, A),
         NEW depth \in Nat, KeptAt(D, rank, S, defs, A, depth),
         NEW s \in S, rank[s] <= depth, NEW known, Known(D, DOMAIN defs, known)
  PROVE  KeptIn(ValueTo(s, known, depth), s, defs, A)
<1>1. Is("map", s)
  BY DEF Scene, SchemaObject
<1>2. ValueTo(s, known, depth) = NormalizedValue(s, known, depth)
  BY DEF Recursion
<1>3. IsValue(s)
  BY DEF Scene, Setting, IsSchema
<1>4. ValueTo(s, known, depth) = Map(MapTo(s.map, known, depth))
  BY <1>1, <1>2, <1>3 DEF NormalizedValue, IsValue, Is
<1>5. KeptAs(s, MapTo(s.map, known, depth), defs, A)
  BY DEF KeptAt
<1>6. \A r : Map(r).map = r /\ Is("map", Map(r))
  BY DEF Map, Is
<1> QED
  BY <1>4, <1>5, <1>6 DEF KeptIn

\* What is known of the values in a schema.
LEMMA SceneFacts ==
  ASSUME NEW D, NEW rank, NEW S, NEW defs, NEW A, Scene(D, rank, S, defs, A)
  PROVE  /\ \A v \in D : IsValue(v) /\ (Is("seq", v) => IsSeq(v.seq)) /\ rank[v] \in Nat
         /\ \A v \in D : Is("map", v) =>
              /\ rank[v] > 0
              /\ \A k \in DOMAIN v.map : v.map[k] \in D
              /\ \A k \in DOMAIN v.map \ Dropped : rank[v.map[k]] < rank[v]
         /\ \A v \in D : Is("seq", v) =>
              \A i \in DOMAIN v.seq : v.seq[i] \in D /\ rank[v.seq[i]] < rank[v]
         /\ \A s \in S : s \in D /\ Is("map", s) /\ rank[s] > 0
<1>1. IsSchema(D) /\ Ranked(D, rank)
  BY DEF Scene, Setting
<1>2. \A v \in D : IsValue(v) /\ (Is("seq", v) => IsSeq(v.seq)) /\ rank[v] \in Nat
  BY <1>1 DEF IsSchema, Ranked
<1>3. \A v \in D : /\ Is("map", v) => \A k \in DOMAIN v.map : v.map[k] \in D
                   /\ Is("seq", v) => \A i \in DOMAIN v.seq : v.seq[i] \in D
  BY <1>1, ChildrenOf DEF IsSchema
<1>4. \A s \in S : s \in D /\ Is("map", s)
  BY DEF Scene, SchemaObject
<1> QED
  BY <1>1, <1>2, <1>3, <1>4 DEF Ranked

LEMMA AtomKinds ==
  ASSUME NEW v, IsValue(v), Is("str", v) PROVE IsAtom(v)
BY DEF IsValue, Is, IsAtom

\* The properties are schemas, which lie one level deeper.
LEMMA PropertiesKept ==
  ASSUME Recursion, NEW D, NEW rank, NEW S, NEW defs, NEW A, Scene(D, rank, S, defs, A),
         NEW depth \in Nat, depth > 0, KeptAt(D, rank, S, defs, A, depth - 1),
         NEW v \in D, Is("map", v), rank[v] <= depth, DOMAIN v.map \cap Dropped = {},
         \A k \in DOMAIN v.map : v.map[k] \in S,
         NEW known, Known(D, DOMAIN defs, known)
  PROVE  LET r == ValueTo(v, known, depth)
         IN  /\ Is("map", r) /\ DOMAIN r.map = DOMAIN v.map
             /\ \A k \in DOMAIN v.map : KeptIn(r.map[k], v.map[k], defs, A)
<1> DEFINE inner == mergeDefinitions(known, extractDefinitions(v.map))
           children == Without(v.map, Dropped)
           new == [k \in DOMAIN children |-> ValueTo(children[k], inner, depth - 1)]
<1>1. Known(D, DOMAIN defs, inner)
  BY MergedAreKnown
<1>2. IsValue(v) /\ depth - 1 \in Nat
  BY SceneFacts
<1>3. ValueTo(v, known, depth) = Map(MapTo(v.map, known, depth))
  <2>1. ValueTo(v, known, depth) = NormalizedValue(v, known, depth)
    BY DEF Recursion
  <2> QED
    BY <1>2, <2>1 DEF NormalizedValue, IsValue, Is
<1>4. ~Has("ref", v.map, "$ref")
  BY SceneFacts DEF Has, Is, IsValue
<1>5. MapTo(v.map, known, depth) = NormalizedFields(new)
  <2>1. MapTo(v.map, known, depth) = NormalizedMap(v.map, known, depth)
    BY DEF Recursion
  <2>2. ~Refers(v.map, inner)
    BY <1>4 DEF Refers
  <2> QED
    BY <2>1, <2>2 DEF NormalizedMap, Dropped
<1>6. DOMAIN children = DOMAIN v.map /\ \A k \in DOMAIN children : children[k] = v.map[k]
  BY DEF Without, Restrict
<1> HIDE DEF inner, children
<1>7. \A k \in DOMAIN v.map : rank[v.map[k]] <= depth - 1
  <2> SUFFICES ASSUME NEW k \in DOMAIN v.map PROVE rank[v.map[k]] <= depth - 1
    OBVIOUS
  <2>1. k \notin Dropped
    OBVIOUS
  <2>2. rank[v.map[k]] < rank[v] /\ rank[v] \in Nat /\ rank[v.map[k]] \in Nat
    BY <2>1, SceneFacts
  <2> QED
    BY <2>2
<1>8. \A k \in DOMAIN v.map : new[k] = ValueTo(v.map[k], inner, depth - 1)
  BY <1>6
<1>9. \A k \in DOMAIN v.map : KeptIn(new[k], v.map[k], defs, A)
  BY <1>1, <1>2, <1>7, <1>8, SchemaKept
<1>10. DOMAIN new = DOMAIN v.map
  BY <1>6
<1> HIDE DEF new
<1>11. NormalizedFields(new) = new
  <2>1. \A k \in DOMAIN new : IsValue(new[k]) /\ Is("map", new[k])
    BY <1>9, <1>10, MadeValues DEF KeptIn
  <2> QED
    BY <2>1, ObjectsStay
<1>12. ValueTo(v, known, depth) = Map(new)
  BY <1>3, <1>5, <1>11
<1>13. Is("map", Map(new)) /\ Map(new).map = new
  BY DEF Map, Is
<1> QED
  BY <1>9, <1>10, <1>12, <1>13

\* The options of a combinator are schemas, which lie one level deeper.
LEMMA OptionsKept ==
  ASSUME Recursion, NEW D, NEW rank, NEW S, NEW defs, NEW A, Scene(D, rank, S, defs, A),
         NEW depth \in Nat, depth > 0 => KeptAt(D, rank, S, defs, A, depth - 1),
         NEW v \in D, Is("seq", v), rank[v] <= depth, \A i \in DOMAIN v.seq : v.seq[i] \in S,
         NEW known, Known(D, DOMAIN defs, known)
  PROVE  LET r == ValueTo(v, known, depth)
         IN  /\ Is("seq", r) /\ DOMAIN r.seq = DOMAIN v.seq
             /\ \A i \in DOMAIN v.seq : KeptIn(r.seq[i], v.seq[i], defs, A)
<1>1. ValueTo(v, known, depth) = NormalizedValue(v, known, depth)
  BY DEF Recursion
<1>2. ~Is("map", v) /\ rank[v] \in Nat
  BY SceneFacts DEF IsValue, Is
<1>3. \A i \in DOMAIN v.seq : rank[v.seq[i]] \in Nat /\ rank[v.seq[i]] < rank[v]
  BY SceneFacts
<1>4. CASE depth = 0
  <2>1. DOMAIN v.seq = {}
    BY <1>2, <1>3, <1>4
  <2>2. ValueTo(v, known, depth) = v
    BY <1>1, <1>2, <1>4 DEF NormalizedValue
  <2> QED
    BY <2>1, <2>2
<1>5. CASE depth > 0
  <2> DEFINE list == [i \in DOMAIN v.seq |-> ValueTo(v.seq[i], known, depth - 1)]
  <2>1. ValueTo(v, known, depth) = Seq_(list)
    BY <1>1, <1>2, <1>5 DEF NormalizedValue
  <2>2. \A i \in DOMAIN v.seq : rank[v.seq[i]] <= depth - 1
    BY <1>2, <1>3
  <2>3. \A i \in DOMAIN v.seq : KeptIn(list[i], v.seq[i], defs, A)
    BY <1>5, <2>2, SchemaKept
  <2>4. Is("seq", Seq_(list)) /\ Seq_(list).seq = list /\ DOMAIN list = DOMAIN v.seq
    BY DEF Seq_, Is
  <2> HIDE DEF list
  <2> QED
    BY <2>1, <2>3, <2>4
<1> QED
  BY <1>4, <1>5

LEMMA FieldsAreKept ==
  ASSUME Recursion, NEW D, NEW rank, NEW S, NEW defs, NEW A, Scene(D, rank, S, defs, A),
         NEW depth \in Nat, \A e \in Nat : e < depth => KeptAt(D, rank, S, defs, A, e),
         NEW s \in S, rank[s] <= depth, NEW known, Known(D, DOMAIN defs, known),
         NEW n, DOMAIN n = DOMAIN s.map \ Dropped,
         \A k \in DOMAIN n : n[k] = ValueTo(s.map[k], known, depth - 1)
  PROVE  FieldsKept(s, n, defs, A)
<1>1. depth > 0 /\ depth - 1 \in Nat /\ rank[s] \in Nat
  BY SceneFacts
<1>2. \A k \in DOMAIN n : /\ s.map[k] \in D /\ IsValue(s.map[k])
                          /\ (Is("seq", s.map[k]) => IsSeq(s.map[k].seq))
                          /\ rank[s.map[k]] <= depth - 1
  <2> SUFFICES ASSUME NEW k \in DOMAIN n PROVE s.map[k] \in D /\ rank[s.map[k]] <= depth - 1
    BY SceneFacts
  <2>1. s \in D /\ Is("map", s) /\ k \in DOMAIN s.map \ Dropped
    BY SceneFacts
  <2>2. s.map[k] \in D /\ rank[s.map[k]] < rank[s] /\ rank[s.map[k]] \in Nat
    BY <2>1, SceneFacts
  <2> QED
    BY <1>1, <2>2
<1>3. \A k \in {"type", "const", "enum", "properties"} \cup Combinators : k \notin Dropped
  BY DEF Dropped, Combinators
<1>4. SchemaObject(s, S) /\ OrdinaryNode(s.map, defs)
  BY DEF Scene
<1>5. ASSUME NEW k \in {"type", "const", "enum"}, k \in DOMAIN n PROVE n[k] = s.map[k]
  <2> DEFINE v == s.map[k]
  <2>1. k \in DOMAIN s.map
    BY <1>5
  <2>2. IsAtom(v) \/ (Is("seq", v) /\ \A i \in DOMAIN v.seq : IsAtom(v.seq[i]))
    <3>1. CASE k = "type" /\ Is("str", v)
      BY <1>2, <1>5, <3>1, AtomKinds
    <3>2. CASE k = "type" /\ ~Is("str", v)
      <4>1. Is("seq", v) /\ \A i \in DOMAIN v.seq : Is("str", v.seq[i])
        BY <1>4, <2>1, <3>2 DEF SchemaObject
      <4>2. \A i \in DOMAIN v.seq : IsValue(v.seq[i])
        BY <1>2, <1>5, <4>1, SceneFacts
      <4> HIDE DEF v
      <4> QED
        BY <4>1, <4>2, AtomKinds
    <3>3. CASE k = "const"
      BY <1>4, <2>1, <3>3 DEF OrdinaryNode
    <3>4. CASE k = "enum"
      <4>1. Is("seq", v)
        BY <1>4, <2>1, <3>4 DEF SchemaObject
      <4>2. \A x \in ToSet(v.seq) : IsAtom(x)
        BY <1>4, <2>1, <3>4, <4>1 DEF OrdinaryNode, Has
      <4> QED
        BY <4>1, <4>2 DEF ToSet
    <3> QED
      BY <3>1, <3>2, <3>3, <3>4
  <2>3. IsValue(v) /\ (Is("seq", v) => IsSeq(v.seq)) /\ n[k] = ValueTo(v, known, depth - 1)
    BY <1>2, <1>5
  <2> HIDE DEF v
  <2>4. ValueTo(v, known, depth - 1) = v
    BY <1>1, <2>2, <2>3, AtomsStay
  <2> QED
    BY <2>3, <2>4 DEF v
<1>6. \A k \in {"type", "const", "enum"} : SameAt(n, s.map, k)
  BY <1>3, <1>5 DEF SameAt
<1>7. depth - 1 > 0 => KeptAt(D, rank, S, defs, A, depth - 2)
  BY <1>1
<1>8. ASSUME NEW key \in Combinators, key \in DOMAIN s.map
      PROVE  /\ Has("seq", n, key) /\ DOMAIN n[key].seq = DOMAIN s.map[key].seq
             /\ \A i \in DOMAIN n[key].seq : KeptIn(n[key].seq[i], s.map[key].seq[i], defs, A)
  <2> DEFINE v == s.map[key]
             e == depth - 1
  <2>1. key \in DOMAIN n
    BY <1>3, <1>8
  <2>2. Is("seq", v) /\ \A i \in DOMAIN v.seq : v.seq[i] \in S
    BY <1>4, <1>8 DEF SchemaObject
  <2>3. v \in D /\ rank[v] <= e /\ e \in Nat /\ n[key] = ValueTo(v, known, e)
    BY <1>1, <1>2, <2>1
  <2>4. e > 0 => KeptAt(D, rank, S, defs, A, e - 1)
    BY <1>7
  <2> HIDE DEF v, e
  <2>5. /\ Is("seq", n[key]) /\ DOMAIN n[key].seq = DOMAIN v.seq
        /\ \A i \in DOMAIN v.seq : KeptIn(n[key].seq[i], v.seq[i], defs, A)
    BY <2>2, <2>3, <2>4, OptionsKept
  <2> QED
    BY <2>1, <2>5 DEF v, Has
<1>9. ASSUME "properties" \in DOMAIN s.map
      PROVE  /\ Has("map", n, "properties")
             /\ DOMAIN n["properties"].map = DOMAIN s.map["properties"].map
             /\ \A k \in DOMAIN n["properties"].map :
                  KeptIn(n["properties"].map[k], s.map["properties"].map[k], defs, A)
  <2> DEFINE v == s.map["properties"]
             e == depth - 1
  <2>1. "properties" \in DOMAIN n
    BY <1>3, <1>9
  <2>2. Is("map", v) /\ \A k \in DOMAIN v.map : v.map[k] \in S
    BY <1>4, <1>9 DEF SchemaObject
  <2>3. v \in D /\ rank[v] <= e /\ e \in Nat /\ n["properties"] = ValueTo(v, known, e)
    BY <1>1, <1>2, <2>1
  <2>4. DOMAIN v.map \cap Dropped = {}
    BY <1>4, <1>9, <2>2 DEF OrdinaryNode, Has, Dropped
  <2>5. e > 0
    BY <2>2, <2>3, SceneFacts
  <2>6. KeptAt(D, rank, S, defs, A, e - 1)
    BY <1>7, <2>5
  <2> HIDE DEF v, e
  <2>7. /\ Is("map", n["properties"]) /\ DOMAIN n["properties"].map = DOMAIN v.map
        /\ \A k \in DOMAIN v.map : KeptIn(n["properties"].map[k], v.map[k], defs, A)
    BY <2>2, <2>3, <2>4, <2>5, <2>6, PropertiesKept
  <2> QED
    BY <2>1, <2>7 DEF v, Has
<1> QED
  BY <1>6, <1>8, <1>9 DEF FieldsKept

-----------------------------------------------------------------------------
(* A schema is what it was.                                                *)

\* What a tidy value allows follows from what it says.
LEMMA TidyMeans ==
  ASSUME NEW D, NEW rank, NEW S, NEW defs, NEW A, Scene(D, rank, S, defs, A),
         NEW v, NEW gone, Tidy(v, gone), Is("map", v), NEW x
  PROVE  Allow(v, x) <=> NodeAllows(v.map, x, Allow)
<1>1. PICK E : Within(E, v, gone)
  BY DEF Tidy
<1>2. IsSchema(E) /\ v \in E
  BY <1>1 DEF Within, Fine, IsSchema
<1>3. MeansAsDefined(v, Empty, x)
  BY <1>2 DEF Scene
<1>4. ~Refers(v.map, Empty)
  BY DEF Refers, Empty
<1> QED
  BY <1>3, <1>4 DEF MeansAsDefined, Allow, NodeAllows, SomeAllows, OneAllows

\* A set of one element, counted.
LEMMA OnlyOne ==
  ASSUME NEW X, IsFiniteSet(X), Cardinality(X) = 1 PROVE \E x : X = {x}
BY FS_Singleton

\* What is exempt as not ordinary is what the lemmas about one node exempt.
LEMMA OrdinaryIsPlain ==
  ASSUME NEW D, NEW rank, NEW S, NEW defs, NEW A, Scene(D, rank, S, defs, A), NEW s \in S
  PROVE  Plain(s.map)
<1> DEFINE node == s.map
<1>1. /\ SchemaObject(s, S) /\ OrdinaryNode(node, defs)
      /\ \A k \in DOMAIN node : node[k] \in D /\ IsValue(node[k]) /\ (Is("seq", node[k]) => IsSeq(node[k].seq))
  <2>1. s \in D /\ Is("map", s)
    BY SceneFacts
  <2>2. \A k \in DOMAIN node : node[k] \in D
    BY <2>1, SceneFacts
  <2> HIDE DEF node
  <2>3. \A k \in DOMAIN node : IsValue(node[k]) /\ (Is("seq", node[k]) => IsSeq(node[k].seq))
    BY <2>2, SceneFacts
  <2> QED
    BY <2>2, <2>3 DEF Scene, node
<1>2. ~Has("null", node, "const")
  <2>1. ASSUME Has("null", node, "const") PROVE FALSE
    <3>1. node["const"] # Null
      BY <1>1, <2>1 DEF OrdinaryNode, Has
    <3>2. IsValue(node["const"]) /\ Is("null", node["const"])
      BY <1>1, <2>1 DEF Has
    <3> QED
      BY <3>1, <3>2 DEF IsValue
  <2> QED
    BY <2>1
<1>3. SomeListed(node)
  BY <1>1 DEF OrdinaryNode, SomeListed, ToSet
<1>4. OneType(node)
  <2> SUFFICES ASSUME Has("seq", node, "type") PROVE OneType(node)
    BY DEF OneType
  <2> DEFINE listed == node["type"].seq
             X == Types(node["type"]) \ {"null"}
  <2>1. IsSeq(listed) /\ \A i \in DOMAIN listed : Is("str", listed[i]) /\ IsValue(listed[i])
    <3>1. "type" \in DOMAIN node /\ Is("seq", node["type"]) /\ IsValue(node["type"])
      BY <1>1 DEF Has
    <3>2. ~Is("str", node["type"])
      BY <3>1 DEF IsValue, Is
    <3>3. \A i \in DOMAIN listed : Is("str", listed[i]) /\ listed[i] \in D
      BY <1>1, <3>1, <3>2, SceneFacts DEF SchemaObject
    <3> QED
      BY <1>1, <3>1, <3>3, SceneFacts
  <2>2. Types(node["type"]) = {listed[i].str : i \in DOMAIN listed}
    BY DEF Types, Has
  <2>3. IsFiniteSet(X)
    <3> HIDE DEF listed
    <3>1. PICK m \in Nat : DOMAIN listed = 1..m
      BY <2>1 DEF IsSeq
    <3>2. IsFiniteSet(1..m)
      BY FS_Interval
    <3> DEFINE T == {listed[i].str : i \in 1..m}
    <3>3. IsFiniteSet(T)
      <4> DEFINE f == [i \in 1..m |-> listed[i].str]
      <4>1. f \in Surjection(1..m, T)
        BY DEF Surjection
      <4> HIDE DEF f, T
      <4> QED
        BY <3>2, <4>1, FS_Surjection
    <3>4. X = T \ {"null"}
      BY <2>2, <3>1
    <3> HIDE DEF T, X
    <3> QED
      BY <3>3, <3>4, FS_Difference
  <2>4. PICK t : X = {t}
    <3>1. Cardinality(X) = 1
      BY <1>1 DEF OrdinaryNode
    <3> HIDE DEF X
    <3> QED
      BY <2>3, <3>1, OnlyOne
  <2>5. ASSUME NEW i \in DOMAIN listed PROVE listed[i] \in {Str(t), Str("null")}
    <3>1. listed[i].str \in {t, "null"}
      BY <2>2, <2>4
    <3>2. listed[i] = Str(listed[i].str)
      <4>1. DOMAIN listed[i] = {"str"} /\ listed[i] = [kind \in DOMAIN listed[i] |-> listed[i][kind]]
        BY <2>1 DEF IsValue, Is
      <4> HIDE DEF listed
      <4> QED
        BY <4>1 DEF Str
    <3> QED
      BY <3>1, <3>2
  <2> HIDE DEF listed
  <2> QED
    BY <2>4, <2>5 DEF OneType, listed
<1> QED
  BY <1>2, <1>3, <1>4 DEF Plain

\* An option is null afterwards if it was, or was a reference to null.
LEMMA NullOptionKept ==
  ASSUME NEW v, NEW s, NEW defs, NEW A, KeptIn(v, s, defs, A)
  PROVE  IsNullOption(v) <=> isNullSchema(Resolved(s.map, defs))
BY DEF KeptIn, KeptAs, IsNullOption

\* The keys that take the place of a combinator are those of the schema before.
LEMMA HeirsKept ==
  ASSUME NEW D, NEW rank, NEW S, NEW defs, NEW A, Scene(D, rank, S, defs, A), NEW s \in S,
         NEW n, IsNode(n), FieldsKept(s, n, defs, A), NEW key \in Combinators
  PROVE  Heirs(n, key) \subseteq HeirsOf(s.map, key, defs)
<1> SUFFICES ASSUME NEW k \in Heirs(n, key) PROVE k \in HeirsOf(s.map, key, defs)
  OBVIOUS
<1>1. PICK i \in DOMAIN n[key].seq :
        /\ ~IsNullOption(n[key].seq[i]) /\ k \in DOMAIN n[key].seq[i].map
        /\ \A j \in DOMAIN n[key].seq : j # i => IsNullOption(n[key].seq[j])
  BY HeirsOfOne
<1>2. Has("seq", n, key) /\ key \in DOMAIN s.map
  BY HeirsOfOne DEF FieldsKept, Has
<1> DEFINE old == s.map[key].seq
           new == n[key].seq
           o == Resolved(old[i].map, defs)
<1>3. /\ Has("seq", s.map, key) /\ DOMAIN new = DOMAIN old
      /\ \A j \in DOMAIN new : KeptIn(new[j], old[j], defs, A)
  BY <1>2 DEF FieldsKept, Scene, SchemaObject, Has
<1>4. \A j \in DOMAIN old : IsNullOption(new[j]) <=> isNullSchema(Resolved(old[j].map, defs))
  BY <1>3, NullOptionKept
<1>5. SayMore(s.map, key, defs) = {o}
  <2>1. Options(s.map, key, defs) = {Resolved(old[j].map, defs) : j \in DOMAIN old}
    BY <1>3 DEF Options, ToSet
  <2> HIDE DEF old, new
  <2> QED
    BY <1>1, <1>3, <1>4, <2>1 DEF SayMore, new
<1>6. HeirsOf(s.map, key, defs) = AllKeys(o, defs)
  <2>1. InheritsAsDefined(s.map, key, defs)
    BY DEF Scene
  <2>2. Cardinality({o}) = 1
    BY FS_Singleton
  <2> HIDE DEF o
  <2> QED
    BY <1>5, <2>1, <2>2 DEF InheritsAsDefined
<1>7. DOMAIN new[i].map \subseteq AllKeys(o, defs)
  BY <1>1, <1>3 DEF KeptIn, KeptAs
<1> QED
  BY <1>1, <1>6, <1>7

\* The fields of a schema allow what they allowed.
LEMMA FieldsMean ==
  ASSUME NEW D, NEW rank, NEW S, NEW defs, NEW A, Scene(D, rank, S, defs, A), NEW s \in S,
         ~Refers(s.map, defs), NEW n, FieldsKept(s, n, defs, A), NEW x \in A
  PROVE  NodeAllows(n, x, Allow) <=> AllowedBy(s, defs, x)
<1>1. \A v, t, y : y \in A /\ KeptIn(v, t, defs, A) => (Allow(v, y) <=> AllowedBy(t, defs, y))
  BY DEF KeptIn, KeptAs
<1>2. \A k \in {"type", "const", "enum"} : SameAt(n, s.map, k)
  BY DEF FieldsKept
<1>3. ASSUME NEW key \in Combinators
      PROVE  /\ key \in DOMAIN n <=> key \in DOMAIN s.map
             /\ key \in DOMAIN n =>
                  /\ DOMAIN n[key].seq = DOMAIN s.map[key].seq
                  /\ \A i \in DOMAIN n[key].seq :
                       Allow(n[key].seq[i], x) <=> AllowedBy(s.map[key].seq[i], defs, x)
  <2>1. key \in DOMAIN n <=> key \in DOMAIN s.map
    BY DEF FieldsKept, Has
  <2>2. ASSUME key \in DOMAIN n
        PROVE  /\ DOMAIN n[key].seq = DOMAIN s.map[key].seq
               /\ \A i \in DOMAIN n[key].seq : KeptIn(n[key].seq[i], s.map[key].seq[i], defs, A)
    BY <2>1, <2>2 DEF FieldsKept
  <2> QED
    BY <1>1, <2>1, <2>2
<1>4. ASSUME "properties" \in DOMAIN s.map, Is("map", x)
      PROVE  /\ Has("map", n, "properties") /\ Has("map", s.map, "properties")
             /\ DOMAIN n["properties"].map = DOMAIN s.map["properties"].map
             /\ \A k \in DOMAIN n["properties"].map \cap DOMAIN x.map :
                  Allow(n["properties"].map[k], x.map[k])
                  <=> AllowedBy(s.map["properties"].map[k], defs, x.map[k])
  <2>1. \A k \in DOMAIN x.map : x.map[k] \in A
    <3>1. IsArgument(x) /\ Children(x) \subseteq A
      BY DEF Scene
    <3>2. Children(x) = {x.map[k] : k \in DOMAIN x.map}
      BY <1>4, <3>1 DEF Children, IsArgument, Is
    <3> QED
      BY <3>1, <3>2
  <2>2. /\ Has("map", n, "properties") /\ Has("map", s.map, "properties")
        /\ DOMAIN n["properties"].map = DOMAIN s.map["properties"].map
        /\ \A k \in DOMAIN n["properties"].map :
             KeptIn(n["properties"].map[k], s.map["properties"].map[k], defs, A)
    BY <1>4 DEF FieldsKept, Scene, SchemaObject, Has
  <2> QED
    BY <1>1, <2>1, <2>2
<1>5. "properties" \in DOMAIN n <=> "properties" \in DOMAIN s.map
  BY DEF FieldsKept, Has
<1> DEFINE Before(node) ==
             /\ "type" \in DOMAIN node => TypeOf(x) \in Types(node["type"])
             /\ "const" \in DOMAIN node => x = node["const"]
             /\ "enum" \in DOMAIN node => Contains(node["enum"].seq, x)
             /\ "anyOf" \in DOMAIN node =>
                  \E i \in DOMAIN node["anyOf"].seq : AllowedBy(node["anyOf"].seq[i], defs, x)
             /\ "oneOf" \in DOMAIN node =>
                  \E i \in DOMAIN node["oneOf"].seq : \A j \in DOMAIN node["oneOf"].seq :
                     AllowedBy(node["oneOf"].seq[j], defs, x) <=> j = i
             /\ Has("map", node, "properties") /\ Is("map", x) =>
                  \A k \in DOMAIN node["properties"].map \cap DOMAIN x.map :
                     AllowedBy(node["properties"].map[k], defs, x.map[k])
<1>6. AllowedBy(s, defs, x) <=> Before(s.map)
  <2>1. MeansAsDefined(s, defs, x)
    BY DEF Scene
  <2> QED
    BY <2>1 DEF MeansAsDefined, NodeAllows, SomeAllows, OneAllows
<1> HIDE DEF Before
<1>7. NodeAllows(n, x, Allow) <=> \A k \in Keywords : Asks(n, k, x)
  BY ByKeyword
<1>8. /\ Asks(n, "type", x) <=> ("type" \in DOMAIN s.map => TypeOf(x) \in Types(s.map["type"]))
      /\ Asks(n, "const", x) <=> ("const" \in DOMAIN s.map => x = s.map["const"])
      /\ Asks(n, "enum", x) <=> ("enum" \in DOMAIN s.map => Contains(s.map["enum"].seq, x))
  BY <1>2 DEF Asks, SameAt
<1>9. Asks(n, "anyOf", x) <=>
        ("anyOf" \in DOMAIN s.map =>
           \E i \in DOMAIN s.map["anyOf"].seq : AllowedBy(s.map["anyOf"].seq[i], defs, x))
  <2>1. "anyOf" \in Combinators
    BY DEF Combinators
  <2> QED
    BY <1>3, <2>1 DEF Asks, SomeAllows
<1>10. Asks(n, "oneOf", x) <=>
        ("oneOf" \in DOMAIN s.map =>
           \E i \in DOMAIN s.map["oneOf"].seq : \A j \in DOMAIN s.map["oneOf"].seq :
              AllowedBy(s.map["oneOf"].seq[j], defs, x) <=> j = i)
  <2>1. "oneOf" \in Combinators
    BY DEF Combinators
  <2> QED
    BY <1>3, <2>1 DEF Asks, OneAllows
<1>11. Asks(n, "properties", x) <=>
        (Has("map", s.map, "properties") /\ Is("map", x) =>
           \A k \in DOMAIN s.map["properties"].map \cap DOMAIN x.map :
              AllowedBy(s.map["properties"].map[k], defs, x.map[k]))
  BY <1>4, <1>5 DEF Asks, Has
<1> QED
  BY <1>6, <1>7, <1>8, <1>9, <1>10, <1>11 DEF Keywords, Before

\* A schema whose fields are what they were is what it was, once they are
\* normalised.
LEMMA NodeKept ==
  ASSUME NEW D, NEW rank, NEW S, NEW defs, NEW A, Scene(D, rank, S, defs, A), NEW s \in S,
         "$ref" \notin DOMAIN s.map, NEW n, TidyNode(n, Dropped), FieldsKept(s, n, defs, A)
  PROVE  KeptAs(s, NormalizedFields(n), defs, A)
<1> DEFINE r == NormalizedFields(n)
<1>1. IsNode(n) /\ \A key : OptionsNormal(n, key)
  BY TidyNodeFacts
<1>2. Tidy(Map(r), Dropped) /\ Is("map", Map(r)) /\ Map(r).map = r
  BY FieldsTidy DEF Is, Map
<1>3. ~Refers(s.map, defs) /\ Resolved(s.map, defs) = s.map
  BY DEF Refers, Resolved, Followed
<1>4. Plain(n)
  <2>1. Plain(s.map)
    BY OrdinaryIsPlain
  <2> QED
    BY <2>1, SamePlain DEF Plain, FieldsKept
<1>5. \A key \in Combinators : Heirs(n, key) \subseteq HeirsOf(s.map, key, defs)
  BY <1>1, HeirsKept
<1>6. OrdinaryNode(s.map, defs) /\ DOMAIN n \subseteq DOMAIN s.map
  BY DEF Scene, FieldsKept
<1>7. Apart(n)
  BY <1>5, <1>6 DEF Apart, OrdinaryNode, Combinators
<1>8. ASSUME NEW x \in A PROVE Allow(Map(r), x) <=> AllowedBy(s, defs, x)
  <2>1. ASSUME NEW key \in Combinators PROVE Sound(n, key, x)
    <3>1. OptionsMeant(n, key, x)
      <4>1. ASSUME Has("seq", n, key), NEW i \in DOMAIN n[key].seq, Is("map", n[key].seq[i])
            PROVE  Allow(n[key].seq[i], x) <=> NodeAllows(n[key].seq[i].map, x, Allow)
        <5>1. Tidy(n[key].seq[i], Dropped)
          BY <4>1, TidyNodeFacts
        <5> QED
          BY <4>1, <5>1, TidyMeans
      <4> QED
        BY <4>1 DEF OptionsMeant
    <3>2. SomeOption(n, key)
      <4> SUFFICES ASSUME Has("seq", n, key)
                   PROVE  \E i \in DOMAIN n[key].seq : ~IsNullOption(n[key].seq[i])
        BY DEF SomeOption
      <4> DEFINE old == s.map[key].seq
                 new == n[key].seq
      <4>1. /\ Has("seq", s.map, key) /\ DOMAIN new = DOMAIN old
            /\ \A j \in DOMAIN new : KeptIn(new[j], old[j], defs, A)
        BY <1>6 DEF FieldsKept, Scene, SchemaObject, Has
      <4>2. PICK o \in ToSet(old) : ~isNullSchema(Resolved(o.map, defs))
        <5>1. SayMore(s.map, key, defs) # {}
          BY <1>6, <4>1 DEF OrdinaryNode
        <5> QED
          BY <4>1, <5>1 DEF SayMore, Options
      <4>3. PICK j \in DOMAIN old : o = old[j]
        BY <4>2 DEF ToSet
      <4> QED
        BY <4>1, <4>2, <4>3, NullOptionKept
    <3> QED
      BY <1>1, <1>7, <3>1, <3>2 DEF Sound, Apart
  <2>2. IsArgument(x)
    BY DEF Scene
  <2>3. NodeAllows(r, x, Allow) <=> NodeAllows(n, x, Allow)
    BY <1>1, <1>4, <1>7, <2>1, <2>2, NodeMeansTheSame DEF Apart
  <2>4. NodeAllows(n, x, Allow) <=> AllowedBy(s, defs, x)
    BY <1>3, FieldsMean
  <2>5. Allow(Map(r), x) <=> NodeAllows(r, x, Allow)
    <3> HIDE DEF r
    <3> QED
      BY <1>2, TidyMeans
  <2> QED
    BY <2>3, <2>4, <2>5
<1>9. /\ isNullSchema(r) <=> isNullSchema(n)
      /\ DOMAIN r \subseteq DOMAIN n \cup Heirs(n, "anyOf") \cup Heirs(n, "oneOf")
  BY <1>1, <1>4, <1>7, NullAndKeysKept
<1>10. isNullSchema(n) <=> isNullSchema(s.map)
  BY DEF FieldsKept, SameAt, isNullSchema, Has
<1>11. DOMAIN r \subseteq AllKeys(s.map, defs)
  <2>1. "anyOf" \in Combinators /\ "oneOf" \in Combinators
    BY DEF Combinators
  <2> HIDE DEF r
  <2> QED
    BY <1>5, <1>6, <1>9, <2>1 DEF AllKeys
<1> HIDE DEF r
<1> QED
  BY <1>2, <1>3, <1>8, <1>9, <1>10, <1>11 DEF KeptAs, r

\* A reference is what it refers to.
LEMMA ReferenceKept ==
  ASSUME NEW D, NEW rank, NEW S, NEW defs, NEW A, Scene(D, rank, S, defs, A), NEW s \in S,
         "$ref" \in DOMAIN s.map, NEW r, KeptAs(Referent(s.map, defs), r, defs, A)
  PROVE  KeptAs(s, r, defs, A)
<1> DEFINE m == Referent(s.map, defs)
<1>1. /\ Refers(s.map, defs)
      /\ "$ref" \in DOMAIN m.map => "$ref" \notin DOMAIN Referent(m.map, defs).map
  BY DEF Scene
<1>2. \A x \in A : AllowedBy(s, defs, x) <=> AllowedBy(m, defs, x)
  BY <1>1 DEF Scene, MeansAsDefined, NodeAllows, SomeAllows, OneAllows
<1>3. Resolved(s.map, defs) = Resolved(m.map, defs)
  <2>1. Followed(s.map, defs) = m.map
    BY <1>1 DEF Followed
  <2>2. CASE ~Refers(m.map, defs)
    BY <2>1, <2>2 DEF Resolved, Followed
  <2>3. CASE Refers(m.map, defs)
    <3>1. "$ref" \in DOMAIN m.map
      BY <2>3 DEF Refers
    <3>2. ~Refers(Referent(m.map, defs).map, defs)
      BY <1>1, <3>1 DEF Refers
    <3> HIDE DEF m
    <3>3. Followed(m.map, defs) = Referent(m.map, defs).map
      BY <2>3 DEF Followed
    <3>4. Followed(Referent(m.map, defs).map, defs) = Referent(m.map, defs).map
      BY <3>2 DEF Followed
    <3> QED
      BY <2>1, <3>3, <3>4 DEF Resolved
  <2> QED
    BY <2>2, <2>3
<1>4. KeptAs(m, r, defs, A)
  OBVIOUS
<1> HIDE DEF m
<1> QED
  BY <1>2, <1>3, <1>4 DEF KeptAs

LEMMA DepthKept ==
  ASSUME Recursion, NEW D, NEW rank, NEW S, NEW defs, NEW A, Scene(D, rank, S, defs, A),
         NEW depth \in Nat, \A e \in Nat : e < depth => KeptAt(D, rank, S, defs, A, e)
  PROVE  KeptAt(D, rank, S, defs, A, depth)
<1> SUFFICES ASSUME NEW s \in S, NEW known, Known(D, DOMAIN defs, known), rank[s] <= depth
             PROVE  KeptAs(s, MapTo(s.map, known, depth), defs, A)
  BY DEF KeptAt
<1> DEFINE node     == s.map
           inner    == mergeDefinitions(known, extractDefinitions(node))
           children == Without(node, Dropped)
           new      == [k \in DOMAIN children |-> ValueTo(children[k], inner, depth - 1)]
           r        == MapTo(node, known, depth)
<1>1. s \in D /\ Is("map", s) /\ depth > 0 /\ depth - 1 \in Nat /\ rank[s] \in Nat
  BY SceneFacts
<1>2. r = IF Refers(node, inner)
          THEN NormalizedReferent(node, inner, MapTo(Referent(node, inner).map, inner, depth - 1)).map
          ELSE NormalizedFields(new)
  <2>1. r = NormalizedMap(node, known, depth)
    BY DEF Recursion
  <2> QED
    BY <1>1, <2>1 DEF NormalizedMap, Dropped
<1>3. Known(D, DOMAIN defs, inner)
  BY <1>1, MergedAreKnown
<1> HIDE DEF inner, r
<1>4. CASE "$ref" \in DOMAIN node
  <2> DEFINE m == Referent(node, defs)
             name == node["$ref"].ref
  <2>1. /\ Refers(node, defs) /\ DOMAIN node = {"$ref"} /\ Has("ref", node, "$ref")
        /\ name \in DOMAIN defs /\ m = defs[name]
    BY <1>4 DEF Scene, Refers, Referent
  <2>2. m \in S /\ Meanings(D, name) = {m}
    BY <2>1 DEF Scene
  <2>3. Refers(node, inner) /\ Referent(node, inner) = m
    <3>1. name \in DOMAIN inner /\ inner[name] \in Meanings(D, name)
      BY <1>3, <2>1 DEF Known
    <3> HIDE DEF m
    <3> QED
      BY <2>1, <2>2, <3>1 DEF Refers, Referent
  <2>4. Is("map", m) /\ rank[m] \in Nat /\ m \in D
    BY <2>2, SceneFacts
  <2>5. rank[m] < rank[s]
    BY <1>1, <2>1, <2>2 DEF Scene, Setting, Ranked
  <2>6. r = MapTo(m.map, inner, depth - 1)
    <3> HIDE DEF m
    <3> QED
      BY <1>2, <2>3, <2>4 DEF NormalizedReferent, Map
  <2>7. KeptAs(m, r, defs, A)
    <3>1. rank[m] <= depth - 1 /\ KeptAt(D, rank, S, defs, A, depth - 1)
      BY <1>1, <2>4, <2>5
    <3> HIDE DEF m
    <3> QED
      BY <1>3, <2>2, <2>6, <3>1 DEF KeptAt
  <2> QED
    BY <1>4, <2>7, ReferenceKept DEF r
<1>5. CASE "$ref" \notin DOMAIN node
  <2>1. DOMAIN children = DOMAIN node \ Dropped /\ \A k \in DOMAIN children : children[k] = node[k]
    BY DEF Without, Restrict
  <2> HIDE DEF children
  <2>2. DOMAIN new = DOMAIN node \ Dropped
        /\ \A k \in DOMAIN new : new[k] = ValueTo(node[k], inner, depth - 1)
    BY <2>1
  <2> HIDE DEF new
  <2>3. FieldsKept(s, new, defs, A)
    BY <1>3, <2>2, FieldsAreKept
  <2>4. TidyNode(new, Dropped)
    <3>1. Done(D, rank, DOMAIN defs, Dropped, depth - 1)
      BY <1>1, AllDone DEF Scene
    <3>2. \A k \in DOMAIN new : node[k] \in D /\ rank[node[k]] <= depth - 1
      <4> SUFFICES ASSUME NEW k \in DOMAIN new PROVE node[k] \in D /\ rank[node[k]] <= depth - 1
        OBVIOUS
      <4>1. node[k] \in D /\ rank[node[k]] < rank[s] /\ rank[node[k]] \in Nat
        BY <1>1, <2>2, SceneFacts
      <4> QED
        BY <1>1, <4>1
    <3>3. \A k \in DOMAIN new : Tidy(new[k], Dropped)
      BY <1>3, <2>2, <3>1, <3>2 DEF Done
    <3> QED
      BY <2>2, <3>3 DEF TidyNode
  <2>5. r = NormalizedFields(new)
    BY <1>2, <1>5 DEF Refers
  <2> QED
    BY <1>5, <2>3, <2>4, <2>5, NodeKept DEF r
<1> QED
  BY <1>4, <1>5

\* There is no least depth at which a schema becomes another.
LEMMA AllKept ==
  ASSUME Recursion, NEW D, NEW rank, NEW S, NEW defs, NEW A, Scene(D, rank, S, defs, A)
  PROVE  \A depth \in Nat : KeptAt(D, rank, S, defs, A, depth)
<1> DEFINE T == {d \in Nat : ~KeptAt(D, rank, S, defs, A, d)}
<1>1. SUFFICES ASSUME T # {} PROVE FALSE
  OBVIOUS
<1>2. PICK d \in T : \A e \in T : d <= e
  BY <1>1, LeastIndex
<1>3. \A e \in Nat : e < d => KeptAt(D, rank, S, defs, A, e)
  <2> SUFFICES ASSUME NEW e \in Nat, e < d, ~KeptAt(D, rank, S, defs, A, e) PROVE FALSE
    OBVIOUS
  <2>1. e \in T /\ ~(d <= e)
    OBVIOUS
  <2> QED
    BY <1>2, <2>1
<1>4. KeptAt(D, rank, S, defs, A, d)
  BY <1>3, DepthKept
<1> QED
  BY <1>4

\* The schema a client sends, its definitions and an argument are such a scene.
LEMMA SchemaScene ==
  ASSUME Reachability, Meaning, Inheritance, NEW schema \in Schemas, NEW argument \in Arguments,
         ProperReferences(schema), Ordinary(schema), NEW rank,
         Ranked(PartsOf(Map(schema)), rank), rank[Map(schema)] <= MaxDepth,
         NEW S \in SUBSET PartsOf(Map(schema)), \A s \in S : SchemaObject(s, S),
         \A n \in DOMAIN extractDefinitions(schema) : extractDefinitions(schema)[n] \in S
  PROVE  Scene(PartsOf(Map(schema)), rank, S, extractDefinitions(schema), PartsOf(argument))
<1> DEFINE D    == PartsOf(Map(schema))
           defs == extractDefinitions(schema)
           A    == PartsOf(argument)
<1>1. WithinDepth(schema)
  BY DEF WithinDepth
<1>2. Setting(D, rank, DOMAIN defs, Dropped)
  BY SchemaIsJson DEF Setting, Dropped
<1>3. \A s \in S : s \in D /\ Is("map", s) /\ s.map \in Nodes(Map(schema))
  BY DEF SchemaObject, Nodes
<1>4. \A n \in DOMAIN defs : defs[n] \in S /\ Meanings(D, n) = {defs[n]}
  BY ReferencesArePlain
<1>5. \A s \in S : "$ref" \in DOMAIN s.map =>
        Refers(s.map, defs) /\ Referent(s.map, defs) \in S
  BY <1>3, ReferencesArePlain DEF Refers, Referent
<1>6. ASSUME NEW s \in S, "$ref" \in DOMAIN s.map,
             "$ref" \in DOMAIN Referent(s.map, defs).map
      PROVE  "$ref" \notin DOMAIN Referent(Referent(s.map, defs).map, defs).map
  <2> DEFINE m == Referent(s.map, defs)
             k == Referent(m.map, defs)
  <2>1. m \in S /\ Is("map", m)
    BY <1>3, <1>5, <1>6
  <2>2. k \in S /\ Is("map", k)
    BY <1>3, <1>5, <1>6, <2>1
  <2>3. PICK n \in DOMAIN defs : m = defs[n]
    BY <1>5, <1>6 DEF Refers, Referent
  <2>4. m.map \in {node \in Nodes(m) : "$ref" \in DOMAIN node}
    <3>1. m \in PartsOf(m)
      BY DEF Reachability
    <3> HIDE DEF m
    <3> QED
      BY <1>6, <2>1, <3>1 DEF Nodes, m
  <2>5. {node \in Nodes(k) : "$ref" \in DOMAIN node} = {}
    <3> HIDE DEF m
    <3> QED
      BY <2>3, <2>4 DEF ProperReferences
  <2>6. k.map \in Nodes(k)
    <3>1. k \in PartsOf(k)
      BY DEF Reachability
    <3> HIDE DEF k
    <3> QED
      BY <2>2, <3>1 DEF Nodes
  <2> HIDE DEF k
  <2> QED
    BY <2>5, <2>6 DEF k
<1>7. \A s \in S : OrdinaryNode(s.map, defs)
  BY <1>3 DEF Ordinary
<1>8. \A s \in S, key \in Combinators : InheritsAsDefined(s.map, key, defs)
  BY <1>1, <1>3 DEF Inheritance
<1>9. \A s \in S, x \in A : MeansAsDefined(s, defs, x)
  BY <1>1, <1>3 DEF Meaning
<1>10. ASSUME NEW x \in A PROVE IsArgument(x) /\ Children(x) \subseteq A
  <2>1. IsJson(x) /\ ~Is("null", x) /\ ~Is("ref", x)
    BY ValuesAssumption
  <2>2. IsArgument(x)
    BY <2>1 DEF IsJson, IsArgument, Is
  <2> QED
    BY <2>2 DEF Reachability
<1>11. \A E, s, x : IsSchema(E) /\ s \in E /\ Is("map", s) => MeansAsDefined(s, Empty, x)
  BY DEF Meaning
<1> HIDE DEF D, defs, A
<1>12. \A s \in S : "$ref" \in DOMAIN s.map =>
         /\ Refers(s.map, defs)
         /\ LET m == Referent(s.map, defs)
            IN  "$ref" \in DOMAIN m.map => "$ref" \notin DOMAIN Referent(m.map, defs).map
  BY <1>5, <1>6
<1>13. S \subseteq D
  BY <1>3
<1> QED
  BY <1>2, <1>4, <1>7, <1>8, <1>9, <1>10, <1>11, <1>12, <1>13 DEF Scene, D, defs, A

LEMMA SchemaMeansTheSame ==
  ASSUME Recursion, Reachability, Meaning, Inheritance, NEW schema \in Schemas,
         WithinDepth(schema), WellFormed(schema), ProperReferences(schema), Ordinary(schema),
         NEW argument \in Arguments
  PROVE  Allow(Map(normalizeToolSchema(schema)), argument)
         <=> AllowedBy(Map(schema), extractDefinitions(schema), argument)
<1> DEFINE D    == PartsOf(Map(schema))
           defs == extractDefinitions(schema)
           A    == PartsOf(argument)
<1>1. PICK rank : Ranked(D, rank) /\ rank[Map(schema)] <= MaxDepth
  BY DEF WithinDepth
<1>2. PICK S \in SUBSET D : /\ Map(schema) \in S /\ \A s \in S : SchemaObject(s, S)
                            /\ \A n \in DOMAIN defs : defs[n] \in S
  BY DEF WellFormed
<1>3. Scene(D, rank, S, defs, A)
  BY <1>1, <1>2, SchemaScene
<1>4. KeptAt(D, rank, S, defs, A, MaxDepth)
  <2> HIDE DEF D, defs, A
  <2> QED
    BY <1>3, AllKept, ConstantsAssumption
<1>5. Known(D, DOMAIN defs, defs)
  <2>1. Map(schema) \in D /\ Is("map", Map(schema)) /\ Map(schema).map = schema
    BY SchemaIsJson DEF Is, Map
  <2> QED
    BY <2>1 DEF Known, Meanings
<1>6. KeptAs(Map(schema), MapTo(Map(schema).map, defs, MaxDepth), defs, A)
  <2> HIDE DEF D, defs, A
  <2> QED
    BY <1>1, <1>2, <1>4, <1>5 DEF KeptAt
<1>7. argument \in A /\ Map(schema).map = schema
  BY DEF Reachability, Map
<1> HIDE DEF A
<1> QED
  BY <1>6, <1>7 DEF KeptAs, normalizeToolSchema

-----------------------------------------------------------------------------
(* The bodies.                                                             *)

Payloads == [parameters : Schemas, metadata : {Empty, [freebuff_instance_id |-> ClientInstance]}]

Bodies == {injectUpstreamMetadata(p, run, instance) :
             p \in Payloads, run \in Runs, instance \in Instances \cup {NoInstance}}

TypeOK ==
    /\ payload \in Payloads
    /\ bodies \in Seq(Bodies)
    /\ given \in Seq(Instances \cup {NoInstance})

\* Every body was made of the payload, and of what its attempt was given.
Made ==
    /\ Len(given) = Len(bodies)
    /\ \A i \in DOMAIN bodies :
         \E run \in Runs : bodies[i] = injectUpstreamMetadata(payload, run, given[i])

\* Every variable of the bodies' model always has its type, and every body was
\* made of the payload the client has sent.
THEOREM BodiesInductive == Spec => [](TypeOK /\ Made)
<1>1. Init => TypeOK /\ Made
  BY DEF Init, TypeOK, Made, Payloads
<1>2. TypeOK /\ Made /\ [Next]_vars => (TypeOK /\ Made)'
  <2> SUFFICES ASSUME TypeOK, Made, [Next]_vars PROVE (TypeOK /\ Made)'
    OBVIOUS
  <2>1. CASE UNCHANGED vars
    BY <2>1 DEF vars, TypeOK, Made
  <2>2. ASSUME NEW run \in Runs, NEW instance \in Instances \cup {NoInstance},
               Attempt(run, instance)
        PROVE  (TypeOK /\ Made)'
    <3> DEFINE body == injectUpstreamMetadata(payload, run, instance)
    <3>1. /\ payload' = payload /\ bodies' = Append(bodies, body)
          /\ given' = Append(given, instance)
      BY <2>2 DEF Attempt, PayloadAfter
    <3>2. body \in Bodies
      BY DEF Bodies, TypeOK
    <3> HIDE DEF body
    <3>3. TypeOK'
      BY <3>1, <3>2 DEF TypeOK
    <3>4. /\ Len(bodies) \in Nat /\ DOMAIN bodies = 1..Len(bodies)
          /\ Len(bodies') = Len(bodies) + 1 /\ Len(given') = Len(given) + 1
          /\ \A i \in 1..Len(bodies) : bodies'[i] = bodies[i] /\ given'[i] = given[i]
          /\ bodies'[Len(bodies) + 1] = body /\ given'[Len(bodies) + 1] = instance
          /\ DOMAIN bodies' = 1..Len(bodies) + 1
      BY <3>1, <3>2 DEF TypeOK, Made
    <3>5. ASSUME NEW i \in DOMAIN bodies'
          PROVE  \E r \in Runs : bodies'[i] = injectUpstreamMetadata(payload, r, given'[i])
      <4>1. CASE i \in DOMAIN bodies
        BY <3>4, <4>1 DEF Made
      <4>2. CASE i = Len(bodies) + 1
        BY <3>4, <4>2 DEF body
      <4> QED
        BY <3>4, <4>1, <4>2
    <3>6. Made'
      <4>1. \A r, g : injectUpstreamMetadata(payload, r, g)' = injectUpstreamMetadata(payload, r, g)
        BY <3>1 DEF injectUpstreamMetadata
      <4> QED
        BY <3>1, <3>4, <3>5 DEF Made, injectUpstreamMetadata
    <3> QED
      BY <3>3, <3>6
  <2> QED
    BY <2>1, <2>2 DEF Next
<1> QED
  BY <1>1, <1>2, PTL DEF Spec

\* The attempts of a request send the same tools, and of a session only their
\* own instance or the client's, for any number of runs and sessions.
THEOREM AttemptsKeepNothing == Spec => []NothingKept
<1>1. ASSUME TypeOK, Made PROVE NothingKept
  <2>1. Cardinality(Sent) <= 1
    <3>1. Sent \subseteq {normalizeToolSchema(payload.parameters)}
      BY <1>1 DEF Sent, Made, injectUpstreamMetadata, ToSet
    <3>2. Sent = {} \/ Sent = {normalizeToolSchema(payload.parameters)}
      BY <3>1
    <3>3. Cardinality(Sent) = 0 \/ Cardinality(Sent) = 1
      BY <3>2, FS_EmptySet, FS_Singleton, Zenon
    <3> QED
      BY <3>3
  <2>2. ASSUME NEW i \in DOMAIN bodies, "freebuff_instance_id" \in DOMAIN bodies[i].metadata
        PROVE  bodies[i].metadata["freebuff_instance_id"] \in {given[i], ClientInstance}
    <3> DEFINE key == "freebuff_instance_id"
               client == payload.metadata
    <3>1. PICK run \in Runs : bodies[i].metadata = Over(OwnMetadata(run, given[i]), client)
      BY <1>1 DEF Made, injectUpstreamMetadata
    <3> DEFINE own == OwnMetadata(run, given[i])
    <3>2. key \in DOMAIN own => own[key] = given[i]
      BY DEF OwnMetadata
    <3>3. key \in DOMAIN client => client[key] = ClientInstance
      BY <1>1 DEF TypeOK, Payloads, Empty
    <3> HIDE DEF own, client
    <3> QED
      BY <2>2, <3>1, <3>2, <3>3 DEF Over, own, client
  <2> QED
    BY <2>1, <2>2 DEF NothingKept
<1> QED
  BY <1>1, BodiesInductive, PTL

\* Every schema sent is what became of the client's.
LEMMA SentIsMade ==
  ASSUME TypeOK, Made
  PROVE  /\ payload.parameters \in Schemas
         /\ \A schema \in Sent : schema = normalizeToolSchema(payload.parameters)
BY DEF TypeOK, Payloads, Sent, Made, injectUpstreamMetadata, ToSet

\* Whatever the client has sent, no node of what goes upstream speaks of null,
\* for schemas of any size that the depth reaches.
THEOREM NoNullIsLeft ==
  ASSUME Recursion, Reachability
  PROVE  Spec => [](WithinDepth(payload.parameters) => NoNullLeft)
<1>1. ASSUME TypeOK, Made, WithinDepth(payload.parameters) PROVE NoNullLeft
  <2>1. \A schema \in Sent : Tidy(Map(schema), Dropped)
    BY <1>1, SentIsMade, SentIsTidy
  <2> QED
    BY <2>1, TidyThroughout DEF NoNullLeft, Nodes, Fine
<1> QED
  BY <1>1, BodiesInductive, PTL

\* When every reference names an object that the schema defines, none goes
\* upstream, for schemas of any size that the depth reaches.
THEOREM NoReferenceDangles ==
  ASSUME Recursion, Reachability
  PROVE  Spec => [](WithinDepth(payload.parameters) => NoDanglingReference)
<1>1. ASSUME TypeOK, Made, WithinDepth(payload.parameters) PROVE NoDanglingReference
  <2> SUFFICES ASSUME ProperReferences(payload.parameters), NEW schema \in Sent
               PROVE  \A node \in Nodes(Map(schema)) : "$ref" \notin DOMAIN node
    BY DEF NoDanglingReference
  <2>1. Tidy(Map(schema), Dropped \cup {"$ref"})
    BY <1>1, SentIsMade, SentIsTidy
  <2> QED
    BY <2>1, TidyThroughout DEF Nodes, Fine
<1> QED
  BY <1>1, BodiesInductive, PTL

\* An ordinary schema with proper references means the same after as before: the
\* model may call the tool just as the client allows, for schemas of any size
\* that the depth reaches and arguments without null of any size.
THEOREM MeaningIsKept ==
  ASSUME Recursion, Reachability, Meaning, Inheritance
  PROVE  Spec => [](WithinDepth(payload.parameters) /\ WellFormed(payload.parameters) => SameMeaning)
<1>1. ASSUME TypeOK, Made, WithinDepth(payload.parameters), WellFormed(payload.parameters)
      PROVE  SameMeaning
  <2> SUFFICES ASSUME ProperReferences(payload.parameters), Ordinary(payload.parameters),
                      NEW schema \in Sent, NEW v \in Arguments
               PROVE  AllowedBy(Map(schema), Empty, v)
                      <=> AllowedBy(Map(payload.parameters), extractDefinitions(payload.parameters), v)
    BY DEF SameMeaning
  <2>1. payload.parameters \in Schemas /\ schema = normalizeToolSchema(payload.parameters)
    BY <1>1, SentIsMade
  <2> QED
    BY <1>1, <2>1, SchemaMeansTheSame DEF Allow
<1> QED
  BY <1>1, BodiesInductive, PTL

=============================================================================
