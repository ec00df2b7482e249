--------------------------- MODULE ChatProxyProofs ---------------------------
(***************************************************************************)
(* Proofs about ChatProxy for every number of requests and pools and every *)
(* priority.                                                               *)
(*                                                                         *)
(* The walk: WalkInv is inductive.  A candidate Acquire has neither tried  *)
(* nor seen move is still to be looked at in the pass that takes it, so an *)
(* empty rest of the walk leaves nobody out.                               *)
(* The counts: CountInv is inductive.  The counters equal, or bound, the   *)
(* numbers of requests in certain places; a step moves one request and, if *)
(* it crosses a boundary, one counter.                                     *)
(* The end: every step of a request brings it on in a well-founded order,  *)
(* and nothing sets it back.                                               *)
(***************************************************************************)
EXTENDS ChatProxy, FiniteSetTheorems, TLAPS

\* The types hold at first.
LEMMA InitTypeOK == Init => TypeOK
BY ConstantsAssumption DEF Init, TypeOK, Counters, PCs, Passes, Walking, Answered

\* A change of a pool's session keeps the types of what it moves.
LEMMA SetReadyTypes ==
  ASSUME TypeOK, NEW p \in Pools, NEW now \in BOOLEAN, SetReady(p, now)
  PROVE  ready' \in [Pools -> BOOLEAN] /\ moved' \in [Requests -> SUBSET Pools]
BY DEF TypeOK, SetReady

\* A request that needs a pool has one.
LEMMA HasPool ==
  ASSUME TypeOK, NEW r \in Requests,
         pc[r] \in {"acquiring", "chatting", "retrying", "streaming", "marking", "ending"}
  PROVE  pool[r] \in Pools
BY DEF TypeOK

\* One more of an outcome is a count again.
LEMMA OneMore ==
  ASSUME NEW c \in Counters
  PROVE  /\ OneOk(c) \in Counters /\ OneBad(c) \in Counters
         /\ [c EXCEPT !.total = @ + 1] \in Counters
BY DEF Counters, OneOk, OneBad

\* Every step keeps the types.
LEMMA NextTypeOK == ASSUME TypeOK, [Next]_vars PROVE TypeOK'
<1> USE DEF TypeOK, PCs, Walking, Answered, walk, counts
<1>1. ASSUME NEW r \in Requests, Start(r) PROVE TypeOK'
  BY <1>1, OneMore DEF Start
<1>2. ASSUME NEW r \in Requests, List(r) PROVE TypeOK'
  <2>1. \A S \in SUBSET Pools : S \X Passes \in SUBSET (Pools \X Passes)
    OBVIOUS
  <2>2. /\ left' \in [Requests -> SUBSET (Pools \X Passes)]
        /\ listed' \in [Requests -> SUBSET Pools]
    BY <1>2, <2>1 DEF List
  <2>3. stats' \in Counters /\ pc' \in [Requests -> PCs]
    BY <1>2, OneMore DEF List
  <2>4. \A s \in Requests : pool'[s] = NoPool <=> pc'[s] \in {"new", "listing", "walking", "done"}
    BY <1>2 DEF List
  <2> QED
    BY <1>2, <2>2, <2>3, <2>4 DEF List
<1>3. ASSUME NEW r \in Requests, NEW v \in left[r], Look(r, v) PROVE TypeOK'
  BY <1>3, ConstantsAssumption DEF Look
<1>4. ASSUME NEW r \in Requests, AcquireFails(r) PROVE TypeOK'
  BY <1>4 DEF AcquireFails
<1>5. ASSUME NEW r \in Requests, AcquireOk(r) PROVE TypeOK'
  BY <1>5, HasPool, OneMore DEF AcquireOk
<1>6. ASSUME NEW r \in Requests, GiveUp(r) PROVE TypeOK'
  BY <1>6, OneMore DEF GiveUp
<1>7. ASSUME NEW r \in Requests, ChatOk(r) PROVE TypeOK'
  BY <1>7, HasPool, OneMore DEF ChatOk
<1>8. ASSUME NEW r \in Requests, ChatFailed(r) PROVE TypeOK'
  BY <1>8, HasPool, OneMore DEF ChatFailed
<1>9. ASSUME NEW r \in Requests, ChatUnauthorized(r) PROVE TypeOK'
  BY <1>9, HasPool, OneMore, SetReadyTypes DEF ChatUnauthorized
<1>10. ASSUME NEW r \in Requests, MarkInvalid(r) PROVE TypeOK'
  BY <1>10 DEF MarkInvalid
<1>11. ASSUME NEW r \in Requests, ChatSessionInvalid(r) PROVE TypeOK'
  BY <1>11, HasPool, SetReadyTypes DEF ChatSessionInvalid
<1>12. ASSUME NEW r \in Requests, ChatRunInvalid(r) PROVE TypeOK'
  BY <1>12, HasPool, OneMore DEF ChatRunInvalid
<1>13. ASSUME NEW r \in Requests, Release(r) PROVE TypeOK'
  BY <1>13 DEF Release
<1>14. ASSUME NEW r \in Requests, ReleaseAndRetry(r) PROVE TypeOK'
  BY <1>14, OneMore DEF ReleaseAndRetry
<1>15. ASSUME NEW p \in Pools, SessionMoves(p) PROVE TypeOK'
  BY <1>15, SetReadyTypes DEF SessionMoves
<1>16. ASSUME NEW p \in Pools, Sync(p) PROVE TypeOK'
  BY <1>16 DEF Sync
<1>17. CASE UNCHANGED vars
  BY <1>17 DEF vars
<1> QED
  BY <1>1, <1>2, <1>3, <1>4, <1>5, <1>6, <1>7, <1>8, <1>9, <1>10, <1>11, <1>12, <1>13, <1>14,
     <1>15, <1>16, <1>17 DEF Next, Acquire, Chat

\* Every variable always has its type, and a request a pool while it needs one.
THEOREM TypeCorrect == Spec => []TypeOK
<1>1. TypeOK /\ [Next]_vars => TypeOK'
  BY NextTypeOK
<1> QED
  BY InitTypeOK, <1>1, PTL DEF Spec

-----------------------------------------------------------------------------
(* The walk.                                                               *)

\* What a request other than the one that steps relies on.
SameWalk(r) ==
    /\ pc'[r] \in Walking => pc[r] \in Walking /\ pc'[r] = pc[r]
    /\ pool'[r] = pool[r]
    /\ left'[r] = left[r]
    /\ listed'[r] = listed[r]
    /\ tried'[r] = tried[r]

\* A step that touches neither the walk of r nor a session of its candidates,
\* the ones it notes as moved apart, keeps what the walk of r promises.
LEMMA WalkKept ==
  ASSUME TypeOK, LookToCome, BestFirst, NEW r \in Requests, SameWalk(r), pc'[r] \in Walking,
         moved[r] \subseteq moved'[r],
         \A p \in Pools \ moved'[r] : ready'[p] = ready[p]
  PROVE  /\ \A p \in listed'[r] \ (tried'[r] \cup moved'[r]) :
              <<p, IF ready'[p] THEN 0 ELSE 1>> \in left'[r]
         /\ pc'[r] = "acquiring" =>
              \A p \in listed'[r] \ (tried'[r] \cup moved'[r]) :
                /\ Priority[p] <= Priority[pool'[r]]
                /\ Priority[p] = Priority[pool'[r]] /\ pool'[r] \notin moved'[r] /\ ready'[p]
                     => ready'[pool'[r]]
<1>1. listed[r] \subseteq Pools
  BY DEF TypeOK
<1>2. \A p \in listed'[r] \ (tried'[r] \cup moved'[r]) :
         <<p, IF ready'[p] THEN 0 ELSE 1>> \in left'[r]
  BY <1>1 DEF SameWalk, LookToCome
<1>3. ASSUME pc'[r] = "acquiring", NEW p \in listed'[r] \ (tried'[r] \cup moved'[r])
      PROVE  /\ Priority[p] <= Priority[pool'[r]]
             /\ Priority[p] = Priority[pool'[r]] /\ pool'[r] \notin moved'[r] /\ ready'[p]
                  => ready'[pool'[r]]
  <2>1. pc[r] = "acquiring" /\ p \in listed[r] \ (tried[r] \cup moved[r]) /\ pool[r] \in Pools
    BY <1>3, HasPool DEF SameWalk
  <2> QED
    BY <1>1, <1>3, <2>1 DEF SameWalk, BestFirst
<1> QED
  BY <1>2, <1>3

\* A session that comes or goes is noted by every walk under way.
LEMMA SetReadyNoted ==
  ASSUME TypeOK, NEW p \in Pools, NEW now \in BOOLEAN, SetReady(p, now),
         NEW r \in Requests, pc[r] \in Walking
  PROVE  /\ moved[r] \subseteq moved'[r]
         /\ \A q \in Pools \ moved'[r] : ready'[q] = ready[q]
BY DEF SetReady, TypeOK

\* One step of Acquire keeps the promises about the walk it is made on.
LEMMA OwnWalk ==
  ASSUME WalkInv, NEW r \in Requests, Start(r) \/ Acquire(r) \/ Chat(r), pc'[r] \in Walking
  PROVE  /\ \A p \in listed'[r] \ (tried'[r] \cup moved'[r]) :
              <<p, IF ready'[p] THEN 0 ELSE 1>> \in left'[r]
         /\ pc'[r] = "acquiring" =>
              \A p \in listed'[r] \ (tried'[r] \cup moved'[r]) :
                /\ Priority[p] <= Priority[pool'[r]]
                /\ Priority[p] = Priority[pool'[r]] /\ pool'[r] \notin moved'[r] /\ ready'[p]
                     => ready'[pool'[r]]
<1> USE DEF WalkInv
<1>1. CASE List(r)
  BY <1>1 DEF List, TypeOK, Walking, Passes
<1>2. ASSUME NEW v \in left[r], Look(r, v)
      PROVE  /\ \A p \in listed'[r] \ (tried'[r] \cup moved'[r]) :
                  <<p, IF ready'[p] THEN 0 ELSE 1>> \in left'[r]
             /\ pc'[r] = "acquiring" =>
                  \A p \in listed'[r] \ (tried'[r] \cup moved'[r]) :
                    /\ Priority[p] <= Priority[pool'[r]]
                    /\ Priority[p] = Priority[pool'[r]] /\ pool'[r] \notin moved'[r] /\ ready'[p]
                         => ready'[pool'[r]]
  <2>1. v \in Pools \X Passes /\ listed[r] \subseteq Pools /\ pc[r] = "walking"
    BY <1>2 DEF Look, TypeOK
  <2>2. PICK q \in Pools, k \in Passes : v = <<q, k>>
    BY <2>1
  <2>3. /\ UNCHANGED <<listed, moved, ready>>
        /\ left'[r] = left[r] \ {v}
        /\ tried'[r] = IF Wanted(v) THEN tried[r] \cup {q} ELSE tried[r]
        /\ pc'[r] = "acquiring" => Wanted(v) /\ pool'[r] = q
    BY <1>2, <2>1, <2>2 DEF Look, TypeOK
  <2>4. ASSUME NEW p \in listed'[r] \ (tried'[r] \cup moved'[r])
        PROVE  /\ <<p, IF ready[p] THEN 0 ELSE 1>> \in left[r]
               /\ <<p, IF ready[p] THEN 0 ELSE 1>> # v
    <3>1. p \in listed[r] \ (tried[r] \cup moved[r]) /\ (Wanted(v) => p # q)
      BY <2>3, <2>4
    <3>2. <<p, IF ready[p] THEN 0 ELSE 1>> \in left[r]
      BY <2>1, <3>1 DEF LookToCome, Walking
    <3>3. Wanted(<<p, IF ready[p] THEN 0 ELSE 1>>)
      BY DEF Wanted
    <3> QED
      BY <2>2, <3>1, <3>2, <3>3
  <2>5. ASSUME pc'[r] = "acquiring", NEW p \in listed'[r] \ (tried'[r] \cup moved'[r])
        PROVE  /\ Priority[p] <= Priority[q]
               /\ Priority[p] = Priority[q] /\ ready[p] => ready[q]
    <3>1. ~Before(<<p, IF ready[p] THEN 0 ELSE 1>>, <<q, k>>)
      BY <1>2, <2>2, <2>4, <2>5 DEF Look
    <3>2. ready[q] <=> k = 0
      BY <2>2, <2>3, <2>5 DEF Wanted
    <3>3. p \in Pools /\ Priority[p] \in Int /\ Priority[q] \in Int /\ k \in {0, 1}
      BY <2>1, <2>3, <2>5, ConstantsAssumption DEF Passes
    <3> QED
      BY <3>1, <3>2, <3>3 DEF Before
  <2> QED
    BY <2>3, <2>4, <2>5
<1>3. CASE AcquireFails(r)
  BY <1>3 DEF AcquireFails, TypeOK, walk, LookToCome, Walking
<1>4. CASE Start(r) \/ AcquireOk(r) \/ GiveUp(r)
  BY <1>4 DEF Start, AcquireOk, GiveUp, TypeOK, Walking
<1>5. CASE Chat(r)
  BY <1>5 DEF Chat, ChatOk, ChatFailed, ChatUnauthorized, MarkInvalid, ChatSessionInvalid,
     ChatRunInvalid, Release, ReleaseAndRetry, TypeOK, Walking
<1> QED
  BY <1>1, <1>2, <1>3, <1>4, <1>5 DEF Acquire

\* A step of a request leaves the walks of the others alone.
LEMMA OtherWalks ==
  ASSUME TypeOK, NEW r \in Requests, Start(r) \/ Acquire(r) \/ Chat(r),
         NEW s \in Requests, s # r, pc'[s] \in Walking
  PROVE  /\ SameWalk(s)
         /\ moved[s] \subseteq moved'[s]
         /\ \A p \in Pools \ moved'[s] : ready'[p] = ready[p]
<1> USE DEF TypeOK, SameWalk, walk, counts
<1>1. CASE Start(r) \/ List(r) \/ AcquireFails(r) \/ AcquireOk(r) \/ GiveUp(r)
  BY <1>1 DEF Start, List, AcquireFails, AcquireOk, GiveUp
<1>2. ASSUME NEW v \in left[r], Look(r, v)
      PROVE  /\ SameWalk(s)
             /\ moved[s] \subseteq moved'[s]
             /\ \A p \in Pools \ moved'[s] : ready'[p] = ready[p]
  BY <1>2 DEF Look
<1>3. CASE ChatOk(r) \/ ChatFailed(r) \/ MarkInvalid(r) \/ ChatRunInvalid(r)
           \/ Release(r) \/ ReleaseAndRetry(r)
  BY <1>3 DEF ChatOk, ChatFailed, MarkInvalid, ChatRunInvalid, Release, ReleaseAndRetry
<1>4. CASE ChatUnauthorized(r) \/ ChatSessionInvalid(r)
  <2>1. SetReady(pool[r], FALSE) /\ pool[r] \in Pools /\ pc'[s] = pc[s]
    BY <1>4, HasPool DEF ChatUnauthorized, ChatSessionInvalid
  <2>2. SameWalk(s)
    BY <1>4 DEF ChatUnauthorized, ChatSessionInvalid
  <2> QED
    BY <2>1, <2>2, SetReadyNoted
<1> QED
  BY <1>1, <1>2, <1>3, <1>4 DEF Acquire, Chat

\* Every step keeps the promises about every walk.
LEMMA NextWalk == ASSUME WalkInv, [Next]_vars PROVE LookToCome' /\ BestFirst'
<1> DEFINE Kept(s) ==
      /\ \A p \in listed'[s] \ (tried'[s] \cup moved'[s]) :
           <<p, IF ready'[p] THEN 0 ELSE 1>> \in left'[s]
      /\ pc'[s] = "acquiring" =>
           \A p \in listed'[s] \ (tried'[s] \cup moved'[s]) :
             /\ Priority[p] <= Priority[pool'[s]]
             /\ Priority[p] = Priority[pool'[s]] /\ pool'[s] \notin moved'[s] /\ ready'[p]
                  => ready'[pool'[s]]
<1>1. SUFFICES ASSUME NEW s \in Requests, pc'[s] \in Walking PROVE Kept(s)
  BY DEF LookToCome, BestFirst, Walking
<1>2. ASSUME NEW r \in Requests, Start(r) \/ Acquire(r) \/ Chat(r) PROVE Kept(s)
  <2>1. CASE r = s
    BY <1>1, <1>2, <2>1, OwnWalk
  <2>2. CASE r # s
    BY <1>1, <1>2, <2>2, OtherWalks, WalkKept DEF WalkInv
  <2> QED
    BY <2>1, <2>2
<1>3. ASSUME NEW p \in Pools, SessionMoves(p) PROVE Kept(s)
  <2>1. SameWalk(s) /\ pc[s] \in Walking
    BY <1>1, <1>3 DEF SessionMoves, SameWalk, walk
  <2>2. /\ moved[s] \subseteq moved'[s]
        /\ \A q \in Pools \ moved'[s] : ready'[q] = ready[q]
    BY <1>3, <2>1, SetReadyNoted DEF SessionMoves, WalkInv, TypeOK
  <2> QED
    BY <1>1, <2>1, <2>2, WalkKept DEF WalkInv
<1>4. CASE (\E p \in Pools : Sync(p)) \/ UNCHANGED vars
  <2>1. /\ SameWalk(s)
        /\ moved[s] \subseteq moved'[s]
        /\ \A q \in Pools \ moved'[s] : ready'[q] = ready[q]
    BY <1>1, <1>4 DEF Sync, SameWalk, walk, vars
  <2> QED
    BY <1>1, <2>1, WalkKept DEF WalkInv
<1> QED
  BY <1>2, <1>3, <1>4 DEF Next

\* The inductive invariant of the walk.
THEOREM WalkInductive == Spec => []WalkInv
<1>1. Init => WalkInv
  BY InitTypeOK DEF Init, WalkInv, LookToCome, BestFirst, Walking
<1>2. WalkInv /\ [Next]_vars => WalkInv'
  BY NextTypeOK, NextWalk DEF WalkInv
<1> QED
  BY <1>1, <1>2, PTL DEF Spec

\* Acquire never gives up while a candidate whose session stayed as it was has
\* not been tried.
THEOREM NobodyLeftOut == Spec => []NobodyPassedOver
<1>1. WalkInv => NobodyPassedOver
  BY DEF WalkInv, LookToCome, NobodyPassedOver, Walking
<1> QED
  BY WalkInductive, <1>1, PTL

\* The candidates are tried in the order of their priorities, those with a
\* session first.
THEOREM InOrder == Spec => []BestFirst
<1>1. WalkInv => BestFirst
  BY DEF WalkInv
<1> QED
  BY WalkInductive, <1>1, PTL

-----------------------------------------------------------------------------
(* The counts.                                                             *)

Started == {r \in Requests : pc[r] # "new"}
Over    == {r \in Requests : pc[r] \in Answered}

\* The requests are finitely many, wherever they are.
LEMMA Finite ==
  IsFiniteSet(Started) /\ IsFiniteSet(Over) /\ \A p : IsFiniteSet(Chatting(p))
<1>1. Started \subseteq Requests /\ Over \subseteq Requests /\ \A p : Chatting(p) \subseteq Requests
  BY DEF Started, Over, Chatting
<1> QED
  BY <1>1, FS_Subset, ConstantsAssumption

\* How many a set holds after one request has come or gone.
LEMMA OneComes ==
  ASSUME NEW S, IsFiniteSet(S), NEW r, r \notin S
  PROVE  Cardinality(S \cup {r}) = Cardinality(S) + 1 /\ Cardinality(S) \in Nat
BY FS_AddElement, FS_CardinalityType

LEMMA OneGoes ==
  ASSUME NEW S, IsFiniteSet(S), NEW r, r \in S
  PROVE  Cardinality(S \ {r}) = Cardinality(S) - 1 /\ Cardinality(S) \in Nat
BY FS_RemoveElement, FS_CardinalityType

\* The numbers request_stats must show, from where the step leads its request.
OutcomeOf(r) ==
    \/ /\ pc[r] \notin Answered /\ pc'[r] \in Answered
       /\ stats' = OneOk(stats) \/ stats' = OneBad(stats)
    \/ /\ pc[r] \in Answered <=> pc'[r] \in Answered
       /\ UNCHANGED stats

\* A step that counts an outcome just when it answers its request keeps the sums.
LEMMA OutcomeKeepsSums ==
  ASSUME TypeOK, StatsAddUp, NEW r \in Requests, pc[r] # "new", pc'[r] # "new",
         \A s \in Requests \ {r} : pc'[s] = pc[s], OutcomeOf(r)
  PROVE  StatsAddUp'
<1>1. Started' = Started
  BY DEF Started
<1>2. CASE pc[r] \notin Answered /\ pc'[r] \in Answered /\ (stats' = OneOk(stats) \/ stats' = OneBad(stats))
  <2>1. Over' = Over \cup {r} /\ r \notin Over
    BY <1>2 DEF Over
  <2>2. Cardinality(Over \cup {r}) = Cardinality(Over) + 1
    BY <2>1, Finite, OneComes
  <2>3. stats'.total = stats.total /\ stats'.ok + stats'.bad = stats.ok + stats.bad + 1
    <3>1. stats \in Counters
      BY DEF TypeOK
    <3>2. CASE stats' = OneOk(stats)
      BY <3>1, <3>2 DEF Counters, OneOk
    <3>3. CASE stats' = OneBad(stats)
      BY <3>1, <3>3 DEF Counters, OneBad
    <3> QED
      BY <1>2, <3>2, <3>3
  <2> QED
    BY <1>1, <2>1, <2>2, <2>3 DEF StatsAddUp, Started, Over
<1>3. CASE (pc[r] \in Answered <=> pc'[r] \in Answered) /\ UNCHANGED stats
  <2>1. Over' = Over
    BY <1>3 DEF Over
  <2> QED
    BY <1>1, <1>3, <2>1 DEF StatsAddUp, Started, Over
<1> QED
  BY <1>2, <1>3 DEF OutcomeOf

\* A start adds one to the total and one to the requests that have started.
LEMMA StartKeepsSums ==
  ASSUME TypeOK, StatsAddUp, NEW r \in Requests, Start(r) PROVE StatsAddUp'
<1>1. Started' = Started \cup {r} /\ r \notin Started /\ Over' = Over
  BY DEF Start, Started, Over, TypeOK, Answered
<1>2. Cardinality(Started \cup {r}) = Cardinality(Started) + 1
  BY <1>1, Finite, OneComes
<1>3. stats'.total = stats.total + 1 /\ stats'.ok = stats.ok /\ stats'.bad = stats.bad
  BY DEF Start, TypeOK, Counters
<1> QED
  BY <1>1, <1>2, <1>3 DEF StatsAddUp, Started, Over

\* Every step of a request that has started counts as OutcomeOf says.
LEMMA StepOutcome ==
  ASSUME TypeOK, NEW r \in Requests, Acquire(r) \/ Chat(r)
  PROVE  /\ pc[r] # "new" /\ pc'[r] # "new"
         /\ \A s \in Requests \ {r} : pc'[s] = pc[s]
         /\ OutcomeOf(r)
<1> USE DEF TypeOK, OutcomeOf, Answered, counts, walk
<1> DEFINE Goal ==
      /\ pc[r] # "new" /\ pc'[r] # "new"
      /\ \A s \in Requests \ {r} : pc'[s] = pc[s]
      /\ OutcomeOf(r)
<1>1. CASE List(r)
  BY <1>1 DEF List
<1>2. ASSUME NEW v \in left[r], Look(r, v) PROVE Goal
  BY <1>2 DEF Look
<1>3. CASE AcquireFails(r) \/ AcquireOk(r)
  BY <1>3 DEF AcquireFails, AcquireOk
<1>4. CASE GiveUp(r)
  BY <1>4 DEF GiveUp
<1>5. CASE ChatOk(r)
  BY <1>5 DEF ChatOk
<1>6. CASE ChatFailed(r)
  BY <1>6 DEF ChatFailed
<1>7. CASE ChatUnauthorized(r)
  BY <1>7 DEF ChatUnauthorized
<1>8. CASE MarkInvalid(r) \/ Release(r)
  BY <1>8 DEF MarkInvalid, Release
<1>9. CASE ChatSessionInvalid(r) \/ ChatRunInvalid(r)
  BY <1>9 DEF ChatSessionInvalid, ChatRunInvalid
<1>10. CASE ReleaseAndRetry(r)
  BY <1>10 DEF ReleaseAndRetry
<1> QED
  BY <1>1, <1>2, <1>3, <1>4, <1>5, <1>6, <1>7, <1>8, <1>9, <1>10 DEF Acquire, Chat

\* The steps of the pools move no request and no counter.
LEMMA PoolsCountNothing ==
  ASSUME (\E p \in Pools : SessionMoves(p) \/ Sync(p)) \/ UNCHANGED vars
  PROVE  UNCHANGED <<pc, pool, stats, account>>
BY DEF SessionMoves, Sync, vars, counts

\* Every step keeps the sums of request_stats.
LEMMA NextStats == ASSUME TypeOK, StatsAddUp, [Next]_vars PROVE StatsAddUp'
<1>1. CASE UNCHANGED <<pc, pool, stats, account>>
  BY <1>1 DEF StatsAddUp
<1> QED
  BY <1>1, StartKeepsSums, StepOutcome, OutcomeKeepsSums, PoolsCountNothing DEF Next

\* A lease is one attempt more and one request more whose outcome is to come.
LEMMA AcquireKeepsAccounts ==
  ASSUME TypeOK, AccountsAddUp, NEW r \in Requests, AcquireOk(r) PROVE AccountsAddUp'
<1>1. pool[r] \in Pools
  BY HasPool DEF AcquireOk
<1>2. \A p \in Pools : Chatting(p)' = IF p = pool[r] THEN Chatting(p) \cup {r} ELSE Chatting(p)
  BY <1>1 DEF AcquireOk, Chatting, TypeOK
<1>3. \A p \in Pools : r \notin Chatting(p)
  BY DEF AcquireOk, Chatting
<1>4. \A p \in Pools : Cardinality(Chatting(p) \cup {r}) = Cardinality(Chatting(p)) + 1
                      /\ Cardinality(Chatting(p)) \in Nat
  BY <1>3, Finite, OneComes
<1>5. \A p \in Pools :
        /\ account'[p].ok = account[p].ok /\ account'[p].bad = account[p].bad
        /\ account'[p].total = IF p = pool[r] THEN account[p].total + 1 ELSE account[p].total
        /\ account[p].ok \in Nat /\ account[p].bad \in Nat /\ account[p].total \in Nat
  BY <1>1 DEF AcquireOk, TypeOK, Counters
<1>6. ASSUME NEW p \in Pools
      PROVE  account'[p].ok + account'[p].bad + Cardinality(Chatting(p)') <= account'[p].total
  <2>1. account[p].ok + account[p].bad + Cardinality(Chatting(p)) <= account[p].total
    BY DEF AccountsAddUp
  <2>2. CASE p = pool[r]
    BY <1>2, <1>4, <1>5, <2>1, <2>2
  <2>3. CASE p # pool[r]
    BY <1>2, <1>5, <2>1, <2>3
  <2> QED
    BY <2>2, <2>3
<1> QED
  BY <1>6 DEF AccountsAddUp

\* An outcome is counted for the account at most when the request leaves.
LEMMA OutcomeKeepsAccounts ==
  ASSUME TypeOK, AccountsAddUp, NEW r \in Requests, pc[r] = "chatting", pc'[r] # "chatting",
         \A s \in Requests \ {r} : pc'[s] = pc[s], UNCHANGED pool,
         \/ account' = [account EXCEPT ![pool[r]] = OneOk(@)]
         \/ account' = [account EXCEPT ![pool[r]] = OneBad(@)]
         \/ UNCHANGED account
  PROVE  AccountsAddUp'
<1>1. pool[r] \in Pools
  BY HasPool
<1>2. \A p \in Pools : Chatting(p)' = IF p = pool[r] THEN Chatting(p) \ {r} ELSE Chatting(p)
  BY DEF Chatting
<1>3. r \in Chatting(pool[r])
  BY DEF Chatting
<1>4. \A p \in Pools : Cardinality(Chatting(p)) \in Nat
  BY Finite, FS_CardinalityType
<1>5. \A p \in Pools :
        /\ account'[p].total = account[p].total
        /\ account'[p].ok + account'[p].bad <=
             IF p = pool[r] THEN account[p].ok + account[p].bad + 1
                            ELSE account[p].ok + account[p].bad
        /\ account[p].ok \in Nat /\ account[p].bad \in Nat /\ account[p].total \in Nat
        /\ account'[p].ok \in Nat /\ account'[p].bad \in Nat
  BY <1>1 DEF TypeOK, Counters, OneOk, OneBad
<1>6. ASSUME NEW p \in Pools
      PROVE  account'[p].ok + account'[p].bad + Cardinality(Chatting(p)') <= account'[p].total
  <2>1. account[p].ok + account[p].bad + Cardinality(Chatting(p)) <= account[p].total
    BY DEF AccountsAddUp
  <2>2. CASE p = pool[r]
    <3>1. Cardinality(Chatting(p) \ {r}) = Cardinality(Chatting(p)) - 1
      BY <1>3, <2>2, Finite, OneGoes
    <3>2. Cardinality(Chatting(p)') = Cardinality(Chatting(p)) - 1
      BY <1>2, <2>2, <3>1
    <3>3. account'[p].ok + account'[p].bad <= account[p].ok + account[p].bad + 1
      BY <1>5, <2>2
    <3> QED
      BY <1>4, <1>5, <2>1, <3>2, <3>3
  <2>3. CASE p # pool[r]
    BY <1>2, <1>4, <1>5, <2>1, <2>3
  <2> QED
    BY <2>2, <2>3
<1> QED
  BY <1>6 DEF AccountsAddUp

\* Steps that neither count for an account nor lead to or from a chat.
LEMMA ElsewhereKeepsAccounts ==
  ASSUME AccountsAddUp, UNCHANGED account,
         \A s \in Requests : \/ pc[s] # "chatting" /\ pc'[s] # "chatting"
                             \/ pc'[s] = pc[s] /\ pool'[s] = pool[s]
  PROVE  AccountsAddUp'
<1>1. \A p \in Pools : Chatting(p)' = Chatting(p)
  BY DEF Chatting
<1> QED
  BY <1>1 DEF AccountsAddUp

\* Every step keeps the counts of the accounts within their attempts.
LEMMA NextAccounts == ASSUME TypeOK, AccountsAddUp, [Next]_vars PROVE AccountsAddUp'
<1> DEFINE Elsewhere ==
      /\ UNCHANGED account
      /\ \A s \in Requests : \/ pc[s] # "chatting" /\ pc'[s] # "chatting"
                             \/ pc'[s] = pc[s] /\ pool'[s] = pool[s]
<1>1. ASSUME NEW r \in Requests,
             Start(r) \/ List(r) \/ AcquireFails(r) \/ GiveUp(r) \/ MarkInvalid(r)
             \/ Release(r) \/ ReleaseAndRetry(r)
      PROVE  Elsewhere
  BY <1>1 DEF TypeOK, Start, List, AcquireFails, GiveUp, MarkInvalid, Release, ReleaseAndRetry, counts
<1>2. ASSUME NEW r \in Requests, NEW v \in left[r], Look(r, v) PROVE Elsewhere
  BY <1>2 DEF TypeOK, Look, counts
<1>3. ASSUME NEW r \in Requests,
             ChatOk(r) \/ ChatFailed(r) \/ ChatUnauthorized(r) \/ ChatSessionInvalid(r)
             \/ ChatRunInvalid(r)
      PROVE  AccountsAddUp'
  <2>1. /\ pc[r] = "chatting" /\ pc'[r] # "chatting"
        /\ \A s \in Requests \ {r} : pc'[s] = pc[s]
        /\ UNCHANGED pool
    BY <1>3 DEF TypeOK, ChatOk, ChatFailed, ChatUnauthorized, ChatSessionInvalid, ChatRunInvalid
  <2>2. \/ account' = [account EXCEPT ![pool[r]] = OneOk(@)]
        \/ account' = [account EXCEPT ![pool[r]] = OneBad(@)]
        \/ UNCHANGED account
    BY <1>3 DEF ChatOk, ChatFailed, ChatUnauthorized, ChatSessionInvalid, ChatRunInvalid, counts
  <2> QED
    BY <2>1, <2>2, OutcomeKeepsAccounts
<1>4. CASE UNCHANGED <<pc, pool, stats, account>>
  BY <1>4 DEF AccountsAddUp, Chatting
<1>5. Elsewhere => AccountsAddUp'
  BY ElsewhereKeepsAccounts
<1> HIDE DEF Elsewhere
<1> QED
  BY <1>1, <1>2, <1>3, <1>4, <1>5, AcquireKeepsAccounts, PoolsCountNothing DEF Next, Acquire, Chat

\* At first nothing is counted.
LEMMA InitCounts == Init => StatsAddUp /\ AccountsAddUp
<1> SUFFICES ASSUME Init PROVE StatsAddUp /\ AccountsAddUp
  OBVIOUS
<1>1. Started = {} /\ Over = {} /\ \A p \in Pools : Chatting(p) = {}
  BY DEF Init, Started, Over, Chatting, Answered
<1>2. Cardinality(Started) = 0 /\ Cardinality(Over) = 0 /\ \A p \in Pools : Cardinality(Chatting(p)) = 0
  BY <1>1, Finite, FS_EmptySet
<1>3. StatsAddUp
  BY <1>2 DEF Init, StatsAddUp, Started, Over
<1>4. AccountsAddUp
  BY <1>2 DEF Init, AccountsAddUp
<1> QED
  BY <1>3, <1>4

\* The inductive invariant of the counts.
THEOREM CountInductive == Spec => []CountInv
<1>1. Init => CountInv
  BY InitTypeOK, InitCounts DEF CountInv
<1>2. CountInv /\ [Next]_vars => CountInv'
  BY NextTypeOK, NextStats, NextAccounts DEF CountInv
<1> QED
  BY <1>1, <1>2, PTL DEF Spec

\* Every request counts once when it starts, and its outcome once.
THEOREM RequestsCountedOnce == Spec => []StatsAddUp
<1>1. CountInv => StatsAddUp
  BY DEF CountInv
<1> QED
  BY CountInductive, <1>1, PTL

\* No account counts more outcomes than attempts.
THEOREM AttemptsCoverOutcomes == Spec => []AccountsAddUp
<1>1. CountInv => AccountsAddUp
  BY DEF CountInv
<1> QED
  BY CountInductive, <1>1, PTL

-----------------------------------------------------------------------------
(* The way to the answer.                                                  *)

\* How many stages a request still has before it: those of an attempt, and
\* those of the second attempt while it is at the first.
Ahead(r) ==
    10 * (1 - attempt[r]) +
    CASE pc[r] = "new"                    -> 6
      [] pc[r] = "listing"                -> 5
      [] pc[r] \in Walking                -> 4
      [] pc[r] = "chatting"               -> 3
      [] pc[r] \in {"retrying", "marking"} -> 2
      [] pc[r] \in {"streaming", "ending"} -> 1
      [] pc[r] = "done"                   -> 0

\* A step brings a request on: to a later stage, or within the walk past one
\* more look, or back to the walk from the pool the look led to.
Advances(r) ==
    \/ Ahead(r)' < Ahead(r)
    \/ /\ Ahead(r)' = Ahead(r)
       /\ \/ left'[r] \subseteq left[r] /\ left'[r] # left[r]
          \/ left'[r] = left[r] /\ pc[r] = "acquiring" /\ pc'[r] = "walking"

\* Nothing another request, a session or an account does sets a request back.
NeverBack ==
    \A r \in Requests : Advances(r) \/ UNCHANGED <<pc[r], attempt[r], left[r]>>

\* A step of its own brings a request on.
LEMMA OwnAdvance ==
  ASSUME TypeOK, NEW r \in Requests, Start(r) \/ Acquire(r) \/ Chat(r)
  PROVE  Advances(r)
<1> USE DEF Ahead, Advances, TypeOK, Walking, walk, counts
<1>1. CASE Start(r)
  BY <1>1 DEF Start
<1>2. CASE List(r)
  BY <1>2 DEF List
<1>3. ASSUME NEW v \in left[r], Look(r, v) PROVE Advances(r)
  <2>1. left'[r] \subseteq left[r] /\ left'[r] # left[r]
    BY <1>3 DEF Look
  <2>2. Ahead(r)' = Ahead(r)
    BY <1>3 DEF Look
  <2> QED
    BY <2>1, <2>2
<1>4. CASE AcquireFails(r)
  BY <1>4 DEF AcquireFails
<1>5. CASE AcquireOk(r)
  BY <1>5 DEF AcquireOk
<1>6. CASE GiveUp(r)
  BY <1>6 DEF GiveUp
<1>7. CASE ChatOk(r)
  BY <1>7 DEF ChatOk
<1>8. CASE ChatFailed(r)
  BY <1>8 DEF ChatFailed
<1>9. CASE ChatUnauthorized(r)
  BY <1>9 DEF ChatUnauthorized
<1>10. CASE MarkInvalid(r)
  BY <1>10 DEF MarkInvalid
<1>11. CASE ChatSessionInvalid(r)
  BY <1>11 DEF ChatSessionInvalid
<1>12. CASE ChatRunInvalid(r)
  BY <1>12 DEF ChatRunInvalid
<1>13. CASE Release(r)
  BY <1>13 DEF Release
<1>14. CASE ReleaseAndRetry(r)
  BY <1>14 DEF ReleaseAndRetry
<1> QED
  BY <1>1, <1>2, <1>3, <1>4, <1>5, <1>6, <1>7, <1>8, <1>9, <1>10, <1>11, <1>12, <1>13, <1>14
     DEF Acquire, Chat

\* A step of another request leaves a request where it stands.
LEMMA OthersStand ==
  ASSUME TypeOK, NEW r \in Requests, Start(r) \/ Acquire(r) \/ Chat(r),
         NEW s \in Requests, s # r
  PROVE  UNCHANGED <<pc[s], attempt[s], left[s]>>
<1> USE DEF TypeOK, walk, counts
<1>1. CASE Start(r) \/ List(r) \/ AcquireFails(r) \/ AcquireOk(r) \/ GiveUp(r)
  BY <1>1 DEF Start, List, AcquireFails, AcquireOk, GiveUp
<1>2. ASSUME NEW v \in left[r], Look(r, v) PROVE UNCHANGED <<pc[s], attempt[s], left[s]>>
  BY <1>2 DEF Look
<1>3. CASE Chat(r)
  BY <1>3 DEF Chat, ChatOk, ChatFailed, ChatUnauthorized, MarkInvalid, ChatSessionInvalid,
     ChatRunInvalid, Release, ReleaseAndRetry
<1> QED
  BY <1>1, <1>2, <1>3 DEF Acquire

\* What GetsAnswered rests on besides fairness: every step of a request brings
\* it on in a well-founded order (there are finitely many looks, and at most
\* two attempts), and no step of anybody else sets it back, however often
\* sessions come and go and pools are made and retired during the walk.
THEOREM WalksEnd == Spec => [][NeverBack]_vars
<1>1. ASSUME TypeOK, Next PROVE NeverBack
  <2>1. ASSUME NEW r \in Requests, Start(r) \/ Acquire(r) \/ Chat(r) PROVE NeverBack
    BY <1>1, <2>1, OwnAdvance, OthersStand DEF NeverBack
  <2>2. ASSUME NEW p \in Pools, SessionMoves(p) \/ Sync(p) PROVE NeverBack
    BY <2>2 DEF NeverBack, SessionMoves, Sync, walk
  <2> QED
    BY <1>1, <2>1, <2>2 DEF Next
<1>2. TypeOK /\ [Next]_vars => [NeverBack]_vars
  BY <1>1
<1> QED
  BY TypeCorrect, <1>2, PTL DEF Spec

=============================================================================
