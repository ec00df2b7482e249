------------------------------ MODULE ChatProxy ------------------------------
(***************************************************************************)
(* A chat request on its way over the pools: the two attempts of           *)
(* proxyChatCompletions (server.go), the walk of RunManager.Acquire over   *)
(* the candidates (run_manager.go), and what both write down about it.     *)
(*                                                                         *)
(* A step is one look at a pool, one reply of the upstream, or one return. *)
(* The counters are SQL increments nobody reads in between, so each is a   *)
(* part of the step before it; they are those of a store that works        *)
(* (withStatsContext logs and drops an error).                             *)
(*                                                                         *)
(* What goes on inside a pool is the matter of TokenPool and FreeSession:  *)
(* here a pool has a ready session or not, which may change at any time,   *)
(* and its acquire succeeds or fails.  The order of the candidates inside  *)
(* a group of one priority is any order.                                   *)
(***************************************************************************)
EXTENDS Integers, FiniteSets

CONSTANTS
    Requests,   \* chat requests; each is made once, which bounds their number
    Pools,      \* tokenPools, each with an account of its own
    Priority,   \* pool.priority
    NoPool      \* lease is nil

ASSUME ConstantsAssumption ==
    /\ IsFiniteSet(Requests)
    /\ Priority \in [Pools -> Int]
    /\ NoPool \notin Pools

VARIABLES
    stage,    \* of each pool: not made yet, in m.activePools, or retired
    ready,    \* what hasReadySession says of each pool
    pc,       \* where each request stands
    attempt,  \* the attempt of the retry loop a request is at
    pool,     \* the pool a request tries, and then the pool of its lease
    left,     \* the looks Acquire still has to take: a pool in a pass
    listed,   \* candidates of the Acquire under way
    stats,    \* the row of request_stats
    account,  \* the counters of the rows of accounts
    tried,    \* history: candidates whose acquire has been called
    moved     \* history: pools whose readiness changed since the list was read

walk   == <<left, listed, tried>>
counts == <<stats, account>>
vars   == <<stage, ready, pc, attempt, pool, walk, counts, moved>>

Passes   == {0, 1}
Counters == [total : Nat, ok : Nat, bad : Nat]
Walking  == {"walking", "acquiring"}
Answered == {"streaming", "marking", "ending", "done"}
PCs      == {"new", "listing", "chatting", "retrying"} \cup Walking \cup Answered

\* Every variable has its type, and a request has a pool while it needs one.
TypeOK ==
    /\ stage \in [Pools -> {"new", "active", "retired"}]
    /\ ready \in [Pools -> BOOLEAN]
    /\ pc \in [Requests -> PCs]
    /\ attempt \in [Requests -> {0, 1}]
    /\ pool \in [Requests -> Pools \cup {NoPool}]
    /\ left \in [Requests -> SUBSET (Pools \X Passes)]
    /\ listed \in [Requests -> SUBSET Pools]
    /\ stats \in Counters
    /\ account \in [Pools -> Counters]
    /\ tried \in [Requests -> SUBSET Pools]
    /\ moved \in [Requests -> SUBSET Pools]
    /\ \A r \in Requests :
         pool[r] = NoPool <=> pc[r] \in {"new", "listing", "walking", "done"}

Init ==
    /\ stage \in [Pools -> {"new", "active"}]
    /\ ready = [p \in Pools |-> FALSE]
    /\ pc = [r \in Requests |-> "new"]
    /\ attempt = [r \in Requests |-> 0]
    /\ pool = [r \in Requests |-> NoPool]
    /\ left = [r \in Requests |-> {}]
    /\ listed = [r \in Requests |-> {}]
    /\ stats = [total |-> 0, ok |-> 0, bad |-> 0]
    /\ account = [p \in Pools |-> [total |-> 0, ok |-> 0, bad |-> 0]]
    /\ tried = [r \in Requests |-> {}]
    /\ moved = [r \in Requests |-> {}]

-----------------------------------------------------------------------------
(* Helpers.                                                                *)

\* RecordRequestSuccess, RecordRequestFailure, and what they do to the account.
OneOk(c)  == [c EXCEPT !.ok = @ + 1]
OneBad(c) == [c EXCEPT !.bad = @ + 1]

\* A session comes or goes; every walk under way has seen it change.
SetReady(p, now) ==
    /\ ready' = [ready EXCEPT ![p] = now]
    /\ moved' = [r \in Requests |->
                   IF pc[r] \in Walking /\ ready[p] # now THEN moved[r] \cup {p} ELSE moved[r]]

\* Mutant: the priorities are sorted without sort.Reverse.
BeforeAscending(u, v) ==
    \/ Priority[u[1]] < Priority[v[1]]
    \/ Priority[u[1]] = Priority[v[1]] /\ u[2] < v[2]

\* Acquire takes the groups by descending priority, and each group twice.
Before(u, v) ==
    \/ Priority[u[1]] > Priority[v[1]]
    \/ Priority[u[1]] = Priority[v[1]] /\ u[2] < v[2]

\* Mutant: both passes take the pools with a session.
WantedReady(v) == ready[v[1]]

\* The first pass is for the pools with a session, the second for the others.
Wanted(v) == ready[v[1]] <=> v[2] = 0

-----------------------------------------------------------------------------
(* RunManager.Acquire.                                                     *)

\* The request is decoded and its model is known: RecordRequestStart.
Start(r) ==
    /\ pc[r] = "new"
    /\ pc' = [pc EXCEPT ![r] = "listing"]
    /\ stats' = [stats EXCEPT !.total = @ + 1]
    /\ UNCHANGED <<stage, ready, attempt, pool, walk, account, moved>>

\* Acquire copies the active pools; without any the request fails at once.
List(r) ==
    /\ pc[r] = "listing"
    /\ LET active == {p \in Pools : stage[p] = "active"}
       IN  IF active = {}
           THEN /\ pc' = [pc EXCEPT ![r] = "done"]
                /\ stats' = OneBad(stats)
                /\ UNCHANGED <<left, listed>>
           ELSE /\ pc' = [pc EXCEPT ![r] = "walking"]
                /\ left' = [left EXCEPT ![r] = active \X Passes]
                /\ listed' = [listed EXCEPT ![r] = active]
                /\ UNCHANGED stats
    /\ UNCHANGED <<stage, ready, attempt, pool, account, tried, moved>>

\* The next candidate is looked at: passed over, or acquire is called.
Look(r, v) ==
    /\ pc[r] = "walking"
    /\ v \in left[r]
    /\ \A u \in left[r] : ~Before(u, v)
    /\ left' = [left EXCEPT ![r] = @ \ {v}]
    /\ IF Wanted(v)
       THEN /\ pc' = [pc EXCEPT ![r] = "acquiring"]
            /\ pool' = [pool EXCEPT ![r] = v[1]]
            /\ tried' = [tried EXCEPT ![r] = @ \cup {v[1]}]
       ELSE UNCHANGED <<pc, pool, tried>>
    /\ UNCHANGED <<stage, ready, attempt, listed, counts, moved>>

\* Mutant: the walk starts anew after a failure.
AcquireFailsAnew(r) ==
    /\ pc[r] = "acquiring"
    /\ pc' = [pc EXCEPT ![r] = "listing"]
    /\ pool' = [pool EXCEPT ![r] = NoPool]
    /\ UNCHANGED <<stage, ready, attempt, walk, counts, moved>>

\* The candidate cools down, or its run or its session cannot be had.
AcquireFails(r) ==
    /\ pc[r] = "acquiring"
    /\ pc' = [pc EXCEPT ![r] = "walking"]
    /\ pool' = [pool EXCEPT ![r] = NoPool]
    /\ UNCHANGED <<stage, ready, attempt, walk, counts, moved>>

\* Mutant: only the first attempt is recorded.
AcquireOkFirst(r) ==
    /\ pc[r] = "acquiring"
    /\ pc' = [pc EXCEPT ![r] = "chatting"]
    /\ account' = [account EXCEPT ![pool[r]].total = IF attempt[r] = 0 THEN @ + 1 ELSE @]
    /\ left' = [left EXCEPT ![r] = {}]
    /\ listed' = [listed EXCEPT ![r] = {}]
    /\ tried' = [tried EXCEPT ![r] = {}]
    /\ moved' = [moved EXCEPT ![r] = {}]
    /\ UNCHANGED <<stage, ready, attempt, pool, stats>>

\* The request has its lease: RecordAccountAttempt.
AcquireOk(r) ==
    /\ pc[r] = "acquiring"
    /\ pc' = [pc EXCEPT ![r] = "chatting"]
    /\ account' = [account EXCEPT ![pool[r]].total = @ + 1]
    /\ left' = [left EXCEPT ![r] = {}]
    /\ listed' = [listed EXCEPT ![r] = {}]
    /\ tried' = [tried EXCEPT ![r] = {}]
    /\ moved' = [moved EXCEPT ![r] = {}]
    /\ UNCHANGED <<stage, ready, attempt, pool, stats>>

\* No candidate is left: "no healthy upstream auth token available".
GiveUp(r) ==
    /\ pc[r] = "walking"
    /\ left[r] = {}
    /\ pc' = [pc EXCEPT ![r] = "done"]
    /\ stats' = OneBad(stats)
    /\ listed' = [listed EXCEPT ![r] = {}]
    /\ tried' = [tried EXCEPT ![r] = {}]
    /\ moved' = [moved EXCEPT ![r] = {}]
    /\ UNCHANGED <<stage, ready, attempt, pool, left, account>>

-----------------------------------------------------------------------------
(* proxyChatCompletions with a lease.                                      *)

\* A reply of the 200s: both counts are made before the body is copied.
ChatOk(r) ==
    /\ pc[r] = "chatting"
    /\ pc' = [pc EXCEPT ![r] = "streaming"]
    /\ stats' = OneOk(stats)
    /\ account' = [account EXCEPT ![pool[r]] = OneOk(@)]
    /\ UNCHANGED <<stage, ready, attempt, pool, walk, moved>>

\* The call fails, or the upstream replies with an error that is passed on.
ChatFailed(r) ==
    /\ pc[r] = "chatting"
    /\ pc' = [pc EXCEPT ![r] = "ending"]
    /\ stats' = OneBad(stats)
    /\ account' = [account EXCEPT ![pool[r]] = OneBad(@)]
    /\ UNCHANGED <<stage, ready, attempt, pool, walk, moved>>

\* The token is rejected: as above, and the session of the pool is dropped (its
\* cooldown is TokenPool's); the account is about to be marked.
ChatUnauthorized(r) ==
    /\ pc[r] = "chatting"
    /\ pc' = [pc EXCEPT ![r] = "marking"]
    /\ stats' = OneBad(stats)
    /\ account' = [account EXCEPT ![pool[r]] = OneBad(@)]
    /\ SetReady(pool[r], FALSE)
    /\ UNCHANGED <<stage, attempt, pool, walk>>

\* MarkInvalid takes the account's pool out of service, unless that fails or
\* another operation on the accounts comes between (AccountSync).
MarkInvalid(r) ==
    /\ pc[r] = "marking"
    /\ pc' = [pc EXCEPT ![r] = "ending"]
    /\ \/ stage' = [stage EXCEPT ![pool[r]] = "retired"]
       \/ UNCHANGED stage
    /\ UNCHANGED <<ready, attempt, pool, walk, counts, moved>>

\* The session is rejected: it is dropped, and nothing is counted.
ChatSessionInvalid(r) ==
    /\ pc[r] = "chatting"
    /\ pc' = [pc EXCEPT ![r] = "retrying"]
    /\ SetReady(pool[r], FALSE)
    /\ UNCHANGED <<stage, attempt, pool, walk, counts>>

\* Mutant: the failure is counted for the request as well.
ChatRunInvalidTwice(r) ==
    /\ pc[r] = "chatting"
    /\ pc' = [pc EXCEPT ![r] = "retrying"]
    /\ account' = [account EXCEPT ![pool[r]] = OneBad(@)]
    /\ stats' = OneBad(stats)
    /\ UNCHANGED <<stage, ready, attempt, pool, walk, moved>>

\* The run is rejected: a failure of the account, not yet of the request.
ChatRunInvalid(r) ==
    /\ pc[r] = "chatting"
    /\ pc' = [pc EXCEPT ![r] = "retrying"]
    /\ account' = [account EXCEPT ![pool[r]] = OneBad(@)]
    /\ UNCHANGED <<stage, ready, attempt, pool, walk, stats, moved>>

\* The lease of an answered request is given back.
Release(r) ==
    /\ pc[r] \in {"streaming", "ending"}
    /\ pc' = [pc EXCEPT ![r] = "done"]
    /\ pool' = [pool EXCEPT ![r] = NoPool]
    /\ UNCHANGED <<stage, ready, attempt, walk, counts, moved>>

\* The lease is given back before the second attempt, or after it: "upstream
\* run expired twice in a row".
ReleaseAndRetry(r) ==
    /\ pc[r] = "retrying"
    /\ pool' = [pool EXCEPT ![r] = NoPool]
    /\ IF attempt[r] = 0
       THEN /\ attempt' = [attempt EXCEPT ![r] = 1]
            /\ pc' = [pc EXCEPT ![r] = "listing"]
            /\ UNCHANGED stats
       ELSE /\ pc' = [pc EXCEPT ![r] = "done"]
            /\ stats' = OneBad(stats)
            /\ UNCHANGED attempt
    /\ UNCHANGED <<stage, ready, walk, account, moved>>

-----------------------------------------------------------------------------
(* What else moves the pools.                                              *)

\* A session is made or renewed, expires or is dropped (FreeSession).
SessionMoves(p) ==
    /\ SetReady(p, ~ready[p])
    /\ UNCHANGED <<stage, pc, attempt, pool, walk, counts>>

\* SyncAccounts makes a pool, or retires one.
Sync(p) ==
    /\ \/ stage[p] = "new" /\ stage' = [stage EXCEPT ![p] = "active"]
       \/ stage[p] = "active" /\ stage' = [stage EXCEPT ![p] = "retired"]
    /\ UNCHANGED <<ready, pc, attempt, pool, walk, counts, moved>>

-----------------------------------------------------------------------------
Acquire(r) == List(r) \/ (\E v \in left[r] : Look(r, v)) \/ AcquireFails(r) \/ AcquireOk(r) \/ GiveUp(r)

Chat(r) ==
    \/ ChatOk(r)
    \/ ChatFailed(r)
    \/ ChatUnauthorized(r)
    \/ MarkInvalid(r)
    \/ ChatSessionInvalid(r)
    \/ ChatRunInvalid(r)
    \/ Release(r)
    \/ ReleaseAndRetry(r)

Next ==
    \/ \E r \in Requests : Start(r) \/ Acquire(r) \/ Chat(r)
    \/ \E p \in Pools : SessionMoves(p) \/ Sync(p)

Spec == Init /\ [][Next]_vars

\* A handler that can move does: every call of the upstream answers or times
\* out.  Requests need not come, and sessions and accounts need not move.
FairSpec == Spec /\ \A r \in Requests : WF_vars(Acquire(r) \/ Chat(r))

-----------------------------------------------------------------------------
(* Properties.                                                             *)

\* request_stats adds up: every request is counted once when it starts and its
\* outcome is counted once, whichever of the ways out it takes.
StatsAddUp ==
    /\ stats.total = Cardinality({r \in Requests : pc[r] # "new"})
    /\ stats.ok + stats.bad = Cardinality({r \in Requests : pc[r] \in Answered})

\* An account never counts more outcomes than attempts, those whose outcome is
\* still to come taken off.
Chatting(p) == {r \in Requests : pc[r] = "chatting" /\ pool[r] = p}
AccountsAddUp ==
    \A p \in Pools :
      account[p].ok + account[p].bad + Cardinality(Chatting(p)) <= account[p].total

\* Acquire gives up only when it has called acquire of every candidate, except
\* of those whose session came or went meanwhile: the two passes together leave
\* nobody out.
NobodyPassedOver ==
    \A r \in Requests :
      pc[r] = "walking" /\ left[r] = {} => listed[r] \subseteq tried[r] \cup moved[r]

\* A candidate is only tried when those of a higher priority have been, and,
\* within its group, one without a session only when those with one have been.
BestFirst ==
    \A r \in Requests : pc[r] = "acquiring" =>
      \A p \in listed[r] \ (tried[r] \cup moved[r]) :
        /\ Priority[p] <= Priority[pool[r]]
        /\ Priority[p] = Priority[pool[r]] /\ pool[r] \notin moved[r] /\ ready[p]
             => ready[pool[r]]

\* A candidate that is neither tried nor has moved is still to be looked at, in
\* the pass that takes it.
LookToCome ==
    \A r \in Requests : pc[r] \in Walking =>
      \A p \in listed[r] \ (tried[r] \cup moved[r]) :
        <<p, IF ready[p] THEN 0 ELSE 1>> \in left[r]

\* The inductive invariants of the proofs in ChatProxyProofs.
WalkInv  == TypeOK /\ LookToCome /\ BestFirst
CountInv == TypeOK /\ StatsAddUp /\ AccountsAddUp

\* A request that has started is answered: its attempts and its walk end.
GetsAnswered == \A r \in Requests : pc[r] = "listing" ~> pc[r] = "done"

\* What the reply says when Acquire gives up: no candidate could be had.  It
\* does not hold: see NobodyPassedOver.
NoneAvailable ==
    \A r \in Requests : pc[r] = "walking" /\ left[r] = {} => listed[r] \subseteq tried[r]

=============================================================================
