----------------------------- MODULE PoolRegistry -----------------------------
(***************************************************************************)
(* RunManager (run_manager.go): the pools of several accounts, from        *)
(* SyncAccounts that makes and retires them to maintainAll that lets them  *)
(* go, the requests that still use a pool from a list they took earlier,   *)
(* and the shutdown in the order of main.go.                               *)
(*                                                                         *)
(* Of a pool only its book is kept: the current run (of one agent), the    *)
(* draining runs, and who leases them; TokenPool has the inside.  A step   *)
(* is one critical section of m.mu, one visit of the ticker to a pool, or  *)
(* one step of a request at a pool; a FINISH is part of the step that      *)
(* sends it.  Sessions, and with them the two passes of Acquire, are left  *)
(* to ChatProxy: a request tries the candidates it listed as it likes.     *)
(* An account's token is abstracted to whether SyncAccounts finds a new    *)
(* one; AccountSync has the tokens.                                        *)
(***************************************************************************)
EXTENDS PoolOrder

CONSTANTS
    Accounts,
    Priority,   \* of each account
    Weight,     \* of each account
    Label,      \* of each account, as a number
    Pools,      \* bounds the pools ever made
    Runs,       \* bounds the runs the upstream hands out
    Requests,
    NoAccount,  \* owner of a pool not made yet
    NoPool,
    NoRun,
    SeedCount   \* m.next counts modulo this: 2^64 in the code

ASSUME ConstantsAssumption ==
    /\ NoAccount \notin Accounts
    /\ NoPool \notin Pools
    /\ NoRun \notin Runs
    /\ Priority \in [Accounts -> Int]
    /\ Weight \in [Accounts -> Int]
    /\ Label \in [Accounts -> Int]
    /\ SeedCount \in Nat \ {0}
    /\ IsFiniteSet(Accounts)

VARIABLES
    owner,     \* pool.accountID, once the pool is made
    active,    \* m.activePools
    departing, \* m.retiredPools
    next,      \* m.next
    current,   \* the current run of each pool
    draining,  \* the draining runs of each pool
    live,      \* external: the runs the upstream serves
    used,      \* external: the run ids it has handed out
    pc,        \* where each request stands
    list,      \* the candidates each request has listed
    pool,      \* the pool a request tries or holds a lease of
    run,       \* the run it leases
    prewarm,   \* pools some prewarmPools has yet to rotate
    ticking,   \* maintainAll is under way
    toRotate,  \* pools it lists as active and has yet to visit
    toEmpty,   \* pools it lists as retired and has yet to visit
    phase,     \* of the process
    toClose,   \* pools Close has yet to shut down
    witness,   \* history: the requests that had listed a pool when it retired
    stray,     \* history: runs that a request or the prewarming started at a
               \* pool that was let go already
    excused    \* history: runs that outlive Close for a known reason

registry == <<owner, active, departing>>
books    == <<current, draining, live, used>>
requests == <<pc, list, pool, run>>
ticker   == <<ticking, toRotate, toEmpty>>
process  == <<phase, toClose>>
history  == <<witness, stray, excused>>
vars == <<registry, next, books, requests, prewarm, ticker, process, history>>

Seeds == 0 .. SeedCount - 1

TypeOK ==
    /\ owner \in [Pools -> Accounts \cup {NoAccount}]
    /\ active \in [Accounts -> Pools \cup {NoPool}]
    /\ \A a \in Accounts : active[a] \in Pools => owner[active[a]] = a
    /\ departing \in SUBSET Pools
    /\ next \in Seeds
    /\ current \in [Pools -> Runs \cup {NoRun}]
    /\ draining \in [Pools -> SUBSET Runs]
    /\ live \in SUBSET used
    /\ used \in SUBSET Runs
    /\ pc \in [Requests -> {"idle", "walking", "acquiring", "session", "held", "released"}]
    /\ list \in [Requests -> SUBSET Pools]
    /\ pool \in [Requests -> Pools \cup {NoPool}]
    /\ run \in [Requests -> Runs \cup {NoRun}]
    /\ \A q \in Requests :
         /\ pc[q] \in {"acquiring", "session", "held"} => pool[q] \in Pools
         /\ pc[q] = "held" <=> run[q] # NoRun
    /\ prewarm \in SUBSET Pools
    /\ ticking \in BOOLEAN
    /\ toRotate \in SUBSET Pools
    /\ toEmpty \in SUBSET Pools
    /\ phase \in {"boot", "up", "stopping", "cancelled", "closing"}
    /\ toClose \in SUBSET Pools
    /\ witness \in [Pools -> SUBSET Requests]
    /\ stray \in SUBSET Runs
    /\ excused \in SUBSET Runs

-----------------------------------------------------------------------------
(* Pools and their books.                                                  *)

Made(p) == owner[p] # NoAccount

activePools == {active[a] : a \in Accounts} \ {NoPool}

\* p.retired
Retired(p) == Made(p) /\ p \notin activePools

Registered(p) == p \in activePools \cup departing

Book(p) == draining[p] \cup ({current[p]} \ {NoRun})

isIdle(p) == Book(p) = {}

Leased(r) == \E q \in Requests : run[q] = r

\* What finishIfReady asks for: nobody leases the run, and it is replaced or
\* its pool has retired.
Ready(p, r) == ~Leased(r) /\ (r \in draining[p] \/ Retired(p))

\* The runs done are finished: the upstream ends them, and they leave the book.
Finish(p, done) ==
    /\ live' = live \ done
    /\ draining' = [draining EXCEPT ![p] = @ \ done]
    /\ current' = [current EXCEPT ![p] = IF @ \in done THEN NoRun ELSE @]

\* rotateAgent at p, whose StartRun is answered with r.
Install(p, r) ==
    /\ r \notin used
    /\ used' = used \cup {r}
    /\ live' = live \cup {r}
    /\ draining' = [draining EXCEPT ![p] = Book(p)]
    /\ current' = [current EXCEPT ![p] = r]

\* A request or the prewarming is late when the pool is let go already.
Strays(p, r) == stray' = IF Registered(p) THEN stray ELSE stray \cup {r}

-----------------------------------------------------------------------------
(* SyncAccounts, Start and the prewarming.                                 *)

Init ==
    /\ owner = [p \in Pools |-> NoAccount]
    /\ active = [a \in Accounts |-> NoPool]
    /\ departing = {}
    /\ next = 0
    /\ current = [p \in Pools |-> NoRun]
    /\ draining = [p \in Pools |-> {}]
    /\ live = {}
    /\ used = {}
    /\ pc = [q \in Requests |-> "idle"]
    /\ list = [q \in Requests |-> {}]
    /\ pool = [q \in Requests |-> NoPool]
    /\ run = [q \in Requests |-> NoRun]
    /\ prewarm = {}
    /\ ticking = FALSE
    /\ toRotate = {}
    /\ toEmpty = {}
    /\ phase = "boot"
    /\ toClose = {}
    /\ witness = [p \in Pools |-> {}]
    /\ stray = {}
    /\ excused = {}

\* The pools that stop being active are retired, all of them and only them.
RetireOthers(newActive) ==
    LET gone == activePools \ {newActive[a] : a \in Accounts}
    IN  /\ departing' = departing \cup gone
        /\ witness' = [p \in Pools |-> IF p \in gone THEN {q \in Requests : p \in list[q]}
                                       ELSE witness[p]]

\* SyncAccounts with the accounts on, of which those in new have a token no
\* active pool of theirs has.  Operations of the console may outlive the
\* shutdown of the HTTP server, so it happens in every phase.
SyncAccounts(on, new, made) ==
    LET newActive == [a \in Accounts |-> IF a \in new THEN made[a]
                                         ELSE IF a \in on THEN active[a] ELSE NoPool]
    IN  /\ \A a \in on \ new : active[a] # NoPool
        /\ \A a, b \in new : made[a] = made[b] => a = b
        /\ active' = newActive
        /\ owner' = [p \in Pools |-> IF \E a \in new : made[a] = p
                                     THEN CHOOSE a \in new : made[a] = p ELSE owner[p]]
        /\ RetireOthers(newActive)
        /\ prewarm' = IF phase = "boot" THEN prewarm
                      ELSE prewarm \cup {made[a] : a \in new}
        /\ UNCHANGED <<next, books, requests, ticker, process, stray, excused>>

Sync ==
    \E on \in SUBSET Accounts : \E new \in SUBSET on :
        \E made \in [new -> {p \in Pools : ~Made(p)}] : SyncAccounts(on, new, made)

\* Start sets m.runCtx, prewarms what is active, and starts the ticker.
Start ==
    /\ phase = "boot"
    /\ phase' = "up"
    /\ prewarm' = activePools
    /\ UNCHANGED <<registry, next, books, requests, ticker, toClose, history>>

\* prewarmPools comes to p: rotateAgent succeeds, while its context lives, ...
PrewarmRotates(p, r) ==
    /\ p \in prewarm
    /\ phase \in {"up", "stopping"}
    /\ Install(p, r)
    /\ Strays(p, r)
    /\ prewarm' = prewarm \ {p}
    /\ UNCHANGED <<registry, next, requests, ticker, process, witness, excused>>

\* ... or fails.
PrewarmFails(p) ==
    /\ p \in prewarm
    /\ prewarm' = prewarm \ {p}
    /\ UNCHANGED <<registry, next, books, requests, ticker, process, history>>

-----------------------------------------------------------------------------
(* Requests.                                                               *)

\* Mutant: a second attempt walks over the candidates of the first.
CandidatesKept(q) == IF list[q] # {} THEN list[q] ELSE activePools

\* The candidates are the pools that are active now.
Candidates(q) == activePools

\* Acquire of a new request, or of the second attempt of one: the candidates
\* are listed and the seed is drawn.  (How often a handler tries again is left
\* open.)
Acquire(q) ==
    /\ \/ pc[q] = "idle" /\ phase = "up"
       \/ pc[q] = "released"
    /\ Candidates(q) # {}
    /\ list' = [list EXCEPT ![q] = Candidates(q)]
    /\ next' = (next + 1) % SeedCount
    /\ pc' = [pc EXCEPT ![q] = "walking"]
    /\ witness' = [p \in Pools |-> witness[p] \ {q}]
    /\ UNCHANGED <<registry, books, pool, run, prewarm, ticker, process, stray, excused>>

\* The request comes to one of its candidates.
Try(q, p) ==
    /\ pc[q] = "walking"
    /\ p \in list[q]
    /\ pool' = [pool EXCEPT ![q] = p]
    /\ pc' = [pc EXCEPT ![q] = "acquiring"]
    /\ UNCHANGED <<registry, next, books, list, run, prewarm, ticker, process, history>>

\* acquire finds a run that is young enough, ...
RunFound(q) ==
    /\ pc[q] = "acquiring"
    /\ current[pool[q]] # NoRun
    /\ pc' = [pc EXCEPT ![q] = "session"]
    /\ UNCHANGED <<registry, next, books, list, pool, run, prewarm, ticker, process, history>>

\* ... or rotates.  A run started once Close has listed its pools is nobody's.
Rotates(q, r) ==
    /\ pc[q] = "acquiring"
    /\ Install(pool[q], r)
    /\ Strays(pool[q], r)
    /\ excused' = IF phase = "closing" THEN excused \cup {r} ELSE excused
    /\ pc' = [pc EXCEPT ![q] = "session"]
    /\ UNCHANGED <<registry, next, list, pool, run, prewarm, ticker, process, witness>>

\* The pool cools down, its run or its session cannot be had.
AcquireFails(q) ==
    /\ pc[q] \in {"acquiring", "session"}
    /\ pc' = [pc EXCEPT ![q] = "walking"]
    /\ pool' = [pool EXCEPT ![q] = NoPool]
    /\ UNCHANGED <<registry, next, books, list, run, prewarm, ticker, process, history>>

RunIsThere(p) == current[p] # NoRun

\* acquire leases the current run.
Leases(q) ==
    /\ pc[q] = "session"
    /\ RunIsThere(pool[q])
    /\ run' = [run EXCEPT ![q] = current[pool[q]]]
    /\ pc' = [pc EXCEPT ![q] = "held"]
    /\ UNCHANGED <<registry, next, books, list, pool, prewarm, ticker, process, history>>

\* The upstream has rejected the run: invalidate strikes it from the book.
RunInvalid(q) ==
    /\ pc[q] = "held"
    /\ run[q] \in live
    /\ Finish(pool[q], {run[q]})
    /\ UNCHANGED <<registry, next, used, requests, prewarm, ticker, process, history>>

\* release, and the FINISH it may lead to, which the upstream accepts or not.
\* The request may have missed the write of p.retired.
Release(q, done) ==
    LET p == pool[q]
        r == run[q]
        free == \A s \in Requests \ {q} : run[s] # r
    IN  /\ pc[q] = "held"
        /\ done \subseteq {r} \cap Book(p)
        /\ r \in done => free /\ (r \in draining[p] \/ Retired(p))
        /\ Finish(p, done)
        /\ run' = [run EXCEPT ![q] = NoRun]
        /\ pool' = [pool EXCEPT ![q] = NoPool]
        /\ pc' = [pc EXCEPT ![q] = "released"]
        /\ UNCHANGED <<registry, next, used, list, prewarm, ticker, process, history>>

\* The request is answered, or Acquire has found nothing for it.
Answer(q) ==
    /\ pc[q] \in {"walking", "released"}
    /\ pc' = [pc EXCEPT ![q] = "idle"]
    /\ list' = [list EXCEPT ![q] = {}]
    /\ UNCHANGED <<registry, next, books, pool, run, prewarm, ticker, process, history>>

\* The goroutine of a replaced run.
FinishDrained(p, r) ==
    /\ r \in draining[p]
    /\ Ready(p, r)
    /\ Finish(p, {r})
    /\ UNCHANGED <<registry, next, used, requests, prewarm, ticker, process, history>>

-----------------------------------------------------------------------------
(* maintainAll.                                                            *)

\* A tick: both lists are taken in one critical section.
MaintainList ==
    /\ phase \in {"up", "stopping", "cancelled"}
    /\ ~ticking
    /\ ticking' = TRUE
    /\ toRotate' = activePools
    /\ toEmpty' = departing
    /\ UNCHANGED <<registry, next, books, requests, prewarm, process, history>>

\* maintain(active): an old run is rotated.  (What drains is finished by
\* FinishDrained, which needs no ticker.)
MaintainRotates(p, r) ==
    /\ p \in toRotate
    /\ current[p] # NoRun
    /\ Install(p, r)
    /\ toRotate' = toRotate \ {p}
    /\ UNCHANGED <<registry, next, requests, prewarm, ticking, toEmpty, process, history>>

MaintainActive(p) ==
    /\ p \in toRotate
    /\ toRotate' = toRotate \ {p}
    /\ UNCHANGED <<registry, next, books, requests, prewarm, ticking, toEmpty, process, history>>

\* maintain(retired): FINISH for what is ready, accepted or not.
MaintainRetired(p, done) ==
    /\ toRotate = {}
    /\ p \in toEmpty
    /\ done \subseteq {r \in Book(p) : Ready(p, r)}
    /\ Finish(p, done)
    /\ toEmpty' = toEmpty \ {p}
    /\ UNCHANGED <<registry, next, used, requests, prewarm, ticking, toRotate, process, history>>

\* Mutant: a pool without draining runs may go.
StaysDraining(p) == draining[p] # {}

\* The pools that stay in m.retiredPools.
Stays(p) == ~isIdle(p)

MaintainEnd ==
    /\ ticking
    /\ toRotate = {}
    /\ toEmpty = {}
    /\ ticking' = FALSE
    /\ departing' = {p \in departing : Stays(p)}
    /\ UNCHANGED <<owner, active, next, books, requests, prewarm, toRotate, toEmpty, process, history>>

-----------------------------------------------------------------------------
(* The end of the process.                                                 *)

\* A signal: httpServer.Shutdown takes no new requests, ...
Signal ==
    /\ phase = "up"
    /\ phase' = "stopping"
    /\ UNCHANGED <<registry, next, books, requests, prewarm, ticker, toClose, history>>

\* ... and after 30 seconds at most the context of the prewarming is cancelled,
\* whether or not requests are still under way.
CancelRun ==
    /\ phase = "stopping"
    /\ phase' = "cancelled"
    /\ UNCHANGED <<registry, next, books, requests, prewarm, ticker, toClose, history>>

\* Mutant: Close shuts down the active pools only.
ToCloseActive == activePools

ToClose == activePools \cup departing

\* Close has waited for the ticker goroutine, and lists the pools.
Close ==
    /\ phase = "cancelled"
    /\ ~ticking
    /\ phase' = "closing"
    /\ toClose' = ToClose
    /\ UNCHANGED <<registry, next, books, requests, prewarm, ticker, history>>

\* shutdown of one pool: its book is emptied and FINISH sent for each run.
Shutdown(p, done) ==
    /\ p \in toClose
    /\ toClose' = toClose \ {p}
    /\ done \subseteq Book(p)
    /\ current' = [current EXCEPT ![p] = NoRun]
    /\ draining' = [draining EXCEPT ![p] = {}]
    /\ live' = live \ done
    /\ excused' = excused \cup (Book(p) \ done)
    /\ UNCHANGED <<registry, next, used, requests, prewarm, ticker, phase, witness, stray>>

-----------------------------------------------------------------------------

Request(q) ==
    \/ Acquire(q)
    \/ \E p \in Pools : Try(q, p)
    \/ RunFound(q)
    \/ \E r \in Runs : Rotates(q, r)
    \/ AcquireFails(q)
    \/ Leases(q)
    \/ RunInvalid(q)
    \/ \E done \in SUBSET Runs : Release(q, done)
    \/ Answer(q)

Prewarm(p) == PrewarmFails(p) \/ \E r \in Runs : PrewarmRotates(p, r)

Maintain ==
    \/ MaintainList
    \/ \E p \in Pools : \/ MaintainActive(p)
                        \/ \E r \in Runs : MaintainRotates(p, r)
                        \/ \E done \in SUBSET Runs : MaintainRetired(p, done)
    \/ MaintainEnd

Ending ==
    \/ Signal
    \/ CancelRun
    \/ Close
    \/ \E p \in Pools, done \in SUBSET Runs : Shutdown(p, done)

Next ==
    \/ Sync
    \/ Start
    \/ \E p \in Pools : Prewarm(p)
    \/ \E q \in Requests : Request(q)
    \/ \E p \in Pools, r \in Runs : FinishDrained(p, r)
    \/ Maintain
    \/ Ending

Spec == Init /\ [][Next]_vars

-----------------------------------------------------------------------------
(* Properties.                                                             *)

\* A pool is let go only with an empty book, although it is judged long after
\* maintain visited it: whatever runs at a pool that is neither active nor
\* retired was started there by a request or a prewarming that came too late.
LetGoEmpty ==
    \A p \in Pools : \A r \in Book(p) : Registered(p) \/ r \in stray \/ phase = "closing"

\* A request at a retired pool had listed it before it retired: the second
\* attempt of a request, and every later one, keeps away from it.
RetiredNotListed ==
    \A p \in Pools, q \in Requests :
        Retired(p) /\ (p \in list[q] \/ pool[q] = p) => q \in witness[p]

\* When Close is through, the upstream runs nothing for this process but runs
\* that came too late to a pool that was let go, whose FINISH failed, or that a
\* request started which outlived the shutdown of the HTTP server.
NothingForgotten ==
    phase = "closing" /\ toClose = {} => live \subseteq stray \cup excused

prioOf == [p \in activePools |-> Priority[owner[p]]]
weightOf == [p \in activePools |-> Weight[owner[p]]]
labelOf == [p \in activePools |-> Label[owner[p]]]

\* The candidates of Acquire, were it called now: how they may be sorted, and
\* the place of each when they are.
Sortings == groupPoolsByPriority(activePools, prioOf, weightOf, labelOf)

OrderNow(pos, seed) == AcquireOrder(activePools, pos, prioOf, weightOf, seed)

\* Whatever the seed, and however ties are sorted, Acquire comes to every active
\* pool, to each once, and to those of higher priority first.
OrderCoversAll ==
    \A pos \in Sortings :
        LET place == OrderNow(pos, next)
        IN  /\ place \in Bijection(activePools, 1..Cardinality(activePools))
            /\ \A p, q \in activePools : prioOf[p] > prioOf[q] => place[p] < place[q]

\* Over a round of requests, one for each unit of weight of the best group,
\* every pool of the group comes first as often as its weight says; unless the
\* counter wraps in between, or the accounts change, or two pools of the group
\* have the same weight and label, which each request may sort anew.
RoundIsFair ==
    LET best  == {p \in activePools : \A o \in activePools : prioOf[o] <= prioOf[p]}
        round == Cardinality(Entries(best, weightOf))
    IN  /\ next + round <= SeedCount
        /\ \A p, q \in best : weightOf[p] = weightOf[q] /\ labelOf[p] = labelOf[q] => p = q
        => \A pos \in [0..round - 1 -> Sortings], p \in best :
              Cardinality({i \in 0..round - 1 : OrderNow(pos[i], next + i)[p] = 1})
                = Repeat(weightOf[p])

=============================================================================
