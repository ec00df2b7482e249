----------------------------- MODULE FreeSession -----------------------------
(***************************************************************************)
(* The free session of one tokenPool (free_session.go): the one cached     *)
(* session, the single flight that refreshes it, the goroutine that        *)
(* rebuilds it in the background and the goroutines that watch it expire.  *)
(*                                                                         *)
(* A step is one critical section of p.mu, one reply of the upstream, or   *)
(* the start of a goroutine.  The threads are                              *)
(*   - the Requests: handlers that ensure a session, lease a run, chat,    *)
(*     and invalidate the session when the upstream rejects it;            *)
(*   - the Prewarmer: the goroutine prewarmPools starts for the pool;      *)
(*   - the Rebuilders: goroutines ensureSessionAsync starts;               *)
(*   - one watcher per grant.                                              *)
(*                                                                         *)
(* A grant is one "active" reply of the upstream: it carries an instance   *)
(* id, which the upstream may hand out again, and an expiry time.  Clocks  *)
(* are abstracted to the life of a grant: fresh, then stale (less than     *)
(* five seconds are left: not ready any more), then over (a second past    *)
(* the expiry: its watcher wakes), or endless (no expiry time).            *)
(* A reply is whatever the code can be given: the upstream is not trusted. *)
(***************************************************************************)
EXTENDS Integers, FiniteSets

CONSTANTS
    Requests,    \* handlers that use the pool
    Rebuilders,  \* names for the goroutines of ensureSessionAsync
    Prewarmer,
    InstanceOf,  \* the "active" replies, which bounds their number, and the
                 \* instance id each of them carries
    NoSession,   \* p.session is nil
    Disabled,    \* the session the upstream does not ask for
    Failed,      \* refreshSession returned an error
    NoThread     \* p.sessionRefreshCh is nil

Grants == DOMAIN InstanceOf

Loopers == Rebuilders \cup {Prewarmer}
Threads == Requests \cup Loopers

ASSUME ConstantsAssumption ==
    /\ Requests \cap Loopers = {}
    /\ Prewarmer \notin Rebuilders
    /\ NoThread \notin Threads
    /\ {NoSession, Disabled, Failed} \cap Grants = {}
    /\ NoSession # Disabled /\ NoSession # Failed /\ Disabled # Failed

VARIABLES
    session,    \* p.session: a grant, Disabled or NoSession
    flight,     \* p.sessionRefreshCh, named by the thread that made it
    scheduled,  \* p.sessionRebuildScheduled
    cooling,    \* now is before p.cooldownUntil
    visible,    \* requests whose run hasInflightRequestsLocked sees leased
    pc,         \* where each thread stands
    waitOn,     \* the channel a waiting thread receives from
    got,        \* what refreshSession returned to a thread
    watcher,    \* the watcher of each grant
    life,       \* what the clock says of each grant
    process     \* main: running, has cancelled its context, endSession has run

cache  == <<session, flight, scheduled>>
grants == <<watcher, life>>
vars   == <<cache, cooling, visible, pc, waitOn, got, grants, process>>

RefreshPCs   == {"refresh", "settle"}
EnsurePCs    == {"check", "waiting", "watch"} \cup RefreshPCs
RequestPCs   == EnsurePCs \cup {"idle", "lease", "chat", "drop", "async", "release"}
PrewarmerPCs == EnsurePCs \cup {"sleep", "done"}
RebuilderPCs == EnsurePCs \cup {"idle", "sleep", "done"}

\* Every variable has its type.
TypeOK ==
    /\ session \in Grants \cup {NoSession, Disabled}
    /\ flight \in Threads \cup {NoThread}
    /\ scheduled \in BOOLEAN
    /\ cooling \in BOOLEAN
    /\ visible \in SUBSET Requests
    /\ pc \in [Threads -> RequestPCs \cup RebuilderPCs]
    /\ \A a \in Requests : pc[a] \in RequestPCs
    /\ \A b \in Rebuilders : pc[b] \in RebuilderPCs
    /\ pc[Prewarmer] \in PrewarmerPCs
    /\ waitOn \in [Threads -> Threads \cup {NoThread}]
    /\ got \in [Threads -> Grants \cup {NoSession, Disabled, Failed}]
    /\ \A t \in Threads : pc[t] = "watch" => got[t] \in Grants
    /\ \A t \in Threads : pc[t] = "settle" => got[t] # NoSession
    /\ watcher \in [Grants -> {"none", "asleep", "async", "gone"}]
    /\ life \in [Grants -> {"unused", "endless", "fresh", "stale", "over"}]
    /\ process \in {"running", "cancelled", "ended"}

-----------------------------------------------------------------------------

Init ==
    /\ session = NoSession
    /\ flight = NoThread
    /\ scheduled = FALSE
    /\ cooling = FALSE
    /\ visible = {}
    /\ pc = [t \in Threads |-> IF t = Prewarmer THEN "check" ELSE "idle"]
    /\ waitOn = [t \in Threads |-> NoThread]
    /\ got = [t \in Threads |-> NoSession]
    /\ watcher = [g \in Grants |-> "none"]
    /\ life = [g \in Grants |-> "unused"]
    /\ process = "running"

\* readySessionLocked
Ready ==
    \/ session = Disabled
    \/ session \in Grants /\ life[session] \in {"fresh", "endless"}

\* Where a thread goes when its ensureSession returns.
Ensured(t)   == IF t \in Requests THEN "lease" ELSE "done"
Unensured(t) == IF t \in Requests THEN "idle" ELSE "sleep"

-----------------------------------------------------------------------------
(* ensureSession and refreshSession.                                       *)

\* A handler's acquire comes to ensureSession.
RequestArrives(a) ==
    /\ pc[a] = "idle"
    /\ ~cooling
    /\ pc' = [pc EXCEPT ![a] = "check"]
    /\ UNCHANGED <<cache, cooling, visible, waitOn, got, grants, process>>

\* Mutants: a thread takes off beside another one, or with a session ready.
TakesOffBeside == ~Ready
TakesOffReady  == flight = NoThread

\* ensureSession has no session to return and no flight to wait for.
TakesOff == ~Ready /\ flight = NoThread

\* The head of ensureSession's loop: return the session, wait for the flight
\* of another thread, or take off.
EnsureCheck(t) ==
    /\ pc[t] = "check"
    /\ \/ /\ Ready
          /\ pc' = [pc EXCEPT ![t] = Ensured(t)]
          /\ UNCHANGED <<flight, waitOn>>
       \/ /\ ~Ready
          /\ flight # NoThread
          /\ pc' = [pc EXCEPT ![t] = "waiting"]
          /\ waitOn' = [waitOn EXCEPT ![t] = flight]
          /\ UNCHANGED flight
       \/ /\ TakesOff
          /\ flight' = t
          /\ pc' = [pc EXCEPT ![t] = "refresh"]
          /\ UNCHANGED waitOn
    /\ UNCHANGED <<session, scheduled, cooling, visible, got, grants, process>>

\* The context of a waiting thread is done: the client went away, or main
\* cancelled the context of the prewarming.
WaitCancelled(t) ==
    /\ pc[t] = "waiting"
    /\ t \in Requests \/ (t = Prewarmer /\ process # "running")
    /\ pc' = [pc EXCEPT ![t] = Unensured(t)]
    /\ waitOn' = [waitOn EXCEPT ![t] = NoThread]
    /\ UNCHANGED <<cache, cooling, visible, got, grants, process>>

\* refreshSession posts, polls while it is queued and posts again when the
\* upstream has no session; it keeps nothing from one exchange to the next.
\* Then it has its answer: an error or a disabled session, ...
ReplyPlain(t, answer) ==
    /\ pc[t] = "refresh"
    /\ got' = [got EXCEPT ![t] = answer]
    /\ pc' = [pc EXCEPT ![t] = "settle"]
    /\ UNCHANGED <<cache, cooling, visible, waitOn, grants, process>>

\* ... or an active one, with or without an expiry time.
ReplyActive(t, g, span) ==
    /\ pc[t] = "refresh"
    /\ life[g] = "unused"
    /\ life' = [life EXCEPT ![g] = span]
    /\ got' = [got EXCEPT ![t] = g]
    /\ pc' = [pc EXCEPT ![t] = "settle"]
    /\ UNCHANGED <<cache, cooling, visible, waitOn, watcher, process>>

\* Mutant: the waiting threads are woken one at a time.
FirstWaiter ==
    LET waiting == {u \in Threads : pc[u] = "waiting" /\ waitOn[u] = flight}
    IN  IF waiting = {} THEN {} ELSE {CHOOSE u \in waiting : TRUE}

\* The threads close(p.sessionRefreshCh) wakes.
Woken == {u \in Threads : pc[u] = "waiting" /\ waitOn[u] = flight}

\* Mutant: what came with an error is cached like a session.
CachedAnyway(answer) == answer

\* What ensureSession caches: nothing when the refresh failed.
Cached(answer) == IF answer = Failed THEN NoSession ELSE answer

\* ensureSession's second critical section: cache the answer, land, and wake
\* the waiting threads.
Settle(t) ==
    /\ pc[t] = "settle"
    /\ session' = Cached(got[t])
    /\ flight' = NoThread
    /\ pc' = [u \in Threads |->
                IF u = t THEN IF got[t] = Failed THEN Unensured(t)
                              ELSE IF got[t] \in Grants THEN "watch"
                              ELSE Ensured(t)
                ELSE IF u \in Woken THEN "check" ELSE pc[u]]
    /\ waitOn' = [u \in Threads |-> IF u \in Woken THEN NoThread ELSE waitOn[u]]
    /\ got' = [got EXCEPT ![t] = IF @ \in Grants THEN @ ELSE NoSession]
    /\ UNCHANGED <<scheduled, cooling, visible, grants, process>>

\* Mutant: no watcher for an instance that has one already.
NeedsWatcherOnce(g) ==
    life[g] # "endless" /\ \A h \in Grants : InstanceOf[h] = InstanceOf[g] => watcher[h] # "asleep"

\* watchSessionExpiry returns at once for a session without an expiry time.
NeedsWatcher(g) == life[g] # "endless"

\* ensureSession starts the watcher of the session it has cached.
Watch(t) ==
    /\ pc[t] = "watch"
    /\ watcher' = [watcher EXCEPT ![got[t]] = IF NeedsWatcher(got[t]) THEN "asleep" ELSE @]
    /\ pc' = [pc EXCEPT ![t] = Ensured(t)]
    /\ got' = [got EXCEPT ![t] = NoSession]
    /\ UNCHANGED <<cache, cooling, visible, waitOn, life, process>>

-----------------------------------------------------------------------------
(* ensureSessionAsync and prewarmSession.                                  *)

\* Mutant: a rebuild is started although another one is on its way.
MayRebuildTwice == ~cooling /\ flight = NoThread

\* ensureSessionAsync goes on to start its goroutine.
MayRebuild == ~cooling /\ flight = NoThread /\ ~scheduled

\* ensureSessionAsync, called at the end of an invalidation or an expiry.
\* label is where its caller leaves the threads.
EnsureAsync(label) ==
    IF MayRebuild
    THEN /\ scheduled' = TRUE
         /\ \E b \in Rebuilders : label[b] = "idle" /\ pc' = [label EXCEPT ![b] = "check"]
    ELSE UNCHANGED scheduled /\ pc' = label

\* prewarmSession waits ten seconds and tries again.
Retry(t) ==
    /\ pc[t] = "sleep"
    /\ pc' = [pc EXCEPT ![t] = "check"]
    /\ UNCHANGED <<cache, cooling, visible, waitOn, got, grants, process>>

\* main has cancelled the context of the prewarming.
PrewarmCancelled ==
    /\ process # "running"
    /\ pc[Prewarmer] = "sleep"
    /\ pc' = [pc EXCEPT ![Prewarmer] = "done"]
    /\ UNCHANGED <<cache, cooling, visible, waitOn, got, grants, process>>

\* Mutant: the goroutine ends with its mark in place.
RebuildDoneMarked(b) ==
    /\ pc[b] = "done"
    /\ pc' = [pc EXCEPT ![b] = "idle"]
    /\ UNCHANGED <<cache, cooling, visible, waitOn, got, grants, process>>

\* The goroutine of ensureSessionAsync takes its mark back and ends.
RebuildDone(b) ==
    /\ pc[b] = "done"
    /\ pc' = [pc EXCEPT ![b] = "idle"]
    /\ scheduled' = FALSE
    /\ UNCHANGED <<session, flight, cooling, visible, waitOn, got, grants, process>>

-----------------------------------------------------------------------------
(* A request on its session.                                               *)

\* acquire leases a run of the book.
Lease(a) ==
    /\ pc[a] = "lease"
    /\ visible' = visible \cup {a}
    /\ pc' = [pc EXCEPT ![a] = "chat"]
    /\ UNCHANGED <<cache, cooling, waitOn, got, grants, process>>

\* acquire finds no run: "run missing after rotation".
LeaseFailed(a) ==
    /\ pc[a] = "lease"
    /\ pc' = [pc EXCEPT ![a] = "idle"]
    /\ UNCHANGED <<cache, cooling, visible, waitOn, got, grants, process>>

\* The chat request is over and the session has nothing to do with how.
ChatOver(a) ==
    /\ pc[a] = "chat"
    /\ pc' = [pc EXCEPT ![a] = "release"]
    /\ UNCHANGED <<cache, cooling, visible, waitOn, got, grants, process>>

\* Some request's run is invalid: invalidate strikes it from the book, and
\* hasInflightRequestsLocked no longer sees those that lease it.
RunStruck(a) ==
    /\ a \in visible
    /\ visible' = visible \ {a}
    /\ UNCHANGED <<cache, cooling, pc, waitOn, got, grants, process>>

\* The upstream rejects the session.
ChatSessionInvalid(a) ==
    /\ pc[a] = "chat"
    /\ pc' = [pc EXCEPT ![a] = "drop"]
    /\ UNCHANGED <<cache, cooling, visible, waitOn, got, grants, process>>

\* 401: markCooldown, before the session is dropped.
ChatUnauthorized(a) ==
    /\ pc[a] = "chat"
    /\ cooling' = TRUE
    /\ pc' = [pc EXCEPT ![a] = "drop"]
    /\ UNCHANGED <<cache, visible, waitOn, got, grants, process>>

\* invalidateSession, its own critical section: whatever session is cached by
\* now is dropped.
InvalidateSession(a) ==
    /\ pc[a] = "drop"
    /\ session' = NoSession
    /\ pc' = [pc EXCEPT ![a] = "async"]
    /\ UNCHANGED <<flight, scheduled, cooling, visible, waitOn, got, grants, process>>

\* invalidateSession's call of ensureSessionAsync.
InvalidateAsync(a) ==
    /\ pc[a] = "async"
    /\ EnsureAsync([pc EXCEPT ![a] = "release"])
    /\ UNCHANGED <<session, flight, cooling, visible, waitOn, got, grants, process>>

Release(a) ==
    /\ pc[a] = "release"
    /\ visible' = visible \ {a}
    /\ pc' = [pc EXCEPT ![a] = "idle"]
    /\ UNCHANGED <<cache, cooling, waitOn, got, grants, process>>

-----------------------------------------------------------------------------
(* The watcher of a grant, endSession, and time.                           *)

\* The session cached now is active and has the instance id g was given.
WatchedIsCached(g) == session \in Grants /\ InstanceOf[session] = InstanceOf[g]

\* Mutant: the watcher also gives up while requests are in flight.
GivesUpBusy(g) == ~WatchedIsCached(g) \/ visible # {}

\* The session is no longer the watcher's business.
GivesUp(g) == ~WatchedIsCached(g)

\* The watcher finds another session cached, or none, and ends.
WatcherEnds(g) ==
    /\ watcher[g] = "asleep"
    /\ life[g] = "over"
    /\ GivesUp(g)
    /\ watcher' = [watcher EXCEPT ![g] = "gone"]
    /\ UNCHANGED <<cache, cooling, visible, pc, waitOn, got, life, process>>

\* The watcher drops the session, unless a request is in flight (then it looks
\* again a second later).
WatcherDrops(g) ==
    /\ watcher[g] = "asleep"
    /\ life[g] = "over"
    /\ WatchedIsCached(g)
    /\ visible = {}
    /\ session' = NoSession
    /\ watcher' = [watcher EXCEPT ![g] = "async"]
    /\ UNCHANGED <<flight, scheduled, cooling, visible, pc, waitOn, got, life, process>>

\* The watcher's call of ensureSessionAsync.
WatcherAsync(g) ==
    /\ watcher[g] = "async"
    /\ EnsureAsync(pc)
    /\ watcher' = [watcher EXCEPT ![g] = "gone"]
    /\ UNCHANGED <<session, flight, cooling, visible, waitOn, got, life, process>>

\* main cancels the context of the prewarming ...
CancelRun ==
    /\ process = "running"
    /\ process' = "cancelled"
    /\ UNCHANGED <<cache, cooling, visible, pc, waitOn, got, grants>>

\* ... and closes the run manager: shutdown's endSession.  (What DELETE answers
\* is only reported.)
EndSession ==
    /\ process = "cancelled"
    /\ process' = "ended"
    /\ session' = NoSession
    /\ UNCHANGED <<flight, scheduled, cooling, visible, pc, waitOn, got, grants>>

\* Time passes for a grant.
Ages(g) ==
    /\ life[g] \in {"fresh", "stale"}
    /\ life' = [life EXCEPT ![g] = IF @ = "fresh" THEN "stale" ELSE "over"]
    /\ UNCHANGED <<cache, cooling, visible, pc, waitOn, got, watcher, process>>

CooldownEnds ==
    /\ cooling
    /\ cooling' = FALSE
    /\ UNCHANGED <<cache, visible, pc, waitOn, got, grants, process>>

-----------------------------------------------------------------------------

\* refreshSession has an answer.
Decide(t) ==
    \/ ReplyPlain(t, Failed)
    \/ ReplyPlain(t, Disabled)
    \/ \E g \in Grants, span \in {"endless", "fresh", "stale", "over"} : ReplyActive(t, g, span)

Ensure(t) ==
    \/ EnsureCheck(t)
    \/ WaitCancelled(t)
    \/ Decide(t)
    \/ Settle(t)
    \/ Watch(t)

Request(a) ==
    \/ RequestArrives(a)
    \/ Lease(a)
    \/ LeaseFailed(a)
    \/ ChatOver(a)
    \/ RunStruck(a)
    \/ ChatSessionInvalid(a)
    \/ ChatUnauthorized(a)
    \/ InvalidateSession(a)
    \/ InvalidateAsync(a)
    \/ Release(a)

Watcher(g) == WatcherEnds(g) \/ WatcherDrops(g) \/ WatcherAsync(g)

Next ==
    \/ \E t \in Threads : Ensure(t)
    \/ \E a \in Requests : Request(a)
    \/ \E t \in Loopers : Retry(t)
    \/ \E b \in Rebuilders : RebuildDone(b)
    \/ PrewarmCancelled
    \/ \E g \in Grants : Watcher(g) \/ Ages(g)
    \/ CancelRun \/ EndSession
    \/ CooldownEnds

Spec == Init /\ [][Next]_vars

\* What the scheduling justifies.  A goroutine that can move does; an HTTP call
\* answers or times out; chat requests end; the upstream does not queue or
\* restart a refresh for ever.  For a rebuild, which retries until it succeeds:
\* it is not too late for every take-off, nor does the upstream fail it for ever.
Fairness ==
    /\ \A t \in Threads : WF_vars(EnsureCheck(t) \/ Decide(t) \/ Settle(t) \/ Watch(t))
    /\ \A b \in Rebuilders : SF_vars(EnsureCheck(b) /\ waitOn'[b] = NoThread)
    /\ \A b \in Rebuilders : SF_vars(ReplyPlain(b, Disabled) \/ \E g \in Grants : ReplyActive(b, g, "fresh"))
    /\ \A t \in Loopers : WF_vars(Retry(t))
    /\ \A b \in Rebuilders : WF_vars(RebuildDone(b))
    /\ \A a \in Requests :
         WF_vars(Lease(a) \/ ChatOver(a) \/ InvalidateSession(a) \/ InvalidateAsync(a) \/ Release(a))
    /\ \A g \in Grants : WF_vars(Watcher(g))

FairSpec == Spec /\ Fairness

-----------------------------------------------------------------------------
(* Properties.                                                             *)

\* p.sessionRefreshCh is the channel of the one thread that refreshes, or nil
\* when none does: the thread closes its own channel, once, and two POSTs for
\* one account never overlap.
SingleFlight == \A t \in Threads : pc[t] \in RefreshPCs <=> flight = t

\* A waiting thread waits for the flight that is under way: no thread waits on
\* a channel that was closed before, or that nobody will close.
WaitersOnFlight ==
    \A t \in Threads : pc[t] = "waiting" => waitOn[t] = flight /\ flight # NoThread

\* While a refresh is under way no ready session is cached: no refresh is
\* made for nothing, and one that fails takes no good session with it.
RefreshOnlyWhenNeeded == flight # NoThread => ~Ready

\* p.sessionRebuildScheduled says whether a background rebuild is on its way,
\* and there is never more than one.
OneRebuild ==
    /\ scheduled <=> \E b \in Rebuilders : pc[b] # "idle"
    /\ \A b, c \in Rebuilders : pc[b] # "idle" /\ pc[c] # "idle" => b = c

\* A cached session that can expire has a watcher of its own that is awake or
\* about to be started, also when the upstream hands out an instance again.
Watched ==
    session \in Grants /\ life[session] # "endless" =>
        \/ watcher[session] = "asleep"
        \/ \E t \in Threads : pc[t] = "watch" /\ got[t] = session

\* A grant that is cached, or about to be, was made by the upstream.
GrantsMade ==
    /\ session \in Grants => life[session] # "unused"
    /\ \A t \in Threads : got[t] \in Grants => life[got[t]] # "unused"

\* The session as SessionLife sees it: its users want a session, have one or
\* neither, and what was answered is known until it is cached.
WantsPCs == {"check", "waiting", "refresh", "settle", "sleep"}
HasPCs   == {"watch", "lease", "chat", "drop", "done"}

userOf == [t \in Requests \cup Rebuilders |->
              IF pc[t] \in WantsPCs THEN "wants" ELSE IF pc[t] \in HasPCs THEN "has" ELSE "off"]

answerOf == IF flight # NoThread /\ pc[flight] = "settle" THEN got[flight] ELSE NoSession

guardedOf == {g \in Grants : watcher[g] = "asleep"}

endedOf == process = "ended"

SL == INSTANCE SessionLife WITH
          asker <- flight, answer <- answerOf, user <- userOf, busy <- visible,
          rebuilding <- scheduled, guarded <- guardedOf, ended <- endedOf

\* All that requests, rebuilds, the prewarming and the watchers do to the session
\* comes to steps of SessionLife: nobody goes on without a session, one question
\* is asked at a time and only for need, a waiting thread is not let down by the
\* failure of another one, and a session in use does not expire.
KeepsSessionLife == SL!Spec

\* The inductive invariant of the proofs in FreeSessionProofs.
IInv ==
    /\ TypeOK
    /\ SingleFlight
    /\ WaitersOnFlight
    /\ RefreshOnlyWhenNeeded
    /\ OneRebuild
    /\ Watched
    /\ GrantsMade

\* An expired session leaves the cache: its watcher drops it, or the next
\* request replaces it.
ExpiredLeaves == \A g \in Grants : (session = g /\ life[g] = "over") ~> session # g

\* A background rebuild comes to its end and gives the mark back, so that a
\* later invalidation can start another.
RebuildEnds == scheduled ~> ~scheduled

\* A thread that waits for the flight of another one goes on.
WaitEnds == \A t \in Threads : pc[t] = "waiting" ~> pc[t] # "waiting"

=============================================================================
