-------------------------- MODULE FreeSessionProofs --------------------------
(***************************************************************************)
(* Proofs about FreeSession for every number of requests, grants and       *)
(* rebuilds.                                                               *)
(*                                                                         *)
(* IInv, in FreeSession, is inductive.  A step is either quiet (it moves   *)
(* nothing IInv speaks of) or one of the loud actions; one lemma per loud  *)
(* action, or per group of actions that do the same to the session, shows  *)
(* that it keeps every part of IInv.                                       *)
(***************************************************************************)
EXTENDS FreeSession, TLAPS

\* The kinds of threads are apart, and the nil values are none of the things.
LEMMA Kinds ==
    /\ Requests \cap Rebuilders = {}
    /\ Prewarmer \notin Requests \cup Rebuilders
    /\ NoThread \notin Threads
    /\ NoSession \notin Grants /\ Disabled \notin Grants /\ Failed \notin Grants
    /\ NoSession # Disabled /\ NoSession # Failed /\ Disabled # Failed
BY ConstantsAssumption DEF Threads, Loopers

\* The pool is born with its types.
THEOREM InitTypeOK == Init => TypeOK
BY Kinds DEF Init, TypeOK, Threads, Loopers, RequestPCs, RebuilderPCs, PrewarmerPCs, EnsurePCs,
   RefreshPCs

\* ensureSessionAsync keeps the types, whatever label says of its caller.
LEMMA AsyncTypes ==
  ASSUME TypeOK, NEW label, label \in [Threads -> RequestPCs \cup RebuilderPCs],
         \A b \in Loopers : label[b] = pc[b],
         \A a \in Requests : label[a] \in RequestPCs \ {"watch", "settle"} \/ label[a] = pc[a],
         EnsureAsync(label)
  PROVE  /\ scheduled' \in BOOLEAN
         /\ pc' \in [Threads -> RequestPCs \cup RebuilderPCs]
         /\ \A a \in Requests : pc'[a] = label[a]
         /\ pc'[Prewarmer] = pc[Prewarmer]
         /\ \A b \in Rebuilders : pc'[b] \in RebuilderPCs
         /\ \A t \in Threads : pc'[t] \in {"watch", "settle"} => pc'[t] = pc[t]
<1> USE Kinds DEF TypeOK, Threads, Loopers, RequestPCs, RebuilderPCs, EnsurePCs, RefreshPCs
<1>1. CASE pc' = label /\ UNCHANGED scheduled
  BY <1>1
<1>2. ASSUME NEW b \in Rebuilders, pc' = [label EXCEPT ![b] = "check"], scheduled' = TRUE
      PROVE  /\ pc' \in [Threads -> RequestPCs \cup RebuilderPCs]
             /\ \A a \in Requests : pc'[a] = label[a]
             /\ pc'[Prewarmer] = pc[Prewarmer]
             /\ \A c \in Rebuilders : pc'[c] \in RebuilderPCs
             /\ \A t \in Threads : pc'[t] \in {"watch", "settle"} => pc'[t] = pc[t]
  BY <1>2
<1> QED
  BY <1>1, <1>2 DEF EnsureAsync

\* Every step of the pool keeps the types.
LEMMA NextTypeOK == ASSUME TypeOK, [Next]_vars PROVE TypeOK'
<1> USE Kinds DEF TypeOK, Threads, Loopers, RequestPCs, RebuilderPCs, PrewarmerPCs, EnsurePCs,
        RefreshPCs, cache, grants
<1>1. ASSUME NEW t \in Threads, EnsureCheck(t) PROVE TypeOK'
  BY <1>1 DEF EnsureCheck, Ensured
<1>2. ASSUME NEW t \in Threads, WaitCancelled(t) PROVE TypeOK'
  BY <1>2 DEF WaitCancelled, Unensured
<1>3. ASSUME NEW t \in Threads, Decide(t) PROVE TypeOK'
  BY <1>3 DEF Decide, ReplyPlain, ReplyActive
<1>4. ASSUME NEW t \in Threads, Settle(t) PROVE TypeOK'
  <2>1. pc' \in [Threads -> RequestPCs \cup RebuilderPCs]
    BY <1>4 DEF Settle, Ensured, Unensured
  <2>2. \A u \in Threads : /\ pc'[u] \in {"watch", "settle"} /\ u # t => pc'[u] = pc[u]
                           /\ pc'[t] = "watch" => got[t] \in Grants
                           /\ pc'[t] # "settle"
    BY <1>4 DEF Settle, Ensured, Unensured
  <2>3. /\ \A a \in Requests : pc'[a] \in RequestPCs
        /\ \A b \in Rebuilders : pc'[b] \in RebuilderPCs
        /\ pc'[Prewarmer] \in PrewarmerPCs
    BY <1>4 DEF Settle, Ensured, Unensured
  <2>4. session' \in Grants \cup {NoSession, Disabled} /\ flight' = NoThread
    BY <1>4 DEF Settle, Cached
  <2>5. waitOn' \in [Threads -> Threads \cup {NoThread}]
    BY <1>4 DEF Settle
  <2>6. /\ got' \in [Threads -> Grants \cup {NoSession, Disabled, Failed}]
        /\ \A u \in Threads : got[u] \in Grants \/ u # t => got'[u] = got[u]
    BY <1>4 DEF Settle
  <2> QED
    BY <1>4, <2>1, <2>2, <2>3, <2>4, <2>5, <2>6 DEF Settle
<1>5. ASSUME NEW t \in Threads, Watch(t) PROVE TypeOK'
  BY <1>5 DEF Watch, Ensured
<1>6. ASSUME NEW a \in Requests, InvalidateAsync(a) PROVE TypeOK'
  <2> DEFINE label == [pc EXCEPT ![a] = "release"]
  <2>1. /\ label \in [Threads -> RequestPCs \cup RebuilderPCs]
        /\ \A b \in Loopers : label[b] = pc[b]
        /\ \A c \in Requests : label[c] \in RequestPCs \ {"watch", "settle"} \/ label[c] = pc[c]
        /\ \A c \in Requests : label[c] \in RequestPCs
        /\ EnsureAsync(label)
    BY <1>6 DEF InvalidateAsync
  <2> HIDE DEF label
  <2>2. UNCHANGED <<session, flight, cooling, visible, waitOn, got, grants, process>>
    BY <1>6 DEF InvalidateAsync
  <2>3. /\ scheduled' \in BOOLEAN
        /\ pc' \in [Threads -> RequestPCs \cup RebuilderPCs]
        /\ \A c \in Requests : pc'[c] \in RequestPCs
        /\ pc'[Prewarmer] = pc[Prewarmer]
        /\ \A b \in Rebuilders : pc'[b] \in RebuilderPCs
        /\ \A t \in Threads : pc'[t] \in {"watch", "settle"} => pc'[t] = pc[t]
    BY <2>1, AsyncTypes
  <2>4. pc'[Prewarmer] \in PrewarmerPCs
    BY <2>3
  <2>5. \A t \in Threads : /\ pc'[t] = "watch" => got'[t] \in Grants
                           /\ pc'[t] = "settle" => got'[t] # NoSession
    BY <2>2, <2>3
  <2> QED
    BY <2>2, <2>3, <2>4, <2>5
<1>7. ASSUME NEW a \in Requests, Request(a), ~InvalidateAsync(a) PROVE TypeOK'
  <2>1. CASE RequestArrives(a)
    BY <2>1 DEF RequestArrives
  <2>2. CASE Lease(a)
    BY <2>2 DEF Lease
  <2>3. CASE LeaseFailed(a)
    BY <2>3 DEF LeaseFailed
  <2>4. CASE ChatOver(a)
    BY <2>4 DEF ChatOver
  <2>5. CASE RunStruck(a)
    BY <2>5 DEF RunStruck
  <2>6. CASE ChatSessionInvalid(a)
    BY <2>6 DEF ChatSessionInvalid
  <2>7. CASE ChatUnauthorized(a)
    BY <2>7 DEF ChatUnauthorized
  <2>8. CASE InvalidateSession(a)
    BY <2>8 DEF InvalidateSession
  <2>9. CASE Release(a)
    BY <2>9 DEF Release
  <2> QED
    BY <1>7, <2>1, <2>2, <2>3, <2>4, <2>5, <2>6, <2>7, <2>8, <2>9 DEF Request
<1>8. ASSUME NEW t \in Loopers, Retry(t) PROVE TypeOK'
  BY <1>8 DEF Retry
<1>9. ASSUME NEW b \in Rebuilders, RebuildDone(b) PROVE TypeOK'
  BY <1>9 DEF RebuildDone
<1>10. CASE PrewarmCancelled \/ CancelRun \/ EndSession \/ CooldownEnds \/ UNCHANGED vars
  <2>1. CASE PrewarmCancelled
    BY <2>1 DEF PrewarmCancelled
  <2>2. CASE CancelRun \/ EndSession \/ CooldownEnds \/ UNCHANGED vars
    BY <2>2 DEF CancelRun, EndSession, CooldownEnds, vars
  <2> QED
    BY <1>10, <2>1, <2>2
<1>11. ASSUME NEW g \in Grants, WatcherEnds(g) \/ WatcherDrops(g) \/ Ages(g) PROVE TypeOK'
  BY <1>11 DEF WatcherEnds, WatcherDrops, Ages
<1>12. ASSUME NEW g \in Grants, WatcherAsync(g) PROVE TypeOK'
  BY <1>12, AsyncTypes DEF WatcherAsync
<1> QED
  BY <1>1, <1>2, <1>3, <1>4, <1>5, <1>6, <1>7, <1>8, <1>9, <1>10, <1>11, <1>12
  DEF Next, Ensure, Watcher

\* Every variable always has its type.
THEOREM TypeCorrect == Spec => []TypeOK
BY InitTypeOK, NextTypeOK, PTL DEF Spec

-----------------------------------------------------------------------------
(* The steps that leave the session alone.                                 *)

\* A thread goes on without entering or leaving a flight, a wait, the start of
\* a watcher or a rebuild.
Calm(t) ==
    /\ pc'[t] \in RefreshPCs <=> pc[t] \in RefreshPCs
    /\ pc'[t] = "waiting" <=> pc[t] = "waiting"
    /\ pc'[t] = "watch" <=> pc[t] = "watch"
    /\ t \in Rebuilders => (pc'[t] = "idle" <=> pc[t] = "idle")

\* Nothing IInv speaks of moves.
Quiet == UNCHANGED <<cache, waitOn, got, grants>> /\ \A t \in Threads : Calm(t)

\* The session is dropped and nothing else moves but the watcher of a grant.
Dropped == session' = NoSession /\ UNCHANGED <<flight, scheduled, waitOn, got, life>>
           /\ \A t \in Threads : Calm(t)

\* A caller of ensureSessionAsync calls it, and no watcher falls asleep or wakes.
AsyncStep ==
    /\ UNCHANGED <<session, flight, waitOn, got, life>>
    /\ \A g \in Grants : watcher[g] = "asleep" => watcher'[g] = "asleep"
    /\ \/ scheduled' = scheduled /\ \A t \in Threads : Calm(t)
       \/ /\ ~scheduled /\ scheduled'
          /\ \E b \in Rebuilders : /\ pc[b] = "idle" /\ pc'[b] = "check"
                                   /\ \A t \in Threads \ {b} : Calm(t)

\* The steps that are none of the above.
Loud ==
    \/ \E t \in Threads : EnsureCheck(t) \/ WaitCancelled(t) \/ Decide(t) \/ Settle(t) \/ Watch(t)
    \/ \E b \in Rebuilders : RebuildDone(b)
    \/ \E g \in Grants : WatcherEnds(g) \/ Ages(g)

\* ensureSessionAsync, for a caller whose own move is calm.
LEMMA AsyncCalm ==
  ASSUME TypeOK, NEW label, label \in [Threads -> RequestPCs \cup RebuilderPCs],
         \A t \in Threads : label[t] = pc[t] \/ (t \in Requests /\ pc[t] = "async" /\ label[t] = "release"),
         EnsureAsync(label)
  PROVE  \/ scheduled' = scheduled /\ \A t \in Threads : Calm(t)
         \/ /\ ~scheduled /\ scheduled'
            /\ \E b \in Rebuilders : /\ pc[b] = "idle" /\ pc'[b] = "check"
                                     /\ \A t \in Threads \ {b} : Calm(t)
<1> USE Kinds DEF Threads, Loopers
<1>1. CASE pc' = label /\ UNCHANGED scheduled
  BY <1>1 DEF Calm, RefreshPCs
<1>2. ASSUME NEW b \in Rebuilders, ~scheduled, scheduled' = TRUE, label[b] = "idle",
             pc' = [label EXCEPT ![b] = "check"]
      PROVE  /\ ~scheduled /\ scheduled'
             /\ pc[b] = "idle" /\ pc'[b] = "check"
             /\ \A t \in Threads \ {b} : Calm(t)
  <2>1. \A t \in Threads \ {b} : pc'[t] = label[t]
    BY <1>2
  <2>2. pc[b] = "idle" /\ pc'[b] = "check"
    BY <1>2
  <2> QED
    BY <1>2, <2>1, <2>2 DEF Calm, RefreshPCs
<1> QED
  BY <1>1, <1>2 DEF EnsureAsync, MayRebuild

\* A step of a well-typed pool is one or the other.
LEMMA QuietOrLoud ==
  ASSUME TypeOK, [Next]_vars PROVE Quiet \/ Dropped \/ AsyncStep \/ Loud
<1> USE Kinds DEF TypeOK, Threads, Loopers, RequestPCs, RebuilderPCs, PrewarmerPCs, EnsurePCs,
        RefreshPCs, cache, grants, Calm
<1>1. ASSUME NEW a \in Requests, RequestArrives(a) PROVE Quiet
  BY <1>1 DEF RequestArrives, Quiet
<1>2. ASSUME NEW a \in Requests, Lease(a) PROVE Quiet
  BY <1>2 DEF Lease, Quiet
<1>3. ASSUME NEW a \in Requests, LeaseFailed(a) PROVE Quiet
  BY <1>3 DEF LeaseFailed, Quiet
<1>4. ASSUME NEW a \in Requests, ChatOver(a) PROVE Quiet
  BY <1>4 DEF ChatOver, Quiet
<1>5. ASSUME NEW a \in Requests, RunStruck(a) PROVE Quiet
  BY <1>5 DEF RunStruck, Quiet
<1>6. ASSUME NEW a \in Requests, ChatSessionInvalid(a) PROVE Quiet
  BY <1>6 DEF ChatSessionInvalid, Quiet
<1>7. ASSUME NEW a \in Requests, ChatUnauthorized(a) PROVE Quiet
  BY <1>7 DEF ChatUnauthorized, Quiet
<1>8. ASSUME NEW a \in Requests, Release(a) PROVE Quiet
  BY <1>8 DEF Release, Quiet
<1>9. ASSUME NEW t \in Loopers, Retry(t) PROVE Quiet
  BY <1>9 DEF Retry, Quiet
<1>10. CASE PrewarmCancelled \/ CancelRun \/ CooldownEnds \/ UNCHANGED vars
  BY <1>10 DEF PrewarmCancelled, CancelRun, CooldownEnds, vars, Quiet
<1>11. ASSUME NEW a \in Requests, InvalidateSession(a) PROVE Dropped
  BY <1>11 DEF InvalidateSession, Dropped
<1>12. EndSession => Dropped
  BY DEF EndSession, Dropped
<1>13. ASSUME NEW g \in Grants, WatcherDrops(g) PROVE Dropped
  BY <1>13 DEF WatcherDrops, Dropped
<1>14. ASSUME NEW a \in Requests, InvalidateAsync(a) PROVE AsyncStep
  <2> DEFINE label == [pc EXCEPT ![a] = "release"]
  <2>1. /\ label \in [Threads -> RequestPCs \cup RebuilderPCs]
        /\ \A t \in Threads : label[t] = pc[t] \/ (t \in Requests /\ pc[t] = "async" /\ label[t] = "release")
        /\ EnsureAsync(label)
        /\ UNCHANGED <<session, flight, waitOn, got, life, watcher>>
    BY <1>14 DEF InvalidateAsync
  <2> HIDE DEF label
  <2> QED
    BY <2>1, AsyncCalm DEF AsyncStep
<1>15. ASSUME NEW g \in Grants, WatcherAsync(g) PROVE AsyncStep
  BY <1>15, AsyncCalm DEF WatcherAsync, AsyncStep
<1> QED
  BY <1>1, <1>2, <1>3, <1>4, <1>5, <1>6, <1>7, <1>8, <1>9, <1>10, <1>11, <1>12, <1>13, <1>14, <1>15
  DEF Next, Ensure, Request, Watcher, Loud

-----------------------------------------------------------------------------
(* IInv is inductive: one lemma per loud action or group of actions.       *)

\* A pool without a session satisfies the inductive invariant.
LEMMA InitIInv == Init => IInv
<1> SUFFICES ASSUME Init PROVE IInv
  OBVIOUS
<1>1. TypeOK
  BY InitTypeOK
<1>2. \A t \in Threads : pc[t] \notin RefreshPCs \cup {"waiting", "watch"} /\ got[t] = NoSession
  BY DEF Init, RefreshPCs
<1>3. \A b \in Rebuilders : pc[b] = "idle"
  BY Kinds DEF Init, Threads, Loopers
<1>4. SingleFlight /\ WaitersOnFlight /\ RefreshOnlyWhenNeeded
  BY <1>2, Kinds DEF Init, SingleFlight, WaitersOnFlight, RefreshOnlyWhenNeeded
<1>5. OneRebuild
  BY <1>3 DEF Init, OneRebuild
<1>6. Watched /\ GrantsMade
  BY <1>2, Kinds DEF Init, Watched, GrantsMade
<1> QED
  BY <1>1, <1>4, <1>5, <1>6 DEF IInv

\* A quiet step keeps the inductive invariant.
LEMMA QuietIInv == ASSUME IInv, TypeOK', Quiet PROVE IInv'
<1> USE DEF IInv, Quiet, Calm, cache, grants
<1>1. SingleFlight' /\ WaitersOnFlight'
  BY DEF SingleFlight, WaitersOnFlight
<1>2. RefreshOnlyWhenNeeded' /\ GrantsMade'
  BY DEF RefreshOnlyWhenNeeded, Ready, GrantsMade
<1>3. OneRebuild'
  BY DEF OneRebuild, Threads, Loopers
<1>4. Watched'
  BY DEF Watched
<1> QED
  BY <1>1, <1>2, <1>3, <1>4

\* Without a session there is nothing to refresh for nothing, nor to watch.
LEMMA DroppedIInv == ASSUME IInv, TypeOK', Dropped PROVE IInv'
<1> USE DEF IInv, Dropped, Calm
<1>1. SingleFlight' /\ WaitersOnFlight'
  BY DEF SingleFlight, WaitersOnFlight
<1>2. RefreshOnlyWhenNeeded' /\ GrantsMade' /\ Watched'
  BY Kinds DEF RefreshOnlyWhenNeeded, Ready, GrantsMade, Watched
<1>3. OneRebuild'
  BY DEF OneRebuild, Threads, Loopers
<1> QED
  BY <1>1, <1>2, <1>3

\* ensureSessionAsync starts a rebuild only when the mark says there is none.
LEMMA AsyncIInv == ASSUME IInv, TypeOK', AsyncStep PROVE IInv'
<1> USE DEF IInv
<1>1. \A t \in Threads : /\ pc'[t] \in RefreshPCs <=> pc[t] \in RefreshPCs
                         /\ pc'[t] = "waiting" <=> pc[t] = "waiting"
                         /\ pc'[t] = "watch" <=> pc[t] = "watch"
  BY DEF AsyncStep, Calm, RefreshPCs
<1>2. SingleFlight' /\ WaitersOnFlight'
  BY <1>1 DEF SingleFlight, WaitersOnFlight, AsyncStep
<1>3. RefreshOnlyWhenNeeded' /\ GrantsMade'
  BY DEF RefreshOnlyWhenNeeded, Ready, GrantsMade, AsyncStep
<1>4. OneRebuild'
  <2>1. CASE scheduled' = scheduled /\ \A t \in Threads : Calm(t)
    BY <2>1 DEF OneRebuild, Calm, Threads, Loopers
  <2>2. ASSUME NEW b \in Rebuilders, ~scheduled, scheduled', pc'[b] = "check",
               \A t \in Threads \ {b} : Calm(t)
        PROVE  OneRebuild'
    <3>1. \A c \in Rebuilders : pc'[c] # "idle" <=> c = b
      BY <2>2 DEF OneRebuild, Calm, Threads, Loopers
    <3> QED
      BY <2>2, <3>1 DEF OneRebuild, TypeOK
  <2> QED
    BY <2>1, <2>2 DEF AsyncStep
<1>5. Watched'
  BY <1>1 DEF Watched, AsyncStep
<1> QED
  BY <1>2, <1>3, <1>4, <1>5

\* A thread takes off when no other one flies and no session is ready, and one
\* that waits does so for the flight it saw.
LEMMA CheckIInv == ASSUME IInv, TypeOK', NEW t \in Threads, EnsureCheck(t) PROVE IInv'
<1> USE DEF IInv
<1>1. /\ UNCHANGED <<session, scheduled, got, watcher, life>>
      /\ pc[t] = "check"
      /\ pc'[t] \notin {"idle", "watch"}
      /\ \A u \in Threads \ {t} : pc'[u] = pc[u] /\ waitOn'[u] = waitOn[u]
  BY DEF EnsureCheck, Ensured, TypeOK, grants
<1>2. \/ pc'[t] \notin RefreshPCs \cup {"waiting"} /\ flight' = flight
      \/ pc'[t] = "waiting" /\ flight # NoThread /\ waitOn'[t] = flight /\ flight' = flight
      \/ pc'[t] = "refresh" /\ ~Ready /\ flight = NoThread /\ flight' = t
  <2>1. CASE Ready /\ pc' = [pc EXCEPT ![t] = Ensured(t)] /\ UNCHANGED flight
    BY <2>1 DEF Ensured, RefreshPCs, TypeOK
  <2>2. CASE /\ flight # NoThread
             /\ pc' = [pc EXCEPT ![t] = "waiting"]
             /\ waitOn' = [waitOn EXCEPT ![t] = flight]
             /\ UNCHANGED flight
    BY <2>2 DEF TypeOK
  <2>3. CASE TakesOff /\ flight' = t /\ pc' = [pc EXCEPT ![t] = "refresh"]
    BY <2>3 DEF TakesOff, TypeOK
  <2> QED
    BY <2>1, <2>2, <2>3 DEF EnsureCheck
<1>3. t # NoThread /\ pc[t] \notin RefreshPCs \cup {"waiting"}
  BY <1>1, Kinds DEF RefreshPCs
<1>4. SingleFlight'
  <2>1. flight # t
    BY <1>3 DEF SingleFlight
  <2>2. ASSUME NEW u \in Threads, u # t PROVE pc'[u] \in RefreshPCs <=> flight' = u
    BY <1>1, <1>2, <2>2, Kinds DEF SingleFlight
  <2>3. pc'[t] \in RefreshPCs <=> flight' = t
    BY <1>2, <2>1 DEF RefreshPCs
  <2> QED
    BY <2>2, <2>3 DEF SingleFlight
<1>5. WaitersOnFlight'
  BY <1>1, <1>2, <1>3 DEF WaitersOnFlight, RefreshPCs
<1>6. RefreshOnlyWhenNeeded' /\ GrantsMade'
  BY <1>1, <1>2 DEF RefreshOnlyWhenNeeded, Ready, GrantsMade
<1>7. OneRebuild'
  <2>1. \A b \in Rebuilders : pc'[b] = "idle" <=> pc[b] = "idle"
    BY <1>1 DEF Threads, Loopers
  <2> QED
    BY <1>1, <2>1 DEF OneRebuild
<1>8. Watched'
  BY <1>1 DEF Watched
<1> QED
  BY <1>4, <1>5, <1>6, <1>7, <1>8

\* A thread that waits no longer leaves the others as they are.
LEMMA CancelIInv == ASSUME IInv, TypeOK', NEW t \in Threads, WaitCancelled(t) PROVE IInv'
<1> USE DEF IInv
<1>1. /\ UNCHANGED <<session, flight, scheduled, got, watcher, life>>
      /\ pc[t] = "waiting"
      /\ t \notin Rebuilders
      /\ pc'[t] \in {"idle", "sleep"}
      /\ \A u \in Threads \ {t} : pc'[u] = pc[u] /\ waitOn'[u] = waitOn[u]
  BY Kinds DEF WaitCancelled, Unensured, TypeOK, cache, grants
<1>2. SingleFlight' /\ WaitersOnFlight'
  BY <1>1 DEF SingleFlight, WaitersOnFlight, RefreshPCs
<1>3. RefreshOnlyWhenNeeded' /\ GrantsMade'
  BY <1>1 DEF RefreshOnlyWhenNeeded, Ready, GrantsMade
<1>4. OneRebuild'
  BY <1>1 DEF OneRebuild, Threads, Loopers
<1>5. Watched'
  BY <1>1 DEF Watched
<1> QED
  BY <1>2, <1>3, <1>4, <1>5

\* The grant of a reply is new, so it is not the cached one.
LEMMA DecideIInv == ASSUME IInv, TypeOK', NEW t \in Threads, Decide(t) PROVE IInv'
<1> USE DEF IInv
<1>1. /\ UNCHANGED <<session, flight, scheduled, waitOn, watcher>>
      /\ pc[t] = "refresh" /\ pc'[t] = "settle"
      /\ \A u \in Threads \ {t} : pc'[u] = pc[u] /\ got'[u] = got[u]
  BY DEF Decide, ReplyPlain, ReplyActive, TypeOK, cache, grants
<1>2. /\ \A g \in Grants : life[g] # "unused" => life'[g] = life[g]
      /\ got'[t] \in Grants => life'[got'[t]] # "unused"
  BY Kinds DEF Decide, ReplyPlain, ReplyActive, TypeOK, grants
<1>3. SingleFlight' /\ WaitersOnFlight'
  BY <1>1 DEF SingleFlight, WaitersOnFlight, RefreshPCs
<1>4. RefreshOnlyWhenNeeded'
  BY <1>1, <1>2 DEF RefreshOnlyWhenNeeded, Ready, GrantsMade
<1>5. GrantsMade'
  BY <1>1, <1>2 DEF GrantsMade
<1>6. OneRebuild'
  BY <1>1 DEF OneRebuild, Threads, Loopers
<1>7. Watched'
  BY <1>1, <1>2 DEF Watched, GrantsMade
<1> QED
  BY <1>3, <1>4, <1>5, <1>6, <1>7

\* The flight lands and takes all that wait for it along; the thread that
\* cached a grant is about to start its watcher.
LEMMA SettleIInv == ASSUME IInv, TypeOK', NEW t \in Threads, Settle(t) PROVE IInv'
<1> USE DEF IInv
<1>1. /\ UNCHANGED <<scheduled, watcher, life>>
      /\ flight' = NoThread
      /\ session' = Cached(got[t])
      /\ pc[t] = "settle"
      /\ pc'[t] \notin RefreshPCs \cup {"waiting"}
      /\ got[t] \in Grants => pc'[t] = "watch" /\ got'[t] = got[t]
      /\ got'[t] \in Grants => got'[t] = got[t]
      /\ \A u \in Threads \ {t} : got'[u] = got[u]
  BY Kinds DEF Settle, Ensured, Unensured, RefreshPCs, TypeOK, grants
<1>2. flight = t
  BY <1>1 DEF SingleFlight, RefreshPCs
<1>3. \A u \in Threads \ {t} : pc'[u] = IF pc[u] = "waiting" THEN "check" ELSE pc[u]
  BY <1>2 DEF Settle, Woken, WaitersOnFlight, TypeOK
<1>4. SingleFlight'
  <2>1. \A u \in Threads \ {t} : pc'[u] \notin RefreshPCs
    BY <1>2, <1>3 DEF SingleFlight, RefreshPCs
  <2> QED
    BY <1>1, <2>1, Kinds DEF SingleFlight
<1>5. WaitersOnFlight'
  BY <1>1, <1>3 DEF WaitersOnFlight
<1>6. RefreshOnlyWhenNeeded'
  BY <1>1 DEF RefreshOnlyWhenNeeded
<1>7. GrantsMade'
  BY <1>1, Kinds DEF GrantsMade, Cached
<1>8. OneRebuild'
  <2>1. t \in Rebuilders => pc'[t] # "idle"
    BY Kinds DEF Settle, Ensured, Unensured, TypeOK
  <2>2. \A b \in Rebuilders : pc'[b] = "idle" <=> pc[b] = "idle"
    BY <1>1, <1>3, <2>1 DEF Threads, Loopers
  <2> QED
    BY <1>1, <2>2 DEF OneRebuild
<1>9. Watched'
  BY <1>1, Kinds DEF Watched, Cached
<1> QED
  BY <1>4, <1>5, <1>6, <1>7, <1>8, <1>9

\* The watcher of a grant that can expire is started.
LEMMA WatchIInv == ASSUME IInv, TypeOK', NEW t \in Threads, Watch(t) PROVE IInv'
<1> USE DEF IInv
<1>1. /\ UNCHANGED <<session, flight, scheduled, waitOn, life>>
      /\ pc[t] = "watch"
      /\ pc'[t] \in {"lease", "done"}
      /\ got'[t] = NoSession
      /\ got[t] \in Grants
      /\ \A u \in Threads \ {t} : pc'[u] = pc[u] /\ got'[u] = got[u]
  BY DEF Watch, Ensured, TypeOK, cache
<1>2. /\ life[got[t]] # "endless" => watcher'[got[t]] = "asleep"
      /\ \A g \in Grants \ {got[t]} : watcher'[g] = watcher[g]
  BY <1>1 DEF Watch, NeedsWatcher, TypeOK
<1>3. SingleFlight' /\ WaitersOnFlight'
  BY <1>1 DEF SingleFlight, WaitersOnFlight, RefreshPCs
<1>4. RefreshOnlyWhenNeeded' /\ GrantsMade'
  BY <1>1, Kinds DEF RefreshOnlyWhenNeeded, Ready, GrantsMade
<1>5. OneRebuild'
  BY <1>1 DEF OneRebuild, Threads, Loopers
<1>6. Watched'
  BY <1>1, <1>2 DEF Watched
<1> QED
  BY <1>3, <1>4, <1>5, <1>6

\* The one rebuild ends together with the mark.
LEMMA RebuildDoneIInv == ASSUME IInv, TypeOK', NEW b \in Rebuilders, RebuildDone(b) PROVE IInv'
<1> USE DEF IInv
<1>1. /\ UNCHANGED <<session, flight, waitOn, got, watcher, life>>
      /\ b \in Threads /\ pc[b] = "done" /\ pc'[b] = "idle" /\ ~scheduled'
      /\ \A u \in Threads \ {b} : pc'[u] = pc[u]
  BY DEF RebuildDone, TypeOK, Threads, Loopers, grants
<1>2. SingleFlight' /\ WaitersOnFlight'
  BY <1>1 DEF SingleFlight, WaitersOnFlight, RefreshPCs
<1>3. RefreshOnlyWhenNeeded' /\ GrantsMade'
  BY <1>1 DEF RefreshOnlyWhenNeeded, Ready, GrantsMade
<1>4. OneRebuild'
  <2>1. \A c \in Rebuilders : pc'[c] = "idle"
    BY <1>1 DEF OneRebuild, Threads, Loopers
  <2> QED
    BY <1>1, <2>1 DEF OneRebuild
<1>5. Watched'
  BY <1>1 DEF Watched
<1> QED
  BY <1>2, <1>3, <1>4, <1>5

\* A watcher that gives up watches another instance than the cached one.
LEMMA EndsIInv == ASSUME IInv, TypeOK', NEW g \in Grants, WatcherEnds(g) PROVE IInv'
<1> USE DEF IInv, cache
<1>1. /\ UNCHANGED <<cache, pc, waitOn, got, life>>
      /\ session # g
      /\ \A h \in Grants \ {g} : watcher'[h] = watcher[h]
  BY DEF WatcherEnds, GivesUp, WatchedIsCached, TypeOK
<1>2. SingleFlight' /\ WaitersOnFlight' /\ OneRebuild'
  BY <1>1 DEF SingleFlight, WaitersOnFlight, OneRebuild
<1>3. RefreshOnlyWhenNeeded' /\ GrantsMade'
  BY <1>1 DEF RefreshOnlyWhenNeeded, Ready, GrantsMade
<1>4. Watched'
  BY <1>1 DEF Watched
<1> QED
  BY <1>2, <1>3, <1>4

\* Time makes no session ready again.
LEMMA AgesIInv == ASSUME IInv, TypeOK', NEW g \in Grants, Ages(g) PROVE IInv'
<1> USE DEF IInv, cache
<1>1. /\ UNCHANGED <<cache, pc, waitOn, got, watcher>>
      /\ \A h \in Grants : /\ life'[h] \in {"fresh", "endless"} => life[h] \in {"fresh", "endless"}
                           /\ life'[h] = "unused" <=> life[h] = "unused"
                           /\ life'[h] = "endless" <=> life[h] = "endless"
  BY DEF Ages, TypeOK
<1>2. SingleFlight' /\ WaitersOnFlight' /\ OneRebuild'
  BY <1>1 DEF SingleFlight, WaitersOnFlight, OneRebuild
<1>3. RefreshOnlyWhenNeeded' /\ GrantsMade'
  BY <1>1 DEF RefreshOnlyWhenNeeded, Ready, GrantsMade, TypeOK
<1>4. Watched'
  BY <1>1 DEF Watched
<1> QED
  BY <1>2, <1>3, <1>4

\* Every step of the pool keeps the inductive invariant.
LEMMA NextIInv == ASSUME IInv, [Next]_vars PROVE IInv'
<1>1. TypeOK'
  BY NextTypeOK DEF IInv
<1>2. Quiet \/ Dropped \/ AsyncStep \/ Loud
  BY QuietOrLoud DEF IInv
<1> QED
  BY <1>1, <1>2, QuietIInv, DroppedIInv, AsyncIInv, CheckIInv, CancelIInv, DecideIInv, SettleIInv,
     WatchIInv, RebuildDoneIInv, EndsIInv, AgesIInv
  DEF Loud

\* The inductive invariant holds of every reachable state.
THEOREM Inductive == Spec => []IInv
BY InitIInv, NextIInv, PTL DEF Spec

\* At most one thread refreshes, and p.sessionRefreshCh is its channel.
THEOREM OneFlight == Spec => []SingleFlight
<1>1. IInv => SingleFlight
  BY DEF IInv
<1> QED
  BY Inductive, <1>1, PTL

\* No thread waits on a channel that is closed, or that nobody will close.
THEOREM NoLostWaiter == Spec => []WaitersOnFlight
<1>1. IInv => WaitersOnFlight
  BY DEF IInv
<1> QED
  BY Inductive, <1>1, PTL

\* No refresh is under way while a ready session is cached.
THEOREM NoIdleRefresh == Spec => []RefreshOnlyWhenNeeded
<1>1. IInv => RefreshOnlyWhenNeeded
  BY DEF IInv
<1> QED
  BY Inductive, <1>1, PTL

\* There is at most one background rebuild, and the mark says whether.
THEOREM RebuildsAreMarked == Spec => []OneRebuild
<1>1. IInv => OneRebuild
  BY DEF IInv
<1> QED
  BY Inductive, <1>1, PTL

\* A cached session that can expire has a watcher, or is about to get it.
THEOREM NoUnwatchedSession == Spec => []Watched
<1>1. IInv => Watched
  BY DEF IInv
<1> QED
  BY Inductive, <1>1, PTL

-----------------------------------------------------------------------------
(* FreeSession implements SessionLife: what SessionLife sees of a step.    *)

\* What a user is to SessionLife while it stands at a label.
StandingAt(label) == IF label \in WantsPCs THEN "wants" ELSE IF label \in HasPCs THEN "has" ELSE "off"

LEMMA UserStands ==
    /\ userOf = [t \in Requests \cup Rebuilders |-> StandingAt(pc[t])]
    /\ \A t \in Requests \cup Rebuilders : userOf[t] = StandingAt(pc[t])
BY DEF userOf, StandingAt

\* Users that stay where they were to SessionLife ...
LEMMA SameUsers ==
  ASSUME \A u \in Requests \cup Rebuilders : StandingAt(pc'[u]) = StandingAt(pc[u])
  PROVE  userOf' = userOf
BY DEF userOf, StandingAt

\* ... or one that moves.
LEMMA UserBecomes ==
  ASSUME NEW u \in Requests \cup Rebuilders,
         \A v \in (Requests \cup Rebuilders) \ {u} : StandingAt(pc'[v]) = StandingAt(pc[v])
  PROVE  userOf' = [userOf EXCEPT ![u] = StandingAt(pc'[u])]
BY DEF userOf, StandingAt

\* What was answered stays when the thread that refreshes keeps it.
LEMMA SameAnswer ==
  ASSUME flight' = flight,
         flight # NoThread => /\ pc'[flight] = "settle" <=> pc[flight] = "settle"
                              /\ got'[flight] = got[flight]
  PROVE  answerOf' = answerOf
BY DEF answerOf

LEMMA SameGuards == ASSUME \A g \in Grants : watcher'[g] = "asleep" <=> watcher[g] = "asleep"
                    PROVE  guardedOf' = guardedOf
BY DEF guardedOf

\* The two modules mean the same by the grants, by a session that will do and
\* by one whose instance is kept.
LEMMA SameWords ==
    /\ SL!Grants = Grants
    /\ SL!Users = Requests \cup Rebuilders
    /\ SL!WillDo <=> Ready
    /\ \A g \in Grants : SL!Kept(g) <=> WatchedIsCached(g)
BY DEF SL!Grants, Grants, SL!Users, SL!WillDo, Ready, SL!Kept, WatchedIsCached

\* The session as SessionLife sees it is unchanged.
Same == UNCHANGED <<session, flight, answerOf, userOf, visible, scheduled, cooling, guardedOf, life, endedOf>>

\* While one refreshes, nothing has been answered until it settles.
LEMMA AnswerOfFlight ==
  ASSUME IInv, NEW t \in Threads
  PROVE  /\ pc[t] = "refresh" => flight = t /\ answerOf = NoSession
         /\ pc[t] = "settle" => flight = t /\ answerOf = got[t] /\ got[t] # NoSession
         /\ pc[t] \notin RefreshPCs => flight # t
         /\ flight = NoThread => answerOf = NoSession
BY Kinds DEF IInv, SingleFlight, answerOf, RefreshPCs, TypeOK

-----------------------------------------------------------------------------
(* One lemma per action, or per group of actions that do the same.         *)

\* A step that moves one user, none of those that refresh, and leaves the
\* session, the flight and the clocks alone.
LEMMA OneUserMoves ==
  ASSUME IInv, NEW u \in Requests \cup Rebuilders, NEW label,
         pc' = [pc EXCEPT ![u] = label], pc[u] \notin RefreshPCs, label # "settle",
         UNCHANGED <<flight, got, grants, process>>
  PROVE  /\ userOf' = [userOf EXCEPT ![u] = StandingAt(label)]
         /\ StandingAt(label) = StandingAt(pc[u]) => userOf' = userOf
         /\ UNCHANGED <<answerOf, guardedOf, endedOf, life>>
<1>1. u \in Threads /\ pc'[u] = label /\ \A v \in Threads \ {u} : pc'[v] = pc[v]
  BY DEF IInv, TypeOK, Threads, Loopers
<1>2. userOf' = [userOf EXCEPT ![u] = StandingAt(label)]
  BY <1>1, UserBecomes DEF Threads, Loopers
<1>3. StandingAt(label) = StandingAt(pc[u]) => userOf' = userOf
  BY <1>1, SameUsers DEF Threads, Loopers
<1>4. answerOf' = answerOf
  <2>1. flight # NoThread => flight \in Threads \ {u}
    BY <1>1, AnswerOfFlight DEF IInv, TypeOK
  <2> QED
    BY <1>1, <2>1, SameAnswer
<1>5. guardedOf' = guardedOf /\ endedOf' = endedOf /\ life' = life
  BY DEF guardedOf, endedOf, grants
<1> QED
  BY <1>2, <1>3, <1>4, <1>5

\* The same for the prewarming, which SessionLife does not see.
LEMMA PrewarmerMoves ==
  ASSUME IInv, NEW label, pc' = [pc EXCEPT ![Prewarmer] = label], pc[Prewarmer] \notin RefreshPCs,
         label # "settle", UNCHANGED <<flight, got, grants, process>>
  PROVE  UNCHANGED <<userOf, answerOf, guardedOf, endedOf, life>>
<1>1. \A v \in Threads \ {Prewarmer} : pc'[v] = pc[v]
  BY DEF IInv, TypeOK
<1>2. userOf' = userOf
  BY <1>1, SameUsers, Kinds DEF Threads, Loopers
<1>3. answerOf' = answerOf
  <2>1. Prewarmer \in Threads
    BY DEF Threads, Loopers
  <2>2. flight # NoThread => flight \in Threads \ {Prewarmer}
    BY <2>1, AnswerOfFlight DEF IInv, TypeOK
  <2> QED
    BY <1>1, <2>2, SameAnswer
<1>4. guardedOf' = guardedOf /\ endedOf' = endedOf /\ life' = life
  BY DEF guardedOf, endedOf, grants
<1> QED
  BY <1>2, <1>3, <1>4

\* A thread finds a session that will do, waits, or asks.
LEMMA CheckSim == ASSUME IInv, NEW t \in Threads, EnsureCheck(t) PROVE SL!Next \/ Same
<1>1. /\ pc[t] = "check" /\ flight # t
      /\ UNCHANGED <<session, scheduled, cooling, visible, got, grants, process>>
  BY AnswerOfFlight DEF EnsureCheck, RefreshPCs
<1>2. t = Prewarmer \/ t \in Requests \cup Rebuilders
  BY DEF Threads, Loopers
<1>3. ASSUME NEW label \in {"waiting", Ensured(t)}, pc' = [pc EXCEPT ![t] = label], UNCHANGED flight,
             label = Ensured(t) => Ready
      PROVE  SL!Next \/ Same
  <2>1. label # "settle" /\ pc[t] \notin RefreshPCs
    BY <1>1 DEF Ensured, RefreshPCs
  <2>2. CASE t = Prewarmer
    BY <1>1, <1>3, <2>1, <2>2, PrewarmerMoves DEF Same
  <2>3. CASE t \in Requests \cup Rebuilders /\ label = "waiting"
    <3>1. StandingAt(label) = StandingAt(pc[t])
      BY <1>1, <2>3 DEF StandingAt, WantsPCs
    <3> QED
      BY <1>1, <1>3, <2>1, <2>3, <3>1, OneUserMoves DEF Same
  <2>4. CASE t \in Requests \cup Rebuilders /\ label = Ensured(t)
    <3>1. StandingAt(label) = "has" /\ userOf[t] = "wants"
      BY <1>1, <2>4, UserStands DEF StandingAt, WantsPCs, HasPCs, Ensured
    <3>2. SL!Finds(t)
      BY <1>1, <1>3, <2>1, <2>4, <3>1, OneUserMoves, SameWords
      DEF SL!Finds, SL!Becomes, SL!asking
    <3> QED
      BY <2>4, <3>2, SameWords DEF SL!Next, SL!Using
  <2> QED
    BY <1>2, <1>3, <2>2, <2>3, <2>4
<1>4. CASE TakesOff /\ flight' = t /\ pc' = [pc EXCEPT ![t] = "refresh"]
  <2>1. \A v \in Threads \ {t} : pc'[v] = pc[v]
    BY <1>4 DEF IInv, TypeOK
  <2>2. pc'[t] = "refresh"
    BY <1>4 DEF IInv, TypeOK
  <2>3. userOf' = userOf
    <3>1. StandingAt(pc'[t]) = StandingAt(pc[t])
      BY <1>1, <2>2 DEF StandingAt, WantsPCs
    <3> QED
      BY <2>1, <3>1, SameUsers DEF Threads, Loopers
  <2>4. answerOf' = answerOf
    BY <1>4, <2>2, Kinds DEF answerOf, TakesOff
  <2>5. guardedOf' = guardedOf /\ endedOf' = endedOf /\ life' = life
    BY <1>1 DEF guardedOf, endedOf, grants
  <2>6. t \in Requests \cup Rebuilders => userOf[t] = "wants"
    BY <1>1, UserStands DEF StandingAt, WantsPCs
  <2>7. SL!Asks(t)
    BY <1>1, <1>4, <2>3, <2>4, <2>5, <2>6, SameWords DEF SL!Asks, SL!users, TakesOff
  <2> QED
    BY <1>2, <2>7, SameWords DEF SL!Next, SL!Asking
<1>5. CASE Ready /\ pc' = [pc EXCEPT ![t] = Ensured(t)] /\ UNCHANGED flight
  BY <1>3, <1>5
<1>6. CASE pc' = [pc EXCEPT ![t] = "waiting"] /\ UNCHANGED flight
  <2>1. "waiting" # Ensured(t)
    BY DEF Ensured
  <2> QED
    BY <1>3, <1>6, <2>1
<1> QED
  BY <1>4, <1>5, <1>6 DEF EnsureCheck

\* A request that is cancelled while it waits gives up; the prewarming is not
\* seen.
LEMMA CancelSim == ASSUME IInv, NEW t \in Threads, WaitCancelled(t) PROVE SL!Next \/ Same
<1>1. /\ pc[t] = "waiting" /\ pc[t] \notin RefreshPCs /\ Unensured(t) # "settle"
      /\ pc' = [pc EXCEPT ![t] = Unensured(t)]
      /\ UNCHANGED <<session, flight, scheduled, cooling, visible, got, grants, process>>
  BY DEF WaitCancelled, cache, RefreshPCs, Unensured
<1>2. flight # t /\ flight # NoThread
  BY <1>1, AnswerOfFlight DEF IInv, WaitersOnFlight
<1>3. CASE t \in Requests
  <2>1. StandingAt(Unensured(t)) = "off" /\ userOf[t] = "wants"
    BY <1>1, <1>3, UserStands DEF StandingAt, WantsPCs, HasPCs, Unensured
  <2>2. userOf' = [userOf EXCEPT ![t] = "off"] /\ UNCHANGED <<answerOf, guardedOf, endedOf, life>>
    <3>1. PICK label : label = Unensured(t)
      OBVIOUS
    <3>2. /\ t \in Requests \cup Rebuilders /\ label # "settle" /\ StandingAt(label) = "off"
          /\ pc' = [pc EXCEPT ![t] = label] /\ pc[t] \notin RefreshPCs
          /\ UNCHANGED <<flight, got, grants, process>>
      BY <1>1, <1>3, <2>1, <3>1
    <3> QED
      BY <3>2, OneUserMoves
  <2>3. SL!GivesUp(t)
    BY <1>1, <1>2, <2>1, <2>2 DEF SL!GivesUp, SL!Becomes, SL!asking
  <2> QED
    BY <1>3, <2>3 DEF SL!Next, SL!Using
<1>4. CASE t = Prewarmer
  BY <1>1, <1>4, PrewarmerMoves DEF Same
<1> QED
  BY <1>3, <1>4 DEF WaitCancelled

\* An answer of the upstream is one that was asked for.
LEMMA DecideSim == ASSUME IInv, NEW t \in Threads, Decide(t) PROVE SL!Next
<1>1. /\ pc[t] = "refresh" /\ pc' = [pc EXCEPT ![t] = "settle"]
      /\ UNCHANGED <<session, flight, scheduled, cooling, visible, watcher, process>>
  BY DEF Decide, ReplyPlain, ReplyActive, cache, grants
<1>2. flight = t /\ answerOf = NoSession /\ flight # NoThread
  BY <1>1, AnswerOfFlight, Kinds
<1>3. userOf' = userOf
  <2>1. \A v \in Threads : StandingAt(pc'[v]) = StandingAt(pc[v])
    BY <1>1 DEF StandingAt, WantsPCs, IInv, TypeOK
  <2> QED
    BY <2>1, SameUsers DEF Threads, Loopers
<1>4. guardedOf' = guardedOf /\ endedOf' = endedOf
  BY <1>1 DEF guardedOf, endedOf
<1>5. answerOf' = got'[t]
  BY <1>1, <1>2 DEF answerOf, IInv, TypeOK
<1>6. ASSUME NEW x, got' = [got EXCEPT ![t] = x] PROVE SL!Answered(x)
  <2>1. answerOf' = x
    BY <1>5, <1>6 DEF IInv, TypeOK
  <2> QED
    BY <1>1, <1>2, <1>3, <1>4, <2>1 DEF SL!Answered, SL!users
<1>7. ASSUME NEW x \in {Failed, Disabled}, ReplyPlain(t, x) PROVE SL!Next
  BY <1>6, <1>7 DEF ReplyPlain, SL!Plain, SL!Next, SL!Asking, grants
<1>8. ASSUME NEW g \in Grants, NEW span \in {"endless", "fresh", "stale", "over"}, ReplyActive(t, g, span)
      PROVE  SL!Next
  <2>1. SL!Granted(g, span)
    BY <1>6, <1>8 DEF ReplyActive, SL!Granted
  <2> QED
    BY <2>1, SameWords DEF SL!Next, SL!Asking
<1> QED
  BY <1>7, <1>8 DEF Decide

\* What is settled takes the place of a session that would not do.
LEMMA SettleSim == ASSUME IInv, NEW t \in Threads, Settle(t) PROVE SL!Next
<1>1. /\ pc[t] = "settle" /\ flight' = NoThread /\ session' = Cached(got[t])
      /\ UNCHANGED <<scheduled, cooling, visible, watcher, life, process>>
  BY DEF Settle, grants
<1>2. flight = t /\ flight # NoThread /\ answerOf = got[t] /\ answerOf # NoSession /\ ~Ready
  BY <1>1, AnswerOfFlight, Kinds DEF IInv, RefreshOnlyWhenNeeded
<1>3. answerOf' = NoSession
  BY <1>1 DEF answerOf
<1>4. \A u \in Threads \ {t} : StandingAt(pc'[u]) = StandingAt(pc[u])
  <2>1. \A u \in Threads \ {t} : pc'[u] = pc[u] \/ (pc[u] = "waiting" /\ pc'[u] = "check")
    BY DEF Settle, Woken
  <2> QED
    BY <2>1 DEF StandingAt, WantsPCs
<1>5. StandingAt(pc'[t]) = IF got[t] # Failed THEN "has" ELSE IF t \in Requests THEN "off" ELSE "wants"
  <2>1. pc'[t] = IF got[t] = Failed THEN Unensured(t) ELSE IF got[t] \in Grants THEN "watch" ELSE Ensured(t)
    BY DEF Settle
  <2> QED
    BY <2>1, Kinds DEF StandingAt, WantsPCs, HasPCs, Ensured, Unensured
<1>6. userOf' = [u \in Requests \cup Rebuilders |->
                   IF u # t THEN userOf[u]
                   ELSE IF got[t] # Failed THEN "has" ELSE IF u \in Requests THEN "off" ELSE "wants"]
  <2>1. userOf' = [u \in Requests \cup Rebuilders |-> StandingAt(pc'[u])]
    BY DEF userOf, StandingAt
  <2>2. \A u \in Requests \cup Rebuilders :
          StandingAt(pc'[u]) = IF u # t THEN userOf[u]
                               ELSE IF got[t] # Failed THEN "has" ELSE IF u \in Requests THEN "off" ELSE "wants"
    BY <1>4, <1>5, UserStands DEF Threads, Loopers
  <2> QED
    BY <2>1, <2>2
<1>7. guardedOf' = guardedOf /\ endedOf' = endedOf
  BY <1>1 DEF guardedOf, endedOf
<1>8. SL!Keeps
  BY <1>1, <1>2, <1>3, <1>6, <1>7, SameWords DEF SL!Keeps, Cached
<1> QED
  BY <1>8 DEF SL!Next, SL!Asking

\* The watcher of a grant that can expire waits for its end.
LEMMA WatchSim == ASSUME IInv, NEW t \in Threads, Watch(t) PROVE SL!Next \/ Same
<1>1. /\ pc[t] = "watch" /\ got[t] \in Grants /\ life[got[t]] # "unused"
      /\ UNCHANGED <<session, flight, scheduled, cooling, visible, life, process>>
  BY DEF Watch, cache, IInv, TypeOK, GrantsMade
<1>2. flight # t
  BY <1>1, AnswerOfFlight DEF RefreshPCs
<1>3. /\ pc'[t] = Ensured(t)
      /\ \A v \in Threads \ {t} : pc'[v] = pc[v] /\ got'[v] = got[v]
  BY DEF Watch, IInv, TypeOK
<1>4. userOf' = userOf
  <2>1. \A v \in Threads : StandingAt(pc'[v]) = StandingAt(pc[v])
    BY <1>1, <1>3 DEF StandingAt, WantsPCs, HasPCs, Ensured
  <2> QED
    BY <2>1, SameUsers DEF Threads, Loopers
<1>5. answerOf' = answerOf
  <2>1. flight # NoThread => flight \in Threads \ {t}
    BY <1>2 DEF IInv, TypeOK
  <2> QED
    BY <1>1, <1>3, <2>1, SameAnswer
<1>6. endedOf' = endedOf
  BY <1>1 DEF endedOf
<1>7. CASE NeedsWatcher(got[t])
  <2>1. watcher' = [watcher EXCEPT ![got[t]] = "asleep"]
    BY <1>7 DEF Watch
  <2>2. guardedOf' = guardedOf \cup {got[t]}
    BY <1>1, <2>1 DEF guardedOf, IInv, TypeOK
  <2>3. SL!Guards(got[t])
    BY <1>1, <1>4, <1>5, <1>6, <1>7, <2>2 DEF SL!Guards, SL!asking, SL!users, NeedsWatcher
  <2> QED
    BY <1>1, <2>3, SameWords DEF SL!Next
<1>8. CASE ~NeedsWatcher(got[t])
  <2>1. \A g \in Grants : watcher'[g] = watcher[g]
    BY <1>8 DEF Watch, IInv, TypeOK
  <2> QED
    BY <1>1, <1>4, <1>5, <1>6, <2>1, SameGuards DEF Same
<1> QED
  BY <1>7, <1>8

\* A request on its session: what moves no other thread.
LEMMA RequestSim ==
  ASSUME IInv, NEW a \in Requests, Request(a), ~InvalidateAsync(a) PROVE SL!Next \/ Same
<1> USE UserStands DEF StandingAt, WantsPCs, HasPCs, RefreshPCs, cache
<1>1. a \in Requests \cup Rebuilders
  OBVIOUS
<1>2. CASE RequestArrives(a)
  <2>1. SL!Wants(a)
    BY <1>1, <1>2, OneUserMoves DEF RequestArrives, SL!Wants, SL!Becomes, SL!asking
  <2> QED
    BY <2>1 DEF SL!Next, SL!Using
<1>3. CASE Lease(a)
  <2>1. SL!Works(a)
    BY <1>1, <1>3, OneUserMoves DEF Lease, SL!Works, SL!asking
  <2> QED
    BY <2>1 DEF SL!Next, SL!Using
<1>4. CASE LeaseFailed(a)
  <2>1. SL!Leaves(a)
    BY <1>1, <1>4, OneUserMoves DEF LeaseFailed, SL!Leaves, SL!Becomes, SL!asking
  <2> QED
    BY <2>1 DEF SL!Next, SL!Using
<1>5. CASE ChatOver(a)
  <2>1. SL!Leaves(a)
    BY <1>1, <1>5, OneUserMoves DEF ChatOver, SL!Leaves, SL!Becomes, SL!asking
  <2> QED
    BY <2>1 DEF SL!Next, SL!Using
<1>6. CASE RunStruck(a)
  <2>1. UNCHANGED <<session, flight, answerOf, userOf, scheduled, cooling, guardedOf, life, endedOf>>
    BY <1>6 DEF RunStruck, grants, userOf, answerOf, guardedOf, endedOf
  <2>2. SL!Rests(a)
    BY <1>6, <2>1 DEF RunStruck, SL!Rests, SL!asking
  <2> QED
    BY <2>2 DEF SL!Next, SL!Using
<1>7. CASE ChatSessionInvalid(a)
  BY <1>1, <1>7, OneUserMoves DEF ChatSessionInvalid, Same
<1>8. CASE ChatUnauthorized(a)
  <2>1. SL!Cools(a)
    BY <1>1, <1>8, OneUserMoves DEF ChatUnauthorized, SL!Cools, SL!asking
  <2> QED
    BY <2>1 DEF SL!Next, SL!Using
<1>9. CASE InvalidateSession(a)
  <2>1. SL!Rejects(a)
    BY <1>1, <1>9, OneUserMoves DEF InvalidateSession, SL!Rejects, SL!Becomes, SL!asking
  <2> QED
    BY <2>1 DEF SL!Next, SL!Using
<1>10. CASE Release(a)
  <2>1. SL!Rests(a)
    BY <1>1, <1>10, OneUserMoves DEF Release, SL!Rests, SL!asking
  <2> QED
    BY <2>1 DEF SL!Next, SL!Using
<1> QED
  BY <1>2, <1>3, <1>4, <1>5, <1>6, <1>7, <1>8, <1>9, <1>10 DEF Request

\* ensureSessionAsync, called at the end of a step that SessionLife does not
\* see, starts the rebuild of a user that is off, or nothing.
LEMMA AsyncSim ==
  ASSUME IInv, NEW label,
         \A t \in Threads : label[t] = pc[t] \/ (pc[t] = "async" /\ label[t] = "release"),
         label \in [Threads -> RequestPCs \cup RebuilderPCs],
         EnsureAsync(label), guardedOf' = guardedOf,
         UNCHANGED <<session, flight, cooling, visible, waitOn, got, life, process>>
  PROVE  SL!Next \/ Same
<1>1. \A t \in Threads : /\ StandingAt(label[t]) = StandingAt(pc[t])
                         /\ label[t] = "idle" => pc[t] = "idle"
                         /\ label[t] \in RefreshPCs <=> pc[t] \in RefreshPCs
                         /\ label[t] = "settle" <=> pc[t] = "settle"
  BY DEF StandingAt, WantsPCs, HasPCs, RefreshPCs
<1>2. endedOf' = endedOf
  BY DEF endedOf
<1>3. CASE pc' = label /\ UNCHANGED scheduled
  <2>1. userOf' = userOf
    BY <1>1, <1>3, SameUsers DEF Threads, Loopers
  <2>2. answerOf' = answerOf
    BY <1>1, <1>3, SameAnswer DEF IInv, TypeOK
  <2> QED
    BY <1>2, <1>3, <2>1, <2>2 DEF Same
<1>4. ASSUME NEW b \in Rebuilders, MayRebuild, label[b] = "idle", pc' = [label EXCEPT ![b] = "check"],
             scheduled' = TRUE
      PROVE  SL!Next
  <2>1. b \in Threads /\ pc[b] = "idle" /\ pc'[b] = "check" /\ \A t \in Threads \ {b} : pc'[t] = label[t]
    BY <1>1, <1>4 DEF Threads, Loopers
  <2>2. userOf' = [userOf EXCEPT ![b] = "wants"] /\ userOf[b] = "off"
    <3>1. \A t \in Threads \ {b} : StandingAt(pc'[t]) = StandingAt(pc[t])
      BY <1>1, <2>1
    <3>2. userOf' = [userOf EXCEPT ![b] = StandingAt(pc'[b])]
      BY <3>1, UserBecomes DEF Threads, Loopers
    <3> QED
      BY <2>1, <3>2, UserStands DEF StandingAt, WantsPCs, HasPCs
  <2>3. flight = NoThread /\ answerOf' = answerOf
    BY <1>4 DEF MayRebuild, answerOf
  <2>4. SL!Rebuilds(b)
    BY <1>2, <1>4, <2>2, <2>3 DEF SL!Rebuilds, SL!Becomes, SL!asking, MayRebuild
  <2> QED
    BY <2>4 DEF SL!Next, SL!Using
<1> QED
  BY <1>3, <1>4 DEF EnsureAsync

LEMMA InvalidateAsyncSim ==
  ASSUME IInv, NEW a \in Requests, InvalidateAsync(a) PROVE SL!Next \/ Same
<1> DEFINE label == [pc EXCEPT ![a] = "release"]
<1>1. /\ \A t \in Threads : label[t] = pc[t] \/ (pc[t] = "async" /\ label[t] = "release")
      /\ label \in [Threads -> RequestPCs \cup RebuilderPCs]
      /\ EnsureAsync(label)
      /\ guardedOf' = guardedOf
      /\ UNCHANGED <<session, flight, cooling, visible, waitOn, got, life, process>>
  BY DEF InvalidateAsync, IInv, TypeOK, RequestPCs, guardedOf, grants
<1> HIDE DEF label
<1> QED
  BY <1>1, AsyncSim

\* A goroutine that tries again wants a session as before, and the end of the
\* prewarming is not seen.
LEMMA LoopSim ==
  ASSUME IInv, (\E t \in Loopers : Retry(t)) \/ PrewarmCancelled PROVE Same
<1>1. ASSUME NEW b \in Rebuilders, Retry(b) PROVE Same
  BY <1>1, OneUserMoves DEF Retry, cache, Same, StandingAt, WantsPCs, RefreshPCs
<1>2. CASE Retry(Prewarmer) \/ PrewarmCancelled
  BY <1>2, PrewarmerMoves DEF Retry, PrewarmCancelled, cache, Same, RefreshPCs
<1> QED
  BY <1>1, <1>2 DEF Loopers

\* The rebuild that ends had what it wanted.
LEMMA RebuildDoneSim == ASSUME IInv, NEW b \in Rebuilders, RebuildDone(b) PROVE SL!Next
<1>1. scheduled
  BY DEF RebuildDone, IInv, OneRebuild
<1>2. userOf[b] = "has"
  BY UserStands DEF RebuildDone, StandingAt, WantsPCs, HasPCs
<1>3. userOf' = [userOf EXCEPT ![b] = "off"] /\ UNCHANGED <<answerOf, guardedOf, endedOf, life>>
  <2>1. /\ pc' = [pc EXCEPT ![b] = "idle"] /\ pc[b] \notin RefreshPCs
        /\ UNCHANGED <<flight, got, grants, process>>
    BY DEF RebuildDone, RefreshPCs
  <2>2. StandingAt("idle") = "off"
    BY DEF StandingAt, WantsPCs, HasPCs
  <2> QED
    BY <2>1, <2>2, OneUserMoves
<1>4. SL!Rebuilt(b)
  BY <1>1, <1>2, <1>3 DEF RebuildDone, SL!Rebuilt, SL!Becomes, SL!asking
<1> QED
  BY <1>4 DEF SL!Next, SL!Using

\* A watcher that wakes drops the session or leaves it, and its call of
\* ensureSessionAsync comes after.
LEMMA WatcherSim == ASSUME IInv, NEW g \in Grants, Watcher(g) PROVE SL!Next \/ Same
<1>1. ASSUME watcher[g] = "asleep", watcher'[g] # "asleep",
             \A h \in Grants \ {g} : watcher'[h] = watcher[h]
      PROVE  g \in guardedOf /\ guardedOf' = guardedOf \ {g}
  BY <1>1 DEF guardedOf
<1>2. CASE WatcherEnds(g)
  <2>1. g \in guardedOf /\ guardedOf' = guardedOf \ {g}
    BY <1>1, <1>2 DEF WatcherEnds, IInv, TypeOK
  <2>2. UNCHANGED <<answerOf, userOf, endedOf>>
    BY <1>2 DEF WatcherEnds, cache, answerOf, userOf, endedOf
  <2>3. SL!Expires(g)
    BY <1>2, <2>1, <2>2, SameWords DEF WatcherEnds, GivesUp, cache, SL!Expires, SL!asking, SL!users
  <2> QED
    BY <2>3, SameWords DEF SL!Next
<1>3. CASE WatcherDrops(g)
  <2>1. g \in guardedOf /\ guardedOf' = guardedOf \ {g}
    BY <1>1, <1>3 DEF WatcherDrops, IInv, TypeOK
  <2>2. UNCHANGED <<answerOf, userOf, endedOf>>
    BY <1>3 DEF WatcherDrops, answerOf, userOf, endedOf
  <2>3. SL!Expires(g)
    BY <1>3, <2>1, <2>2, SameWords DEF WatcherDrops, SL!Expires, SL!asking, SL!users
  <2> QED
    BY <2>3, SameWords DEF SL!Next
<1>4. CASE WatcherAsync(g)
  <2>1. guardedOf' = guardedOf
    BY <1>4, SameGuards DEF WatcherAsync, IInv, TypeOK
  <2> QED
    BY <1>4, <2>1, AsyncSim DEF WatcherAsync, IInv, TypeOK
<1> QED
  BY <1>2, <1>3, <1>4 DEF Watcher

\* Time, and the end of the process.
LEMMA TimeSim ==
  ASSUME IInv, (\E g \in Grants : Ages(g)) \/ CooldownEnds \/ CancelRun \/ EndSession \/ UNCHANGED vars
  PROVE  SL!Next \/ Same
<1>1. ASSUME NEW g \in Grants, Ages(g) PROVE SL!Next
  <2>1. SL!Ages(g)
    BY <1>1 DEF Ages, cache, SL!Ages, SL!asking, SL!users, answerOf, userOf, guardedOf, endedOf
  <2> QED
    BY <2>1, SameWords DEF SL!Next
<1>2. CASE CooldownEnds
  <2>1. SL!Warms
    BY <1>2 DEF CooldownEnds, cache, grants, SL!Warms, SL!asking, answerOf, userOf, guardedOf, endedOf
  <2> QED
    BY <2>1 DEF SL!Next
<1>3. CASE CancelRun \/ UNCHANGED vars
  BY <1>3 DEF CancelRun, vars, cache, grants, Same, answerOf, userOf, guardedOf, endedOf
<1>4. CASE EndSession
  <2>1. SL!Ends
    BY <1>4 DEF EndSession, grants, SL!Ends, SL!asking, SL!users, answerOf, userOf, guardedOf, endedOf
  <2> QED
    BY <2>1 DEF SL!Next
<1> QED
  BY <1>1, <1>2, <1>3, <1>4

-----------------------------------------------------------------------------

\* A pool without a session is one to SessionLife.
LEMMA InitSim == Init => SL!Init
<1> SUFFICES ASSUME Init PROVE SL!Init
  OBVIOUS
<1>1. userOf = [u \in Requests \cup Rebuilders |-> "off"]
  <2>1. \A u \in Requests \cup Rebuilders : pc[u] = "idle"
    BY Kinds DEF Init, Threads, Loopers
  <2> QED
    BY <2>1 DEF userOf, WantsPCs, HasPCs
<1>2. answerOf = NoSession /\ guardedOf = {} /\ endedOf = FALSE
  BY DEF Init, answerOf, guardedOf, endedOf
<1> QED
  BY <1>1, <1>2 DEF Init, SL!Init, SL!Users, SL!Grants, Grants

LEMMA NextSim == ASSUME IInv, [Next]_vars PROVE [SL!Next]_SL!vars
<1>1. SL!Next \/ Same
  BY CheckSim, CancelSim, DecideSim, SettleSim, WatchSim, RequestSim, InvalidateAsyncSim, LoopSim,
     RebuildDoneSim, WatcherSim, TimeSim
  DEF Next, Ensure
<1> QED
  BY <1>1 DEF Same, SL!vars, SL!asking, SL!users

\* Every behaviour of the pool's session, whoever moves when, is one that
\* SessionLife allows.
THEOREM ImplementsSessionLife == Spec => KeepsSessionLife
<1>1. Init => IInv /\ SL!Init
  BY InitIInv, InitSim
<1>2. IInv /\ [Next]_vars => IInv' /\ [SL!Next]_SL!vars
  BY NextIInv, NextSim
<1> QED
  BY <1>1, <1>2, PTL DEF Spec, KeepsSessionLife, SL!Spec

=============================================================================
