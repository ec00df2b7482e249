------------------------------ MODULE TokenPool ------------------------------
(***************************************************************************)
(* The run book of one tokenPool (run_manager.go): which upstream run      *)
(* serves each agent, which replaced runs are still draining, how many     *)
(* requests lease each run, and who tells the upstream to FINISH a run.    *)
(*                                                                         *)
(* A step is one critical section of p.mu (or one reply of the upstream),  *)
(* so every window in which the code has released the lock is a window in  *)
(* which the other threads move.  The threads are                          *)
(*   - the Attempts: request handlers, each of which over and over makes   *)
(*     one iteration of the retry loop of proxyChatCompletions that tries  *)
(*     this pool (list the candidates, acquire, chat, release);            *)
(*   - the Maintainer: the one ticker goroutine that runs maintainAll;     *)
(*   - the Prewarmer: the goroutine of prewarmPools;                       *)
(*   - one goroutine per replaced run, spawned by rotateAgent to call      *)
(*     finishIfReady.  A run is replaced at most once, so the run itself   *)
(*     names that goroutine.                                               *)
(* Close runs beside them, in the main goroutine.  The process ends some   *)
(* time after it, which only cuts a behaviour short.                       *)
(*                                                                         *)
(* Abstracted: clocks (any current run may turn out to be older than       *)
(* RotationInterval, a cooldown may end at any time), texts of errors and  *)
(* labels, the request counter, and the free session, which only answers   *)
(* ok or error here.                                                       *)
(***************************************************************************)
EXTENDS Integers, FiniteSets

CONSTANTS
    Attempts,    \* attempts that list this pool among their candidates
    Agents,      \* agent ids of the model registry
    Prewarmed,   \* the agents Start and SyncAccounts ask to prewarm
    Runs,        \* run ids the upstream can hand out; bounds the StartRuns
    NoRun,       \* a nil *managedRun
    NoAgent,     \* no agent chosen yet
    Maintainer,
    Prewarmer

Rotators == {Maintainer, Prewarmer}
Threads  == Attempts \cup Runs \cup Rotators

ASSUME ConstantsAssumption ==
    /\ IsFiniteSet(Attempts)
    /\ Prewarmed \subseteq Agents
    /\ NoAgent \notin Agents
    /\ NoRun \notin Threads
    /\ Maintainer # Prewarmer
    /\ Attempts \cap Runs = {}
    /\ Rotators \cap (Attempts \cup Runs) = {}

VARIABLES
    runs,        \* p.runs: the current run of each agent
    draining,    \* p.draining: replaced runs not yet finished
    inflight,    \* run.inflight
    finishing,   \* run.finishing
    cooling,     \* now is before p.cooldownUntil
    retired,     \* p.retired
    listed,      \* the pool is in activePools or in retiredPools
    pc,          \* where each thread stands
    agent,       \* the agent a thread acquires or rotates
    run,         \* the run a thread leases or finishes
    todoRotate,  \* agents a maintain or prewarm pass has yet to rotate
    todoFinish,  \* runs a maintain pass has yet to offer to finishIfReady
    closing,     \* Close has stopped the ticker
    todoClose,   \* runs shutdown has yet to finish
    upstream     \* external: what the upstream knows of each run id

book   == <<runs, draining, inflight, finishing>>
flags  == <<cooling, retired, listed>>
locals == <<pc, agent, run, todoRotate, todoFinish>>
ending == <<closing, todoClose>>
vars   == <<book, flags, locals, ending, upstream>>

AttemptPCs    == {"idle", "acquire", "rotate", "starting", "session", "held",
                  "markInvalid", "release", "finish", "finishing"}
FinisherPCs   == {"idle", "finish", "finishing"}
MaintainerPCs == {"idle", "listActive", "listRetired", "work", "starting",
                  "finishing", "stopped"}
PrewarmerPCs  == {"work", "starting"}

PCs(t) == IF t \in Attempts THEN AttemptPCs
          ELSE IF t \in Runs THEN FinisherPCs
          ELSE IF t = Maintainer THEN MaintainerPCs ELSE PrewarmerPCs

\* Where a thread is at work for an agent, where it holds a lease, and where
\* it is at work on a run.
ForAgentPCs == {"acquire", "rotate", "starting", "session"}
LeasePCs    == {"held", "markInvalid", "release"}
WithRunPCs  == LeasePCs \cup {"finish", "finishing"}

\* Every variable has its type, a thread at work for an agent has one, and a
\* thread at work on a run has one: acquire never returns a lease on a nil
\* run, and nothing dereferences one.
TypeOK ==
    /\ runs \in [Agents -> Runs \cup {NoRun}]
    /\ draining \in SUBSET Runs
    /\ inflight \in [Runs -> Nat]
    /\ finishing \in [Runs -> BOOLEAN]
    /\ cooling \in BOOLEAN
    /\ retired \in BOOLEAN
    /\ listed \in BOOLEAN
    /\ pc \in [Threads -> AttemptPCs \cup MaintainerPCs]
    /\ \A t \in Threads : pc[t] \in PCs(t)
    /\ agent \in [Threads -> Agents \cup {NoAgent}]
    /\ run \in [Threads -> Runs \cup {NoRun}]
    /\ \A t \in Threads : pc[t] \in ForAgentPCs => agent[t] \in Agents
    /\ \A t \in Threads : pc[t] \in WithRunPCs => run[t] \in Runs
    /\ \A r \in Runs : run[r] = r
    /\ todoRotate \in [Rotators -> SUBSET Agents]
    /\ todoFinish \in SUBSET Runs
    /\ closing \in BOOLEAN
    /\ todoClose \in SUBSET Runs
    /\ upstream \in [Runs -> {"unused", "running", "ended"}]

-----------------------------------------------------------------------------
(* The book.                                                               *)

\* p.runs[run.agentID] == run: a run is only ever installed under its agent.
Current(r) == \E ag \in Agents : runs[ag] = r

CurrentRuns == {r \in Runs : Current(r)}

InBook(r) == Current(r) \/ r \in draining

\* Mutant: only a run that some request still leases is worth draining.
DrainLeasedOnly(old) ==
    draining' = draining \cup {r \in {old} \ {NoRun} : inflight[r] > 0}

\* The run that rotateAgent replaces goes to draining.
Drain(old) == draining' = draining \cup ({old} \ {NoRun})

\* Mutant: a run leaves p.runs and stays in p.draining.
ForgetCurrent(r) ==
    /\ runs' = [ag \in Agents |-> IF runs[ag] = r THEN NoRun ELSE runs[ag]]
    /\ draining' = draining

\* Deleting a run from p.runs, if it is the current one, and from p.draining.
Forget(r) ==
    /\ runs' = [ag \in Agents |-> IF runs[ag] = r THEN NoRun ELSE runs[ag]]
    /\ draining' = draining \ {r}

isIdle == draining = {} /\ CurrentRuns = {}

\* p.retired is written under m.mu and read under p.mu.  The race lets a
\* reader miss the write; the Maintainer has synchronised on m.mu.
SeenRetired(t) == {b \in BOOLEAN : (b => retired) /\ (t = Maintainer => b = retired)}

\* Mutants: finishIfReady without the check of the leases, of the other
\* finisher, and of the run being the current one of an active pool.
ReadyThoughLeased(r, seen)    == ~finishing[r] /\ (~Current(r) \/ seen)
ReadyThoughFinishing(r, seen) == inflight[r] = 0 /\ (~Current(r) \/ seen)
ReadyThoughCurrent(r, seen)   == inflight[r] = 0 /\ ~finishing[r]

\* finishIfReady goes on to FinishRun.
Ready(r, seen) ==
    /\ inflight[r] = 0
    /\ ~finishing[r]
    /\ ~Current(r) \/ seen

\* Where a thread goes when finishIfReady, or a rotation, returns to it.
AfterFinish(t)  == IF t = Maintainer THEN "work" ELSE "idle"
RotateFailed(t) == IF t \in Rotators THEN "work" ELSE "idle"
Rotated(t)      == IF t \in Rotators THEN "work" ELSE "session"

\* A thread outside finishIfReady holds no run; a finisher keeps its own.
NoWork(t) == IF t \in Runs THEN t ELSE NoRun

-----------------------------------------------------------------------------
(* Acquire, acquire and rotateAgent.                                       *)

Init ==
    /\ runs = [ag \in Agents |-> NoRun]
    /\ draining = {}
    /\ inflight = [r \in Runs |-> 0]
    /\ finishing = [r \in Runs |-> FALSE]
    /\ cooling = FALSE
    /\ retired = FALSE
    /\ listed = TRUE
    /\ pc = [t \in Threads |-> IF t = Prewarmer THEN "work" ELSE "idle"]
    /\ agent = [t \in Threads |-> NoAgent]
    /\ run = [t \in Threads |-> NoWork(t)]
    /\ todoRotate = [t \in Rotators |-> IF t = Prewarmer THEN Prewarmed ELSE {}]
    /\ todoFinish = {}
    /\ closing = FALSE
    /\ todoClose = {}
    /\ upstream = [r \in Runs |-> "unused"]

\* RunManager.Acquire lists the active pools, this one among them, and comes
\* to it when the candidates before it have failed.
AcquireList(a, ag) ==
    /\ pc[a] = "idle"
    /\ ~retired
    /\ agent' = [agent EXCEPT ![a] = ag]
    /\ pc' = [pc EXCEPT ![a] = "acquire"]
    /\ UNCHANGED <<book, flags, run, todoRotate, todoFinish, ending, upstream>>

\* run == nil || time.Since(run.startedAt) >= RotationInterval, for a clock
\* that says old.
NeedsRotate(ag, old) == runs[ag] = NoRun \/ old

\* acquire, first critical section: refuse while cooling, else see whether
\* the agent's run has to be rotated first.
AcquireCheck(a) ==
    /\ pc[a] = "acquire"
    /\ \E old \in BOOLEAN :
         pc' = [pc EXCEPT ![a] = IF cooling THEN "idle"
                                 ELSE IF NeedsRotate(agent[a], old) THEN "rotate"
                                 ELSE "session"]
    /\ agent' = [agent EXCEPT ![a] = IF cooling THEN NoAgent ELSE @]
    /\ UNCHANGED <<book, flags, run, todoRotate, todoFinish, ending, upstream>>

\* A thread enters rotateAgent for ag: an attempt for the agent it wants, a
\* rotator for one of the agents left in its pass.
AtRotate(t, ag) ==
    \/ t \in Attempts /\ pc[t] = "rotate" /\ ag = agent[t]
    \/ t \in Rotators /\ pc[t] = "work" /\ ag \in todoRotate[t]

\* rotateAgent, first critical section; StartRun is under way when it passes.
RotateCheck(t, ag) ==
    /\ AtRotate(t, ag)
    /\ pc' = [pc EXCEPT ![t] = IF cooling THEN RotateFailed(t) ELSE "starting"]
    /\ agent' = [agent EXCEPT ![t] = IF cooling THEN NoAgent ELSE ag]
    /\ todoRotate' = [u \in Rotators |-> IF u = t THEN todoRotate[u] \ {ag}
                                        ELSE todoRotate[u]]
    /\ UNCHANGED <<book, flags, run, todoFinish, ending, upstream>>

\* StartRun answered with an error.
StartFailed(t) ==
    /\ pc[t] = "starting"
    /\ pc' = [pc EXCEPT ![t] = RotateFailed(t)]
    /\ agent' = [agent EXCEPT ![t] = NoAgent]
    /\ UNCHANGED <<book, flags, run, todoRotate, todoFinish, ending, upstream>>

\* StartRun answered with the id r: install it, move the run it replaces to
\* draining and spawn the goroutine that finishes it.
StartInstalled(t, r) ==
    LET old == runs[agent[t]]
    IN  /\ pc[t] = "starting"
        /\ upstream[r] = "unused"
        /\ upstream' = [upstream EXCEPT ![r] = "running"]
        /\ runs' = [runs EXCEPT ![agent[t]] = r]
        /\ Drain(old)
        /\ pc' = [u \in Threads |-> IF u = t THEN Rotated(t)
                                    ELSE IF u = old THEN "finish" ELSE pc[u]]
        /\ agent' = [agent EXCEPT ![t] = IF t \in Rotators THEN NoAgent ELSE @]
        /\ UNCHANGED <<inflight, finishing, flags, run, todoRotate, todoFinish, ending>>

\* ensureSession returned an error.
SessionFailed(a) ==
    /\ pc[a] = "session"
    /\ pc' = [pc EXCEPT ![a] = "idle"]
    /\ agent' = [agent EXCEPT ![a] = NoAgent]
    /\ UNCHANGED <<book, flags, run, todoRotate, todoFinish, ending, upstream>>

\* Mutant: acquire trusts that the rotation it made left a run behind.
AfterTakeUnchecked(r) == "held"

\* A request without a run gives up: "run missing after rotation".
AfterTake(r) == IF r = NoRun THEN "idle" ELSE "held"

\* ensureSession returned and acquire, in its last critical section, leases
\* whatever run is the agent's current one by now.
AcquireTake(a) ==
    LET r == runs[agent[a]]
    IN  /\ pc[a] = "session"
        /\ pc' = [pc EXCEPT ![a] = AfterTake(r)]
        /\ run' = [run EXCEPT ![a] = r]
        /\ inflight' = [q \in Runs |-> IF q = r THEN inflight[q] + 1 ELSE inflight[q]]
        /\ agent' = [agent EXCEPT ![a] = NoAgent]
        /\ UNCHANGED <<runs, draining, finishing, flags, todoRotate, todoFinish,
                       ending, upstream>>

-----------------------------------------------------------------------------
(* The chat request on a lease, and release.                               *)

\* 400 "runId not found" or "not running": the upstream has ended the run,
\* and invalidate strikes it from the book whoever else leases it.
ChatRunInvalid(a) ==
    /\ pc[a] = "held"
    /\ Forget(run[a])
    /\ upstream' = [upstream EXCEPT ![run[a]] = "ended"]
    /\ pc' = [pc EXCEPT ![a] = "release"]
    /\ UNCHANGED <<inflight, finishing, flags, agent, run, todoRotate,
                   todoFinish, ending>>

\* 401: the pool cools down, and the handler goes on to MarkInvalid.
ChatUnauthorized(a) ==
    /\ pc[a] = "held"
    /\ cooling' = TRUE
    /\ pc' = [pc EXCEPT ![a] = "markInvalid"]
    /\ UNCHANGED <<book, retired, listed, agent, run, todoRotate, todoFinish,
                   ending, upstream>>

\* MarkInvalid retires the pool through RefreshRuntime and SyncAccounts, unless
\* there is no account store, it fails, or the pool has gone already.
MarkInvalid(a) ==
    /\ pc[a] = "markInvalid"
    /\ retired' \in {retired, TRUE}
    /\ pc' = [pc EXCEPT ![a] = "release"]
    /\ UNCHANGED <<book, cooling, listed, agent, run, todoRotate, todoFinish,
                   ending, upstream>>

\* Mutant: release leaves the count alone when the run was invalidated.
ReleaseStruckRun(a) ==
    /\ pc[a] \in {"held", "release"}
    /\ inflight' = IF InBook(run[a]) THEN [inflight EXCEPT ![run[a]] = @ - 1] ELSE inflight
    /\ pc' = [pc EXCEPT ![a] = "finish"]
    /\ UNCHANGED <<runs, draining, finishing, flags, agent, run, todoRotate,
                   todoFinish, ending, upstream>>

\* release up to its call of finishIfReady, at the end of the chat request.
Release(a) ==
    /\ pc[a] \in {"held", "release"}
    /\ inflight' = [inflight EXCEPT ![run[a]] = IF @ > 0 THEN @ - 1 ELSE @]
    /\ pc' = [pc EXCEPT ![a] = "finish"]
    /\ UNCHANGED <<runs, draining, finishing, flags, agent, run, todoRotate,
                   todoFinish, ending, upstream>>

-----------------------------------------------------------------------------
(* finishIfReady.                                                          *)

\* A thread enters finishIfReady(r).
AtFinish(t, r) ==
    \/ t \in Attempts \cup Runs /\ pc[t] = "finish" /\ r = run[t]
    \/ t = Maintainer /\ pc[t] = "work" /\ todoRotate[t] = {} /\ r \in todoFinish

\* First critical section: mark the run and send FINISH, or return.
FinishBegin(t, r) ==
    /\ AtFinish(t, r)
    /\ \E seen \in SeenRetired(t) :
         IF Ready(r, seen)
         THEN /\ finishing' = [finishing EXCEPT ![r] = TRUE]
              /\ pc' = [pc EXCEPT ![t] = "finishing"]
              /\ run' = [run EXCEPT ![t] = r]
         ELSE /\ pc' = [pc EXCEPT ![t] = AfterFinish(t)]
              /\ run' = [run EXCEPT ![t] = NoWork(t)]
              /\ UNCHANGED finishing
    /\ todoFinish' = IF t = Maintainer THEN todoFinish \ {r} ELSE todoFinish
    /\ UNCHANGED <<runs, draining, inflight, flags, agent, todoRotate, ending, upstream>>

\* FINISH was accepted.
FinishOk(t) ==
    /\ pc[t] = "finishing"
    /\ Forget(run[t])
    /\ upstream' = [upstream EXCEPT ![run[t]] = "ended"]
    /\ pc' = [pc EXCEPT ![t] = AfterFinish(t)]
    /\ run' = [run EXCEPT ![t] = NoWork(t)]
    /\ UNCHANGED <<inflight, finishing, flags, agent, todoRotate, todoFinish, ending>>

\* Mutant: a run whose FINISH failed is put back among the draining ones.
FinishFailedRequeued(t) ==
    /\ pc[t] = "finishing"
    /\ finishing' = [finishing EXCEPT ![run[t]] = FALSE]
    /\ draining' = draining \cup {run[t]}
    /\ pc' = [pc EXCEPT ![t] = AfterFinish(t)]
    /\ run' = [run EXCEPT ![t] = NoWork(t)]
    /\ UNCHANGED <<runs, inflight, flags, agent, todoRotate, todoFinish, ending, upstream>>

\* Mutant: a FINISH that failed leaves the mark on the run.
FinishFailedMarked(t) ==
    /\ pc[t] = "finishing"
    /\ pc' = [pc EXCEPT ![t] = AfterFinish(t)]
    /\ run' = [run EXCEPT ![t] = NoWork(t)]
    /\ UNCHANGED <<book, flags, agent, todoRotate, todoFinish, ending, upstream>>

\* FINISH failed, or its answer was lost: the mark is taken back.
FinishFailed(t) ==
    /\ pc[t] = "finishing"
    /\ finishing' = [finishing EXCEPT ![run[t]] = FALSE]
    /\ \E lost \in BOOLEAN :
         upstream' = IF lost THEN [upstream EXCEPT ![run[t]] = "ended"] ELSE upstream
    /\ pc' = [pc EXCEPT ![t] = AfterFinish(t)]
    /\ run' = [run EXCEPT ![t] = NoWork(t)]
    /\ UNCHANGED <<runs, draining, inflight, flags, agent, todoRotate, todoFinish, ending>>

-----------------------------------------------------------------------------
(* maintainAll and maintain, SyncAccounts, Close and shutdown, time.       *)

\* A tick: maintainAll reads under m.mu which kind of pass the pool is due.
MaintainList ==
    /\ pc[Maintainer] = "idle"
    /\ listed
    /\ pc' = [pc EXCEPT ![Maintainer] = IF retired THEN "listRetired" ELSE "listActive"]
    /\ UNCHANGED <<book, flags, agent, run, todoRotate, todoFinish, ending, upstream>>

\* Mutant: a pass over a retired pool looks at its draining runs only.
ToFinishDraining(active) == draining

\* The runs a pass offers to finishIfReady.
ToFinish(active) == draining \cup (IF active THEN {} ELSE CurrentRuns)

\* maintain, first critical section: an active pool rotates its old runs, a
\* retired one finishes its current runs; both finish what is draining.
MaintainSnapshot ==
    /\ pc[Maintainer] \in {"listActive", "listRetired"}
    /\ LET active == pc[Maintainer] = "listActive"
       IN  /\ \E old \in SUBSET {ag \in Agents : runs[ag] # NoRun} :
                todoRotate' = [todoRotate EXCEPT ![Maintainer] =
                                  IF active THEN old ELSE {}]
           /\ todoFinish' = ToFinish(active)
    /\ pc' = [pc EXCEPT ![Maintainer] = "work"]
    /\ UNCHANGED <<book, flags, agent, run, ending, upstream>>

\* The end of maintainAll: a retired pool with an empty book is let go.
MaintainEnd ==
    /\ pc[Maintainer] = "work"
    /\ todoRotate[Maintainer] = {}
    /\ todoFinish = {}
    /\ listed' = (listed /\ ~(retired /\ isIdle))
    /\ pc' = [pc EXCEPT ![Maintainer] = "idle"]
    /\ UNCHANGED <<book, cooling, retired, agent, run, todoRotate, todoFinish,
                   ending, upstream>>

\* SyncAccounts for another reason: the account was deleted or disabled, did
\* not validate, or has a new token.
Retire ==
    /\ ~retired
    /\ retired' = TRUE
    /\ UNCHANGED <<book, cooling, listed, locals, ending, upstream>>

\* shutdown takes every run out of the book.
EmptyBook ==
    /\ todoClose' = CurrentRuns \cup draining
    /\ runs' = [ag \in Agents |-> NoRun]
    /\ draining' = {}

\* Close has stopped the ticker goroutine (wg.Wait) and comes to this pool, if
\* it is still listed.
Shutdown ==
    /\ ~closing
    /\ pc[Maintainer] = "idle"
    /\ closing' = TRUE
    /\ pc' = [pc EXCEPT ![Maintainer] = "stopped"]
    /\ IF listed THEN EmptyBook ELSE UNCHANGED <<todoClose, runs, draining>>
    /\ UNCHANGED <<inflight, finishing, flags, agent, run, todoRotate,
                   todoFinish, upstream>>

\* shutdown's FINISH of a run; a failure is only reported.
ShutdownFinish(r) ==
    /\ r \in todoClose
    /\ todoClose' = todoClose \ {r}
    /\ \E accepted \in BOOLEAN :
         upstream' = IF accepted THEN [upstream EXCEPT ![r] = "ended"] ELSE upstream
    /\ UNCHANGED <<book, flags, locals, closing>>

CooldownEnds ==
    /\ cooling
    /\ cooling' = FALSE
    /\ UNCHANGED <<book, retired, listed, locals, ending, upstream>>

-----------------------------------------------------------------------------

Attempt(a) ==
    \/ \E ag \in Agents : AcquireList(a, ag)
    \/ AcquireCheck(a)
    \/ SessionFailed(a)
    \/ AcquireTake(a)
    \/ ChatRunInvalid(a)
    \/ ChatUnauthorized(a)
    \/ MarkInvalid(a)
    \/ Release(a)

Rotate(t) ==
    \/ \E ag \in Agents : RotateCheck(t, ag)
    \/ StartFailed(t)
    \/ \E r \in Runs : StartInstalled(t, r)

Finish(t) ==
    \/ \E r \in Runs : FinishBegin(t, r)
    \/ FinishOk(t)
    \/ FinishFailed(t)

Maintain == MaintainList \/ MaintainSnapshot \/ MaintainEnd

Close == Shutdown \/ \E r \in Runs : ShutdownFinish(r)

Next ==
    \/ \E a \in Attempts : Attempt(a)
    \/ \E t \in Attempts \cup Rotators : Rotate(t)
    \/ \E t \in Threads : Finish(t)
    \/ Maintain
    \/ Retire
    \/ Close
    \/ CooldownEnds

Spec == Init /\ [][Next]_vars

\* What the scheduling justifies.  A goroutine that can move does; HTTP calls
\* answer or time out; the ticker ticks.  A request comes, a pool retires and
\* the process closes only if they do.  The upstream may refuse to FINISH a
\* run many times, but not for ever.
Fairness ==
    /\ \A a \in Attempts :
         WF_vars(AcquireCheck(a) \/ SessionFailed(a) \/ AcquireTake(a)
                 \/ MarkInvalid(a) \/ Release(a))
    /\ \A t \in Attempts \cup Rotators : WF_vars(Rotate(t))
    /\ \A t \in Threads : WF_vars(Finish(t))
    /\ WF_vars(Maintain)
    /\ \A r \in Runs : SF_vars(\E t \in Threads : run[t] = r /\ FinishOk(t))

FairSpec == Spec /\ Fairness

-----------------------------------------------------------------------------
(* Properties.                                                             *)

Holds(a, r) == run[a] = r /\ pc[a] \in LeasePCs

Holders(r) == {a \in Attempts : Holds(a, r)}

Finishes(t, r) == run[t] = r /\ pc[t] = "finishing"

\* What the properties below rest on: every run anything is done with was
\* handed out by the upstream, ...
RunsStarted ==
    /\ \A r \in Runs : InBook(r) \/ finishing[r] \/ inflight[r] > 0 \/ r \in todoFinish
                       => upstream[r] # "unused"
    /\ \A t \in Threads : pc[t] \in WithRunPCs => upstream[run[t]] # "unused"

\* ... and a run for which a FINISH is under way bears the mark.
FinishersMark ==
    \A r \in Runs : \A t \in Threads : Finishes(t, r) => finishing[r]

\* run.inflight is the number of requests that hold a lease on the run, also
\* after the run was replaced, invalidated or finished under them: acquire
\* and release of every request pair up.
InflightCountsLeases ==
    \A r \in Runs : inflight[r] = Cardinality(Holders(r))

\* While the pool is active no FINISH is under way for a run that a request
\* leases, although acquire never looks at run.finishing.  (A retired pool
\* has no such promise: a straggler leases the current run that finishIfReady
\* is finishing.)
NoFinishUnderLease ==
    \A r \in Runs : finishing[r] /\ inflight[r] > 0 => retired

\* An active pool's current run is never being finished: the run finishIfReady
\* marked is not installed again while FINISH is under way.
ActiveRunKept ==
    \A r \in Runs : finishing[r] /\ Current(r) => retired

\* Releases, the finisher goroutine and the ticker all offer a run to
\* finishIfReady; never do two of them have a FINISH under way for it.
OneFinisher ==
    \A r \in Runs : \A t, u \in Threads : Finishes(t, r) /\ Finishes(u, r) => t = u

\* Until shutdown empties it, the book holds every run the upstream runs for
\* this pool.  So maintain will offer it to finishIfReady, and
\* hasInflightRequestsLocked, which only looks in the book, misses no request
\* that is served by a live run.
BookComplete ==
    \A r \in Runs : upstream[r] = "running" /\ ~closing => InBook(r)

\* The current and the draining runs are apart, and one run serves one agent:
\* no run is offered to finishIfReady as draining while it takes requests.
BookDisjoint ==
    /\ CurrentRuns \cap draining = {}
    /\ \A ag, bg \in Agents : runs[ag] = runs[bg] => ag = bg \/ runs[ag] = NoRun

\* The inductive invariant of the proofs in TokenPoolProofs.
IInv ==
    /\ TypeOK
    /\ RunsStarted
    /\ FinishersMark
    /\ OneFinisher
    /\ BookDisjoint
    /\ ActiveRunKept
    /\ NoFinishUnderLease
    /\ BookComplete

\* A run goes one way: once replaced it is never current again, and once out
\* of the book it never comes back, whatever FINISH answers and however late.
OneWay ==
    [][\A r \in Runs : upstream[r] # "unused" =>
          /\ Current(r)' => Current(r)
          /\ InBook(r)' => InBook(r)]_vars

\* How RunLife sees the pool: a lease is a thread that holds one, whatever the
\* count says, and a FINISH a thread that waits for its answer, whatever the
\* mark says.
leaseOf == [a \in Attempts |-> IF pc[a] \in LeasePCs THEN run[a] ELSE NoRun]

finishOf == [r \in Runs |-> IF \E t \in Threads : Finishes(t, r) THEN "sent"
                            ELSE IF finishing[r] THEN "accepted" ELSE "no"]

startedRuns == {r \in Runs : upstream[r] # "unused"}

RL == INSTANCE RunLife WITH
          serving <- runs, started <- startedRuns, lease <- leaseOf,
          finish <- finishOf, closed <- closing

\* All that the critical sections of requests, ticker, prewarming and finishers
\* do to the runs of a pool comes to steps of RunLife: leases are of runs that
\* serve, FINISH is sent of runs nobody leases and once at a time, and never
\* again after it was accepted.
KeepsRunLife == RL!Spec

\* A replaced run is finished in the end, even if FINISH fails at first.
\* (Unless the process closes, or a pool that was let go is no longer
\* maintained when a straggler still rotates on it.)
DrainingEnds ==
    \A r \in Runs : r \in draining ~> (upstream[r] = "ended" \/ closing \/ ~listed)

\* A retired pool is let go in the end.
RetiredLetGo == retired ~> (~listed \/ closing)

=============================================================================
