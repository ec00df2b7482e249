--------------------------- MODULE TokenPoolProofs ---------------------------
(***************************************************************************)
(* Proofs about TokenPool for every number of requests, agents and runs.   *)
(*                                                                         *)
(* IInv, in TokenPool, is inductive.  A step is either quiet (it moves     *)
(* nothing IInv speaks of) or one of the loud actions; one lemma per loud  *)
(* action shows that it keeps every part of IInv.  The safety properties   *)
(* the runs check are parts of IInv.  The lease count is inductive by      *)
(* itself over TypeOK and is proved apart, from facts about cardinality.   *)
(* Last comes that TokenPool implements RunLife.                           *)
(***************************************************************************)
EXTENDS TokenPool, TLAPS, FiniteSetTheorems

\* The kinds of threads are apart, and the nil values belong to none.
LEMMA ThreadKinds ==
    /\ Attempts \cap Runs = {}
    /\ Maintainer \notin Attempts \cup Runs
    /\ Prewarmer \notin Attempts \cup Runs
    /\ Maintainer # Prewarmer
    /\ NoRun \notin Threads
    /\ NoAgent \notin Agents
BY ConstantsAssumption DEF Threads, Rotators

\* newTokenPool and the threads at rest have their types.
THEOREM InitTypeOK == Init => TypeOK
<1> SUFFICES ASSUME Init PROVE TypeOK
  OBVIOUS
<1> USE ThreadKinds DEF Init, Threads, Rotators
<1>1. \A t \in Threads : pc[t] \in PCs(t)
  BY DEF PCs, AttemptPCs, FinisherPCs, MaintainerPCs, PrewarmerPCs
<1>2. /\ pc \in [Threads -> AttemptPCs \cup MaintainerPCs]
      /\ \A t \in Threads : pc[t] \notin ForAgentPCs \cup WithRunPCs
  BY DEF AttemptPCs, MaintainerPCs, ForAgentPCs, WithRunPCs, LeasePCs
<1>3. todoRotate \in [Rotators -> SUBSET Agents]
  BY ConstantsAssumption
<1>4. run \in [Threads -> Runs \cup {NoRun}] /\ \A r \in Runs : run[r] = r
  BY DEF NoWork
<1> QED
  BY <1>1, <1>2, <1>3, <1>4 DEF TypeOK

\* Every step of the pool keeps the types.
LEMMA NextTypeOK == ASSUME TypeOK, [Next]_vars PROVE TypeOK'
<1> USE ThreadKinds DEF TypeOK, Threads, Rotators, PCs, AttemptPCs, FinisherPCs,
        MaintainerPCs, PrewarmerPCs, ForAgentPCs, WithRunPCs, LeasePCs, book, flags, locals, ending
<1>1. ASSUME NEW a \in Attempts, NEW ag \in Agents, AcquireList(a, ag) PROVE TypeOK'
  BY <1>1 DEF AcquireList
<1>2. ASSUME NEW a \in Attempts, AcquireCheck(a) PROVE TypeOK'
  BY <1>2 DEF AcquireCheck
<1>3. ASSUME NEW a \in Attempts, SessionFailed(a) PROVE TypeOK'
  BY <1>3 DEF SessionFailed
<1>4. ASSUME NEW a \in Attempts, AcquireTake(a) PROVE TypeOK'
  BY <1>4 DEF AcquireTake, AfterTake
<1>5. ASSUME NEW a \in Attempts, ChatRunInvalid(a) PROVE TypeOK'
  BY <1>5 DEF ChatRunInvalid, Forget
<1>6. ASSUME NEW a \in Attempts, ChatUnauthorized(a) PROVE TypeOK'
  BY <1>6 DEF ChatUnauthorized
<1>7. ASSUME NEW a \in Attempts, MarkInvalid(a) \/ Release(a) PROVE TypeOK'
  <2>1. CASE MarkInvalid(a)
    BY <2>1 DEF MarkInvalid
  <2>2. CASE Release(a)
    BY <2>2 DEF Release
  <2> QED
    BY <1>7, <2>1, <2>2
<1>8. ASSUME NEW t \in Attempts \cup Rotators, NEW ag \in Agents, RotateCheck(t, ag) PROVE TypeOK'
  BY <1>8 DEF RotateCheck, AtRotate, RotateFailed
<1>9. ASSUME NEW t \in Attempts \cup Rotators, StartFailed(t) PROVE TypeOK'
  BY <1>9 DEF StartFailed, RotateFailed
<1>10. ASSUME NEW t \in Attempts \cup Rotators, NEW r \in Runs, StartInstalled(t, r) PROVE TypeOK'
  <2> DEFINE old == runs[agent[t]]
  <2>1. agent[t] \in Agents /\ t \in Threads
    BY <1>10 DEF StartInstalled
  <2>2. old \in Runs \cup {NoRun} /\ old # t
    BY <2>1
  <2>3. \A u \in Threads : pc'[u] = IF u = t THEN Rotated(t) ELSE IF u = old THEN "finish" ELSE pc[u]
    BY <1>10 DEF StartInstalled
  <2> HIDE DEF old
  <2>4. \A u \in Threads : pc'[u] \in PCs(u)
    BY <2>1, <2>2, <2>3 DEF Rotated
  <2>5. \A u \in Threads : pc'[u] \in ForAgentPCs => agent'[u] \in Agents
    BY <1>10, <2>1, <2>2, <2>3 DEF StartInstalled, Rotated
  <2>6. \A u \in Threads : pc'[u] \in WithRunPCs => run'[u] \in Runs
    BY <1>10, <2>2, <2>3 DEF StartInstalled, Rotated
  <2>7. pc' \in [Threads -> AttemptPCs \cup MaintainerPCs]
    BY <1>10, <2>1 DEF StartInstalled, Rotated
  <2>8. agent' \in [Threads -> Agents \cup {NoAgent}]
    BY <1>10 DEF StartInstalled
  <2>9. runs' \in [Agents -> Runs \cup {NoRun}] /\ draining' \in SUBSET Runs
    BY <1>10, <2>1, <2>2 DEF StartInstalled, Drain, old
  <2>10. upstream' \in [Runs -> {"unused", "running", "ended"}]
    BY <1>10 DEF StartInstalled
  <2> QED
    BY <1>10, <2>4, <2>5, <2>6, <2>7, <2>8, <2>9, <2>10 DEF StartInstalled
<1>11. ASSUME NEW t \in Threads, NEW r \in Runs, FinishBegin(t, r) PROVE TypeOK'
  <2>1. pc' \in [Threads -> AttemptPCs \cup MaintainerPCs] /\ \A u \in Threads : pc'[u] \in PCs(u)
    BY <1>11 DEF FinishBegin, AtFinish, AfterFinish
  <2>2. run' \in [Threads -> Runs \cup {NoRun}] /\ \A q \in Runs : run'[q] = q
    BY <1>11 DEF FinishBegin, AtFinish, NoWork
  <2>3. \A u \in Threads : pc'[u] \in WithRunPCs => run'[u] \in Runs
    BY <1>11 DEF FinishBegin, AtFinish, AfterFinish, NoWork
  <2>4. \A u \in Threads : pc'[u] \in ForAgentPCs => agent'[u] \in Agents
    BY <1>11 DEF FinishBegin, AtFinish, AfterFinish
  <2>5. finishing' \in [Runs -> BOOLEAN] /\ todoFinish' \in SUBSET Runs
    BY <1>11 DEF FinishBegin
  <2> QED
    BY <1>11, <2>1, <2>2, <2>3, <2>4, <2>5 DEF FinishBegin
<1>12. ASSUME NEW t \in Threads, FinishOk(t) PROVE TypeOK'
  BY <1>12 DEF FinishOk, Forget, AfterFinish, NoWork
<1>13. ASSUME NEW t \in Threads, FinishFailed(t) PROVE TypeOK'
  BY <1>13 DEF FinishFailed, AfterFinish, NoWork
<1>14. CASE Maintain
  <2>1. CASE MaintainList
    BY <2>1 DEF MaintainList
  <2>2. CASE MaintainSnapshot
    BY <2>2 DEF MaintainSnapshot, ToFinish, CurrentRuns
  <2>3. CASE MaintainEnd
    BY <2>3 DEF MaintainEnd
  <2> QED
    BY <1>14, <2>1, <2>2, <2>3 DEF Maintain
<1>15. CASE Retire \/ CooldownEnds
  BY <1>15 DEF Retire, CooldownEnds
<1>16. CASE Close
  <2>1. CASE Shutdown
    BY <2>1 DEF Shutdown, EmptyBook, CurrentRuns
  <2>2. ASSUME NEW r \in Runs, ShutdownFinish(r) PROVE TypeOK'
    BY <2>2 DEF ShutdownFinish
  <2> QED
    BY <1>16, <2>1, <2>2 DEF Close
<1>17. CASE UNCHANGED vars
  BY <1>17 DEF vars
<1> QED
  BY <1>1, <1>2, <1>3, <1>4, <1>5, <1>6, <1>7, <1>8, <1>9, <1>10, <1>11, <1>12, <1>13,
     <1>14, <1>15, <1>16, <1>17
  DEF Next, Attempt, Rotate, Finish

\* Every variable always has its type, and no thread works on a nil run.
THEOREM TypeCorrect == Spec => []TypeOK
BY InitTypeOK, NextTypeOK, PTL DEF Spec

-----------------------------------------------------------------------------
(* The steps that leave the book alone.                                    *)

\* Nothing IInv speaks of moves, and no thread takes up or lays down a run.
Quiet ==
    /\ UNCHANGED <<book, retired, closing, upstream, run, todoFinish>>
    /\ \A t \in Threads :
         /\ pc'[t] \in WithRunPCs <=> pc[t] \in WithRunPCs
         /\ pc'[t] \in LeasePCs <=> pc[t] \in LeasePCs
         /\ pc'[t] = "finishing" <=> pc[t] = "finishing"

\* The steps that are not quiet.
Loud ==
    \/ \E t \in Attempts \cup Rotators : \E r \in Runs : StartInstalled(t, r)
    \/ \E a \in Attempts : AcquireTake(a) \/ ChatRunInvalid(a) \/ Release(a)
    \/ \E t \in Threads : \E r \in Runs : FinishBegin(t, r)
    \/ \E t \in Threads : FinishOk(t) \/ FinishFailed(t)
    \/ MaintainSnapshot
    \/ Retire \/ \E a \in Attempts : MarkInvalid(a)
    \/ Shutdown
    \/ \E r \in Runs : ShutdownFinish(r)

\* A step of a well-typed pool is one or the other.
LEMMA QuietOrLoud == ASSUME TypeOK, [Next]_vars PROVE Quiet \/ Loud
<1> USE ThreadKinds DEF TypeOK, Threads, Rotators, WithRunPCs, LeasePCs, book, flags, locals, ending
<1>1. ASSUME NEW a \in Attempts, NEW ag \in Agents, AcquireList(a, ag) PROVE Quiet
  BY <1>1 DEF AcquireList, Quiet
<1>2. ASSUME NEW a \in Attempts, AcquireCheck(a) PROVE Quiet
  BY <1>2 DEF AcquireCheck, Quiet
<1>3. ASSUME NEW a \in Attempts, SessionFailed(a) PROVE Quiet
  BY <1>3 DEF SessionFailed, Quiet
<1>4. ASSUME NEW a \in Attempts, ChatUnauthorized(a) PROVE Quiet
  BY <1>4 DEF ChatUnauthorized, Quiet
<1>5. ASSUME NEW t \in Attempts \cup Rotators, NEW ag \in Agents, RotateCheck(t, ag) PROVE Quiet
  BY <1>5 DEF RotateCheck, AtRotate, RotateFailed, Quiet
<1>6. ASSUME NEW t \in Attempts \cup Rotators, StartFailed(t) PROVE Quiet
  BY <1>6 DEF StartFailed, RotateFailed, Quiet
<1>7. CASE MaintainList \/ MaintainEnd
  BY <1>7 DEF MaintainList, MaintainEnd, Quiet
<1>8. CASE CooldownEnds \/ UNCHANGED vars
  BY <1>8 DEF CooldownEnds, Quiet, vars
<1> QED
  BY <1>1, <1>2, <1>3, <1>4, <1>5, <1>6, <1>7, <1>8
  DEF Next, Attempt, Rotate, Finish, Maintain, Close, Loud

-----------------------------------------------------------------------------
(* IInv is inductive: one lemma per loud action.                           *)

\* An empty book satisfies the inductive invariant.
LEMMA InitIInv == Init => IInv
<1> SUFFICES ASSUME Init PROVE IInv
  OBVIOUS
<1>1. TypeOK
  BY InitTypeOK
<1>2. \A r \in Runs : ~InBook(r) /\ ~Current(r)
  BY ThreadKinds DEF Init, InBook, Current, Threads
<1>3. \A t \in Threads : pc[t] \notin WithRunPCs
  BY DEF Init, WithRunPCs, LeasePCs
<1>4. FinishersMark /\ OneFinisher
  BY <1>3 DEF FinishersMark, OneFinisher, Finishes, WithRunPCs, LeasePCs
<1>5. BookDisjoint
  BY <1>2 DEF Init, BookDisjoint, CurrentRuns
<1>6. RunsStarted /\ ActiveRunKept /\ NoFinishUnderLease /\ BookComplete
  BY <1>2, <1>3 DEF Init, RunsStarted, ActiveRunKept, NoFinishUnderLease, BookComplete
<1> QED
  BY <1>1, <1>4, <1>5, <1>6 DEF IInv

\* A quiet step keeps the inductive invariant.
LEMMA QuietIInv == ASSUME IInv, TypeOK', Quiet PROVE IInv'
<1> USE DEF Quiet, book
<1>1. \A r \in Runs : (Current(r)' <=> Current(r)) /\ (InBook(r)' <=> InBook(r))
  BY DEF Current, InBook
<1>2. \A r \in Runs, t \in Threads : Finishes(t, r)' <=> Finishes(t, r)
  BY DEF Finishes
<1>3. RunsStarted'
  BY <1>1 DEF IInv, RunsStarted
<1>4. FinishersMark' /\ OneFinisher'
  BY <1>2 DEF IInv, FinishersMark, OneFinisher
<1>5. BookDisjoint'
  BY <1>1 DEF IInv, BookDisjoint, CurrentRuns
<1>6. ActiveRunKept' /\ NoFinishUnderLease' /\ BookComplete'
  BY <1>1 DEF IInv, ActiveRunKept, NoFinishUnderLease, BookComplete
<1> QED
  BY <1>3, <1>4, <1>5, <1>6 DEF IInv

\* The new run is fresh, so nobody finishes or leases it; the run it replaces
\* changes from current to draining.
LEMMA StartIInv ==
  ASSUME IInv, TypeOK', NEW t \in Attempts \cup Rotators, NEW r \in Runs, StartInstalled(t, r)
  PROVE  IInv'
<1> DEFINE ag  == agent[t]
           old == runs[ag]
<1> USE DEF IInv
<1>1. /\ ag \in Agents
      /\ old \in Runs \cup {NoRun}
      /\ runs' = [runs EXCEPT ![ag] = r]
      /\ draining' = draining \cup ({old} \ {NoRun})
      /\ upstream' = [upstream EXCEPT ![r] = "running"]
      /\ upstream[r] = "unused"
      /\ UNCHANGED <<inflight, finishing, retired, todoFinish, closing, run>>
  BY DEF StartInstalled, Drain, TypeOK, ForAgentPCs, Threads, flags, ending
<1>2. ~InBook(r) /\ ~finishing[r] /\ inflight[r] = 0 /\ r \notin todoFinish /\ old # r
  BY <1>1 DEF RunsStarted, TypeOK, InBook, Current
<1>3. \A q \in Runs : q # r => /\ Current(q)' <=> Current(q) /\ q # old
                               /\ InBook(q)' <=> InBook(q)
  BY <1>1, <1>2, ThreadKinds DEF InBook, Current, TypeOK, BookDisjoint, Threads
<1>4. /\ t \in Threads /\ runs[agent[t]] = old
      /\ \A u \in Threads : pc'[u] = IF u = t THEN Rotated(t)
                                     ELSE IF u = old THEN "finish" ELSE pc[u]
  BY DEF StartInstalled, TypeOK, Threads
<1>5. \A u \in Threads : /\ pc'[u] \in WithRunPCs => pc[u] \in WithRunPCs \/ u = old
                         /\ pc'[u] = "finishing" => pc[u] = "finishing"
  BY <1>4 DEF Rotated, WithRunPCs, LeasePCs
<1> HIDE DEF ag, old
<1>6. \A q \in Runs, u \in Threads : Finishes(u, q)' => Finishes(u, q)
  BY <1>1, <1>5 DEF Finishes
<1>7. FinishersMark' /\ OneFinisher'
  BY <1>1, <1>6 DEF FinishersMark, OneFinisher
<1>8. old \in Runs => Current(old)
  BY <1>1 DEF old, Current
<1>9. RunsStarted'
  <2>1. \A q \in Runs : upstream[q] # "unused" => upstream'[q] # "unused"
    BY <1>1 DEF TypeOK
  <2>2. upstream'[r] # "unused"
    BY <1>1 DEF TypeOK
  <2>3. ASSUME NEW q \in Runs, InBook(q)' \/ finishing'[q] \/ inflight'[q] > 0 \/ q \in todoFinish'
        PROVE  upstream'[q] # "unused"
    BY <1>1, <1>3, <2>1, <2>2, <2>3 DEF RunsStarted
  <2>4. ASSUME NEW u \in Threads, pc'[u] \in WithRunPCs PROVE upstream'[run'[u]] # "unused"
    <3>1. CASE pc[u] \in WithRunPCs
      BY <1>1, <2>1, <3>1 DEF RunsStarted, TypeOK
    <3>2. CASE u = old
      <4>1. u \in Runs
        BY <1>1, <3>2, ThreadKinds
      <4>2. run'[u] = u /\ InBook(u)
        BY <1>1, <1>8, <3>2, <4>1 DEF TypeOK, InBook
      <4> QED
        BY <2>1, <4>1, <4>2 DEF RunsStarted
    <3> QED
      BY <1>5, <2>4, <3>1, <3>2
  <2> QED
    BY <2>3, <2>4 DEF RunsStarted
<1>10. BookDisjoint'
  <2>1. CurrentRuns' \cap draining' = {}
    BY <1>1, <1>2, <1>3 DEF BookDisjoint, CurrentRuns, InBook
  <2>2. \A bg \in Agents : runs[bg] # r
    BY <1>2 DEF InBook, Current
  <2>3. \A bg, cg \in Agents : runs'[bg] = runs'[cg] => bg = cg \/ runs'[bg] = NoRun
    BY <1>1, <2>2 DEF BookDisjoint, TypeOK
  <2> QED
    BY <2>1, <2>3 DEF BookDisjoint
<1>11. ActiveRunKept' /\ NoFinishUnderLease'
  BY <1>1, <1>2, <1>3 DEF ActiveRunKept, NoFinishUnderLease
<1>12. BookComplete'
  <2>1. Current(r)'
    BY <1>1 DEF Current, TypeOK
  <2> QED
    BY <1>1, <1>3, <2>1 DEF BookComplete, InBook, TypeOK
<1> QED
  BY <1>7, <1>9, <1>10, <1>11, <1>12

\* A lease is taken on a current run, which no one finishes while the pool is
\* active.
LEMMA TakeIInv == ASSUME IInv, TypeOK', NEW a \in Attempts, AcquireTake(a) PROVE IInv'
<1> DEFINE r == runs[agent[a]]
<1> USE DEF IInv
<1>1. /\ agent[a] \in Agents
      /\ r \in Runs \cup {NoRun}
      /\ run' = [run EXCEPT ![a] = r]
      /\ \A q \in Runs : inflight'[q] = IF q = r THEN inflight[q] + 1 ELSE inflight[q]
      /\ UNCHANGED <<runs, draining, finishing, retired, todoFinish, closing, upstream>>
  BY DEF AcquireTake, TypeOK, ForAgentPCs, Threads, flags, ending
<1>2. \A q \in Runs : (Current(q)' <=> Current(q)) /\ (InBook(q)' <=> InBook(q))
  BY <1>1 DEF Current, InBook
<1>3. r \in Runs => Current(r) /\ InBook(r)
  BY <1>1 DEF Current, InBook
<1>4. \A u \in Threads : /\ u # a => pc'[u] = pc[u] /\ run'[u] = run[u]
                         /\ pc'[a] # "finishing"
                         /\ pc'[a] \in WithRunPCs => r \in Runs /\ run'[a] = r
  BY <1>1 DEF AcquireTake, AfterTake, TypeOK, WithRunPCs, LeasePCs, Threads
<1> HIDE DEF r
<1>5. \A q \in Runs, u \in Threads : Finishes(u, q)' => Finishes(u, q)
  BY <1>4 DEF Finishes
<1>6. FinishersMark' /\ OneFinisher'
  BY <1>1, <1>5 DEF FinishersMark, OneFinisher
<1>7. RunsStarted'
  BY <1>1, <1>2, <1>3, <1>4 DEF RunsStarted, TypeOK
<1>8. BookDisjoint'
  BY <1>1, <1>2 DEF BookDisjoint, CurrentRuns
<1>9. ActiveRunKept' /\ NoFinishUnderLease' /\ BookComplete'
  BY <1>1, <1>2, <1>3 DEF ActiveRunKept, NoFinishUnderLease, BookComplete
<1> QED
  BY <1>6, <1>7, <1>8, <1>9

\* Striking r from the book leaves the other runs where they are.
LEMMA ForgetBook ==
  ASSUME TypeOK, NEW r \in Runs, Forget(r)
  PROVE  \A q \in Runs : /\ Current(q)' <=> Current(q) /\ q # r
                         /\ InBook(q)' <=> InBook(q) /\ q # r
BY ThreadKinds DEF Forget, Current, InBook, TypeOK, Threads

\* A run struck from the book is one the upstream has ended.
LEMMA ForgetIInv ==
  ASSUME IInv, TypeOK', NEW r \in Runs, Forget(r), upstream[r] # "unused",
         upstream' = [upstream EXCEPT ![r] = "ended"],
         UNCHANGED <<inflight, finishing, retired, todoFinish, closing>>,
         \A t \in Threads : /\ pc'[t] \in WithRunPCs => pc[t] \in WithRunPCs /\ run'[t] = run[t]
                            /\ pc'[t] = "finishing" => pc[t] = "finishing"
  PROVE  IInv'
<1> USE DEF IInv
<1>1. \A q \in Runs : /\ Current(q)' <=> Current(q) /\ q # r
                      /\ InBook(q)' <=> InBook(q) /\ q # r
  BY ForgetBook
<1>2. \A q \in Runs : upstream'[q] = IF q = r THEN "ended" ELSE upstream[q]
  BY DEF TypeOK
<1>3. \A q \in Runs, t \in Threads : Finishes(t, q)' => Finishes(t, q)
  BY DEF Finishes, WithRunPCs, LeasePCs
<1>4. FinishersMark' /\ OneFinisher'
  BY <1>3 DEF FinishersMark, OneFinisher
<1>5. RunsStarted'
  BY <1>1, <1>2 DEF RunsStarted, TypeOK
<1>6. BookDisjoint'
  BY <1>1 DEF BookDisjoint, CurrentRuns, Forget, TypeOK
<1>7. ActiveRunKept' /\ NoFinishUnderLease' /\ BookComplete'
  BY <1>1, <1>2 DEF ActiveRunKept, NoFinishUnderLease, BookComplete
<1> QED
  BY <1>4, <1>5, <1>6, <1>7

\* invalidate strikes the run the upstream has ended.
LEMMA InvalidIInv == ASSUME IInv, TypeOK', NEW a \in Attempts, ChatRunInvalid(a) PROVE IInv'
<1>1. run[a] \in Runs /\ upstream[run[a]] # "unused"
  BY DEF ChatRunInvalid, IInv, TypeOK, RunsStarted, WithRunPCs, LeasePCs, Threads
<1>2. \A t \in Threads : /\ pc'[t] \in WithRunPCs => pc[t] \in WithRunPCs /\ run'[t] = run[t]
                         /\ pc'[t] = "finishing" => pc[t] = "finishing"
  BY DEF ChatRunInvalid, IInv, TypeOK, WithRunPCs, LeasePCs, Threads
<1> QED
  BY <1>1, <1>2, ForgetIInv DEF ChatRunInvalid, flags, ending

\* An accepted FINISH strikes the run it ended.
LEMMA FinishOkIInv == ASSUME IInv, TypeOK', NEW t \in Threads, FinishOk(t) PROVE IInv'
<1>1. run[t] \in Runs /\ upstream[run[t]] # "unused"
  BY DEF FinishOk, IInv, TypeOK, RunsStarted, WithRunPCs, LeasePCs
<1>2. \A u \in Threads : /\ pc'[u] \in WithRunPCs => pc[u] \in WithRunPCs /\ run'[u] = run[u]
                         /\ pc'[u] = "finishing" => pc[u] = "finishing"
  BY DEF FinishOk, AfterFinish, IInv, TypeOK, WithRunPCs, LeasePCs
<1> QED
  BY <1>1, <1>2, ForgetIInv DEF FinishOk, flags, ending

\* release only lowers a lease count.
LEMMA ReleaseIInv == ASSUME IInv, TypeOK', NEW a \in Attempts, Release(a) PROVE IInv'
<1> USE DEF IInv
<1>1. /\ run[a] \in Runs
      /\ UNCHANGED <<runs, draining, finishing, retired, todoFinish, closing, upstream, run>>
      /\ \A q \in Runs : inflight'[q] > 0 => inflight[q] > 0
  BY DEF Release, TypeOK, WithRunPCs, LeasePCs, Threads, flags, ending
<1>2. \A q \in Runs : (Current(q)' <=> Current(q)) /\ (InBook(q)' <=> InBook(q))
  BY <1>1 DEF Current, InBook
<1>3. \A u \in Threads : /\ pc'[u] \in WithRunPCs => pc[u] \in WithRunPCs
                         /\ pc'[u] = "finishing" => pc[u] = "finishing"
  BY DEF Release, TypeOK, WithRunPCs, LeasePCs
<1>4. \A q \in Runs, u \in Threads : Finishes(u, q)' => Finishes(u, q)
  BY <1>1, <1>3 DEF Finishes
<1>5. FinishersMark' /\ OneFinisher'
  BY <1>1, <1>4 DEF FinishersMark, OneFinisher
<1>6. RunsStarted'
  BY <1>1, <1>2, <1>3 DEF RunsStarted
<1>7. BookDisjoint' /\ ActiveRunKept' /\ NoFinishUnderLease' /\ BookComplete'
  BY <1>1, <1>2 DEF BookDisjoint, CurrentRuns, ActiveRunKept, NoFinishUnderLease, BookComplete
<1> QED
  BY <1>5, <1>6, <1>7

\* The mark is set only where it was not, on a run without a lease that is
\* not the current run of a pool seen to be active.
LEMMA BeginIInv ==
  ASSUME IInv, TypeOK', NEW t \in Threads, NEW r \in Runs, FinishBegin(t, r) PROVE IInv'
<1> USE DEF IInv
<1>1. /\ UNCHANGED <<runs, draining, inflight, retired, closing, upstream>>
      /\ todoFinish' \subseteq todoFinish
      /\ upstream[r] # "unused"
  BY DEF FinishBegin, AtFinish, RunsStarted, WithRunPCs, LeasePCs, flags, ending
<1>2. \A q \in Runs : (Current(q)' <=> Current(q)) /\ (InBook(q)' <=> InBook(q))
  BY <1>1 DEF Current, InBook
<1>3. \A u \in Threads \ {t} : pc'[u] = pc[u] /\ run'[u] = run[u]
  BY DEF FinishBegin, TypeOK
<1>4. CASE \E seen \in SeenRetired(t) : Ready(r, seen) /\ finishing' = [finishing EXCEPT ![r] = TRUE]
                                         /\ pc'[t] = "finishing" /\ run'[t] = r
  <2>1. /\ inflight[r] = 0
        /\ ~finishing[r]
        /\ Current(r) => retired
        /\ \A q \in Runs : finishing'[q] <=> finishing[q] \/ q = r
    BY <1>4 DEF Ready, SeenRetired, TypeOK
  <2>2. \A q \in Runs, u \in Threads : Finishes(u, q)' => (u = t /\ q = r) \/ (q # r /\ Finishes(u, q))
    BY <1>3, <1>4, <2>1 DEF Finishes, FinishersMark
  <2>3. FinishersMark' /\ OneFinisher'
    BY <2>1, <2>2 DEF FinishersMark, OneFinisher
  <2>4. RunsStarted'
    BY <1>1, <1>2, <1>3, <1>4, <2>1 DEF RunsStarted
  <2>5. ActiveRunKept' /\ NoFinishUnderLease'
    BY <1>1, <1>2, <2>1 DEF ActiveRunKept, NoFinishUnderLease
  <2>6. BookDisjoint' /\ BookComplete'
    BY <1>1, <1>2 DEF BookDisjoint, CurrentRuns, BookComplete
  <2> QED
    BY <2>3, <2>4, <2>5, <2>6
<1>5. CASE pc'[t] \notin WithRunPCs /\ UNCHANGED finishing
  <2>1. \A q \in Runs, u \in Threads : Finishes(u, q)' => Finishes(u, q)
    BY <1>3, <1>5 DEF Finishes, WithRunPCs, LeasePCs
  <2>2. FinishersMark' /\ OneFinisher'
    BY <1>5, <2>1 DEF FinishersMark, OneFinisher
  <2>3. RunsStarted'
    BY <1>1, <1>2, <1>3, <1>5 DEF RunsStarted
  <2>4. BookDisjoint' /\ ActiveRunKept' /\ NoFinishUnderLease' /\ BookComplete'
    BY <1>1, <1>2, <1>5 DEF BookDisjoint, CurrentRuns, ActiveRunKept, NoFinishUnderLease, BookComplete
  <2> QED
    BY <2>2, <2>3, <2>4
<1> QED
  BY <1>4, <1>5 DEF FinishBegin, AfterFinish, WithRunPCs, LeasePCs, TypeOK

\* Only one thread finishes the run, so taking the mark back leaves none without.
LEMMA FailedIInv == ASSUME IInv, TypeOK', NEW t \in Threads, FinishFailed(t) PROVE IInv'
<1> USE DEF IInv
<1>1. /\ run[t] \in Runs
      /\ Finishes(t, run[t])
      /\ UNCHANGED <<runs, draining, inflight, retired, todoFinish, closing>>
      /\ \A q \in Runs : finishing'[q] <=> finishing[q] /\ q # run[t]
  BY DEF FinishFailed, Finishes, TypeOK, WithRunPCs, LeasePCs, flags, ending
<1>2. \A q \in Runs : (Current(q)' <=> Current(q)) /\ (InBook(q)' <=> InBook(q))
  BY <1>1 DEF Current, InBook
<1>3. upstream[run[t]] # "unused"
  BY DEF RunsStarted, FinishFailed, WithRunPCs, LeasePCs
<1>4. \A q \in Runs : /\ upstream'[q] # upstream[q] => q = run[t] /\ upstream'[q] = "ended"
                      /\ upstream[q] # "unused" => upstream'[q] # "unused"
                      /\ upstream'[q] = "running" => upstream[q] = "running"
  BY DEF FinishFailed, TypeOK
<1>5. \A u \in Threads : pc'[u] \in WithRunPCs => u # t /\ pc'[u] = pc[u] /\ run'[u] = run[u]
  BY DEF FinishFailed, AfterFinish, TypeOK, WithRunPCs, LeasePCs
<1>6. \A q \in Runs, u \in Threads : Finishes(u, q)' => Finishes(u, q) /\ u # t
  BY <1>5 DEF Finishes, WithRunPCs, LeasePCs
<1>7. FinishersMark' /\ OneFinisher'
  BY <1>1, <1>6 DEF FinishersMark, OneFinisher
<1>8. RunsStarted'
  BY <1>1, <1>2, <1>4, <1>5 DEF RunsStarted, TypeOK
<1>9. BookDisjoint' /\ ActiveRunKept' /\ NoFinishUnderLease' /\ BookComplete'
  BY <1>1, <1>2, <1>4 DEF BookDisjoint, CurrentRuns, ActiveRunKept, NoFinishUnderLease, BookComplete
<1> QED
  BY <1>7, <1>8, <1>9

\* A maintain pass only notes runs that are in the book.
LEMMA SnapshotIInv == ASSUME IInv, TypeOK', MaintainSnapshot PROVE IInv'
<1> USE DEF IInv
<1>1. /\ UNCHANGED <<book, retired, closing, upstream, run>>
      /\ \A q \in todoFinish' : InBook(q)
  BY DEF MaintainSnapshot, ToFinish, CurrentRuns, InBook, flags, ending
<1>2. \A q \in Runs : (Current(q)' <=> Current(q)) /\ (InBook(q)' <=> InBook(q))
  BY <1>1 DEF Current, InBook, book
<1>3. \A u \in Threads : pc'[u] \in WithRunPCs => pc'[u] = pc[u]
  BY DEF MaintainSnapshot, TypeOK, WithRunPCs, LeasePCs
<1>4. \A q \in Runs, u \in Threads : Finishes(u, q)' => Finishes(u, q)
  BY <1>1, <1>3 DEF Finishes, WithRunPCs, LeasePCs
<1>5. FinishersMark' /\ OneFinisher'
  BY <1>1, <1>4 DEF FinishersMark, OneFinisher, book
<1>6. RunsStarted'
  BY <1>1, <1>2, <1>3 DEF RunsStarted, book
<1>7. BookDisjoint' /\ ActiveRunKept' /\ NoFinishUnderLease' /\ BookComplete'
  BY <1>1, <1>2 DEF BookDisjoint, CurrentRuns, ActiveRunKept, NoFinishUnderLease, BookComplete, book
<1> QED
  BY <1>5, <1>6, <1>7

\* Retiring a pool weakens what it promises.
LEMMA RetireIInv == ASSUME IInv, TypeOK', Retire PROVE IInv'
<1> USE DEF IInv, Retire, book, locals, ending
<1>1. \A q \in Runs : (Current(q)' <=> Current(q)) /\ (InBook(q)' <=> InBook(q))
  BY DEF Current, InBook
<1>2. RunsStarted' /\ BookDisjoint' /\ BookComplete'
  BY <1>1 DEF RunsStarted, BookDisjoint, CurrentRuns, BookComplete
<1>3. FinishersMark' /\ OneFinisher'
  BY DEF FinishersMark, OneFinisher, Finishes
<1>4. ActiveRunKept' /\ NoFinishUnderLease'
  BY DEF ActiveRunKept, NoFinishUnderLease
<1> QED
  BY <1>2, <1>3, <1>4

\* So does retiring it after a 401.
LEMMA MarkInvalidIInv == ASSUME IInv, TypeOK', NEW a \in Attempts, MarkInvalid(a) PROVE IInv'
<1> USE DEF IInv
<1>1. UNCHANGED <<book, run, todoFinish, closing, upstream>> /\ (retired => retired')
  BY DEF MarkInvalid, ending, TypeOK
<1>2. \A q \in Runs : (Current(q)' <=> Current(q)) /\ (InBook(q)' <=> InBook(q))
  BY <1>1 DEF Current, InBook, book
<1>3. \A u \in Threads : /\ pc'[u] \in WithRunPCs <=> pc[u] \in WithRunPCs
                         /\ pc'[u] = "finishing" => pc[u] = "finishing"
  BY DEF MarkInvalid, TypeOK, WithRunPCs, LeasePCs
<1>4. \A q \in Runs, u \in Threads : Finishes(u, q)' => Finishes(u, q)
  BY <1>1, <1>3 DEF Finishes
<1>5. FinishersMark' /\ OneFinisher'
  BY <1>1, <1>4 DEF FinishersMark, OneFinisher, book
<1>6. RunsStarted'
  BY <1>1, <1>2, <1>3 DEF RunsStarted, book
<1>7. BookDisjoint' /\ ActiveRunKept' /\ NoFinishUnderLease' /\ BookComplete'
  BY <1>1, <1>2 DEF BookDisjoint, CurrentRuns, ActiveRunKept, NoFinishUnderLease, BookComplete, book
<1> QED
  BY <1>5, <1>6, <1>7

\* shutdown empties the book and ends the promise that it is complete.
LEMMA ShutdownIInv == ASSUME IInv, TypeOK', Shutdown PROVE IInv'
<1> USE DEF IInv
<1>1. UNCHANGED <<inflight, finishing, retired, run, todoFinish, upstream>> /\ closing'
  BY DEF Shutdown, EmptyBook, flags
<1>2. \A q \in Runs : (Current(q)' => Current(q)) /\ (InBook(q)' => InBook(q))
  BY ThreadKinds DEF Shutdown, EmptyBook, Current, InBook, Threads
<1>3. \A u \in Threads : pc'[u] \in WithRunPCs => pc'[u] = pc[u]
  BY DEF Shutdown, EmptyBook, TypeOK, WithRunPCs, LeasePCs
<1>4. \A q \in Runs, u \in Threads : Finishes(u, q)' => Finishes(u, q)
  BY <1>1, <1>3 DEF Finishes, WithRunPCs, LeasePCs
<1>5. FinishersMark' /\ OneFinisher'
  BY <1>1, <1>4 DEF FinishersMark, OneFinisher
<1>6. RunsStarted'
  BY <1>1, <1>2, <1>3 DEF RunsStarted
<1>7. BookDisjoint'
  BY DEF Shutdown, EmptyBook, BookDisjoint, CurrentRuns, Current
<1>8. ActiveRunKept' /\ NoFinishUnderLease' /\ BookComplete'
  BY <1>1, <1>2 DEF ActiveRunKept, NoFinishUnderLease, BookComplete
<1> QED
  BY <1>5, <1>6, <1>7, <1>8

\* shutdown's FINISH only ends a run upstream.
LEMMA ShutdownFinishIInv ==
  ASSUME IInv, TypeOK', NEW r \in Runs, ShutdownFinish(r) PROVE IInv'
<1> USE DEF IInv, ShutdownFinish, book, flags, locals
<1>1. \A q \in Runs : (Current(q)' <=> Current(q)) /\ (InBook(q)' <=> InBook(q))
  BY DEF Current, InBook
<1>2. \A q \in Runs : /\ upstream[q] # "unused" => upstream'[q] # "unused"
                      /\ upstream'[q] = "running" => upstream[q] = "running"
  BY DEF TypeOK
<1>3. RunsStarted'
  BY <1>1, <1>2 DEF RunsStarted, TypeOK
<1>4. BookDisjoint' /\ BookComplete'
  BY <1>1, <1>2 DEF BookDisjoint, CurrentRuns, BookComplete
<1>5. FinishersMark' /\ OneFinisher'
  BY DEF FinishersMark, OneFinisher, Finishes
<1>6. ActiveRunKept' /\ NoFinishUnderLease'
  BY <1>1 DEF ActiveRunKept, NoFinishUnderLease
<1> QED
  BY <1>3, <1>4, <1>5, <1>6

\* Every step of the pool keeps the inductive invariant.
LEMMA NextIInv == ASSUME IInv, [Next]_vars PROVE IInv'
<1>1. TypeOK'
  BY NextTypeOK DEF IInv
<1>2. Quiet \/ Loud
  BY QuietOrLoud DEF IInv
<1> QED
  BY <1>1, <1>2, QuietIInv, StartIInv, TakeIInv, InvalidIInv, ReleaseIInv, BeginIInv,
     FinishOkIInv, FailedIInv, SnapshotIInv, RetireIInv, MarkInvalidIInv, ShutdownIInv, ShutdownFinishIInv
  DEF Loud

\* The inductive invariant holds of every reachable state.
THEOREM Inductive == Spec => []IInv
BY InitIInv, NextIInv, PTL DEF Spec

\* While a pool is active no FINISH is under way for a leased run.
THEOREM LeasedRunsAreNotFinished == Spec => []NoFinishUnderLease
<1>1. IInv => NoFinishUnderLease
  BY DEF IInv
<1> QED
  BY Inductive, <1>1, PTL

\* While a pool is active no FINISH is under way for a current run.
THEOREM CurrentRunsAreNotFinished == Spec => []ActiveRunKept
<1>1. IInv => ActiveRunKept
  BY DEF IInv
<1> QED
  BY Inductive, <1>1, PTL

\* No two threads have a FINISH of the same run under way.
THEOREM FinishedByOne == Spec => []OneFinisher
<1>1. IInv => OneFinisher
  BY DEF IInv
<1> QED
  BY Inductive, <1>1, PTL

\* Until shutdown, every run the upstream runs is in the book.
THEOREM NoRunLost == Spec => []BookComplete
<1>1. IInv => BookComplete
  BY DEF IInv
<1> QED
  BY Inductive, <1>1, PTL

\* Current and draining runs are apart, and a run serves one agent.
THEOREM OnePlaceInTheBook == Spec => []BookDisjoint
<1>1. IInv => BookDisjoint
  BY DEF IInv
<1> QED
  BY Inductive, <1>1, PTL

-----------------------------------------------------------------------------
(* A run's life goes one way.                                              *)

\* No step takes a run that was handed out back to an earlier place.
LEMMA StepOneWay ==
  ASSUME IInv, [Next]_vars, NEW r \in Runs, upstream[r] # "unused"
  PROVE  (Current(r)' => Current(r)) /\ (InBook(r)' => InBook(r))
<1> USE DEF IInv
<1>1. CASE UNCHANGED book
  BY <1>1 DEF book, InBook, Current
<1>2. ASSUME NEW t \in Attempts \cup Rotators, NEW q \in Runs, StartInstalled(t, q)
      PROVE  (Current(r)' => Current(r)) /\ (InBook(r)' => InBook(r))
  BY <1>2 DEF StartInstalled, Drain, InBook, Current, TypeOK, ForAgentPCs, Threads
<1>3. ASSUME NEW q \in Runs, Forget(q)
      PROVE  (Current(r)' => Current(r)) /\ (InBook(r)' => InBook(r))
  BY <1>3, ForgetBook
<1>4. CASE Shutdown
  BY <1>4, ThreadKinds DEF Shutdown, EmptyBook, InBook, Current, Threads
<1>5. CASE UNCHANGED <<runs, draining>>
  BY <1>5 DEF InBook, Current
<1>6. CASE Quiet
  BY <1>1, <1>6 DEF Quiet
<1>7. ASSUME NEW a \in Attempts, AcquireTake(a) \/ MarkInvalid(a) \/ Release(a)
      PROVE  UNCHANGED <<runs, draining>>
  BY <1>7 DEF AcquireTake, MarkInvalid, Release, book
<1>8. ASSUME NEW a \in Attempts, ChatRunInvalid(a) PROVE \E q \in Runs : Forget(q)
  BY <1>8 DEF ChatRunInvalid, TypeOK, WithRunPCs, LeasePCs, Threads
<1>9. ASSUME NEW t \in Threads, FinishOk(t) PROVE \E q \in Runs : Forget(q)
  BY <1>9 DEF FinishOk, TypeOK, WithRunPCs, LeasePCs
<1>10. ASSUME NEW t \in Threads, NEW q \in Runs, FinishBegin(t, q) PROVE UNCHANGED <<runs, draining>>
  BY <1>10 DEF FinishBegin
<1>11. ASSUME NEW t \in Threads, FinishFailed(t) PROVE UNCHANGED <<runs, draining>>
  BY <1>11 DEF FinishFailed
<1>12. MaintainSnapshot \/ Retire \/ (\E q \in Runs : ShutdownFinish(q)) => UNCHANGED <<runs, draining>>
  BY DEF MaintainSnapshot, Retire, ShutdownFinish, book
<1> QED
  BY QuietOrLoud, <1>2, <1>3, <1>4, <1>5, <1>6, <1>7, <1>8, <1>9, <1>10, <1>11, <1>12 DEF Loud

\* A replaced run is never current again, a struck one never back in the book.
THEOREM RunsGoOneWay == Spec => OneWay
<1>1. ASSUME IInv, [Next]_vars
      PROVE  [\A r \in Runs : upstream[r] # "unused" =>
                 /\ Current(r)' => Current(r)
                 /\ InBook(r)' => InBook(r)]_vars
  BY <1>1, StepOneWay
<1> QED
  BY Inductive, <1>1, PTL DEF Spec, OneWay

-----------------------------------------------------------------------------
(* The lease count.                                                        *)

\* The requests that hold a lease are finitely many.
LEMMA HoldersFinite == ASSUME NEW r PROVE IsFiniteSet(Holders(r))
<1>1. Holders(r) \subseteq Attempts
  BY DEF Holders
<1> QED
  BY <1>1, FS_Subset, ConstantsAssumption

\* At first no request holds a lease.
LEMMA InitCounts == Init => InflightCountsLeases
<1> SUFFICES ASSUME Init PROVE InflightCountsLeases
  OBVIOUS
<1>1. \A r \in Runs : Holders(r) = {}
  BY ThreadKinds DEF Init, Holders, Holds, LeasePCs, Threads
<1> QED
  BY <1>1, FS_EmptySet DEF Init, InflightCountsLeases

\* Steps that move neither the counts nor the holders.
LEMMA SameHolders ==
  ASSUME InflightCountsLeases, UNCHANGED inflight,
         \A a \in Attempts, r \in Runs : Holds(a, r)' <=> Holds(a, r)
  PROVE  InflightCountsLeases'
<1>1. \A r \in Runs : Holders(r)' = Holders(r)
  BY DEF Holders
<1> QED
  BY <1>1 DEF InflightCountsLeases

\* acquire adds one to the count and one request to the holders.
LEMMA TakeCounts ==
  ASSUME TypeOK, InflightCountsLeases, NEW a \in Attempts, AcquireTake(a)
  PROVE  InflightCountsLeases'
<1> DEFINE r == runs[agent[a]]
<1>1. /\ r \in Runs \cup {NoRun}
      /\ run' = [run EXCEPT ![a] = r]
      /\ pc' = [pc EXCEPT ![a] = AfterTake(r)]
      /\ pc[a] = "session"
      /\ \A q \in Runs : inflight'[q] = IF q = r THEN inflight[q] + 1 ELSE inflight[q]
  BY DEF AcquireTake, TypeOK, ForAgentPCs, Threads
<1> HIDE DEF r
<1>2. \A q \in Runs : a \notin Holders(q)
  BY <1>1 DEF Holders, Holds, LeasePCs
<1>3. \A q \in Runs : Holders(q)' = IF q = r THEN Holders(q) \cup {a} ELSE Holders(q)
  BY <1>1, ThreadKinds DEF Holders, Holds, LeasePCs, AfterTake, TypeOK, Threads
<1>4. ASSUME NEW q \in Runs PROVE inflight'[q] = Cardinality(Holders(q)')
  <2>1. CASE q = r
    <3>1. Cardinality(Holders(q) \cup {a}) = Cardinality(Holders(q)) + 1
      BY <1>2, HoldersFinite, FS_AddElement
    <3> QED
      BY <1>1, <1>3, <2>1, <3>1 DEF InflightCountsLeases
  <2>2. CASE q # r
    BY <1>1, <1>3, <2>2 DEF InflightCountsLeases
  <2> QED
    BY <2>1, <2>2
<1> QED
  BY <1>4 DEF InflightCountsLeases

\* release takes one from the count and one request from the holders, and the
\* count is never zero then.
LEMMA ReleaseCounts ==
  ASSUME TypeOK, InflightCountsLeases, NEW a \in Attempts, Release(a)
  PROVE  InflightCountsLeases'
<1>1. /\ run[a] \in Runs
      /\ a \in Holders(run[a])
      /\ UNCHANGED run
      /\ pc' = [pc EXCEPT ![a] = "finish"]
  BY DEF Release, Holders, Holds, LeasePCs, TypeOK, WithRunPCs, LeasePCs, Threads
<1>2. \A q \in Runs : Holders(q)' = Holders(q) \ {a}
  BY <1>1 DEF Holders, Holds, LeasePCs, TypeOK, Threads
<1>3. ASSUME NEW q \in Runs PROVE inflight'[q] = Cardinality(Holders(q)')
  <2>1. CASE q = run[a]
    <3>1. Cardinality(Holders(q) \ {a}) = Cardinality(Holders(q)) - 1
      BY <1>1, <2>1, HoldersFinite, FS_RemoveElement
    <3>2. Cardinality(Holders(q)) # 0
      BY <1>1, <2>1, HoldersFinite, FS_EmptySet
    <3>3. inflight[q] = Cardinality(Holders(q)) /\ inflight[q] \in Nat /\ inflight[q] # 0
      BY <3>2 DEF InflightCountsLeases, TypeOK
    <3>4. inflight'[q] = inflight[q] - 1
      BY <2>1, <3>3 DEF Release, TypeOK
    <3>5. Holders(q)' = Holders(q) \ {a}
      BY <1>2
    <3> QED
      BY <3>1, <3>3, <3>4, <3>5
  <2>2. CASE q # run[a]
    <3>1. Holders(q) \ {a} = Holders(q)
      BY <2>2 DEF Holders, Holds, LeasePCs
    <3> QED
      BY <1>2, <2>2, <3>1 DEF Release, InflightCountsLeases, TypeOK
  <2> QED
    BY <2>1, <2>2
<1> QED
  BY <1>3 DEF InflightCountsLeases

\* Every step keeps the lease count right.
LEMMA NextCounts ==
  ASSUME TypeOK, InflightCountsLeases, [Next]_vars PROVE InflightCountsLeases'
<1> USE ThreadKinds DEF Holds, LeasePCs, TypeOK, Threads, Rotators
<1> DEFINE Same == UNCHANGED inflight /\ \A a \in Attempts, r \in Runs : Holds(a, r)' <=> Holds(a, r)
<1>1. Quiet => Same
  BY DEF Quiet, book
<1>2. ASSUME NEW t \in Attempts \cup Rotators, NEW r \in Runs, StartInstalled(t, r) PROVE Same
  <2>1. runs[agent[t]] \notin Attempts
    BY <1>2 DEF StartInstalled, ForAgentPCs
  <2>2. \A a \in Attempts : pc'[a] = IF a = t THEN Rotated(t) ELSE pc[a]
    BY <1>2, <2>1 DEF StartInstalled
  <2> QED
    BY <1>2, <2>2 DEF StartInstalled, Rotated
<1>3. ASSUME NEW a \in Attempts, ChatRunInvalid(a) \/ MarkInvalid(a) PROVE Same
  BY <1>3 DEF ChatRunInvalid, MarkInvalid, book
<1>4. ASSUME NEW t \in Threads, NEW r \in Runs, FinishBegin(t, r) PROVE Same
  BY <1>4 DEF FinishBegin, AtFinish, AfterFinish
<1>5. ASSUME NEW t \in Threads, FinishOk(t) PROVE Same
  BY <1>5 DEF FinishOk, AfterFinish
<1>6. ASSUME NEW t \in Threads, FinishFailed(t) PROVE Same
  BY <1>6 DEF FinishFailed, AfterFinish
<1>7. MaintainSnapshot => Same
  BY DEF MaintainSnapshot, book
<1>8. Shutdown => Same
  BY DEF Shutdown
<1>9. Retire \/ (\E r \in Runs : ShutdownFinish(r)) => Same
  BY DEF Retire, ShutdownFinish, book, locals
<1>10. Same => InflightCountsLeases'
  BY SameHolders
<1> HIDE DEF Same
<1> QED
  BY QuietOrLoud, TakeCounts, ReleaseCounts, <1>1, <1>2, <1>3, <1>4, <1>5, <1>6, <1>7, <1>8,
     <1>9, <1>10
  DEF Loud

\* run.inflight always counts the requests that hold a lease on the run.
THEOREM CountIsRight == Spec => []InflightCountsLeases
<1>1. Init => TypeOK /\ InflightCountsLeases
  BY InitTypeOK, InitCounts
<1>2. TypeOK /\ InflightCountsLeases /\ [Next]_vars => (TypeOK /\ InflightCountsLeases)'
  BY NextTypeOK, NextCounts
<1> QED
  BY <1>1, <1>2, PTL DEF Spec

-----------------------------------------------------------------------------
(* TokenPool implements RunLife: the initial states map to initial states, *)
(* and every step maps to a step of RunLife or leaves what RunLife sees    *)
(* unchanged.  There is one lemma per loud action.                         *)

\* What the simulation rests on: the safety properties, the lease count, and
\* that the goroutine that finishes a replaced run has not been started for
\* one that is current, and that the shutdown finishes started runs only.
CurrentIdle == \A r \in Runs : Current(r) => pc[r] = "idle"

CloseStarted == \A r \in todoClose : upstream[r] # "unused"

SimInv == IInv /\ InflightCountsLeases /\ CurrentIdle /\ CloseStarted

\* The goroutine of a run is at rest as long as the run is current: rotateAgent
\* starts it for the run it replaces.
LEMMA StepCurrentIdle == ASSUME IInv, CurrentIdle, [Next]_vars PROVE CurrentIdle'
<1> SUFFICES ASSUME NEW r \in Runs, Current(r)' PROVE pc'[r] = "idle"
  BY DEF CurrentIdle
<1> USE ThreadKinds DEF Threads, Rotators
<1>1. r \in Threads /\ r \notin Attempts \cup Rotators /\ pc[r] \in FinisherPCs
  BY DEF IInv, TypeOK, PCs
<1>2. pc[r] = "idle"
  <2>1. CASE upstream[r] = "unused"
    BY <1>1, <2>1 DEF IInv, TypeOK, RunsStarted, FinisherPCs, WithRunPCs
  <2>2. CASE upstream[r] # "unused"
    BY <2>2, StepOneWay DEF CurrentIdle
  <2> QED
    BY <2>1, <2>2
<1>3. ASSUME NEW t \in Attempts \cup Rotators, NEW q \in Runs, StartInstalled(t, q)
      PROVE  pc'[r] = "idle"
  <2> DEFINE ag == agent[t]
  <2>1. ag \in Agents /\ runs' = [runs EXCEPT ![ag] = q] /\ upstream[q] = "unused"
        /\ runs[ag] # q
    BY <1>3 DEF StartInstalled, IInv, TypeOK, ForAgentPCs, RunsStarted, InBook, Current
  <2>2. runs[ag] # r
    BY <2>1 DEF Current, IInv, BookDisjoint, TypeOK
  <2> QED
    BY <1>1, <1>2, <1>3, <2>2 DEF StartInstalled, IInv, TypeOK
<1>4. ASSUME NEW a \in Attempts, AcquireTake(a) \/ ChatRunInvalid(a) \/ Release(a) \/ MarkInvalid(a)
      PROVE  pc'[r] = "idle"
  BY <1>1, <1>2, <1>4 DEF AcquireTake, ChatRunInvalid, Release, MarkInvalid, IInv, TypeOK
<1>5. ASSUME NEW t \in Threads, NEW q \in Runs, FinishBegin(t, q) PROVE pc'[r] = "idle"
  BY <1>1, <1>2, <1>5 DEF FinishBegin, AtFinish, IInv, TypeOK
<1>6. ASSUME NEW t \in Threads, FinishOk(t) \/ FinishFailed(t) PROVE pc'[r] = "idle"
  BY <1>1, <1>2, <1>6 DEF FinishOk, FinishFailed, IInv, TypeOK
<1>7. CASE MaintainSnapshot \/ Shutdown
  BY <1>1, <1>2, <1>7 DEF MaintainSnapshot, Shutdown, IInv, TypeOK
<1>8. CASE Retire \/ \E q \in Runs : ShutdownFinish(q)
  BY <1>2, <1>8 DEF Retire, ShutdownFinish, locals
<1>9. CASE Quiet
  <2>1. TypeOK'
    BY NextTypeOK DEF IInv
  <2>2. pc'[r] \in FinisherPCs
    BY <1>1, <2>1 DEF TypeOK, PCs
  <2> QED
    BY <1>1, <1>2, <1>9, <2>2 DEF Quiet, WithRunPCs, LeasePCs, FinisherPCs
<1> QED
  BY <1>3, <1>4, <1>5, <1>6, <1>7, <1>8, <1>9, QuietOrLoud DEF Loud, IInv

LEMMA InitSimInv == Init => SimInv
<1>1. Init => CurrentIdle
  <2> SUFFICES ASSUME Init, NEW r \in Runs PROVE ~Current(r)
    BY DEF CurrentIdle
  <2> QED
    BY ThreadKinds DEF Init, Current, Threads
<1> QED
  BY <1>1, InitIInv, InitCounts DEF SimInv, CloseStarted, Init

\* The upstream never forgets that it handed out a run.
LEMMA StepStarted ==
  ASSUME IInv, [Next]_vars, NEW r \in Runs, upstream[r] # "unused" PROVE upstream'[r] # "unused"
<1>1. CASE Quiet
  BY <1>1 DEF Quiet
<1> QED
  BY <1>1, QuietOrLoud
  DEF Loud, StartInstalled, AcquireTake, ChatRunInvalid, Release, FinishBegin, FinishOk, FinishFailed,
      MaintainSnapshot, Retire, MarkInvalid, Shutdown, ShutdownFinish, IInv, TypeOK

\* The shutdown takes its runs from the book.
LEMMA StepCloseStarted == ASSUME IInv, CloseStarted, [Next]_vars PROVE CloseStarted'
<1>1. todoClose \subseteq Runs /\ \A r \in todoClose : upstream'[r] # "unused"
  BY StepStarted DEF CloseStarted, IInv, TypeOK
<1>2. CASE Shutdown
  BY <1>1, <1>2 DEF Shutdown, EmptyBook, CloseStarted, CurrentRuns, InBook, IInv, RunsStarted, TypeOK
<1>3. ~Shutdown => todoClose' \subseteq todoClose
  BY DEF Next, Attempt, Rotate, Finish, Maintain, Close, AcquireList, AcquireCheck, SessionFailed,
         AcquireTake, ChatRunInvalid, ChatUnauthorized, MarkInvalid, Release, RotateCheck, StartFailed,
         StartInstalled, FinishBegin, FinishOk, FinishFailed, MaintainList, MaintainSnapshot,
         MaintainEnd, Retire, ShutdownFinish, CooldownEnds, ending, vars
<1> QED
  BY <1>1, <1>2, <1>3 DEF CloseStarted

LEMMA NextSimInv == ASSUME SimInv, [Next]_vars PROVE SimInv'
BY NextIInv, NextCounts, StepCurrentIdle, StepCloseStarted DEF SimInv, IInv

-----------------------------------------------------------------------------
(* What RunLife sees of a step.                                            *)

\* The refinement mapping, value by value.
LEMMA Mapping ==
    /\ \A a \in Attempts : leaseOf[a] = IF pc[a] \in LeasePCs THEN run[a] ELSE NoRun
    /\ \A r \in Runs : finishOf[r] = IF \E t \in Threads : Finishes(t, r) THEN "sent"
                                     ELSE IF finishing[r] THEN "accepted" ELSE "no"
    /\ \A r : r \in startedRuns <=> r \in Runs /\ upstream[r] # "unused"
BY DEF leaseOf, finishOf, startedRuns

\* Leases stay what they are when threads keep their run and their side of the
\* lease.
LEMMA SameLeases ==
  ASSUME \A a \in Attempts : /\ pc'[a] \in LeasePCs <=> pc[a] \in LeasePCs
                             /\ pc[a] \in LeasePCs => run'[a] = run[a]
  PROVE  leaseOf' = leaseOf
BY DEF leaseOf

\* So does what is known of FINISH.
LEMMA SameFinish ==
  ASSUME UNCHANGED finishing,
         \A t \in Threads, r \in Runs : Finishes(t, r)' <=> Finishes(t, r)
  PROVE  finishOf' = finishOf
<1>1. \A r \in Runs : (\E t \in Threads : Finishes(t, r))' <=> \E t \in Threads : Finishes(t, r)
  OBVIOUS
<1> QED
  BY <1>1 DEF finishOf

LEMMA SameStarted ==
  ASSUME \A r \in Runs : upstream'[r] # "unused" <=> upstream[r] # "unused"
  PROVE  startedRuns' = startedRuns
BY DEF startedRuns

\* The pool as RunLife sees it is unchanged.
Same == UNCHANGED <<runs, draining, startedRuns, leaseOf, finishOf, retired, closing>>

LEMMA QuietSim == ASSUME Quiet PROVE Same
<1>1. leaseOf' = leaseOf
  BY SameLeases DEF Quiet, Threads
<1>2. finishOf' = finishOf
  BY SameFinish DEF Quiet, Finishes, book
<1>3. startedRuns' = startedRuns
  BY SameStarted DEF Quiet
<1> QED
  BY <1>1, <1>2, <1>3 DEF Quiet, Same, book

-----------------------------------------------------------------------------
(* One lemma per loud action.                                              *)

\* Installing a new run is a Start of the agent's run.
LEMMA StartSim ==
  ASSUME SimInv, NEW t \in Attempts \cup Rotators, NEW r \in Runs, StartInstalled(t, r)
  PROVE  RL!Next
<1> DEFINE ag  == agent[t]
           old == runs[ag]
<1> USE ThreadKinds DEF Threads, Rotators
<1>1. ag \in Agents /\ t \in Threads /\ pc[t] = "starting" /\ old # t /\ old \notin Attempts
  BY DEF StartInstalled, SimInv, IInv, TypeOK, ForAgentPCs
<1>2. \A u \in Threads : pc'[u] = IF u = t THEN Rotated(t) ELSE IF u = old THEN "finish" ELSE pc[u]
  BY <1>1 DEF StartInstalled
<1>3. old \in Runs => pc[old] = "idle"
  BY <1>1 DEF SimInv, CurrentIdle, Current
<1> HIDE DEF old
<1>4. UNCHANGED leaseOf
  <2>1. \A a \in Attempts : pc'[a] \in LeasePCs <=> pc[a] \in LeasePCs
    BY <1>1, <1>2 DEF LeasePCs, Rotated
  <2> QED
    BY <2>1, SameLeases DEF StartInstalled
<1>5. UNCHANGED finishOf
  <2>1. \A u \in Threads : pc'[u] = "finishing" <=> pc[u] = "finishing"
    BY <1>1, <1>2, <1>3 DEF Rotated, old, SimInv, IInv, TypeOK
  <2>2. \A u \in Threads, q \in Runs : Finishes(u, q)' <=> Finishes(u, q)
    BY <2>1 DEF StartInstalled, Finishes
  <2> QED
    BY <2>2, SameFinish DEF StartInstalled
<1>6. r \notin startedRuns /\ startedRuns' = startedRuns \cup {r}
  BY DEF StartInstalled, startedRuns, SimInv, IInv, TypeOK
<1>7. RL!Start(ag, r)
  BY <1>4, <1>5, <1>6 DEF RL!Start, StartInstalled, Drain, flags, ending
<1> QED
  BY <1>1, <1>7 DEF RL!Next

\* acquire leases the run that serves, or nothing.
LEMMA TakeSim ==
  ASSUME SimInv, NEW a \in Attempts, AcquireTake(a) PROVE RL!Next \/ Same
<1> DEFINE ag == agent[a]
           r  == runs[ag]
<1> USE ThreadKinds DEF Threads, Rotators
<1>1. ag \in Agents /\ pc[a] = "session" /\ r \in Runs \cup {NoRun}
  BY DEF AcquireTake, SimInv, IInv, TypeOK, ForAgentPCs
<1>2. /\ pc' = [pc EXCEPT ![a] = AfterTake(r)]
      /\ run' = [run EXCEPT ![a] = r]
      /\ UNCHANGED <<runs, draining, retired, closing, upstream, finishing>>
  BY DEF AcquireTake, flags, ending
<1> HIDE DEF r
<1>3. UNCHANGED finishOf
  <2>1. \A t \in Threads, q \in Runs : Finishes(t, q)' <=> Finishes(t, q)
    BY <1>1, <1>2 DEF Finishes, AfterTake, SimInv, IInv, TypeOK
  <2> QED
    BY <1>2, <2>1, SameFinish
<1>4. UNCHANGED startedRuns
  BY <1>2, SameStarted
<1>5. CASE r = NoRun
  <2>1. UNCHANGED leaseOf
    BY <1>1, <1>2, <1>5, SameLeases DEF AfterTake, LeasePCs, SimInv, IInv, TypeOK
  <2> QED
    BY <1>2, <1>3, <1>4, <2>1 DEF Same
<1>6. CASE r # NoRun
  <2>1. leaseOf[a] = NoRun
    BY <1>1 DEF leaseOf, LeasePCs
  <2>2. leaseOf' = [leaseOf EXCEPT ![a] = r]
    BY <1>1, <1>2, <1>6 DEF leaseOf, AfterTake, LeasePCs, SimInv, IInv, TypeOK
  <2>3. finishOf[r] # "no" => retired
    <3>1. finishOf[r] # "no" => finishing[r]
      BY <1>1, <1>6, Mapping DEF SimInv, IInv, FinishersMark
    <3> QED
      BY <1>1, <1>6, <3>1 DEF r, SimInv, IInv, ActiveRunKept, Current
  <2>4. RL!Lease(a, ag)
    BY <1>2, <1>3, <1>4, <1>6, <2>1, <2>2, <2>3 DEF RL!Lease, r
  <2> QED
    BY <1>1, <2>4 DEF RL!Next
<1> QED
  BY <1>5, <1>6

\* A release by a request gives its lease back.
LEMMA ReleaseSim ==
  ASSUME SimInv, NEW a \in Attempts, Release(a) PROVE RL!Next
<1> USE ThreadKinds DEF Threads, Rotators, SimInv, IInv, TypeOK
<1>1. pc[a] \in LeasePCs /\ run[a] \in Runs /\ pc' = [pc EXCEPT ![a] = "finish"]
  BY DEF Release, LeasePCs, WithRunPCs
<1>2. leaseOf[a] # NoRun /\ leaseOf' = [leaseOf EXCEPT ![a] = NoRun]
  <2>1. leaseOf[a] = run[a]
    BY <1>1 DEF leaseOf
  <2>2. pc'[a] \notin LeasePCs /\ UNCHANGED run /\ \A b \in Attempts : b # a => pc'[b] = pc[b]
    BY <1>1 DEF LeasePCs, Release
  <2>3. leaseOf' = [leaseOf EXCEPT ![a] = NoRun]
    BY <2>2 DEF leaseOf
  <2> QED
    BY <1>1, <2>1, <2>3
<1>3. UNCHANGED finishOf
  <2>1. \A t \in Threads, q \in Runs : Finishes(t, q)' <=> Finishes(t, q)
    BY <1>1 DEF Finishes, LeasePCs, Release
  <2> QED
    BY <2>1, SameFinish DEF Release
<1>4. UNCHANGED <<startedRuns, runs, draining, retired, closing>>
  <2>1. startedRuns' = startedRuns
    BY SameStarted DEF Release
  <2> QED
    BY <2>1 DEF Release, flags, ending
<1>5. RL!Release(a)
  BY <1>2, <1>3, <1>4 DEF RL!Release
<1> QED
  BY <1>5 DEF RL!Next

\* Taking a run out of the book means the same to both.
LEMMA ForgetOut == ASSUME NEW r, Forget(r) PROVE RL!Out(r)
BY DEF Forget, RL!Out

\* invalidate strikes the run that the request leases.
LEMMA InvalidSim ==
  ASSUME SimInv, NEW a \in Attempts, ChatRunInvalid(a) PROVE RL!Next
<1> USE ThreadKinds DEF Threads, Rotators, SimInv, IInv, TypeOK
<1>1. pc[a] = "held" /\ run[a] \in Runs /\ pc' = [pc EXCEPT ![a] = "release"] /\ UNCHANGED run
  BY DEF ChatRunInvalid, LeasePCs, WithRunPCs
<1>2. leaseOf[a] = run[a] /\ UNCHANGED leaseOf
  BY <1>1, SameLeases DEF leaseOf, LeasePCs
<1>3. UNCHANGED finishOf
  <2>1. \A t \in Threads, q \in Runs : Finishes(t, q)' <=> Finishes(t, q)
    BY <1>1 DEF Finishes
  <2> QED
    BY <2>1, SameFinish DEF ChatRunInvalid
<1>4. upstream[run[a]] # "unused"
  BY <1>1 DEF RunsStarted, WithRunPCs, LeasePCs
<1>5. UNCHANGED startedRuns
  BY <1>1, <1>4, SameStarted DEF ChatRunInvalid
<1>6. RL!Strike(a)
  BY <1>1, <1>2, <1>3, <1>5, ForgetOut DEF RL!Strike, ChatRunInvalid, flags, ending
<1> QED
  BY <1>6 DEF RL!Next

\* finishIfReady sends FINISH of a run that nobody leases, because the count
\* says so, and of which no FINISH is under way or accepted, because of the
\* mark; or it does nothing.
LEMMA BeginSim ==
  ASSUME SimInv, NEW t \in Threads, NEW r \in Runs, FinishBegin(t, r) PROVE RL!Next \/ Same
<1> USE ThreadKinds DEF Threads, Rotators, SimInv, IInv, TypeOK
<1>1. AtFinish(t, r) /\ UNCHANGED <<runs, draining, retired, closing, upstream, inflight>>
  BY DEF FinishBegin, flags, ending
<1>2. pc[t] \notin LeasePCs /\ pc[t] # "finishing" /\ t # Prewarmer
  BY <1>1 DEF AtFinish, LeasePCs
<1>3. UNCHANGED startedRuns
  BY <1>1, SameStarted
<1>4. UNCHANGED leaseOf
  <2>1. pc'[t] \notin LeasePCs /\ \A u \in Threads : u # t => pc'[u] = pc[u] /\ run'[u] = run[u]
    BY <1>1 DEF FinishBegin, LeasePCs, AfterFinish
  <2> QED
    BY <1>2, <2>1, SameLeases
<1>5. PICK seen \in SeenRetired(t) :
         IF Ready(r, seen)
         THEN /\ finishing' = [finishing EXCEPT ![r] = TRUE]
              /\ pc' = [pc EXCEPT ![t] = "finishing"]
              /\ run' = [run EXCEPT ![t] = r]
         ELSE /\ pc' = [pc EXCEPT ![t] = AfterFinish(t)]
              /\ run' = [run EXCEPT ![t] = NoWork(t)]
              /\ UNCHANGED finishing
  BY DEF FinishBegin
<1>6. CASE ~Ready(r, seen)
  <2>1. \A u \in Threads, q \in Runs : Finishes(u, q)' <=> Finishes(u, q)
    BY <1>2, <1>5, <1>6 DEF Finishes, AfterFinish
  <2>2. UNCHANGED finishOf
    BY <1>5, <1>6, <2>1, SameFinish
  <2> QED
    BY <1>1, <1>3, <1>4, <2>2 DEF Same
<1>7. CASE Ready(r, seen)
  <2>1. /\ ~finishing[r] /\ finishing' = [finishing EXCEPT ![r] = TRUE]
        /\ inflight[r] = 0
        /\ Current(r) => retired
    BY <1>5, <1>7 DEF Ready, SeenRetired
  <2>2. r \in startedRuns
    BY <1>1 DEF startedRuns, RunsStarted, AtFinish, WithRunPCs
  <2>3. \A a \in Attempts : leaseOf[a] # r
    <3>1. Holders(r) = {}
      BY <2>1, HoldersFinite, FS_EmptySet DEF InflightCountsLeases
    <3> QED
      BY <3>1 DEF Holders, Holds, leaseOf
  <2>4. \A u \in Threads, q \in Runs : Finishes(u, q)' <=> Finishes(u, q) \/ (u = t /\ q = r)
    BY <1>2, <1>5, <1>7 DEF Finishes
  <2>5. finishOf[r] = "no"
    BY <2>1, Mapping DEF FinishersMark
  <2>6. finishOf' = [finishOf EXCEPT ![r] = "sent"]
    <3>1. \A q \in Runs : q # r =>
             ((\E u \in Threads : Finishes(u, q))' <=> \E u \in Threads : Finishes(u, q))
      BY <2>4
    <3>2. (\E u \in Threads : Finishes(u, r))'
      BY <2>4
    <3>3. \A q \in Runs : finishOf'[q] = IF q = r THEN "sent" ELSE finishOf[q]
      <4>1. \A q \in Runs : q # r => finishing'[q] = finishing[q]
        BY <2>1
      <4> QED
        BY <3>1, <3>2, <4>1 DEF finishOf
    <3> QED
      BY <3>3 DEF finishOf
  <2>7. RL!SendFinish(r)
    BY <1>1, <1>3, <1>4, <2>1, <2>2, <2>3, <2>5, <2>6 DEF RL!SendFinish, RL!Serves, Current
  <2> QED
    BY <2>7 DEF RL!Next
<1> QED
  BY <1>6, <1>7

\* An accepted FINISH takes the run out of the book, and the mark stays.
LEMMA FinishOkSim ==
  ASSUME SimInv, NEW t \in Threads, FinishOk(t) PROVE RL!Next
<1> USE ThreadKinds DEF Threads, Rotators, SimInv, IInv, TypeOK
<1>0. PICK r \in Runs : r = run[t]
  BY DEF FinishOk, FinishFailed, WithRunPCs
<1>1. /\ pc[t] = "finishing" /\ Finishes(t, r) /\ Forget(r)
      /\ upstream' = [upstream EXCEPT ![r] = "ended"]
      /\ pc' = [pc EXCEPT ![t] = AfterFinish(t)]
      /\ run' = [run EXCEPT ![t] = NoWork(t)]
      /\ UNCHANGED <<finishing, retired, closing>>
  BY <1>0 DEF FinishOk, Finishes, Forget, flags, ending
<1>2. finishing[r] /\ upstream[r] # "unused"
  <2>1. finishing[r]
    BY <1>1, Zenon DEF FinishersMark
  <2> QED
    BY <1>1, <2>1 DEF RunsStarted, WithRunPCs, Finishes
<1>3. UNCHANGED startedRuns
  BY <1>1, <1>2, SameStarted
<1>4. UNCHANGED leaseOf
  <2>1. \A u \in Threads : u # t => pc'[u] = pc[u] /\ run'[u] = run[u]
    BY <1>1
  <2>2. pc[t] \notin LeasePCs /\ pc'[t] \notin LeasePCs
    BY <1>1 DEF LeasePCs, AfterFinish
  <2> QED
    BY <2>1, <2>2, SameLeases
<1>5. \A u \in Threads, q \in Runs : Finishes(u, q)' <=> Finishes(u, q) /\ u # t
  BY <1>1 DEF Finishes, AfterFinish
<1>6. finishOf[r] = "sent"
  BY <1>1, Mapping DEF Finishes
<1>7. finishOf' = [finishOf EXCEPT ![r] = "accepted"]
  <2>1. ~(\E u \in Threads : Finishes(u, r))'
    BY <1>1, <1>5 DEF OneFinisher, Finishes
  <2>2. \A q \in Runs : q # r =>
           ((\E u \in Threads : Finishes(u, q))' <=> \E u \in Threads : Finishes(u, q))
    BY <1>1, <1>5 DEF Finishes
  <2>3. \A q \in Runs : finishOf'[q] = IF q = r THEN "accepted" ELSE finishOf[q]
    BY <1>1, <1>2, <2>1, <2>2 DEF finishOf
  <2> QED
    BY <2>3 DEF finishOf
<1>8. RL!FinishAccepted(r)
  BY <1>1, <1>3, <1>4, <1>6, <1>7, ForgetOut DEF RL!FinishAccepted
<1> QED
  BY <1>1, <1>8 DEF RL!Next

\* A refused FINISH takes the mark back.
LEMMA FailedSim ==
  ASSUME SimInv, NEW t \in Threads, FinishFailed(t) PROVE RL!Next
<1> USE ThreadKinds DEF Threads, Rotators, SimInv, IInv, TypeOK
<1>0. PICK r \in Runs : r = run[t]
  BY DEF FinishOk, FinishFailed, WithRunPCs
<1>1. /\ pc[t] = "finishing" /\ Finishes(t, r)
      /\ finishing' = [finishing EXCEPT ![r] = FALSE]
      /\ pc' = [pc EXCEPT ![t] = AfterFinish(t)]
      /\ run' = [run EXCEPT ![t] = NoWork(t)]
      /\ UNCHANGED <<runs, draining, retired, closing>>
  BY <1>0 DEF FinishFailed, Finishes, flags, ending
<1>2. finishing[r] /\ upstream[r] # "unused"
  <2>1. finishing[r]
    BY <1>1, Zenon DEF FinishersMark
  <2> QED
    BY <1>1, <2>1 DEF RunsStarted, WithRunPCs, Finishes
<1>3. UNCHANGED startedRuns
  BY <1>1, <1>2, SameStarted DEF FinishFailed
<1>4. UNCHANGED leaseOf
  <2>1. \A u \in Threads : u # t => pc'[u] = pc[u] /\ run'[u] = run[u]
    BY <1>1
  <2>2. pc[t] \notin LeasePCs /\ pc'[t] \notin LeasePCs
    BY <1>1 DEF LeasePCs, AfterFinish
  <2> QED
    BY <2>1, <2>2, SameLeases
<1>5. \A u \in Threads, q \in Runs : Finishes(u, q)' <=> Finishes(u, q) /\ u # t
  BY <1>1 DEF Finishes, AfterFinish
<1>6. finishOf[r] = "sent"
  BY <1>1, Mapping DEF Finishes
<1>7. finishOf' = [finishOf EXCEPT ![r] = "no"]
  <2>1. ~(\E u \in Threads : Finishes(u, r))'
    BY <1>1, <1>5 DEF OneFinisher, Finishes
  <2>2. \A q \in Runs : q # r =>
           ((\E u \in Threads : Finishes(u, q))' <=> \E u \in Threads : Finishes(u, q))
    BY <1>1, <1>5 DEF Finishes
  <2>3. \A q \in Runs : finishOf'[q] = IF q = r THEN "no" ELSE finishOf[q]
    BY <1>1, <2>1, <2>2 DEF finishOf
  <2> QED
    BY <2>3 DEF finishOf
<1>8. RL!FinishRefused(r)
  BY <1>1, <1>3, <1>4, <1>6, <1>7 DEF RL!FinishRefused
<1> QED
  BY <1>1, <1>8 DEF RL!Next

\* A pool that retires for the first time is a Retire, an account that is
\* marked again is nothing.
LEMMA RetireSim ==
  ASSUME SimInv, Retire \/ \E a \in Attempts : MarkInvalid(a) PROVE RL!Next \/ Same
<1> USE ThreadKinds DEF Threads, Rotators, SimInv, IInv, TypeOK
<1>1. UNCHANGED <<runs, draining, upstream, finishing, closing, run>> /\ retired' \in {retired, TRUE}
  BY DEF Retire, MarkInvalid, book, ending, locals
<1>2. \A t \in Threads : /\ pc'[t] \in LeasePCs <=> pc[t] \in LeasePCs
                         /\ pc'[t] = "finishing" <=> pc[t] = "finishing"
  BY DEF Retire, MarkInvalid, locals, LeasePCs
<1>3. UNCHANGED leaseOf
  BY <1>1, <1>2, SameLeases
<1>4. UNCHANGED finishOf
  BY <1>1, <1>2, SameFinish DEF Finishes
<1>5. UNCHANGED startedRuns
  BY <1>1, SameStarted
<1>6. CASE retired' = retired
  BY <1>1, <1>3, <1>4, <1>5, <1>6 DEF Same
<1>7. CASE retired' # retired
  BY <1>1, <1>3, <1>4, <1>5, <1>7 DEF RL!Next, RL!Retire
<1> QED
  BY <1>6, <1>7

\* The shutdown takes the book, or leaves a pool that was let go; its FINISH
\* calls and the ticker's snapshot are nothing to RunLife.
LEMMA ShutdownSim == ASSUME SimInv, Shutdown PROVE RL!Next
<1> USE ThreadKinds DEF Threads, Rotators, SimInv, IInv, TypeOK
<1>1. /\ UNCHANGED <<upstream, finishing, retired, run>> /\ ~closing /\ closing'
      /\ pc' = [pc EXCEPT ![Maintainer] = "stopped"] /\ pc[Maintainer] = "idle"
  BY DEF Shutdown, flags
<1>2. UNCHANGED leaseOf
  BY <1>1, SameLeases
<1>3. UNCHANGED finishOf
  BY <1>1, SameFinish DEF Finishes
<1>4. UNCHANGED startedRuns
  BY <1>1, SameStarted
<1>5. RL!Close
  BY <1>1, <1>2, <1>3, <1>4 DEF RL!Close, Shutdown, EmptyBook
<1> QED
  BY <1>5 DEF RL!Next

LEMMA SnapshotSim ==
  ASSUME SimInv, MaintainSnapshot \/ \E r \in Runs : ShutdownFinish(r) PROVE Same
<1> USE ThreadKinds DEF Threads, Rotators, SimInv, IInv, TypeOK
<1>1. UNCHANGED <<runs, draining, finishing, retired, closing, run>>
  BY DEF MaintainSnapshot, ShutdownFinish, book, flags, ending, locals
<1>2. \A t \in Threads : /\ pc'[t] \in LeasePCs <=> pc[t] \in LeasePCs
                         /\ pc'[t] = "finishing" <=> pc[t] = "finishing"
  BY DEF MaintainSnapshot, ShutdownFinish, locals, LeasePCs
<1>3. UNCHANGED leaseOf
  BY <1>1, <1>2, SameLeases
<1>4. UNCHANGED finishOf
  BY <1>1, <1>2, SameFinish DEF Finishes
<1>5. UNCHANGED startedRuns
  <2>1. \A r \in Runs : upstream'[r] # "unused" <=> upstream[r] # "unused"
    BY DEF MaintainSnapshot, ShutdownFinish, CloseStarted
  <2> QED
    BY <2>1, SameStarted
<1> QED
  BY <1>1, <1>3, <1>4, <1>5 DEF Same

-----------------------------------------------------------------------------

\* A new pool is a new pool to RunLife.
LEMMA InitSim == Init => RL!Init
<1> SUFFICES ASSUME Init PROVE RL!Init
  OBVIOUS
<1>1. \A t \in Threads : pc[t] \notin WithRunPCs
  BY DEF Init, WithRunPCs, LeasePCs
<1>2. leaseOf = [a \in Attempts |-> NoRun]
  BY <1>1 DEF leaseOf, WithRunPCs, Threads
<1>3. finishOf = [r \in Runs |-> "no"]
  BY <1>1 DEF Init, finishOf, Finishes, WithRunPCs
<1>4. startedRuns = {}
  BY DEF Init, startedRuns
<1> QED
  BY <1>2, <1>3, <1>4 DEF Init, RL!Init

LEMMA NextSim == ASSUME SimInv, [Next]_vars PROVE [RL!Next]_RL!vars
<1>1. Quiet \/ Loud
  BY QuietOrLoud DEF SimInv, IInv
<1>2. RL!Next \/ Same
  BY <1>1, QuietSim, StartSim, TakeSim, ReleaseSim, InvalidSim, BeginSim, FinishOkSim, FailedSim,
     RetireSim, ShutdownSim, SnapshotSim
  DEF Loud
<1> QED
  BY <1>2 DEF Same, RL!vars

\* Every behaviour of the pool, whoever moves when, is one RunLife allows.
THEOREM ImplementsRunLife == Spec => KeepsRunLife
<1>1. Init => SimInv /\ RL!Init
  BY InitSimInv, InitSim
<1>2. SimInv /\ [Next]_vars => SimInv' /\ [RL!Next]_RL!vars
  BY NextSimInv, NextSim
<1> QED
  BY <1>1, <1>2, PTL DEF Spec, KeepsRunLife, RL!Spec

=============================================================================
