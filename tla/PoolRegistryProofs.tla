-------------------------- MODULE PoolRegistryProofs --------------------------
(***************************************************************************)
(* Type correctness of PoolRegistry, that a pool is let go only with an    *)
(* empty book, that retired pools are not listed, that Close forgets no    *)
(* run, and that Acquire passes over no pool and favours none, for any     *)
(* numbers of accounts, pools, runs and requests.                          *)
(***************************************************************************)
EXTENDS PoolRegistry, PoolOrderProofs

\* A tick of the ticker has its lists, and they name registered pools; Close
\* has waited for it.
TickerInv ==
    /\ ~ticking => toRotate = {} /\ toEmpty = {}
    /\ phase = "closing" => ~ticking
    /\ \A p \in toRotate : Registered(p)

\* A request only uses a pool while it stands there, and has it from its list.
RequestInv ==
    \A q \in Requests :
        /\ pool[q] # NoPool => pool[q] \in list[q]
        /\ pc[q] \in {"idle", "walking", "released"} => pool[q] = NoPool
        /\ \A p \in list[q] : Made(p)

\* What the upstream runs is in some book, or is not for known reasons.
LiveInv ==
    \A r \in live : r \in stray \cup excused \/ \E p \in Pools : r \in Book(p)

\* What is in a book while Close is under way is still to be shut down.
ClosingInv ==
    phase = "closing" =>
        \A p \in Pools : \A r \in Book(p) : p \in toClose \/ r \in stray \cup excused

IInv ==
    /\ TypeOK
    /\ TickerInv
    /\ RequestInv
    /\ LetGoEmpty
    /\ RetiredNotListed
    /\ LiveInv
    /\ ClosingInv

USE DEF registry, books, requests, ticker, process, history

-----------------------------------------------------------------------------
(* Types.                                                                  *)

\* A FINISH takes the runs done out of one book.
LEMMA FinishBook ==
  ASSUME TypeOK, NEW p \in Pools, NEW done \in SUBSET Runs, Finish(p, done)
  PROVE  /\ live' = live \ done
         /\ draining' \in [Pools -> SUBSET Runs]
         /\ current' \in [Pools -> Runs \cup {NoRun}]
         /\ \A x \in Pools : Book(x)' = IF x = p THEN Book(x) \ done ELSE Book(x)
BY ConstantsAssumption DEF TypeOK, Finish, Book

\* A new run enters one book.
LEMMA InstallBook ==
  ASSUME TypeOK, NEW p \in Pools, NEW r \in Runs, Install(p, r)
  PROVE  /\ used' = used \cup {r}
         /\ live' = live \cup {r}
         /\ draining' \in [Pools -> SUBSET Runs]
         /\ current' \in [Pools -> Runs \cup {NoRun}]
         /\ \A x \in Pools : Book(x)' = IF x = p THEN Book(x) \cup {r} ELSE Book(x)
BY ConstantsAssumption DEF TypeOK, Install, Book

\* All books are in Runs.
LEMMA BookType == ASSUME TypeOK, NEW p \in Pools PROVE Book(p) \in SUBSET Runs
BY DEF TypeOK, Book

\* The active pools are pools, made for the account they serve.
LEMMA ActiveMade ==
  ASSUME TypeOK
  PROVE  activePools \subseteq Pools /\ \A p \in activePools : Made(p)
BY ConstantsAssumption DEF TypeOK, activePools, Made

\* The system is born with its types.
LEMMA InitTypeOK == Init => TypeOK
<1> SUFFICES ASSUME Init PROVE TypeOK
  OBVIOUS
<1>1. next \in Seeds
  BY ConstantsAssumption DEF Init, Seeds
<1>2. active \in [Accounts -> Pools \cup {NoPool}] /\ \A a \in Accounts : active[a] \notin Pools
  BY ConstantsAssumption DEF Init
<1> QED
  BY <1>1, <1>2 DEF Init, TypeOK

\* SyncAccounts keeps the types.
LEMMA SyncTypeOK == ASSUME TypeOK, Sync PROVE TypeOK'
<1>a. PICK on \in SUBSET Accounts :
        \E new \in SUBSET on : \E made \in [new -> {p \in Pools : ~Made(p)}] :
            SyncAccounts(on, new, made)
  BY DEF Sync
<1>b. PICK new \in SUBSET on : \E made \in [new -> {p \in Pools : ~Made(p)}] :
        SyncAccounts(on, new, made)
  BY <1>a
<1>1. PICK made \in [new -> {p \in Pools : ~Made(p)}] : SyncAccounts(on, new, made)
  BY <1>b
<1> DEFINE newActive == [a \in Accounts |-> IF a \in new THEN made[a]
                                           ELSE IF a \in on THEN active[a] ELSE NoPool]
<1>2. /\ active' = newActive
      /\ owner' = [p \in Pools |-> IF \E a \in new : made[a] = p
                                   THEN CHOOSE a \in new : made[a] = p ELSE owner[p]]
      /\ \A a, b \in new : made[a] = made[b] => a = b
      /\ RetireOthers(newActive)
      /\ prewarm' = IF phase = "boot" THEN prewarm ELSE prewarm \cup {made[a] : a \in new}
      /\ UNCHANGED <<next, books, requests, ticker, process, stray, excused>>
  BY <1>1 DEF SyncAccounts
<1>3. owner' \in [Pools -> Accounts \cup {NoAccount}]
  BY <1>2 DEF TypeOK
<1>4. active' \in [Accounts -> Pools \cup {NoPool}]
  BY <1>2 DEF TypeOK
<1>5. ASSUME NEW a \in Accounts, active'[a] \in Pools PROVE owner'[active'[a]] = a
  <2>1. CASE a \in new
    BY <1>2, <1>5, <2>1
  <2>2. CASE a \notin new
    <3>1. active'[a] = active[a]
      BY <1>2, <1>5, <2>2, ConstantsAssumption
    <3>2. owner[active[a]] = a
      BY <1>5, <3>1 DEF TypeOK
    <3>3. \A b \in new : made[b] # active[a]
      BY <1>5, <3>1, <3>2, ConstantsAssumption DEF Made
    <3> QED
      BY <1>2, <1>5, <3>1, <3>2, <3>3
  <2> QED
    BY <2>1, <2>2
<1>6. departing' \in SUBSET Pools /\ witness' \in [Pools -> SUBSET Requests]
  BY <1>2, ActiveMade DEF RetireOthers, TypeOK
<1>7. prewarm' \in SUBSET Pools
  BY <1>2 DEF TypeOK
<1> QED
  BY <1>2, <1>3, <1>4, <1>5, <1>6, <1>7 DEF TypeOK

\* A step of a request keeps the types.
LEMMA RequestTypeOK == ASSUME TypeOK, NEW q \in Requests, Request(q) PROVE TypeOK'
<1>1. CASE Acquire(q)
  <2>1. (next + 1) % SeedCount \in Seeds
    BY ConstantsAssumption DEF TypeOK, Seeds
  <2> QED
    BY <1>1, <2>1, ActiveMade DEF Acquire, Candidates, TypeOK
<1>2. ASSUME NEW p \in Pools, Try(q, p) PROVE TypeOK'
  BY <1>2 DEF Try, TypeOK
<1>3. CASE RunFound(q)
  BY <1>3 DEF RunFound, TypeOK
<1>4. ASSUME NEW r \in Runs, Rotates(q, r) PROVE TypeOK'
  <2>1. pool[q] \in Pools /\ Install(pool[q], r)
    BY <1>4 DEF Rotates, TypeOK
  <2> QED
    BY <1>4, <2>1, InstallBook DEF Rotates, Strays, TypeOK
<1>5. CASE AcquireFails(q)
  BY <1>5 DEF AcquireFails, TypeOK
<1>6. CASE Leases(q)
  BY <1>6 DEF Leases, RunIsThere, TypeOK
<1>7. CASE RunInvalid(q)
  <2>1. pool[q] \in Pools /\ {run[q]} \in SUBSET Runs /\ Finish(pool[q], {run[q]})
    BY <1>7 DEF RunInvalid, TypeOK
  <2> QED
    BY <1>7, <2>1, FinishBook DEF RunInvalid, TypeOK
<1>8. ASSUME NEW done \in SUBSET Runs, Release(q, done) PROVE TypeOK'
  <2>1. pool[q] \in Pools /\ Finish(pool[q], done)
    BY <1>8 DEF Release, TypeOK
  <2> QED
    BY <1>8, <2>1, FinishBook DEF Release, TypeOK
<1>9. CASE Answer(q)
  BY <1>9 DEF Answer, TypeOK
<1> QED
  BY <1>1, <1>2, <1>3, <1>4, <1>5, <1>6, <1>7, <1>8, <1>9 DEF Request

\* Every step keeps the types.
LEMMA NextTypeOK == ASSUME TypeOK, [Next]_vars PROVE TypeOK'
<1>1. CASE Start
  BY <1>1, ActiveMade DEF Start, TypeOK
<1>2. ASSUME NEW p \in Pools, PrewarmFails(p) PROVE TypeOK'
  BY <1>2 DEF PrewarmFails, TypeOK
<1>3. ASSUME NEW p \in Pools, NEW r \in Runs, PrewarmRotates(p, r) PROVE TypeOK'
  BY <1>3, InstallBook DEF PrewarmRotates, Strays, TypeOK
<1>4. ASSUME NEW p \in Pools, NEW r \in Runs, FinishDrained(p, r) PROVE TypeOK'
  <2>1. {r} \in SUBSET Runs /\ Finish(p, {r})
    BY <1>4 DEF FinishDrained
  <2> QED
    BY <1>4, <2>1, FinishBook DEF FinishDrained, TypeOK
<1>5. CASE MaintainList
  BY <1>5, ActiveMade DEF MaintainList, TypeOK
<1>6. ASSUME NEW p \in Pools, MaintainActive(p) PROVE TypeOK'
  BY <1>6 DEF MaintainActive, TypeOK
<1>7. ASSUME NEW p \in Pools, NEW r \in Runs, MaintainRotates(p, r) PROVE TypeOK'
  BY <1>7, InstallBook DEF MaintainRotates, TypeOK
<1>8. ASSUME NEW p \in Pools, NEW done \in SUBSET Runs, MaintainRetired(p, done) PROVE TypeOK'
  BY <1>8, FinishBook DEF MaintainRetired, TypeOK
<1>9. CASE MaintainEnd
  BY <1>9 DEF MaintainEnd, TypeOK
<1>10. CASE Signal
  BY <1>10 DEF Signal, TypeOK
<1>11. CASE CancelRun
  BY <1>11 DEF CancelRun, TypeOK
<1>12. CASE Close
  BY <1>12, ActiveMade DEF Close, ToClose, TypeOK
<1>13. ASSUME NEW p \in Pools, NEW done \in SUBSET Runs, Shutdown(p, done) PROVE TypeOK'
  BY <1>13, BookType DEF Shutdown, TypeOK
<1>14. CASE UNCHANGED vars
  BY <1>14 DEF vars, TypeOK
<1> QED
  BY <1>1, <1>2, <1>3, <1>4, <1>5, <1>6, <1>7, <1>8, <1>9, <1>10, <1>11, <1>12, <1>13, <1>14,
     SyncTypeOK, RequestTypeOK
  DEF Next, Prewarm, Maintain, Ending

\* PoolRegistry keeps its types, whatever the accounts, pools, runs and requests.
THEOREM TypeCorrect == Spec => []TypeOK
<1>1. Init => TypeOK
  BY InitTypeOK
<1>2. TypeOK /\ [Next]_vars => TypeOK'
  BY NextTypeOK
<1> QED
  BY <1>1, <1>2, PTL DEF Spec

-----------------------------------------------------------------------------
(* What is registered and what runs.                                       *)

\* What SyncAccounts does to the pools: those that stop being active are
\* retired, and pools made for it are active.
LEMMA SyncEffect ==
  ASSUME TypeOK, Sync
  PROVE  /\ departing' = departing \cup (activePools \ activePools')
         /\ witness' = [p \in Pools |-> IF p \in activePools \ activePools'
                                        THEN {q \in Requests : p \in list[q]} ELSE witness[p]]
         /\ \A p \in Pools : Made(p) => Made(p)'
         /\ \A p \in Pools : Made(p)' /\ ~Made(p) => p \in activePools'
         /\ UNCHANGED <<next, books, requests, ticker, process, stray, excused>>
<1>a. PICK on \in SUBSET Accounts :
        \E new \in SUBSET on : \E made \in [new -> {p \in Pools : ~Made(p)}] :
            SyncAccounts(on, new, made)
  BY DEF Sync
<1>b. PICK new \in SUBSET on : \E made \in [new -> {p \in Pools : ~Made(p)}] :
        SyncAccounts(on, new, made)
  BY <1>a
<1>1. PICK made \in [new -> {p \in Pools : ~Made(p)}] : SyncAccounts(on, new, made)
  BY <1>b
<1> DEFINE newActive == [a \in Accounts |-> IF a \in new THEN made[a]
                                           ELSE IF a \in on THEN active[a] ELSE NoPool]
           gone == activePools \ {newActive[a] : a \in Accounts}
<1>2. /\ active' = newActive
      /\ owner' = [p \in Pools |-> IF \E a \in new : made[a] = p
                                   THEN CHOOSE a \in new : made[a] = p ELSE owner[p]]
      /\ departing' = departing \cup gone
      /\ witness' = [p \in Pools |-> IF p \in gone THEN {q \in Requests : p \in list[q]}
                                     ELSE witness[p]]
      /\ UNCHANGED <<next, books, requests, ticker, process, stray, excused>>
  BY <1>1 DEF SyncAccounts, RetireOthers
<1>3. gone = activePools \ activePools'
  <2>1. activePools' = {newActive[a] : a \in Accounts} \ {NoPool}
    BY <1>2 DEF activePools
  <2>2. NoPool \notin activePools
    BY DEF activePools
  <2> QED
    BY <2>1, <2>2
<1>4. ASSUME NEW p \in Pools, Made(p) PROVE Made(p)'
  <2>1. \A a \in new : made[a] # p
    BY <1>4
  <2> QED
    BY <1>2, <1>4, <2>1 DEF Made
<1>5. ASSUME NEW p \in Pools, Made(p)', ~Made(p) PROVE p \in activePools'
  <2>1. PICK a \in new : made[a] = p
    BY <1>2, <1>5 DEF Made
  <2>2. active'[a] = p
    BY <1>2, <2>1
  <2> QED
    BY <2>2, ConstantsAssumption DEF activePools
<1> QED
  BY <1>2, <1>3, <1>4, <1>5

\* A pool stays registered, but for the end of a tick, when it may go with an
\* empty book.
LEMMA StaysRegistered ==
  ASSUME TypeOK, [Next]_vars, NEW p \in Pools, Registered(p)
  PROVE  Registered(p)' \/ (MaintainEnd /\ Book(p) = {})
<1>1. CASE Sync
  BY <1>1, SyncEffect DEF Registered
<1>2. CASE MaintainEnd
  BY <1>2 DEF MaintainEnd, Stays, isIdle, Registered, activePools
<1>3. CASE ~Sync /\ ~MaintainEnd
  <2>1. UNCHANGED <<active, departing>>
    BY <1>3 DEF Next, Start, Prewarm, PrewarmFails, PrewarmRotates, Request, Acquire, Try, RunFound,
       Rotates, AcquireFails, Leases, RunInvalid, Release, Answer, FinishDrained, Maintain,
       MaintainList, MaintainActive, MaintainRotates, MaintainRetired, Ending, Signal, CancelRun,
       Close, Shutdown, vars
  <2> QED
    BY <2>1 DEF Registered, activePools
<1> QED
  BY <1>1, <1>2, <1>3

\* TickerInv is inductive.
LEMMA NextTickerInv == ASSUME TypeOK, TickerInv, [Next]_vars PROVE TickerInv'
<1>1. ASSUME NEW p \in toRotate, p \in toRotate' PROVE Registered(p)'
  <2>1. p \in Pools /\ Registered(p) /\ toRotate # {}
    BY DEF TypeOK, TickerInv
  <2>2. ~MaintainEnd
    BY <2>1 DEF MaintainEnd
  <2> QED
    BY <2>1, <2>2, StaysRegistered
<1>2. CASE MaintainList
  <2>1. toRotate' = activePools /\ activePools' = activePools
    BY <1>2 DEF MaintainList, activePools
  <2> QED
    BY <1>2, <2>1 DEF MaintainList, TickerInv, Registered
<1>3. CASE ~MaintainList
  <2>1. toRotate' \subseteq toRotate
    BY <1>3, SyncEffect DEF Next, Start, Prewarm, PrewarmFails, PrewarmRotates, Request, Acquire, Try,
       RunFound, Rotates, AcquireFails, Leases, RunInvalid, Release, Answer, FinishDrained, Maintain,
       MaintainActive, MaintainRotates, MaintainRetired, MaintainEnd, Ending, Signal, CancelRun,
       Close, Shutdown, vars
  <2>2. (~ticking => toRotate = {} /\ toEmpty = {})'
    <3>1. CASE UNCHANGED ticker
      BY <3>1 DEF TickerInv
    <3>2. CASE ticking'
      BY <3>2
    <3>3. CASE MaintainEnd
      BY <3>3 DEF MaintainEnd
    <3> QED
      BY <1>3, <3>1, <3>2, <3>3, SyncEffect DEF TickerInv, Next, Start, Prewarm, PrewarmFails,
         PrewarmRotates, Request, Acquire, Try, RunFound, Rotates, AcquireFails, Leases, RunInvalid,
         Release, Answer, FinishDrained, Maintain, MaintainActive, MaintainRotates,
         MaintainRetired, Ending, Signal, CancelRun, Close, Shutdown, vars
  <2>3. (phase = "closing" => ~ticking)'
    <3>1. CASE Close
      BY <3>1 DEF Close
    <3>2. CASE phase' = phase /\ (ticking' => ticking)
      BY <3>2 DEF TickerInv
    <3>3. CASE phase' # "closing"
      BY <3>3
    <3> QED
      BY <1>3, <3>1, <3>2, <3>3, SyncEffect DEF TickerInv, Next, Start, Prewarm, PrewarmFails,
         PrewarmRotates, Request, Acquire, Try, RunFound, Rotates, AcquireFails, Leases, RunInvalid,
         Release, Answer, FinishDrained, Maintain, MaintainActive, MaintainRotates, MaintainEnd,
         MaintainRetired, Ending, Signal, CancelRun, Shutdown, vars
  <2> QED
    BY <1>1, <2>1, <2>2, <2>3 DEF TickerInv
<1> QED
  BY <1>2, <1>3

-----------------------------------------------------------------------------
(* What steps do to the books, in four kinds.                              *)

\* Nothing starts or ends.
Same ==
    /\ \A x \in Pools : Book(x)' = Book(x)
    /\ live' = live /\ stray' = stray /\ excused' = excused
    /\ phase = "closing" => phase' = "closing"
    /\ Close \/ (phase' = "closing" => phase = "closing" /\ toClose' = toClose)

\* Runs of one pool are finished.
Finishes(p, done) ==
    /\ \A x \in Pools : Book(x)' = IF x = p THEN Book(x) \ done ELSE Book(x)
    /\ live' = live \ done /\ stray' = stray /\ excused' = excused
    /\ phase' = phase /\ toClose' = toClose

\* A run is started, at a pool that is registered unless the run is known to
\* stray, and not while Close is under way unless that is known as well.
Installs(p, r) ==
    /\ \A x \in Pools : Book(x)' = IF x = p THEN Book(x) \cup {r} ELSE Book(x)
    /\ live' = live \cup {r}
    /\ stray \subseteq stray' /\ excused \subseteq excused'
    /\ Registered(p) \/ r \in stray'
    /\ phase = "closing" => r \in excused'
    /\ phase' = phase /\ toClose' = toClose

\* There is no other kind of step.
LEMMA FourKinds ==
  ASSUME TypeOK, TickerInv, [Next]_vars
  PROVE  \/ Same
         \/ \E p \in Pools, done \in SUBSET Runs : Finishes(p, done) \/ Shutdown(p, done)
         \/ \E p \in Pools, r \in Runs : Installs(p, r)
<1>1. ASSUME NEW p \in Pools, NEW r \in Runs, PrewarmRotates(p, r) PROVE Installs(p, r)
  BY <1>1, InstallBook DEF PrewarmRotates, Strays, Installs
<1>2. ASSUME NEW q \in Requests, NEW r \in Runs, Rotates(q, r)
      PROVE  pool[q] \in Pools /\ Installs(pool[q], r)
  <2>1. pool[q] \in Pools /\ Install(pool[q], r)
    BY <1>2 DEF Rotates, TypeOK
  <2> QED
    BY <1>2, <2>1, InstallBook DEF Rotates, Strays, Installs
<1>3. ASSUME NEW p \in Pools, NEW r \in Runs, MaintainRotates(p, r) PROVE Installs(p, r)
  BY <1>3, InstallBook DEF MaintainRotates, Installs, TickerInv
<1>4. ASSUME NEW q \in Requests, RunInvalid(q)
      PROVE  pool[q] \in Pools /\ {run[q]} \in SUBSET Runs /\ Finishes(pool[q], {run[q]})
  <2>1. pool[q] \in Pools /\ {run[q]} \in SUBSET Runs /\ Finish(pool[q], {run[q]})
    BY <1>4 DEF RunInvalid, TypeOK
  <2> QED
    BY <1>4, <2>1, FinishBook DEF RunInvalid, Finishes
<1>5. ASSUME NEW q \in Requests, NEW done \in SUBSET Runs, Release(q, done)
      PROVE  pool[q] \in Pools /\ Finishes(pool[q], done)
  <2>1. pool[q] \in Pools /\ Finish(pool[q], done)
    BY <1>5 DEF Release, TypeOK
  <2> QED
    BY <1>5, <2>1, FinishBook DEF Release, Finishes
<1>6. ASSUME NEW p \in Pools, NEW r \in Runs, FinishDrained(p, r)
      PROVE  {r} \in SUBSET Runs /\ Finishes(p, {r})
  <2>1. {r} \in SUBSET Runs /\ Finish(p, {r})
    BY <1>6 DEF FinishDrained
  <2> QED
    BY <1>6, <2>1, FinishBook DEF FinishDrained, Finishes
<1>7. ASSUME NEW p \in Pools, NEW done \in SUBSET Runs, MaintainRetired(p, done)
      PROVE  Finishes(p, done)
  BY <1>7, FinishBook DEF MaintainRetired, Finishes
<1>8. ASSUME UNCHANGED <<current, draining>>, UNCHANGED <<live, stray, excused>>,
             phase = "closing" => phase' = "closing",
             Close \/ (phase' = "closing" => phase = "closing" /\ toClose' = toClose)
      PROVE  Same
  BY <1>8 DEF Same, Book
<1>9. CASE Sync
  BY <1>8, <1>9, SyncEffect
<1>10. CASE \/ Start \/ (\E p \in Pools : PrewarmFails(p) \/ MaintainActive(p))
            \/ MaintainList \/ MaintainEnd \/ Signal \/ CancelRun \/ Close \/ UNCHANGED vars
  BY <1>8, <1>10 DEF Start, PrewarmFails, MaintainActive, MaintainList, MaintainEnd, Signal,
     CancelRun, Close, vars
<1>11. CASE \E q \in Requests : \/ Acquire(q) \/ (\E p \in Pools : Try(q, p)) \/ RunFound(q)
                               \/ AcquireFails(q) \/ Leases(q) \/ Answer(q)
  BY <1>8, <1>11 DEF Acquire, Try, RunFound, AcquireFails, Leases, Answer
<1> QED
  BY <1>1, <1>2, <1>3, <1>4, <1>5, <1>6, <1>7, <1>9, <1>10, <1>11
  DEF Next, Prewarm, Request, Maintain, Ending

\* LetGoEmpty is inductive.
LEMMA NextLetGoEmpty == ASSUME TypeOK, TickerInv, LetGoEmpty, [Next]_vars PROVE LetGoEmpty'
<1> SUFFICES ASSUME NEW p \in Pools, NEW r \in Book(p)', ~Registered(p)', (phase # "closing")'
             PROVE  r \in stray'
  BY DEF LetGoEmpty
<1>1. CASE MaintainEnd
  <2>1. Book(p)' = Book(p) /\ stray' = stray /\ phase' = phase
    BY <1>1 DEF MaintainEnd, Book
  <2> QED
    BY <1>1, <2>1, StaysRegistered DEF LetGoEmpty
<1>2. CASE ~MaintainEnd
  <2>1. ~Registered(p)
    BY <1>2, StaysRegistered
  <2>2. CASE Same
    BY <2>1, <2>2 DEF Same, LetGoEmpty
  <2>3. ASSUME NEW o \in Pools, NEW done \in SUBSET Runs, Finishes(o, done) PROVE r \in stray'
    BY <2>1, <2>3 DEF Finishes, LetGoEmpty
  <2>4. ASSUME NEW o \in Pools, NEW done \in SUBSET Runs, Shutdown(o, done) PROVE r \in stray'
    <3>1. r \in Book(p) /\ phase' = phase /\ stray' = stray
      BY <2>4 DEF Shutdown, TypeOK, Book
    <3> QED
      BY <2>1, <3>1 DEF LetGoEmpty
  <2>5. ASSUME NEW o \in Pools, NEW s \in Runs, Installs(o, s) PROVE r \in stray'
    BY <2>1, <2>5 DEF Installs, LetGoEmpty
  <2> QED
    BY <2>2, <2>3, <2>4, <2>5, FourKinds
<1> QED
  BY <1>1, <1>2

\* LiveInv is inductive.
LEMMA NextLiveInv == ASSUME TypeOK, TickerInv, LiveInv, [Next]_vars PROVE LiveInv'
<1> SUFFICES ASSUME NEW r \in live', r \notin (stray \cup excused)'
             PROVE  \E p \in Pools : r \in Book(p)'
  BY DEF LiveInv
<1>1. CASE Same
  BY <1>1 DEF Same, LiveInv
<1>2. ASSUME NEW o \in Pools, NEW done \in SUBSET Runs, Finishes(o, done)
      PROVE  \E p \in Pools : r \in Book(p)'
  <2>1. r \in live /\ r \notin done /\ r \notin stray \cup excused
    BY <1>2 DEF Finishes
  <2>2. PICK p \in Pools : r \in Book(p)
    BY <2>1 DEF LiveInv
  <2> QED
    BY <1>2, <2>1, <2>2 DEF Finishes
<1>3. ASSUME NEW o \in Pools, NEW done \in SUBSET Runs, Shutdown(o, done)
      PROVE  \E p \in Pools : r \in Book(p)'
  <2>1. r \in live /\ r \notin done /\ r \notin stray \cup excused
    BY <1>3 DEF Shutdown
  <2>2. PICK p \in Pools : r \in Book(p)
    BY <2>1 DEF LiveInv
  <2>3. p # o
    BY <1>3, <2>1, <2>2 DEF Shutdown
  <2>4. Book(p)' = Book(p)
    BY <1>3, <2>3 DEF Shutdown, Book, TypeOK
  <2> QED
    BY <2>2, <2>4
<1>4. ASSUME NEW o \in Pools, NEW s \in Runs, Installs(o, s)
      PROVE  \E p \in Pools : r \in Book(p)'
  <2>1. CASE r = s
    BY <1>4, <2>1 DEF Installs
  <2>2. CASE r # s
    <3>1. r \in live /\ r \notin stray \cup excused
      BY <1>4, <2>2 DEF Installs
    <3>2. PICK p \in Pools : r \in Book(p)
      BY <3>1 DEF LiveInv
    <3> QED
      BY <1>4, <3>2 DEF Installs
  <2> QED
    BY <2>1, <2>2
<1> QED
  BY <1>1, <1>2, <1>3, <1>4, FourKinds

\* ClosingInv is inductive.
LEMMA NextClosingInv ==
  ASSUME TypeOK, TickerInv, LetGoEmpty, ClosingInv, [Next]_vars PROVE ClosingInv'
<1> SUFFICES ASSUME phase' = "closing", NEW p \in Pools, NEW r \in Book(p)'
             PROVE  p \in toClose' \/ r \in (stray \cup excused)'
  BY DEF ClosingInv
<1>1. CASE Close
  <2>1. toClose' = activePools \cup departing /\ phase # "closing"
    BY <1>1 DEF Close, ToClose
  <2>2. r \in Book(p) /\ stray' = stray
    BY <1>1 DEF Close, Book
  <2> QED
    BY <2>1, <2>2 DEF LetGoEmpty, Registered
<1>2. CASE Same /\ ~Close
  BY <1>2 DEF Same, ClosingInv
<1>3. ASSUME NEW o \in Pools, NEW done \in SUBSET Runs, Finishes(o, done)
      PROVE  p \in toClose' \/ r \in (stray \cup excused)'
  BY <1>3 DEF Finishes, ClosingInv
<1>4. ASSUME NEW o \in Pools, NEW done \in SUBSET Runs, Shutdown(o, done)
      PROVE  p \in toClose' \/ r \in (stray \cup excused)'
  <2>1. p # o /\ r \in Book(p) /\ phase = "closing"
    BY <1>4 DEF Shutdown, TypeOK, Book
  <2> QED
    BY <1>4, <2>1 DEF Shutdown, ClosingInv
<1>5. ASSUME NEW o \in Pools, NEW s \in Runs, Installs(o, s)
      PROVE  p \in toClose' \/ r \in (stray \cup excused)'
  BY <1>5 DEF Installs, ClosingInv
<1> QED
  BY <1>1, <1>2, <1>3, <1>4, <1>5, FourKinds

-----------------------------------------------------------------------------
(* Requests and what they have listed.                                     *)

\* A request lists pools that are made, and uses none but these.
LEMMA NextRequestInv == ASSUME TypeOK, RequestInv, [Next]_vars PROVE RequestInv'
<1>1. \A p \in Pools : Made(p) => Made(p)'
  <2>1. CASE Sync
    BY <2>1, SyncEffect
  <2>2. CASE ~Sync
    <3>1. owner' = owner
      BY <2>2 DEF Next, Start, Prewarm, PrewarmFails, PrewarmRotates, Request, Acquire, Try, RunFound,
         Rotates, AcquireFails, Leases, RunInvalid, Release, Answer, FinishDrained, Maintain,
         MaintainList, MaintainActive, MaintainRotates, MaintainRetired, MaintainEnd, Ending,
         Signal, CancelRun, Close, Shutdown, vars
    <3> QED
      BY <3>1 DEF Made
  <2> QED
    BY <2>1, <2>2
<1>2. CASE UNCHANGED <<pc, list, pool>>
  BY <1>1, <1>2 DEF RequestInv, TypeOK
<1>3. ASSUME NEW q \in Requests, Request(q) PROVE RequestInv'
  <2> SUFFICES ASSUME NEW s \in Requests
               PROVE  /\ pool'[s] # NoPool => pool'[s] \in list'[s]
                      /\ pc'[s] \in {"idle", "walking", "released"} => pool'[s] = NoPool
                      /\ \A p \in list'[s] : Made(p)'
    BY DEF RequestInv
  <2>1. s # q => pool'[s] = pool[s] /\ pc'[s] = pc[s] /\ list'[s] = list[s]
    BY <1>3 DEF Request, Acquire, Try, RunFound, Rotates, AcquireFails, Leases, RunInvalid, Release,
       Answer, TypeOK
  <2>2. \A p \in list[s] : Made(p)'
    BY <1>1 DEF RequestInv, TypeOK
  <2>3. CASE s # q
    BY <2>1, <2>2, <2>3 DEF RequestInv
  <2>4. CASE s = q /\ Acquire(q)
    <3>1. list'[q] = activePools /\ pool'[q] = pool[q] /\ pool[q] = NoPool
      BY <2>4, ConstantsAssumption DEF Acquire, Candidates, RequestInv, TypeOK
    <3> QED
      BY <1>1, <2>4, <3>1, ActiveMade
  <2>5. CASE s = q /\ ~Acquire(q)
    BY <1>3, <2>2, <2>5 DEF RequestInv, Request, Try, RunFound, Rotates, AcquireFails, Leases,
       RunInvalid, Release, Answer, TypeOK
  <2> QED
    BY <2>3, <2>4, <2>5
<1> QED
  BY <1>2, <1>3, SyncEffect
  DEF Next, Start, Prewarm, PrewarmFails, PrewarmRotates, FinishDrained, Maintain, MaintainList,
      MaintainActive, MaintainRotates, MaintainRetired, MaintainEnd, Ending, Signal, CancelRun,
      Close, Shutdown, vars

\* RetiredNotListed is inductive.
LEMMA NextRetiredNotListed ==
  ASSUME TypeOK, RequestInv, RetiredNotListed, [Next]_vars PROVE RetiredNotListed'
<1> SUFFICES ASSUME NEW p \in Pools, NEW q \in Requests, Retired(p)', p \in list'[q] \/ pool'[q] = p
             PROVE  q \in witness'[p]
  BY DEF RetiredNotListed
<1>1. CASE Sync
  <2>1. UNCHANGED <<list, pool>>
    BY <1>1, SyncEffect
  <2>2. p \in list[q]
    BY <2>1, ConstantsAssumption DEF RequestInv, TypeOK
  <2>3. Made(p) /\ p \notin activePools'
    BY <2>2 DEF RequestInv, Retired
  <2>4. CASE p \in activePools
    BY <1>1, <2>2, <2>3, <2>4, SyncEffect
  <2>5. CASE p \notin activePools
    BY <1>1, <2>2, <2>3, <2>5, SyncEffect DEF RetiredNotListed, Retired
  <2> QED
    BY <2>4, <2>5
<1>2. CASE ~Sync
  <2>1. UNCHANGED <<owner, active>>
    BY <1>2 DEF Next, Start, Prewarm, PrewarmFails, PrewarmRotates, Request, Acquire, Try, RunFound,
       Rotates, AcquireFails, Leases, RunInvalid, Release, Answer, FinishDrained, Maintain,
       MaintainList, MaintainActive, MaintainRotates, MaintainRetired, MaintainEnd, Ending,
       Signal, CancelRun, Close, Shutdown, vars
  <2>2. Retired(p) /\ p \notin activePools
    BY <2>1 DEF Retired, Made, activePools
  <2>3. ASSUME NEW s \in Requests, Acquire(s) PROVE q \in witness'[p]
    <3>1. s # q
      <4>1. s = q => list'[q] = activePools /\ pool'[q] = NoPool
        BY <2>3 DEF Acquire, Candidates, RequestInv, TypeOK
      <4> QED
        BY <2>2, <4>1, ConstantsAssumption
    <3>2. list'[q] = list[q] /\ pool'[q] = pool[q]
      BY <2>3, <3>1 DEF Acquire, TypeOK
    <3>3. q \in witness[p]
      BY <2>2, <3>2 DEF RetiredNotListed
    <3> QED
      BY <2>3, <3>1, <3>3 DEF Acquire
  <2>4. CASE \A s \in Requests : ~Acquire(s)
    <3>1. witness' = witness
      BY <1>2, <2>4 DEF Next, Start, Prewarm, PrewarmFails, PrewarmRotates, Request, Try, RunFound,
         Rotates, AcquireFails, Leases, RunInvalid, Release, Answer, FinishDrained, Maintain,
         MaintainList, MaintainActive, MaintainRotates, MaintainRetired, MaintainEnd, Ending,
         Signal, CancelRun, Close, Shutdown, vars
    <3>2. p \in list[q] \/ pool[q] = p
      <4>1. CASE UNCHANGED <<list, pool>>
        BY <4>1
      <4>2. ASSUME NEW s \in Requests, NEW o \in Pools, Try(s, o) PROVE p \in list[q] \/ pool[q] = p
        BY <4>2 DEF Try, TypeOK
      <4>3. ASSUME NEW s \in Requests, list' = list \/ list' = [list EXCEPT ![s] = {}],
                   pool' = pool \/ pool' = [pool EXCEPT ![s] = NoPool]
            PROVE  p \in list[q] \/ pool[q] = p
        BY <4>3, ConstantsAssumption DEF TypeOK
      <4> QED
        BY <1>2, <2>4, <4>1, <4>2, <4>3 DEF Next, Start, Prewarm, PrewarmFails, PrewarmRotates, Request,
           RunFound, Rotates, AcquireFails, Leases, RunInvalid, Release, Answer, FinishDrained,
           Maintain, MaintainList, MaintainActive, MaintainRotates, MaintainRetired, MaintainEnd,
           Ending, Signal, CancelRun, Close, Shutdown, vars
    <3> QED
      BY <2>2, <3>1, <3>2 DEF RetiredNotListed
  <2> QED
    BY <2>3, <2>4
<1> QED
  BY <1>1, <1>2

-----------------------------------------------------------------------------

\* The system is born with its invariant.
LEMMA InitIInv == Init => IInv
<1> SUFFICES ASSUME Init PROVE IInv
  OBVIOUS
<1>1. TypeOK
  BY InitTypeOK
<1>2. \A p \in Pools : Book(p) = {} /\ ~Made(p)
  BY DEF Init, Book, Made
<1> QED
  BY <1>1, <1>2 DEF Init, IInv, TickerInv, RequestInv, LetGoEmpty, RetiredNotListed, Retired, LiveInv,
     ClosingInv

\* Every step keeps it.
LEMMA NextIInv == ASSUME IInv, [Next]_vars PROVE IInv'
BY NextTypeOK, NextTickerInv, NextRequestInv, NextLetGoEmpty, NextRetiredNotListed, NextLiveInv,
   NextClosingInv
DEF IInv

\* The invariant of the registry.
THEOREM Invariance == Spec => []IInv
<1>1. IInv /\ [Next]_vars => IInv'
  BY NextIInv
<1> QED
  BY <1>1, InitIInv, PTL DEF Spec

\* maintainAll lets a pool go only with an empty book.
THEOREM LetGoIsEmpty == Spec => []LetGoEmpty
<1>1. IInv => LetGoEmpty
  BY DEF IInv
<1> QED
  BY <1>1, Invariance, PTL

\* Who uses a retired pool had listed it before it retired.
THEOREM RetiredIsLeftAlone == Spec => []RetiredNotListed
<1>1. IInv => RetiredNotListed
  BY DEF IInv
<1> QED
  BY <1>1, Invariance, PTL

\* Close leaves no run at the upstream but the known exceptions.
THEOREM CloseForgetsNothing == Spec => []NothingForgotten
<1>1. IInv => NothingForgotten
  BY DEF IInv, LiveInv, ClosingInv, NothingForgotten
<1> QED
  BY <1>1, Invariance, PTL

-----------------------------------------------------------------------------
(* The order of the candidates.                                            *)

\* There are finitely many active pools, each with its account's numbers.
LEMMA ActivePools ==
  ASSUME TypeOK
  PROVE  /\ IsFiniteSet(activePools)
         /\ prioOf \in [activePools -> Int]
         /\ weightOf \in [activePools -> Int]
         /\ labelOf \in [activePools -> Int]
         /\ next \in Nat
<1> DEFINE served == {active[a] : a \in Accounts}
           f == [a \in Accounts |-> active[a]]
<1>1. f \in Surjection(Accounts, served)
  BY DEF Surjection
<1>2. IsFiniteSet(served)
  BY <1>1, FS_Surjection, ConstantsAssumption
<1>3. IsFiniteSet(activePools)
  <2>1. activePools \subseteq served
    BY DEF activePools
  <2> HIDE DEF served
  <2> QED
    BY <1>2, <2>1, FS_Subset
<1>4. \A p \in activePools : owner[p] \in Accounts
  BY ActiveMade DEF TypeOK, Made
<1>5. /\ prioOf \in [activePools -> Int]
      /\ weightOf \in [activePools -> Int]
      /\ labelOf \in [activePools -> Int]
  BY <1>4, ConstantsAssumption DEF prioOf, weightOf, labelOf
<1>6. next \in Nat
  BY ConstantsAssumption DEF TypeOK, Seeds
<1> QED
  BY <1>3, <1>5, <1>6

\* Acquire comes to every active pool, to each once, and to those of higher
\* priority first, in every state and whatever way ties are sorted.
THEOREM AcquireCoversAll == Spec => []OrderCoversAll
<1>1. ASSUME TypeOK PROVE OrderCoversAll
  <2>1. SUFFICES ASSUME NEW pos \in Sortings
                 PROVE  LET place == OrderNow(pos, next)
                        IN  /\ place \in Bijection(activePools, 1..Cardinality(activePools))
                            /\ \A p, q \in activePools :
                                 prioOf[p] > prioOf[q] => place[p] < place[q]
    BY DEF OrderCoversAll
  <2> QED
    BY <1>1, ActivePools, OrderIsComplete DEF OrderNow, Sortings
<1> QED
  BY <1>1, TypeCorrect, PTL

\* Over a round of requests every pool of the best group comes first as often
\* as its weight says.
THEOREM WeightsAreKept == Spec => []RoundIsFair
<1>1. ASSUME TypeOK PROVE RoundIsFair
  <2> DEFINE best  == {p \in activePools : \A o \in activePools : prioOf[o] <= prioOf[p]}
             round == Cardinality(Entries(best, weightOf))
  <2>1. SUFFICES ASSUME \A p, q \in best :
                          weightOf[p] = weightOf[q] /\ labelOf[p] = labelOf[q] => p = q,
                        NEW pos \in [0..round - 1 -> Sortings], NEW p \in best
                 PROVE  Cardinality({i \in 0..round - 1 : OrderNow(pos[i], next + i)[p] = 1})
                          = Repeat(weightOf[p])
    BY DEF RoundIsFair
  <2>2. ArePools(activePools, prioOf, weightOf, labelOf) /\ next \in Nat
    BY <1>1, ActivePools DEF ArePools
  <2>3. AreSorted(pos, round, activePools, prioOf, weightOf, labelOf)
    BY DEF AreSorted, Sortings
  <2>4. IsBest(best, activePools, prioOf) /\ NoTies(best, weightOf, labelOf)
    BY <2>1, <2>2 DEF IsBest, OnePriority, NoTies, ArePools
  <2>5. round = Total(best, weightOf)
    BY DEF Total
  <2> HIDE DEF best, round
  <2>6. Cardinality(Firsts(p, activePools, pos, prioOf, weightOf, next, round))
          = Repeat(weightOf[p])
    BY <2>2, <2>3, <2>4, <2>5, RoundOfGroup
  <2> QED
    BY <2>6 DEF Firsts, OrderNow
<1> QED
  BY <1>1, TypeCorrect, PTL

=============================================================================
