------------------------------- MODULE RunLife -------------------------------
(***************************************************************************)
(* What a tokenPool promises about its runs, without threads, locks, marks *)
(* or counts: which run serves an agent, which ones drain, who leases      *)
(* which, and how the FINISH of a run goes.  A request leases a run while  *)
(* it serves; nobody sends FINISH for a run that is leased, twice at a     *)
(* time, or again after it was accepted; a run that serves is only         *)
(* finished once the pool has retired.                                     *)
(*                                                                         *)
(* TokenPool implements this; the shutdown, which keeps none of it, only   *)
(* takes the runs out of the book.                                         *)
(***************************************************************************)
EXTENDS FiniteSets

CONSTANTS
    Attempts,  \* who may lease a run
    Agents,
    Runs,
    NoRun

VARIABLES
    serving,   \* the run that serves each agent
    draining,  \* replaced runs, to be finished
    started,   \* the runs the upstream has handed out so far
    lease,     \* the run each attempt leases
    finish,    \* FINISH of each run: "no", "sent" (under way) or "accepted"
    retired,   \* the account is out of service
    closed     \* the process shuts down

vars == <<serving, draining, started, lease, finish, retired, closed>>

Serves(r) == \E ag \in Agents : serving[ag] = r

Init ==
    /\ serving = [ag \in Agents |-> NoRun]
    /\ draining = {}
    /\ started = {}
    /\ lease = [a \in Attempts |-> NoRun]
    /\ finish = [r \in Runs |-> "no"]
    /\ retired = FALSE
    /\ closed = FALSE

\* A new run serves ag from now on, and the one it replaces drains.
Start(ag, r) ==
    /\ r \notin started
    /\ started' = started \cup {r}
    /\ serving' = [serving EXCEPT ![ag] = r]
    /\ draining' = draining \cup ({serving[ag]} \ {NoRun})
    /\ UNCHANGED <<lease, finish, retired, closed>>

\* Only a retired pool may hand out a run whose FINISH is under way.
Lease(a, ag) ==
    /\ lease[a] = NoRun
    /\ serving[ag] # NoRun
    /\ finish[serving[ag]] # "no" => retired
    /\ lease' = [lease EXCEPT ![a] = serving[ag]]
    /\ UNCHANGED <<serving, draining, started, finish, retired, closed>>

Release(a) ==
    /\ lease[a] # NoRun
    /\ lease' = [lease EXCEPT ![a] = NoRun]
    /\ UNCHANGED <<serving, draining, started, finish, retired, closed>>

\* The run leaves the book: it neither serves nor drains any more.
Out(r) ==
    /\ serving' = [ag \in Agents |-> IF serving[ag] = r THEN NoRun ELSE serving[ag]]
    /\ draining' = draining \ {r}

\* The upstream has rejected the run that a leases.
Strike(a) ==
    /\ lease[a] # NoRun
    /\ Out(lease[a])
    /\ UNCHANGED <<started, lease, finish, retired, closed>>

SendFinish(r) ==
    /\ r \in started
    /\ \A a \in Attempts : lease[a] # r
    /\ Serves(r) => retired
    /\ finish[r] = "no"
    /\ finish' = [finish EXCEPT ![r] = "sent"]
    /\ UNCHANGED <<serving, draining, started, lease, retired, closed>>

FinishAccepted(r) ==
    /\ finish[r] = "sent"
    /\ finish' = [finish EXCEPT ![r] = "accepted"]
    /\ Out(r)
    /\ UNCHANGED <<started, lease, retired, closed>>

FinishRefused(r) ==
    /\ finish[r] = "sent"
    /\ finish' = [finish EXCEPT ![r] = "no"]
    /\ UNCHANGED <<serving, draining, started, lease, retired, closed>>

Retire ==
    /\ ~retired
    /\ retired' = TRUE
    /\ UNCHANGED <<serving, draining, started, lease, finish, closed>>

\* The whole book goes at once, or none of it when the pool was let go.
Close ==
    /\ ~closed
    /\ closed' = TRUE
    /\ \/ /\ serving' = [ag \in Agents |-> NoRun]
          /\ draining' = {}
       \/ UNCHANGED <<serving, draining>>
    /\ UNCHANGED <<started, lease, finish, retired>>

Next ==
    \/ \E ag \in Agents, r \in Runs : Start(ag, r)
    \/ \E a \in Attempts, ag \in Agents : Lease(a, ag)
    \/ \E a \in Attempts : Release(a) \/ Strike(a)
    \/ \E r \in Runs : SendFinish(r) \/ FinishAccepted(r) \/ FinishRefused(r)
    \/ Retire
    \/ Close

Spec == Init /\ [][Next]_vars

=============================================================================
