----------------------------- MODULE WebSessions ------------------------------
(***************************************************************************)
(* SessionManager (sessions.go): the sessions of the web console, each     *)
(* with the time it expires at.  Every operation is one critical section   *)
(* of m.mu.  The clock counts in steps of any length; time.Now() is read   *)
(* once per operation.  The password is set (Enabled).                     *)
(***************************************************************************)
EXTENDS Integers, Functions

CONSTANTS
    Tokens, \* what randomSessionID draws from, never the same twice
    Ttl     \* m.ttl

VARIABLES
    now,      \* the clock
    sessions, \* m.sessions: the expiry of each token in it
    lastUse,  \* history: when each token ever created was created or last valid
    ended,    \* history: the tokens destroyed
    lastLogin \* history: when a session was last created

vars == <<now, sessions, lastUse, ended, lastLogin>>

\* f gives some of the tokens a time.
IsTable(f) == DOMAIN f \in SUBSET Tokens /\ f \in [DOMAIN f -> Nat]

TypeOK ==
    /\ now \in Nat
    /\ IsTable(sessions)
    /\ IsTable(lastUse)
    /\ ended \in SUBSET DOMAIN lastUse
    /\ lastLogin \in Nat

Init ==
    /\ now = 0
    /\ sessions = [t \in {} |-> 0]
    /\ lastUse = [t \in {} |-> 0]
    /\ ended = {}
    /\ lastLogin = 0

\* f, with the value x at t.
Put(f, t, x) == [u \in DOMAIN f \cup {t} |-> IF u = t THEN x ELSE f[u]]

\* time.Now().After(record.ExpiresAt)
Expired(t) == now > sessions[t]

\* Mutants: a session is dropped when its time has come, not after it; all are
\* dropped.
CleanedEarly == Restrict(sessions, {t \in DOMAIN sessions : now < sessions[t]})

CleanedAll == Restrict(sessions, {})

\* cleanupLocked
Cleaned == Restrict(sessions, {t \in DOMAIN sessions : ~Expired(t)})

Create(t) ==
    /\ t \notin DOMAIN lastUse
    /\ sessions' = Put(Cleaned, t, now + Ttl)
    /\ lastUse' = Put(lastUse, t, now)
    /\ lastLogin' = now
    /\ UNCHANGED <<now, ended>>

\* Mutant: the lookup is not repeated where the new expiry is written, so that
\* it brings back a session destroyed in between.
HeldOnce(t) == t \in DOMAIN lastUse /\ (t \in DOMAIN sessions => ~Expired(t))

Held(t) == t \in DOMAIN sessions /\ ~Expired(t)

\* Valid(t) returns true and renews the session, ...
Valid(t) ==
    /\ Held(t)
    /\ sessions' = Put(sessions, t, now + Ttl)
    /\ lastUse' = Put(lastUse, t, now)
    /\ UNCHANGED <<now, ended, lastLogin>>

\* ... or false, when it drops a session that has expired.  (t may be no token
\* at all, when a request has no cookie.)
Invalid(t) ==
    /\ ~Held(t)
    /\ sessions' = Restrict(sessions, DOMAIN sessions \ {t})
    /\ UNCHANGED <<now, lastUse, ended, lastLogin>>

\* Destroy of a token, or of what is none (any more).
Destroy(t) ==
    /\ sessions' = Restrict(sessions, DOMAIN sessions \ {t})
    /\ ended' = ended \cup ({t} \cap DOMAIN lastUse)
    /\ UNCHANGED <<now, lastUse, lastLogin>>

Tick ==
    /\ now' = now + 1
    /\ UNCHANGED <<sessions, lastUse, ended, lastLogin>>

Next ==
    \/ \E t \in Tokens : Create(t) \/ Valid(t) \/ Invalid(t) \/ Destroy(t)
    \/ Tick

Spec == Init /\ [][Next]_vars

-----------------------------------------------------------------------------

\* A session in the table is one that was not destroyed, and expires Ttl after
\* its last use: nothing that runs beside a logout brings a session back.
HeldIsAlive ==
    \A t \in DOMAIN sessions :
        t \in DOMAIN lastUse \ ended /\ sessions[t] = lastUse[t] + Ttl

\* A session that was not destroyed is kept until Ttl has passed since its last
\* use: a cleanup for somebody else's login takes nobody's session.
AliveIsHeld ==
    \A t \in DOMAIN lastUse \ ended : now <= lastUse[t] + Ttl => t \in DOMAIN sessions

\* Sessions are only dropped when asked for or when somebody logs in, but then
\* all that have expired go: the table does not grow with old ones.
LeftoversAreRecent ==
    \A t \in DOMAIN sessions : sessions[t] >= lastLogin

=============================================================================
