----------------------------- MODULE SessionLife -----------------------------
(***************************************************************************)
(* What a tokenPool promises about its free session, without locks,        *)
(* channels or goroutines: who wants a session and who has got one, who    *)
(* asks the upstream, and what becomes of the session that is kept.        *)
(* Somebody asks only when nobody else does and nothing kept will do; who  *)
(* wants a session gets it when one that will do is kept, or as the answer *)
(* to its own question, and gives up only when that fails or when it is    *)
(* cancelled while somebody else asks.  A session goes when one of its     *)
(* users rejects it, when it is over and nobody works with it, when a new  *)
(* answer takes its place, or with the process.                            *)
(*                                                                         *)
(* FreeSession implements this.                                            *)
(***************************************************************************)
CONSTANTS
    Requests,    \* users that give up when they fail
    Rebuilders,  \* users that try again until they have a session
    Prewarmer,   \* asks too; whether it gets what it wants is not told
    InstanceOf,  \* the instance of each grant
    NoSession,
    Disabled,
    Failed,
    NoThread

Grants == DOMAIN InstanceOf
Users  == Requests \cup Rebuilders

VARIABLES
    session,    \* what is kept: a grant, Disabled or NoSession
    asker,      \* who asks the upstream
    answer,     \* what it was answered, until it is kept; else NoSession
    user,       \* "off", "wants" or "has"
    busy,       \* requests that work with a session
    rebuilding, \* somebody rebuilds the session in the background
    cooling,    \* the account is left alone
    guarded,    \* grants somebody waits to see the end of
    life,       \* of each grant: unused, endless, fresh, stale or over
    ended       \* the process has let the session go

asking == <<asker, answer>>
users  == <<user, busy, rebuilding, cooling>>
vars == <<session, asking, users, guarded, life, ended>>

Init ==
    /\ session = NoSession
    /\ asker = NoThread
    /\ answer = NoSession
    /\ user = [u \in Users |-> "off"]
    /\ busy = {}
    /\ rebuilding = FALSE
    /\ cooling = FALSE
    /\ guarded = {}
    /\ life = [g \in Grants |-> "unused"]
    /\ ended = FALSE

WillDo ==
    \/ session = Disabled
    \/ session \in Grants /\ life[session] \in {"fresh", "endless"}

\* An instance the upstream hands out again counts as the same session.
Kept(g) == session \in Grants /\ InstanceOf[session] = InstanceOf[g]

Becomes(u, what) == user' = [user EXCEPT ![u] = what]

-----------------------------------------------------------------------------

Wants(a) ==
    /\ user[a] = "off"
    /\ ~cooling
    /\ Becomes(a, "wants")
    /\ UNCHANGED <<session, asking, busy, rebuilding, cooling, guarded, life, ended>>

Finds(u) ==
    /\ user[u] = "wants"
    /\ asker # u
    /\ WillDo
    /\ Becomes(u, "has")
    /\ UNCHANGED <<session, asking, busy, rebuilding, cooling, guarded, life, ended>>

Asks(t) ==
    /\ t \in Users => user[t] = "wants"
    /\ asker = NoThread
    /\ ~WillDo
    /\ asker' = t
    /\ UNCHANGED <<session, answer, users, guarded, life, ended>>

\* Cancelled, while it waits for the answer to another one's question.
GivesUp(a) ==
    /\ user[a] = "wants"
    /\ asker \notin {a, NoThread}
    /\ Becomes(a, "off")
    /\ UNCHANGED <<session, asking, busy, rebuilding, cooling, guarded, life, ended>>

Answered(x) ==
    /\ asker # NoThread
    /\ answer = NoSession
    /\ answer' = x
    /\ UNCHANGED <<session, asker, users, guarded, ended>>

Granted(g, span) ==
    /\ Answered(g)
    /\ life[g] = "unused"
    /\ life' = [life EXCEPT ![g] = span]

Plain(x) == Answered(x) /\ UNCHANGED life

\* The answer takes the place of what was kept, which would not do.
Keeps ==
    /\ answer # NoSession
    /\ ~WillDo
    /\ session' = IF answer = Failed THEN NoSession ELSE answer
    /\ user' = [u \in Users |-> IF u # asker THEN user[u]
                               ELSE IF answer # Failed THEN "has"
                               ELSE IF u \in Requests THEN "off" ELSE "wants"]
    /\ asker' = NoThread
    /\ answer' = NoSession
    /\ UNCHANGED <<busy, rebuilding, cooling, guarded, life, ended>>

-----------------------------------------------------------------------------

Works(a) ==
    /\ user[a] = "has"
    /\ busy' = busy \cup {a}
    /\ UNCHANGED <<session, asking, user, rebuilding, cooling, guarded, life, ended>>

Rests(a) ==
    /\ busy' = busy \ {a}
    /\ UNCHANGED <<session, asking, user, rebuilding, cooling, guarded, life, ended>>

Leaves(a) ==
    /\ user[a] = "has"
    /\ Becomes(a, "off")
    /\ UNCHANGED <<session, asking, busy, rebuilding, cooling, guarded, life, ended>>

\* A request has found that the session is no good, be it the one it works
\* with or one that came since.
Rejects(a) ==
    /\ user[a] = "has"
    /\ Becomes(a, "off")
    /\ session' = NoSession
    /\ UNCHANGED <<asking, busy, rebuilding, cooling, guarded, life, ended>>

Cools(a) ==
    /\ user[a] = "has"
    /\ cooling' = TRUE
    /\ UNCHANGED <<session, asking, user, busy, rebuilding, guarded, life, ended>>

Warms ==
    /\ cooling' = FALSE
    /\ UNCHANGED <<session, asking, user, busy, rebuilding, guarded, life, ended>>

Rebuilds(b) ==
    /\ ~rebuilding
    /\ ~cooling
    /\ asker = NoThread
    /\ user[b] = "off"
    /\ rebuilding' = TRUE
    /\ Becomes(b, "wants")
    /\ UNCHANGED <<session, asking, busy, cooling, guarded, life, ended>>

\* A rebuild ends when it has what it wanted.
Rebuilt(b) ==
    /\ rebuilding
    /\ user[b] = "has"
    /\ rebuilding' = FALSE
    /\ Becomes(b, "off")
    /\ UNCHANGED <<session, asking, busy, cooling, guarded, life, ended>>

-----------------------------------------------------------------------------

Guards(g) ==
    /\ life[g] \notin {"unused", "endless"}
    /\ guarded' = guarded \cup {g}
    /\ UNCHANGED <<session, asking, users, life, ended>>

Ages(g) ==
    /\ life[g] \in {"fresh", "stale"}
    /\ life' = [life EXCEPT ![g] = IF @ = "fresh" THEN "stale" ELSE "over"]
    /\ UNCHANGED <<session, asking, users, guarded, ended>>

\* The session goes when it is over and nobody works with it; when it went
\* already, nobody waits for that any more.
Expires(g) ==
    /\ g \in guarded
    /\ life[g] = "over"
    /\ Kept(g) => busy = {}
    /\ session' = IF Kept(g) THEN NoSession ELSE session
    /\ guarded' = guarded \ {g}
    /\ UNCHANGED <<asking, users, life, ended>>

Ends ==
    /\ ~ended
    /\ ended' = TRUE
    /\ session' = NoSession
    /\ UNCHANGED <<asking, users, guarded, life>>

-----------------------------------------------------------------------------

Asking ==
    \/ \E t \in Users \cup {Prewarmer} : Asks(t)
    \/ \E g \in Grants, span \in {"endless", "fresh", "stale", "over"} : Granted(g, span)
    \/ Plain(Failed) \/ Plain(Disabled)
    \/ Keeps

Using ==
    \/ \E a \in Requests : \/ Wants(a) \/ GivesUp(a)
                           \/ Works(a) \/ Rests(a) \/ Leaves(a)
                           \/ Rejects(a) \/ Cools(a)
    \/ \E u \in Users : Finds(u)
    \/ \E b \in Rebuilders : Rebuilds(b) \/ Rebuilt(b)

Next ==
    \/ Asking
    \/ Using
    \/ \E g \in Grants : Guards(g) \/ Ages(g) \/ Expires(g)
    \/ Warms
    \/ Ends

Spec == Init /\ [][Next]_vars

=============================================================================
