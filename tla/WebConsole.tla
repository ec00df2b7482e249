------------------------------ MODULE WebConsole ------------------------------
(***************************************************************************)
(* The web console (server.go, ui/app.js): one browser whose tabs log in   *)
(* and out, list the models and chat with one of them, over the sessions   *)
(* of WebSessions and the models of ModelRegistry.  A request is sent with *)
(* the cookie the browser has then, is admitted or refused by              *)
(* requireSession, does its work in a step of its own, and its answer      *)
(* arrives later still; all of these interleave.  Chats go on where        *)
(* ChatProxy begins.                                                       *)
(***************************************************************************)
EXTENDS Integers

CONSTANTS
    Requests,
    Tokens, NoToken,
    Ttl,        \* 24 hours (main.go)
    CookieLife, \* 24 hours (handleWebLogin)
    MaxTime,    \* bounds the clock
    Agents, NoAgent,
    Models, NoModel,
    Sources, Fallback,
    MaxVersion  \* bounds the refreshes

VARIABLES
    now, sessions, lastUse, ended, lastLogin,
    agentModels, modelToAgent, allModels, started, version,
    jar,         \* the browser's cookie: a token, or NoToken
    cookieUntil, \* when the cookie with each token expires
    shown,       \* the models the console shows
    shownAt,     \* history: the version they are of
    pc,          \* where each request stands
    token,       \* the token it was sent with, or a login has made
    model,       \* the model a chat asks for
    listing,     \* the models a list has read
    asOf         \* history: the version that list, or a chat's choice, is of

S == INSTANCE WebSessions
M == INSTANCE ModelRegistry

ASSUME ConsoleAssumption ==
    /\ NoToken \notin Tokens
    /\ NoModel \notin Models
    /\ Ttl \in Nat
    /\ CookieLife \in Nat
    /\ CookieLife <= Ttl
    /\ M!SourcesAreFiles

serverSessions == <<now, sessions, lastUse, ended, lastLogin>>
registry == <<agentModels, modelToAgent, allModels, started, version>>
browser  == <<jar, cookieUntil, shown, shownAt>>
requests == <<pc, token, model, listing, asOf>>
vars == <<serverSessions, registry, browser, requests>>

TypeOK ==
    /\ S!TypeOK
    /\ M!TypeOK
    /\ jar \in Tokens \cup {NoToken}
    /\ S!IsTable(cookieUntil)
    /\ DOMAIN lastUse = DOMAIN cookieUntil
    /\ shown \in SUBSET Models
    /\ shownAt \in Nat
    /\ pc \in [Requests -> {"idle", "login", "loggedIn", "logout", "loggedOut", "list", "chat",
                            "listing", "listed", "chatting", "unsupported", "refused"}]
    /\ token \in [Requests -> Tokens \cup {NoToken}]
    /\ model \in [Requests -> Models \cup {NoModel}]
    /\ listing \in [Requests -> SUBSET Models]
    /\ asOf \in [Requests -> Nat]

Init ==
    /\ S!Init
    /\ M!Init
    /\ jar = NoToken
    /\ cookieUntil = lastUse
    /\ shown = {}
    /\ shownAt = 0
    /\ pc = [q \in Requests |-> "idle"]
    /\ token = [q \in Requests |-> NoToken]
    /\ model = [q \in Requests |-> NoModel]
    /\ listing = [q \in Requests |-> {}]
    /\ asOf = [q \in Requests |-> 0]

-----------------------------------------------------------------------------

\* The cookie the browser sends, if it has not expired.
Cookie == IF jar # NoToken /\ now < cookieUntil[jar] THEN jar ELSE NoToken

To(q, label) == pc' = [pc EXCEPT ![q] = label]

\* Back to idle, forgetting what was on the way.
Done(q) ==
    /\ To(q, "idle")
    /\ token' = [token EXCEPT ![q] = NoToken]
    /\ model' = [model EXCEPT ![q] = NoModel]
    /\ listing' = [listing EXCEPT ![q] = {}]
    /\ asOf' = [asOf EXCEPT ![q] = 0]
    /\ UNCHANGED <<serverSessions, registry>>

\* The main function starts the registry before the HTTP server.
Send(q, what) ==
    /\ started
    /\ pc[q] = "idle"
    /\ To(q, what)
    /\ UNCHANGED <<serverSessions, registry, browser, listing>>

LoginSend(q) ==
    /\ Send(q, "login")
    /\ UNCHANGED <<token, model, asOf>>

LogoutSend(q) ==
    /\ Send(q, "logout")
    /\ token' = [token EXCEPT ![q] = Cookie]
    /\ UNCHANGED <<model, asOf>>

ListSend(q) ==
    /\ Send(q, "list")
    /\ token' = [token EXCEPT ![q] = Cookie]
    /\ UNCHANGED <<model, asOf>>

ChatSend(q, m) ==
    /\ m \in shown
    /\ Send(q, "chat")
    /\ token' = [token EXCEPT ![q] = Cookie]
    /\ model' = [model EXCEPT ![q] = m]
    /\ asOf' = [asOf EXCEPT ![q] = shownAt]

\* handleWebLogin with the password: a session, and a cookie for it.  The
\* session of the cookie the browser may have already is left alone.
handleWebLogin(q, t) ==
    /\ pc[q] = "login"
    /\ S!Create(t)
    /\ cookieUntil' = S!Put(cookieUntil, t, now + CookieLife)
    /\ token' = [token EXCEPT ![q] = t]
    /\ To(q, "loggedIn")
    /\ UNCHANGED <<registry, jar, shown, shownAt, model, listing, asOf>>

LoginDone(q) ==
    /\ pc[q] = "loggedIn"
    /\ jar' = token[q]
    /\ Done(q)
    /\ UNCHANGED <<cookieUntil, shown, shownAt>>

handleWebLogout(q) ==
    /\ pc[q] = "logout"
    /\ S!Destroy(token[q])
    /\ To(q, "loggedOut")
    /\ UNCHANGED <<registry, browser, token, model, listing, asOf>>

\* The answer takes away whatever cookie the browser has by then.
LogoutDone(q) ==
    /\ pc[q] = "loggedOut"
    /\ jar' = NoToken
    /\ Done(q)
    /\ UNCHANGED <<cookieUntil, shown, shownAt>>

\* requireSession lets a request pass, ...
Admit(q) ==
    /\ pc[q] \in {"list", "chat"}
    /\ S!Valid(token[q])
    /\ To(q, IF pc[q] = "list" THEN "listing" ELSE "chatting")
    /\ UNCHANGED <<registry, browser, token, model, listing, asOf>>

\* ... or answers 401.
Refuse(q) ==
    /\ pc[q] \in {"list", "chat"}
    /\ S!Invalid(token[q])
    /\ To(q, "refused")
    /\ UNCHANGED <<registry, browser, token, model, listing, asOf>>

\* modelsPayload
handleWebModels(q) ==
    /\ pc[q] = "listing"
    /\ listing' = [listing EXCEPT ![q] = allModels]
    /\ asOf' = [asOf EXCEPT ![q] = version]
    /\ To(q, "listed")
    /\ UNCHANGED <<serverSessions, registry, browser, token, model>>

ListDone(q) ==
    /\ pc[q] = "listed"
    /\ shown' = listing[q]
    /\ shownAt' = asOf[q]
    /\ Done(q)
    /\ UNCHANGED <<jar, cookieUntil>>

\* proxyChatCompletions asks for the agent of the model, ...
ChatRouted(q) ==
    /\ pc[q] = "chatting"
    /\ modelToAgent[model[q]] # NoAgent
    /\ Done(q)
    /\ UNCHANGED browser

\* ... or answers that it does not support the model.
ChatUnsupported(q) ==
    /\ pc[q] = "chatting"
    /\ modelToAgent[model[q]] = NoAgent
    /\ To(q, "unsupported")
    /\ UNCHANGED <<serverSessions, registry, browser, token, model, listing, asOf>>

\* Any other answer arrives, or a connection breaks: its answer is lost.
Drop(q) ==
    /\ pc[q] # "idle"
    /\ Done(q)
    /\ UNCHANGED browser

Tick ==
    /\ now < MaxTime
    /\ S!Tick
    /\ UNCHANGED <<registry, browser, requests>>

Registry ==
    /\ version < MaxVersion
    /\ M!Next
    /\ UNCHANGED <<serverSessions, browser, requests>>

Request(q) ==
    \/ LoginSend(q) \/ LogoutSend(q) \/ ListSend(q) \/ \E m \in Models : ChatSend(q, m)
    \/ \E t \in Tokens : handleWebLogin(q, t)
    \/ LoginDone(q)
    \/ handleWebLogout(q)
    \/ LogoutDone(q)
    \/ Admit(q) \/ Refuse(q)
    \/ handleWebModels(q)
    \/ ListDone(q)
    \/ ChatRouted(q) \/ ChatUnsupported(q)
    \/ Drop(q)

Next ==
    \/ \E q \in Requests : Request(q)
    \/ Tick
    \/ Registry

Spec == Init /\ [][Next]_vars

-----------------------------------------------------------------------------
(* Properties.                                                             *)

\* See WebSessions and ModelRegistry.
HeldIsAlive == S!HeldIsAlive
AliveIsHeld == S!AliveIsHeld
LeftoversAreRecent == S!LeftoversAreRecent
MapsAgree == M!MapsAgree

\* A login lasts as long as its cookie: a request sent with a cookie is only
\* refused when the session was logged out, perhaps by another tab, or when the
\* cookie has expired before the request was served.
LoginLasts ==
    \A q \in Requests : pc[q] = "refused" /\ token[q] # NoToken =>
        token[q] \in ended \/ now >= cookieUntil[token[q]]

\* A logout that was served is final for every request that carries the token,
\* those that are on their way included.
LogoutIsFinal ==
    [][\A q \in Requests : Admit(q) => token[q] \notin ended]_vars

\* A model the console shows is supported, unless the registry was refreshed
\* since the list was read.
ListedIsSupported ==
    \A q \in Requests : pc[q] = "unsupported" => asOf[q] < version

=============================================================================
