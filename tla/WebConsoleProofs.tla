--------------------------- MODULE WebConsoleProofs ---------------------------
(***************************************************************************)
(* The properties of WebConsole for any numbers of requests, tokens,       *)
(* agents and models, any lifetimes, and without bounds on the clock.      *)
(*                                                                         *)
(* First what each operation of SessionManager does to the sessions, then  *)
(* what each replacement does to the maps of the registry, then what the   *)
(* requests of the console know of both.                                   *)
(***************************************************************************)
EXTENDS WebConsole, TLAPS

\* What holds of the sessions: no session was used after now, nor a login made.
SessionInv ==
    /\ S!TypeOK
    /\ S!HeldIsAlive
    /\ S!AliveIsHeld
    /\ S!LeftoversAreRecent
    /\ lastLogin <= now
    /\ \A t \in DOMAIN lastUse : lastUse[t] <= now

\* A cookie does not outlive the session that was last used when the cookie was
\* made, or after that.
CookieInv == \A t \in DOMAIN lastUse : cookieUntil[t] <= lastUse[t] + CookieLife

\* What the browser has was given to it: the cookie of a session, and models
\* that are in the registry, if it is as it was.
BrowserInv ==
    /\ jar # NoToken => jar \in DOMAIN lastUse
    /\ shownAt <= version
    /\ shownAt = version => shown \subseteq allModels

\* So was what a request carries; and why it was refused or not supported.
RequestInv(q) ==
    /\ token[q] # NoToken => token[q] \in DOMAIN lastUse
    /\ pc[q] = "loggedIn" => token[q] # NoToken
    /\ asOf[q] <= version
    /\ pc[q] = "listed" /\ asOf[q] = version => listing[q] \subseteq allModels
    /\ pc[q] \in {"chat", "chatting"} =>
         model[q] \in Models /\ (asOf[q] = version => model[q] \in allModels)
    /\ pc[q] = "refused" /\ token[q] # NoToken =>
         token[q] \in ended \/ now >= cookieUntil[token[q]]
    /\ pc[q] = "unsupported" => asOf[q] < version

IInv ==
    /\ TypeOK
    /\ SessionInv
    /\ MapsAgree
    /\ CookieInv
    /\ BrowserInv
    /\ \A q \in Requests : RequestInv(q)

\* Every step: the sessions there have been are remembered, the registry is as
\* it was or of a new version.
Later ==
    /\ now <= now' /\ ended \subseteq ended'
    /\ DOMAIN lastUse \subseteq DOMAIN lastUse'
    /\ \A t \in DOMAIN lastUse : lastUse[t] <= lastUse'[t] /\ cookieUntil'[t] = cookieUntil[t]
    /\ \/ version' = version /\ allModels' = allModels
       \/ version' = version + 1

\* The part of it that the sessions are answerable for.
SessionsLater ==
    /\ now <= now' /\ ended \subseteq ended'
    /\ DOMAIN lastUse \subseteq DOMAIN lastUse'
    /\ \A t \in DOMAIN lastUse : lastUse[t] <= lastUse'[t]

USE DEF serverSessions, registry, browser, requests

-----------------------------------------------------------------------------
(* Sessions.                                                               *)

\* What is taken from a table is taken.
LEMMA RestrictTable ==
  ASSUME NEW f, S!IsTable(f), NEW T \in SUBSET DOMAIN f
  PROVE  /\ S!IsTable(S!Restrict(f, T))
         /\ DOMAIN S!Restrict(f, T) = T
         /\ \A u \in T : S!Restrict(f, T)[u] = f[u]
BY DEF S!IsTable, S!Restrict

\* Create keeps what holds of the sessions.
LEMMA CreateInv ==
  ASSUME SessionInv, NEW t \in Tokens, S!Create(t), Ttl \in Nat PROVE SessionInv' /\ SessionsLater
<1>1. S!IsTable(sessions) /\ S!IsTable(lastUse) /\ now \in Nat /\ ended \subseteq DOMAIN lastUse
  BY DEF SessionInv, S!TypeOK
<1> DEFINE kept == {u \in DOMAIN sessions : ~S!Expired(u)}
<1>2. S!IsTable(S!Cleaned) /\ DOMAIN S!Cleaned = kept /\ \A u \in kept : S!Cleaned[u] = sessions[u]
  <2>1. kept \in SUBSET DOMAIN sessions /\ S!Cleaned = S!Restrict(sessions, kept)
    BY DEF S!Cleaned
  <2> HIDE DEF kept
  <2> QED
    BY <1>1, <2>1, RestrictTable
<1>3. /\ S!IsTable(sessions')
      /\ DOMAIN sessions' = kept \cup {t}
      /\ \A u \in kept \cup {t} : sessions'[u] = IF u = t THEN now + Ttl ELSE sessions[u]
  BY <1>1, <1>2 DEF S!Create, S!Put, S!IsTable
<1>4. /\ S!IsTable(lastUse')
      /\ DOMAIN lastUse' = DOMAIN lastUse \cup {t}
      /\ \A u \in DOMAIN lastUse \cup {t} : lastUse'[u] = IF u = t THEN now ELSE lastUse[u]
  BY <1>1 DEF S!Create, S!Put, S!IsTable
<1>5. t \notin DOMAIN lastUse /\ now' = now /\ ended' = ended /\ lastLogin' = now
  BY DEF S!Create
<1>6. \A u \in kept : sessions[u] \in Nat /\ now <= sessions[u]
  BY <1>1 DEF S!Expired, S!IsTable
<1>7. S!TypeOK'
  BY <1>1, <1>3, <1>4, <1>5 DEF S!TypeOK, S!IsTable
<1>8. S!HeldIsAlive'
  BY <1>1, <1>3, <1>4, <1>5 DEF SessionInv, S!HeldIsAlive
<1>9. S!AliveIsHeld'
  <2> SUFFICES ASSUME NEW u \in DOMAIN lastUse, u # t, u \notin ended, now <= lastUse[u] + Ttl
               PROVE  u \in kept
    BY <1>3, <1>4, <1>5 DEF S!AliveIsHeld
  <2>1. u \in DOMAIN sessions /\ sessions[u] = lastUse[u] + Ttl
    BY DEF SessionInv, S!AliveIsHeld, S!HeldIsAlive
  <2> QED
    BY <1>1, <2>1 DEF S!Expired, S!IsTable
<1>10. S!LeftoversAreRecent'
  BY <1>1, <1>3, <1>5, <1>6 DEF S!LeftoversAreRecent
<1> QED
  BY <1>1, <1>4, <1>5, <1>7, <1>8, <1>9, <1>10 DEF SessionInv, SessionsLater, S!IsTable

\* So does Valid of a session that is held.
LEMMA ValidInv ==
  ASSUME SessionInv, NEW t, S!Valid(t), Ttl \in Nat PROVE SessionInv' /\ SessionsLater
<1>1. S!IsTable(sessions) /\ S!IsTable(lastUse) /\ now \in Nat /\ lastLogin \in Nat
  BY DEF SessionInv, S!TypeOK
<1>2. t \in DOMAIN sessions /\ t \in Tokens /\ t \in DOMAIN lastUse /\ t \notin ended
  BY <1>1 DEF S!Valid, S!Held, S!IsTable, SessionInv, S!HeldIsAlive
<1>3. /\ S!IsTable(sessions')
      /\ DOMAIN sessions' = DOMAIN sessions
      /\ \A u \in DOMAIN sessions : sessions'[u] = IF u = t THEN now + Ttl ELSE sessions[u]
  BY <1>1, <1>2 DEF S!Valid, S!Put, S!IsTable
<1>4. /\ S!IsTable(lastUse')
      /\ DOMAIN lastUse' = DOMAIN lastUse
      /\ \A u \in DOMAIN lastUse : lastUse'[u] = IF u = t THEN now ELSE lastUse[u]
  BY <1>1, <1>2 DEF S!Valid, S!Put, S!IsTable
<1>5. now' = now /\ ended' = ended /\ lastLogin' = lastLogin
  BY DEF S!Valid
<1>6. S!TypeOK'
  BY <1>1, <1>3, <1>4, <1>5 DEF SessionInv, S!TypeOK, S!IsTable
<1>7. S!HeldIsAlive'
  BY <1>3, <1>4, <1>5 DEF SessionInv, S!HeldIsAlive
<1>8. S!AliveIsHeld'
  BY <1>2, <1>3, <1>4, <1>5 DEF SessionInv, S!AliveIsHeld
<1>9. S!LeftoversAreRecent'
  BY <1>1, <1>3, <1>5 DEF SessionInv, S!LeftoversAreRecent
<1> QED
  BY <1>1, <1>4, <1>5, <1>6, <1>7, <1>8, <1>9 DEF SessionInv, SessionsLater, S!IsTable

\* So do the two operations that take a token from the table.
LEMMA DropInv ==
  ASSUME SessionInv, NEW t, Ttl \in Nat, S!Invalid(t) \/ S!Destroy(t) PROVE SessionInv' /\ SessionsLater
<1>1. S!IsTable(sessions) /\ S!IsTable(lastUse) /\ now \in Nat
  BY DEF SessionInv, S!TypeOK
<1>2. /\ S!IsTable(sessions')
      /\ DOMAIN sessions' = DOMAIN sessions \ {t}
      /\ \A u \in DOMAIN sessions \ {t} : sessions'[u] = sessions[u]
  BY <1>1, RestrictTable DEF S!Invalid, S!Destroy
<1>3. UNCHANGED <<now, lastUse, lastLogin>>
  BY DEF S!Invalid, S!Destroy
<1>4. \/ ended' = ended /\ ~S!Held(t)
      \/ ended' = ended \cup ({t} \cap DOMAIN lastUse)
  BY DEF S!Invalid, S!Destroy
<1>5. S!TypeOK'
  BY <1>2, <1>3, <1>4 DEF SessionInv, S!TypeOK, S!IsTable
<1>6. S!HeldIsAlive'
  BY <1>2, <1>3, <1>4 DEF SessionInv, S!HeldIsAlive
<1>7. S!AliveIsHeld'
  <2> SUFFICES ASSUME NEW u \in DOMAIN lastUse, u \notin ended', now <= lastUse[u] + Ttl
               PROVE  u \in DOMAIN sessions'
    BY <1>3 DEF S!AliveIsHeld
  <2>1. u \in DOMAIN sessions
    BY <1>4 DEF SessionInv, S!AliveIsHeld
  <2>2. u # t
    BY <1>1, <1>4, <2>1 DEF S!Held, S!Expired, SessionInv, S!HeldIsAlive, S!IsTable
  <2> QED
    BY <1>2, <2>1, <2>2
<1>8. S!LeftoversAreRecent'
  BY <1>2, <1>3 DEF SessionInv, S!LeftoversAreRecent
<1> QED
  BY <1>1, <1>3, <1>4, <1>5, <1>6, <1>7, <1>8 DEF SessionInv, SessionsLater, S!IsTable

\* So does time.
LEMMA TickInv ==
  ASSUME SessionInv, S!Tick, Ttl \in Nat PROVE SessionInv' /\ SessionsLater
<1>1. S!TypeOK' /\ S!HeldIsAlive' /\ S!LeftoversAreRecent'
  BY DEF SessionInv, S!Tick, S!TypeOK, S!IsTable, S!HeldIsAlive, S!LeftoversAreRecent
<1>2. S!AliveIsHeld' /\ (lastLogin <= now)'
  BY DEF SessionInv, S!Tick, S!TypeOK, S!IsTable, S!AliveIsHeld
<1>3. SessionsLater /\ (\A t \in DOMAIN lastUse : lastUse[t] <= now)'
  BY DEF SessionInv, S!Tick, S!TypeOK, S!IsTable, SessionsLater
<1> QED
  BY <1>1, <1>2, <1>3 DEF SessionInv

-----------------------------------------------------------------------------
(* The registry.                                                           *)

\* Replacing the maps by those of any agents that have models makes them agree.
LEMMA ReplaceAgrees ==
  ASSUME M!TypeOK, M!SourcesAreFiles,
         NEW agents \in M!Listings, DOMAIN agents # {},
         NEW agentOf \in [Models -> Agents \cup {NoAgent}], M!Replace(agents, agentOf),
         started' \in BOOLEAN
  PROVE  M!TypeOK' /\ M!MapsAgree' /\ version' = version + 1
<1>1. /\ agentModels' = agents /\ modelToAgent' = agentOf /\ version' = version + 1
      /\ allModels' = {m \in Models : agentOf[m] # NoAgent}
      /\ M!Mapping(agents, agentOf)
  BY DEF M!Replace, M!Listed
<1>2. DOMAIN agents \subseteq Agents /\ NoAgent \notin Agents
  BY DEF M!Listings, M!SourcesAreFiles
<1>3. \A a \in DOMAIN agents : agents[a] \subseteq Models /\ agents[a] # {}
  BY DEF M!Listings
<1>4. M!TypeOK'
  BY <1>1 DEF M!TypeOK
<1>5. \A m \in Models : /\ agentOf[m] # NoAgent <=> m \in UNION {agents[a] : a \in DOMAIN agents}
                        /\ agentOf[m] # NoAgent => agentOf[m] \in M!Serving(agents, m)
  BY <1>1, <1>2 DEF M!Mapping, M!Serving
<1>6. allModels' = UNION {agents[a] : a \in DOMAIN agents}
  BY <1>1, <1>3, <1>5
<1>7. PICK a \in DOMAIN agents : TRUE
  OBVIOUS
<1>8. allModels' # {}
  BY <1>3, <1>6, <1>7
<1>9. \A m \in allModels' : modelToAgent'[m] \in M!Serving(agents, m)
  BY <1>1, <1>5
<1>10. \A m \in Models \ allModels' : modelToAgent'[m] = NoAgent
  BY <1>1
<1> QED
  BY <1>1, <1>4, <1>6, <1>8, <1>9, <1>10 DEF M!MapsAgree, M!Serving

\* What is parsed from a source file are agents that have models.
LEMMA ParsedListing ==
  ASSUME M!SourcesAreFiles, NEW file \in Sources
  PROVE  M!parseAllFreeModels(file) \in M!Listings
<1> DEFINE A == {a \in DOMAIN file : file[a] # {}}
<1>1. DOMAIN file \in SUBSET Agents /\ file \in [DOMAIN file -> SUBSET Models]
  BY DEF M!SourcesAreFiles
<1>2. M!parseAllFreeModels(file) = [a \in A |-> file[a]]
  BY DEF M!parseAllFreeModels, M!Restrict
<1>3. A \in SUBSET Agents /\ [a \in A |-> file[a]] \in [A -> (SUBSET Models) \ {{}}]
  BY <1>1
<1> QED
  BY <1>2, <1>3 DEF M!Listings

\* So every step of the registry keeps its maps in agreement.
LEMMA RegistryInv ==
  ASSUME M!TypeOK, M!Next
  PROVE  M!TypeOK' /\ M!MapsAgree' /\ version' = version + 1
<1>1. M!SourcesAreFiles
  BY ConsoleAssumption
<1>2. PICK agentOf \in [Models -> Agents \cup {NoAgent}] :
        \/ M!StartFallback(agentOf)
        \/ \E file \in Sources : M!StartFetched(file, agentOf) \/ M!Refresh(file, agentOf)
  BY DEF M!Next
<1>3. CASE M!StartFallback(agentOf)
  BY <1>1, <1>3, ReplaceAgrees DEF M!StartFallback, M!SourcesAreFiles
<1>4. ASSUME NEW file \in Sources, M!StartFetched(file, agentOf) \/ M!Refresh(file, agentOf)
      PROVE  M!TypeOK' /\ M!MapsAgree' /\ version' = version + 1
  <2>1. M!parseAllFreeModels(file) \in M!Listings
    BY <1>1, ParsedListing
  <2>2. /\ DOMAIN M!parseAllFreeModels(file) # {}
        /\ M!Replace(M!parseAllFreeModels(file), agentOf)
        /\ started' \in BOOLEAN
    BY <1>4 DEF M!StartFetched, M!Refresh, M!Accepted, M!TypeOK
  <2> QED
    BY <1>1, <2>1, <2>2, ReplaceAgrees
<1> QED
  BY <1>2, <1>3, <1>4

-----------------------------------------------------------------------------
(* The requests.                                                           *)

\* What each step of a request does to the sessions is one operation, or none;
\* the registry is left alone.
LEMMA RequestKinds ==
  ASSUME NEW q \in Requests, Request(q)
  PROVE  /\ UNCHANGED registry
         /\ \/ UNCHANGED <<serverSessions, cookieUntil>>
            \/ \E t \in Tokens : handleWebLogin(q, t)
            \/ (S!Destroy(token[q]) \/ S!Valid(token[q]) \/ S!Invalid(token[q])) /\ UNCHANGED browser
BY DEF Request, Send, LoginSend, LogoutSend, ListSend, ChatSend, handleWebLogin, Done, LoginDone,
       handleWebLogout, LogoutDone, Admit, Refuse, handleWebModels, ListDone, ChatRouted,
       ChatUnsupported, Drop

\* A request keeps what holds of the sessions and of the cookies.
LEMMA RequestSessions ==
  ASSUME IInv, NEW q \in Requests, Request(q)
  PROVE  /\ SessionInv' /\ CookieInv' /\ Later
         /\ S!IsTable(cookieUntil)' /\ DOMAIN lastUse' = DOMAIN cookieUntil'
<1>1. /\ S!IsTable(cookieUntil) /\ DOMAIN lastUse = DOMAIN cookieUntil /\ S!TypeOK
      /\ SessionInv /\ CookieInv
  BY DEF IInv, TypeOK
<1>2. UNCHANGED registry
  BY RequestKinds
<1>3. Ttl \in Nat /\ CookieLife \in Nat
  BY ConsoleAssumption
<1>4. CASE UNCHANGED <<serverSessions, cookieUntil>>
  <2>1. SessionInv' /\ SessionsLater
    BY <1>1, <1>4 DEF SessionInv, SessionsLater, S!TypeOK, S!IsTable, S!HeldIsAlive, S!AliveIsHeld,
                      S!LeftoversAreRecent
  <2> QED
    BY <1>1, <1>2, <1>4, <2>1 DEF Later, SessionsLater, CookieInv, S!IsTable
<1>5. ASSUME NEW t \in Tokens, handleWebLogin(q, t) 
      PROVE  /\ SessionInv' /\ CookieInv' /\ Later
             /\ S!IsTable(cookieUntil)' /\ DOMAIN lastUse' = DOMAIN cookieUntil'
  <2>1. S!Create(t) /\ cookieUntil' = S!Put(cookieUntil, t, now + CookieLife)
    BY <1>5 DEF handleWebLogin
  <2>2. SessionInv' /\ SessionsLater
    BY <1>1, <1>3, <2>1, CreateInv
  <2>3. /\ t \notin DOMAIN lastUse /\ DOMAIN lastUse' = DOMAIN lastUse \cup {t}
        /\ lastUse'[t] = now
        /\ now \in Nat
    BY <1>1, <2>1 DEF S!Create, S!Put, S!TypeOK
  <2>4. /\ S!IsTable(cookieUntil)' /\ DOMAIN cookieUntil' = DOMAIN cookieUntil \cup {t}
        /\ cookieUntil'[t] = now + CookieLife
        /\ \A u \in DOMAIN lastUse : cookieUntil'[u] = cookieUntil[u]
    BY <1>1, <1>3, <2>1, <2>3 DEF S!Put, S!IsTable
  <2>5. CookieInv'
    BY <1>1, <1>3, <2>2, <2>3, <2>4 DEF CookieInv, SessionsLater, SessionInv, S!TypeOK, S!IsTable
  <2> QED
    BY <1>1, <1>2, <2>2, <2>3, <2>4, <2>5 DEF Later, SessionsLater
<1>6. CASE (S!Destroy(token[q]) \/ S!Valid(token[q]) \/ S!Invalid(token[q])) /\ UNCHANGED browser
  <2>1. SessionInv' /\ SessionsLater
    BY <1>1, <1>3, <1>6, ValidInv, DropInv
  <2>2. DOMAIN lastUse' = DOMAIN lastUse
    BY <1>1, <1>6 DEF S!Destroy, S!Valid, S!Invalid, S!Put, S!Held, SessionInv, S!HeldIsAlive
  <2>3. CookieInv'
    BY <1>1, <1>3, <1>6, <2>1, <2>2 DEF CookieInv, SessionsLater, SessionInv, S!TypeOK, S!IsTable
  <2> QED
    BY <1>1, <1>2, <1>6, <2>1, <2>2, <2>3 DEF Later, SessionsLater
<1> QED
  BY <1>4, <1>5, <1>6, RequestKinds

\* A request keeps what the browser has in order, ...
LEMMA RequestBrowser ==
  ASSUME IInv, NEW q \in Requests, Request(q)
  PROVE  /\ BrowserInv'
         /\ jar' \in Tokens \cup {NoToken} /\ shown' \in SUBSET Models /\ shownAt' \in Nat
<1>1. /\ jar \in Tokens \cup {NoToken} /\ shown \in SUBSET Models /\ shownAt \in Nat
      /\ token[q] \in Tokens \cup {NoToken} /\ listing[q] \in SUBSET Models /\ asOf[q] \in Nat
      /\ BrowserInv /\ RequestInv(q)
  BY DEF IInv, TypeOK
<1>2. Later
  BY RequestSessions
<1>3. UNCHANGED registry
  BY RequestKinds
<1>4. \/ jar' = jar \/ jar' = NoToken
      \/ pc[q] = "loggedIn" /\ jar' = token[q]
  BY DEF Request, Send, LoginSend, LogoutSend, ListSend, ChatSend, handleWebLogin, Done, LoginDone,
         handleWebLogout, LogoutDone, Admit, Refuse, handleWebModels, ListDone, ChatRouted,
         ChatUnsupported, Drop
<1>5. \/ shown' = shown /\ shownAt' = shownAt
      \/ pc[q] = "listed" /\ shown' = listing[q] /\ shownAt' = asOf[q]
  BY DEF Request, Send, LoginSend, LogoutSend, ListSend, ChatSend, handleWebLogin, Done, LoginDone,
         handleWebLogout, LogoutDone, Admit, Refuse, handleWebModels, ListDone, ChatRouted,
         ChatUnsupported, Drop
<1>6. (jar # NoToken => jar \in DOMAIN lastUse)'
  BY <1>1, <1>2, <1>4 DEF Later, BrowserInv, RequestInv
<1>7. (shownAt <= version /\ (shownAt = version => shown \subseteq allModels))'
  BY <1>1, <1>3, <1>5 DEF BrowserInv, RequestInv
<1> QED
  BY <1>1, <1>4, <1>5, <1>6, <1>7 DEF BrowserInv

\* ... leaves the other requests alone, ...
LEMMA RequestTypes ==
  ASSUME IInv, NEW q \in Requests, Request(q)
  PROVE  /\ TypeOK'
         /\ \A r \in Requests \ {q} : /\ pc'[r] = pc[r] /\ token'[r] = token[r]
                                      /\ model'[r] = model[r] /\ listing'[r] = listing[r]
                                      /\ asOf'[r] = asOf[r]
<1>1. TypeOK
  BY DEF IInv
<1>2. S!TypeOK' /\ M!TypeOK' /\ S!IsTable(cookieUntil)' /\ DOMAIN lastUse' = DOMAIN cookieUntil'
  BY <1>1, RequestSessions, RequestKinds DEF SessionInv, TypeOK, M!TypeOK
<1>3. jar' \in Tokens \cup {NoToken} /\ shown' \in SUBSET Models /\ shownAt' \in Nat
  BY RequestBrowser
<1>4. Cookie \in Tokens \cup {NoToken}
  BY <1>1 DEF Cookie, TypeOK
<1>5. \E l \in {"idle", "login", "loggedIn", "logout", "loggedOut", "list", "chat",
                "listing", "listed", "chatting", "unsupported", "refused"} :
        pc' = [pc EXCEPT ![q] = l]
  BY DEF Request, To, Send, LoginSend, LogoutSend, ListSend, ChatSend, handleWebLogin, Done, LoginDone,
         handleWebLogout, LogoutDone, Admit, Refuse, handleWebModels, ListDone, ChatRouted,
         ChatUnsupported, Drop
<1>6. \E t \in Tokens \cup {NoToken} : token' = [token EXCEPT ![q] = t]
  BY <1>1, <1>4 DEF TypeOK, Request, Send, LoginSend, LogoutSend, ListSend, ChatSend, handleWebLogin, Done,
         LoginDone, handleWebLogout, LogoutDone, Admit, Refuse, handleWebModels, ListDone,
         ChatRouted, ChatUnsupported, Drop
<1>7. \E m \in Models \cup {NoModel} : model' = [model EXCEPT ![q] = m]
  BY <1>1 DEF TypeOK, Request, Send, LoginSend, LogoutSend, ListSend, ChatSend, handleWebLogin, Done,
         LoginDone, handleWebLogout, LogoutDone, Admit, Refuse, handleWebModels, ListDone,
         ChatRouted, ChatUnsupported, Drop
<1>8. \E l \in SUBSET Models : listing' = [listing EXCEPT ![q] = l]
  BY <1>1 DEF TypeOK, M!TypeOK, Request, Send, LoginSend, LogoutSend, ListSend, ChatSend, handleWebLogin,
         Done, LoginDone, handleWebLogout, LogoutDone, Admit, Refuse, handleWebModels, ListDone,
         ChatRouted, ChatUnsupported, Drop
<1>9. \E n \in Nat : asOf' = [asOf EXCEPT ![q] = n]
  BY <1>1 DEF TypeOK, M!TypeOK, Request, Send, LoginSend, LogoutSend, ListSend, ChatSend, handleWebLogin,
         Done, LoginDone, handleWebLogout, LogoutDone, Admit, Refuse, handleWebModels, ListDone,
         ChatRouted, ChatUnsupported, Drop
<1>10. /\ pc' \in [Requests -> {"idle", "login", "loggedIn", "logout", "loggedOut", "list", "chat",
                    "listing", "listed", "chatting", "unsupported", "refused"}]
       /\ token' \in [Requests -> Tokens \cup {NoToken}]
       /\ model' \in [Requests -> Models \cup {NoModel}]
       /\ listing' \in [Requests -> SUBSET Models]
       /\ asOf' \in [Requests -> Nat]
  BY <1>1, <1>5, <1>6, <1>7, <1>8, <1>9 DEF TypeOK
<1>11. \A r \in Requests \ {q} : /\ pc'[r] = pc[r] /\ token'[r] = token[r]
                                 /\ model'[r] = model[r] /\ listing'[r] = listing[r]
                                 /\ asOf'[r] = asOf[r]
  BY <1>1, <1>5, <1>6, <1>7, <1>8, <1>9 DEF TypeOK
<1> QED
  BY <1>2, <1>3, <1>10, <1>11 DEF TypeOK

\* ... and carries what it should.
LEMMA RequestCarries ==
  ASSUME IInv, NEW q \in Requests, Request(q)
  PROVE  RequestInv(q)'
<1>1. TypeOK /\ SessionInv /\ MapsAgree /\ CookieInv /\ BrowserInv /\ RequestInv(q)
  BY DEF IInv
<1>2. Later
  BY RequestSessions
<1>3. UNCHANGED registry /\ version \in Nat
  BY <1>1, RequestKinds DEF TypeOK, M!TypeOK
<1>4. Cookie # NoToken => Cookie \in DOMAIN lastUse
  BY <1>1 DEF Cookie, BrowserInv
<1> USE DEF RequestInv, To
<1>5. CASE LoginSend(q) \/ LogoutSend(q) \/ ListSend(q)
  BY <1>1, <1>2, <1>3, <1>4, <1>5 DEF LoginSend, LogoutSend, ListSend, Send, TypeOK, Later
<1>6. ASSUME NEW m \in Models, ChatSend(q, m) PROVE RequestInv(q)'
  BY <1>1, <1>2, <1>3, <1>4, <1>6 DEF ChatSend, Send, TypeOK, Later, BrowserInv
<1>7. ASSUME NEW t \in Tokens, handleWebLogin(q, t) PROVE RequestInv(q)'
  <2>1. t \in DOMAIN lastUse' /\ t # NoToken
    BY <1>7, ConsoleAssumption DEF handleWebLogin, S!Create, S!Put
  <2> QED
    BY <1>1, <1>3, <1>7, <2>1 DEF handleWebLogin, TypeOK
<1>8. CASE LoginDone(q) \/ LogoutDone(q) \/ ListDone(q) \/ ChatRouted(q) \/ Drop(q)
  BY <1>1, <1>3, <1>8 DEF LoginDone, LogoutDone, ListDone, ChatRouted, Drop, Done, TypeOK
<1>9. CASE handleWebLogout(q) \/ Admit(q) \/ handleWebModels(q)
  BY <1>1, <1>2, <1>3, <1>9 DEF handleWebLogout, Admit, handleWebModels, TypeOK, M!TypeOK, Later
<1>10. CASE Refuse(q)
  <2>1. /\ pc' = [pc EXCEPT ![q] = "refused"] /\ token' = token /\ asOf' = asOf
        /\ now' = now /\ ended' = ended /\ cookieUntil' = cookieUntil /\ ~S!Held(token[q])
    BY <1>10 DEF Refuse, S!Invalid
  <2>2. ASSUME token[q] # NoToken, token[q] \notin ended PROVE now >= cookieUntil[token[q]]
    <3> DEFINE t == token[q]
    <3>1. /\ t \in DOMAIN lastUse /\ cookieUntil[t] <= lastUse[t] + CookieLife
          /\ lastUse[t] \in Nat /\ cookieUntil[t] \in Nat /\ now \in Nat
      BY <1>1, <2>2 DEF CookieInv, TypeOK, S!TypeOK, S!IsTable
    <3>2. ~(now <= lastUse[t] + Ttl)
      <4> SUFFICES ASSUME now <= lastUse[t] + Ttl PROVE FALSE
        OBVIOUS
      <4>1. t \in DOMAIN sessions /\ sessions[t] = lastUse[t] + Ttl
        BY <1>1, <2>2, <3>1 DEF SessionInv, S!AliveIsHeld, S!HeldIsAlive
      <4> QED
        BY <2>1, <4>1, <3>1, ConsoleAssumption DEF S!Held, S!Expired
    <3> QED
      BY <3>1, <3>2, ConsoleAssumption
  <2> QED
    BY <1>1, <1>2, <1>3, <2>1, <2>2 DEF TypeOK, Later
<1>11. CASE ChatUnsupported(q)
  <2>1. model[q] \in Models /\ modelToAgent[model[q]] = NoAgent
    BY <1>1, <1>11 DEF ChatUnsupported
  <2>2. model[q] \notin allModels
    <3>1. DOMAIN agentModels \subseteq Agents
      BY <1>1 DEF TypeOK, M!TypeOK, M!Listings
    <3>2. NoAgent \notin Agents
      BY ConsoleAssumption DEF M!SourcesAreFiles
    <3> QED
      BY <1>1, <2>1, <3>1, <3>2 DEF MapsAgree, M!MapsAgree, M!Serving
  <2>3. asOf[q] < version
    BY <1>1, <1>3, <1>11, <2>2 DEF ChatUnsupported, TypeOK
  <2> QED
    BY <1>1, <1>3, <1>11, <2>3 DEF ChatUnsupported, TypeOK
<1> QED
  BY <1>5, <1>6, <1>7, <1>8, <1>9, <1>10, <1>11 DEF Request

\* What a request carries stays right whatever goes on around it.
LEMMA OthersKeep ==
  ASSUME TypeOK, TypeOK', NEW r \in Requests, RequestInv(r), Later,
         pc'[r] = pc[r], token'[r] = token[r], model'[r] = model[r], listing'[r] = listing[r],
         asOf'[r] = asOf[r]
  PROVE  RequestInv(r)'
<1>1. /\ now \in Nat /\ now' \in Nat /\ version \in Nat /\ asOf[r] \in Nat
      /\ token[r] # NoToken => token[r] \in DOMAIN cookieUntil /\ cookieUntil[token[r]] \in Nat
  BY DEF TypeOK, S!TypeOK, M!TypeOK, S!IsTable, RequestInv
<1> QED
  BY <1>1 DEF RequestInv, Later

-----------------------------------------------------------------------------
(* The theorems.                                                           *)

LEMMA IInvInit == Init => IInv
<1> SUFFICES ASSUME Init PROVE IInv
  OBVIOUS
<1> USE DEF Init, S!Init, M!Init
<1>1. M!TypeOK
  <2>1. agentModels \in [{} -> (SUBSET Models) \ {{}}]
    OBVIOUS
  <2> QED
    BY <2>1 DEF M!TypeOK, M!Listings
<1>2. S!TypeOK
  BY DEF S!TypeOK, S!IsTable
<1>3. TypeOK
  BY <1>1, <1>2 DEF TypeOK, S!IsTable
<1>4. SessionInv
  BY <1>2 DEF SessionInv, S!HeldIsAlive, S!AliveIsHeld, S!LeftoversAreRecent
<1>5. MapsAgree
  BY DEF MapsAgree, M!MapsAgree, M!Serving
<1>6. CookieInv /\ BrowserInv /\ \A q \in Requests : RequestInv(q)
  BY DEF CookieInv, BrowserInv, RequestInv
<1> QED
  BY <1>3, <1>4, <1>5, <1>6 DEF IInv

LEMMA IInvStep == IInv /\ [Next]_vars => IInv'
<1> SUFFICES ASSUME IInv, [Next]_vars PROVE IInv'
  OBVIOUS
<1>1. TypeOK /\ SessionInv /\ MapsAgree /\ CookieInv /\ BrowserInv /\ \A q \in Requests : RequestInv(q)
  BY DEF IInv
<1>2. ASSUME NEW q \in Requests, Request(q) PROVE IInv'
  <2>1. SessionInv' /\ CookieInv' /\ Later
    BY <1>2, RequestSessions
  <2>2. MapsAgree'
    BY <1>1, <1>2, RequestKinds DEF MapsAgree, M!MapsAgree, M!Serving
  <2>3. TypeOK' /\ BrowserInv' /\ RequestInv(q)'
    BY <1>2, RequestTypes, RequestBrowser, RequestCarries
  <2>4. \A r \in Requests \ {q} : RequestInv(r)'
    BY <1>1, <1>2, <2>1, <2>3, RequestTypes, OthersKeep
  <2> QED
    BY <2>1, <2>2, <2>3, <2>4 DEF IInv
<1>3. CASE Tick
  <2>1. /\ SessionInv' /\ SessionsLater
        /\ UNCHANGED <<lastUse, registry, browser, requests>>
    BY <1>1, <1>3, ConsoleAssumption, TickInv DEF Tick, S!Tick
  <2>2. Later /\ CookieInv' /\ BrowserInv' /\ MapsAgree'
    BY <1>1, <2>1 DEF Later, SessionsLater, CookieInv, BrowserInv, MapsAgree, M!MapsAgree, M!Serving,
                      TypeOK
  <2>3. TypeOK'
    BY <1>1, <2>1 DEF TypeOK, SessionInv, M!TypeOK, S!IsTable
  <2>4. \A q \in Requests : RequestInv(q)'
    BY <1>1, <2>1, <2>2, <2>3, OthersKeep
  <2> QED
    BY <2>1, <2>2, <2>3, <2>4 DEF IInv
<1>4. CASE Registry
  <2>1. /\ M!TypeOK' /\ MapsAgree' /\ version' = version + 1
        /\ UNCHANGED <<serverSessions, browser, requests>>
    BY <1>1, <1>4, RegistryInv DEF Registry, TypeOK, MapsAgree
  <2>2. SessionInv' /\ CookieInv' /\ TypeOK'
    BY <1>1, <2>1 DEF SessionInv, S!TypeOK, S!IsTable, S!HeldIsAlive, S!AliveIsHeld,
                      S!LeftoversAreRecent, CookieInv, TypeOK
  <2>3. Later /\ BrowserInv'
    BY <1>1, <2>1 DEF Later, BrowserInv, TypeOK, M!TypeOK, S!TypeOK, S!IsTable
  <2>4. \A q \in Requests : RequestInv(q)'
    BY <1>1, <2>1, <2>2, <2>3, OthersKeep
  <2> QED
    BY <2>1, <2>2, <2>3, <2>4 DEF IInv
<1>5. CASE UNCHANGED vars
  <2>1. UNCHANGED <<serverSessions, registry, browser, requests>>
    BY <1>5 DEF vars
  <2>2. SessionInv' /\ CookieInv' /\ TypeOK' /\ MapsAgree' /\ BrowserInv'
    BY <1>1, <2>1 DEF SessionInv, S!TypeOK, S!IsTable, S!HeldIsAlive, S!AliveIsHeld,
                      S!LeftoversAreRecent, CookieInv, TypeOK, M!TypeOK, MapsAgree, M!MapsAgree,
                      M!Serving, BrowserInv
  <2>3. Later
    BY <1>1, <2>1 DEF Later, TypeOK, S!TypeOK, S!IsTable
  <2>4. \A q \in Requests : RequestInv(q)'
    BY <1>1, <2>1, <2>2, <2>3, OthersKeep
  <2> QED
    BY <2>2, <2>4 DEF IInv
<1> QED
  BY <1>2, <1>3, <1>4, <1>5 DEF Next

\* The invariant of the console holds always.
THEOREM Invariance == Spec => []IInv
BY IInvInit, IInvStep, PTL DEF Spec

\* The variables have their types.
THEOREM TypeCorrect == Spec => []TypeOK
<1>1. IInv => TypeOK
  BY DEF IInv
<1> QED
  BY <1>1, Invariance, PTL

\* No renewal and no cleanup that runs beside a logout brings a session back:
\* a session in the table was not destroyed.
THEOREM HeldSessionsAreAlive == Spec => []HeldIsAlive
<1>1. IInv => HeldIsAlive
  BY DEF IInv, SessionInv, HeldIsAlive
<1> QED
  BY <1>1, Invariance, PTL

\* The cleanup for somebody's login takes no session that is still alive.
THEOREM AliveSessionsAreHeld == Spec => []AliveIsHeld
<1>1. IInv => AliveIsHeld
  BY DEF IInv, SessionInv, AliveIsHeld
<1> QED
  BY <1>1, Invariance, PTL

\* But it takes all that have expired.
THEOREM LoginsCleanUp == Spec => []LeftoversAreRecent
<1>1. IInv => LeftoversAreRecent
  BY DEF IInv, SessionInv, LeftoversAreRecent
<1> QED
  BY <1>1, Invariance, PTL

\* A request with a cookie is refused only after a logout or when the cookie
\* has expired.
THEOREM LoginsLast == Spec => []LoginLasts
<1>1. IInv => LoginLasts
  BY DEF IInv, RequestInv, LoginLasts
<1> QED
  BY <1>1, Invariance, PTL

\* The maps of the model registry agree.
THEOREM RegistryAgrees == Spec => []MapsAgree
<1>1. IInv => MapsAgree
  BY DEF IInv
<1> QED
  BY <1>1, Invariance, PTL

\* A model the console shows is supported, unless the registry was refreshed.
THEOREM ShownIsSupported == Spec => []ListedIsSupported
<1>1. IInv => ListedIsSupported
  BY DEF IInv, RequestInv, ListedIsSupported
<1> QED
  BY <1>1, Invariance, PTL

\* No request is admitted with a token that was logged out.
THEOREM LogoutsAreFinal == Spec => LogoutIsFinal
<1>1. IInv /\ [Next]_vars =>
        [\A q \in Requests : Admit(q) => token[q] \notin ended]_vars
  BY DEF IInv, SessionInv, S!HeldIsAlive, Admit, S!Valid, S!Held
<1> QED
  BY <1>1, Invariance, PTL DEF Spec, LogoutIsFinal

=============================================================================
