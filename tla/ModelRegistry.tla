---------------------------- MODULE ModelRegistry -----------------------------
(***************************************************************************)
(* ModelRegistry (models.go): which agents serve which models, read from a *)
(* source file on the web at the start and every six hours.  The three     *)
(* maps are replaced in one critical section of r.mu.  What the regular    *)
(* expressions find in the file is a choice among Sources: agents with     *)
(* their models, perhaps without any, and perhaps no agent at all.         *)
(***************************************************************************)
EXTENDS Integers, Functions

CONSTANTS
    Agents,
    Models,
    Sources,  \* what a fetched file may say: functions from agents to models
    Fallback, \* hardcodedFallback
    NoAgent

\* Agents with the models they serve, one at least.
Listings == UNION {[A -> (SUBSET Models) \ {{}}] : A \in SUBSET Agents}

\* What WebConsole assumes of the constants.
SourcesAreFiles ==
    /\ Sources \subseteq UNION {[A -> SUBSET Models] : A \in SUBSET Agents}
    /\ Fallback \in Listings /\ DOMAIN Fallback # {}
    /\ NoAgent \notin Agents

VARIABLES
    agentModels,  \* r.agentModels
    modelToAgent, \* r.modelToAgent: NoAgent where it has no entry
    allModels,    \* r.allModels
    started,      \* Start has returned
    version       \* history: how often the maps were replaced

vars == <<agentModels, modelToAgent, allModels, started, version>>

TypeOK ==
    /\ agentModels \in Listings
    /\ modelToAgent \in [Models -> Agents \cup {NoAgent}]
    /\ allModels \in SUBSET Models
    /\ started \in BOOLEAN
    /\ version \in Nat

Init ==
    /\ agentModels = [a \in {} |-> {}]
    /\ modelToAgent = [m \in Models |-> NoAgent]
    /\ allModels = {}
    /\ started = FALSE
    /\ version = 0

Serving(listing, m) == {a \in DOMAIN listing : m \in listing[a]}

\* buildModelMapping may choose agentOf: one of the agents that list the model.
Mapping(listing, agentOf) ==
    \A m \in Models : IF Serving(listing, m) = {} THEN agentOf[m] = NoAgent
                      ELSE agentOf[m] \in Serving(listing, m)

\* Mutant: models that are gone remain in the list.
ListedEver(agentOf) == allModels \cup {m \in Models : agentOf[m] # NoAgent}

Listed(agentOf) == {m \in Models : agentOf[m] # NoAgent}

\* The maps are replaced, all at once.
Replace(listing, agentOf) ==
    /\ Mapping(listing, agentOf)
    /\ agentModels' = listing
    /\ modelToAgent' = agentOf
    /\ allModels' = Listed(agentOf)
    /\ version' = version + 1

parseAllFreeModels(file) == Restrict(file, {a \in DOMAIN file : file[a] # {}})

\* Mutant: a file without agents counts as well.
AnyListing(listing) == TRUE

\* refresh refuses a file without agents.
Accepted(listing) == DOMAIN listing # {}

\* Start fetches the file before anything else is set up, ...
StartFetched(file, agentOf) ==
    /\ ~started
    /\ Accepted(parseAllFreeModels(file))
    /\ Replace(parseAllFreeModels(file), agentOf)
    /\ started' = TRUE

\* ... or, when that fails, takes what is written down in the program.
StartFallback(agentOf) ==
    /\ ~started
    /\ Replace(Fallback, agentOf)
    /\ started' = TRUE

\* A refresh of the ticker goroutine.  One that fails changes nothing.
Refresh(file, agentOf) ==
    /\ started
    /\ Accepted(parseAllFreeModels(file))
    /\ Replace(parseAllFreeModels(file), agentOf)
    /\ UNCHANGED started

Next ==
    \E agentOf \in [Models -> Agents \cup {NoAgent}] :
        \/ StartFallback(agentOf)
        \/ \E file \in Sources : StartFetched(file, agentOf) \/ Refresh(file, agentOf)

Spec == Init /\ [][Next]_vars

-----------------------------------------------------------------------------

\* The three maps agree, and once the registry has started there is a model: a
\* listed model has an agent, which does serve it.
MapsAgree ==
    /\ allModels = UNION {agentModels[a] : a \in DOMAIN agentModels}
    /\ \A m \in allModels : modelToAgent[m] \in Serving(agentModels, m)
    /\ \A m \in Models \ allModels : modelToAgent[m] = NoAgent
    /\ started => allModels # {}

=============================================================================
