----------------------------- MODULE UpstreamBody -----------------------------
(***************************************************************************)
(* The bodies a chat request sends upstream: injectUpstreamMetadata        *)
(* (server.go), called by each of the two attempts of proxyChatCompletions *)
(* with the run and the session of the pool it has got.  Of the payload    *)
(* the parameters of one tool and the metadata are kept.                   *)
(*                                                                         *)
(* The operators that are recursive are constants here, which their        *)
(* definitions in ToolSchemas and SchemaMeaning are given for.             *)
(***************************************************************************)
EXTENDS SchemaNode

CONSTANTS
    Schemas,    \* the parameters a client may send, as JSON objects
    Arguments,  \* values without null that a model may call the tool with
    MaxDepth,   \* 12 in the code
    Runs,
    Instances,  \* of sessions
    NoInstance,
    ClientInstance, \* an instance the client has sent itself
    MapTo(_, _, _),     \* normalizeSchemaMap
    PartsOf(_),         \* Parts
    AllowedBy(_, _, _), \* Allows
    HeirsOf(_, _, _)    \* KeysFor

ASSUME ConstantsAssumption ==
    /\ MaxDepth \in Nat
    /\ NoInstance \notin Instances
    /\ ClientInstance \notin Instances \cup {NoInstance}

IsJson(v) ==
    /\ \E kind \in {"null", "num", "str", "ref", "seq", "map"} : DOMAIN v = {kind}
    /\ v = [kind \in DOMAIN v |-> v[kind]]
    /\ Is("null", v) => v = Null
    /\ Is("seq", v) => v.seq \in Seq(ToSet(v.seq))

\* What is sent and what tools are called with is JSON.
ASSUME ValuesAssumption ==
    /\ \A schema \in Schemas : \A v \in PartsOf(Map(schema)) : IsJson(v)
    /\ \A argument \in Arguments : \A v \in PartsOf(argument) :
         IsJson(v) /\ ~Is("null", v) /\ ~Is("ref", v)

VARIABLES
    payload,  \* the request's body, as decoded
    bodies,   \* what was sent upstream so far
    given     \* history: the instance of the session each attempt had

vars == <<payload, bodies, given>>

Init ==
    /\ payload \in [parameters : Schemas,
                    metadata : {Empty, [freebuff_instance_id |-> ClientInstance]}]
    /\ bodies = <<>>
    /\ given = <<>>

\* normalizeToolSchemas, for the parameters of one tool.
normalizeToolSchema(parameters) == MapTo(parameters, extractDefinitions(parameters), MaxDepth)

\* The metadata of the pool, over the client's own.
OwnMetadata(run, instance) ==
    IF instance = NoInstance THEN [run_id |-> run]
    ELSE [run_id |-> run, freebuff_instance_id |-> instance]

injectUpstreamMetadata(pl, run, instance) ==
    [parameters |-> normalizeToolSchema(pl.parameters),
     metadata   |-> Over(OwnMetadata(run, instance), pl.metadata)]

\* Mutant: the body is built in the payload.
PayloadOverwritten(pl, body) == body

\* The body is built in a copy of the payload.
PayloadAfter(pl, body) == pl

\* An attempt sends the body.
Attempt(run, instance) ==
    LET body == injectUpstreamMetadata(payload, run, instance)
    IN  /\ Len(bodies) < 2
        /\ bodies' = Append(bodies, body)
        /\ payload' = PayloadAfter(payload, body)
        /\ given' = Append(given, instance)

Next == \E run \in Runs, instance \in Instances \cup {NoInstance} : Attempt(run, instance)

Spec == Init /\ [][Next]_vars

-----------------------------------------------------------------------------
(* Properties.                                                             *)

\* The objects in v.
Nodes(v) == {part.map : part \in {part \in PartsOf(v) : Is("map", part)}}

\* The schemas sent upstream.
Sent == {body.parameters : body \in ToSet(bodies)}

\* Whatever the client wrote, what goes upstream speaks of no null where the
\* depth reaches: no list of types, no enumerated null, no constant null, no
\* null among the options of a combinator, and no option left alone in one.
NoNullLeft == \A schema \in Sent : \A node \in Nodes(Map(schema)) : Normal(node)

\* Every reference of the schema stands alone in its node and names an object
\* it defines, which goes by no other definition's name, and definitions only
\* refer to definitions without references.
ProperReferences(schema) ==
    LET defs == extractDefinitions(schema)
        refs(v) == {node \in Nodes(v) : "$ref" \in DOMAIN node}
    IN  /\ \A node \in refs(Map(schema)) :
             Refers(node, defs) /\ Is("map", Referent(node, defs))
        /\ \A node \in Nodes(Map(schema)) :
             LET local == extractDefinitions(node)
             IN  \A n \in DOMAIN local \cap DOMAIN defs : local[n] = defs[n]
        /\ \A n \in DOMAIN defs : \A node \in refs(defs[n]) :
             refs(Referent(node, defs)) = {}

\* As definitions do not go upstream, no reference may: it would dangle.
NoDanglingReference ==
    ProperReferences(payload.parameters) =>
        \A schema \in Sent : \A node \in Nodes(Map(schema)) : "$ref" \notin DOMAIN node

\* What is exempt from the next property: schemas that allow nothing but null,
\* which lose all they say; lists of several types that are not null, of which
\* the first remains; constants and enumerated values that are objects or lists,
\* which are rewritten as if they were schemas; combinators that give way to
\* keys the node has already, or gets from the other one; and properties named
\* like a keyword the code removes.
OrdinaryNode(node, defs) ==
    /\ Has("seq", node, "type") => Cardinality(Types(node["type"]) \ {"null"}) = 1
    /\ "const" \in DOMAIN node => node["const"] # Null /\ IsAtom(node["const"])
    /\ Has("seq", node, "enum") =>
         /\ ToSet(node["enum"].seq) \ {Null} # {}
         /\ \A e \in ToSet(node["enum"].seq) : IsAtom(e)
    /\ \A key \in Combinators :
         /\ Has("seq", node, key) => SayMore(node, key, defs) # {}
         /\ HeirsOf(node, key, defs) \cap (DOMAIN node \ {key}) = {}
    /\ HeirsOf(node, "anyOf", defs) \cap HeirsOf(node, "oneOf", defs) = {}
    /\ Has("map", node, "properties") =>
         DOMAIN node["properties"].map \cap {"nullable", "definitions", "$defs"} = {}

Ordinary(schema) ==
    \A node \in Nodes(Map(schema)) : OrdinaryNode(node, extractDefinitions(schema))

\* An ordinary schema means the same after as before, for arguments without
\* null: the model may call the tool just as the client allows.
SameMeaning ==
    ProperReferences(payload.parameters) /\ Ordinary(payload.parameters) =>
        \A schema \in Sent, v \in Arguments :
            AllowedBy(Map(schema), Empty, v)
            <=> AllowedBy(Map(payload.parameters), extractDefinitions(payload.parameters), v)

\* Both attempts send the same tools, and of a session only their own instance:
\* an attempt whose pool needs no session sends none, or the client's.
NothingKept ==
    /\ Cardinality(Sent) <= 1
    /\ \A i \in DOMAIN bodies : "freebuff_instance_id" \in DOMAIN bodies[i].metadata =>
         bodies[i].metadata["freebuff_instance_id"] \in {given[i], ClientInstance}

=============================================================================
