------------------------------ MODULE SchemaNode ------------------------------
(***************************************************************************)
(* One node of a JSON schema: what normalizeSchemaMap (server.go) makes of *)
(* it from what becomes of the values in it, and what a node allows, given *)
(* what those allow.                                                       *)
(*                                                                         *)
(* A JSON value is a record of one field, which tells its kind.  A string  *)
(* "#/definitions/N" or "#/$defs/N" is a reference to N: definitions of    *)
(* both kinds share one space of names, and the code does not ask which of *)
(* the two a reference names.                                              *)
(*                                                                         *)
(* Nothing here is recursive, so that UpstreamBodyProofs can speak of it.  *)
(***************************************************************************)
EXTENDS Integers, SequencesExt

Null     == [null |-> 0]
Num(n)   == [num |-> n]
Str(s)   == [str |-> s]
Ref(n)   == [ref |-> n]
Seq_(s)  == [seq |-> s]
Map(f)   == [map |-> f]

Is(kind, v) == kind \in DOMAIN v

IsAtom(v) == ~Is("seq", v) /\ ~Is("map", v)

Empty == [k \in {} |-> Null]

Has(kind, node, key) == key \in DOMAIN node /\ Is(kind, node[key])

Without(node, keys) == Restrict(node, DOMAIN node \ keys)

\* The entries of f, and those of g under other keys.
Over(f, g) == [k \in DOMAIN f \cup DOMAIN g |-> IF k \in DOMAIN f THEN f[k] ELSE g[k]]

\* The entries of s at the indices of I, in the order they have in s.
EntriesAt(s, I) ==
    [n \in 1..Cardinality(I) |-> s[CHOOSE i \in I : Cardinality({j \in I : j <= i}) = n]]

\* Nothing but null is allowed.
isNullSchema(schema) ==
    \/ Has("str", schema, "type") /\ schema["type"] = Str("null")
    \/ Has("null", schema, "const")
    \/ Has("seq", schema, "enum") /\ schema["enum"] = Seq_(<<Null>>)

\* The options of a combinator that are not null.
NotNull(options) ==
    EntriesAt(options, {i \in DOMAIN options :
                          ~(Is("map", options[i]) /\ isNullSchema(options[i].map))})

\* Mutant: the option that remains replaces the whole schema.
OptionAlone(schema, key) ==
    IF ~Has("seq", schema, key) THEN schema
    ELSE LET options == NotNull(schema[key].seq)
         IN  IF Len(options) = 1 /\ Is("map", options[1]) THEN options[1].map
             ELSE [schema EXCEPT ![key] = Seq_(options)]

\* The options that are null go; one that remains alone takes the place of the
\* combinator, and its keys win.
simplifyNullableCombinator(schema, key) ==
    IF ~Has("seq", schema, key) THEN schema
    ELSE LET options == NotNull(schema[key].seq)
         IN  CASE options = <<>> -> Without(schema, {key})
               [] Len(options) = 1 /\ Is("map", options[1]) ->
                      Over(options[1].map, Without(schema, {key}))
               [] OTHER -> [schema EXCEPT ![key] = Seq_(options)]

\* Of a list of types the first that is not null is kept.
normalizeTypeField(schema) ==
    IF ~Has("seq", schema, "type") THEN schema
    ELSE LET listed == schema["type"].seq
             types  == EntriesAt(listed, {i \in DOMAIN listed :
                                            Is("str", listed[i]) /\ listed[i] # Str("null")})
         IN  IF types = <<>> THEN Without(schema, {"type"})
             ELSE [schema EXCEPT !["type"] = types[1]]

\* Mutant: only repetitions leave it.
NullsKept(schema) ==
    IF ~Has("seq", schema, "enum") THEN schema
    ELSE LET listed == schema["enum"].seq
         IN  [schema EXCEPT !["enum"] =
                Seq_(EntriesAt(listed, {i \in DOMAIN listed :
                                          \A j \in 1..i-1 : listed[j] # listed[i]}))]

\* Nulls and repetitions leave the enumeration.
normalizeEnumField(schema) ==
    IF ~Has("seq", schema, "enum") THEN schema
    ELSE LET listed  == schema["enum"].seq
             entries == EntriesAt(listed, {i \in DOMAIN listed :
                            listed[i] # Null /\ \A j \in 1..i-1 : listed[j] # listed[i]})
         IN  IF entries = <<>> THEN Without(schema, {"enum"})
             ELSE [schema EXCEPT !["enum"] = Seq_(entries)]

normalizeConstField(schema) ==
    IF Has("null", schema, "const") THEN Without(schema, {"const"}) ELSE schema

NormalizedFields(schema) ==
    normalizeConstField(normalizeEnumField(normalizeTypeField(
        simplifyNullableCombinator(simplifyNullableCombinator(schema, "anyOf"), "oneOf"))))

extractDefinitions(schema) ==
    LET under(key) == IF Has("map", schema, key) THEN schema[key].map ELSE Empty
    IN  Over(under("$defs"), under("definitions"))

\* What is defined nearer is preferred.
mergeDefinitions(parent, local) == Over(local, parent)

\* A node refers to a definition when the reference is all there is to it.
Refers(node, defs) ==
    DOMAIN node = {"$ref"} /\ Has("ref", node, "$ref") /\ node["$ref"].ref \in DOMAIN defs

Referent(node, defs) == defs[node["$ref"].ref]

\* Mutant: a referent is taken as it is.
ReferentRaw(node, defs, normalized) ==
    IF Is("map", Referent(node, defs)) THEN Referent(node, defs) ELSE Map(node)

\* What becomes of a reference, when normalized is what becomes of the referent.
\* A referent that is no object leaves the reference as it is.
NormalizedReferent(node, defs, normalized) ==
    IF Is("map", Referent(node, defs)) THEN Map(normalized) ELSE Map(node)

-----------------------------------------------------------------------------
(* What a node should become.                                              *)

Children(v) ==
    CASE Is("map", v) -> {v.map[k] : k \in DOMAIN v.map}
      [] Is("seq", v) -> {v.seq[i] : i \in DOMAIN v.seq}
      [] OTHER -> {}

Combinators == {"anyOf", "oneOf"}

\* A combinator with nothing left to do for it: no option is null, and there
\* is more than one, or one that cannot stand in its place.
Simplified(node, key) ==
    Has("seq", node, key) =>
        LET options == node[key].seq
        IN  /\ options # <<>>
            /\ \A o \in ToSet(options) : ~(Is("map", o) /\ isNullSchema(o.map))
            /\ ~(Len(options) = 1 /\ Is("map", options[1]))

\* A node that speaks of no null: it has no list of types, no constant null, no
\* null among the enumerated, and its combinators are simplified.
Normal(node) ==
    /\ ~Has("seq", node, "type")
    /\ ~Has("null", node, "const")
    /\ Has("seq", node, "enum") => node["enum"].seq # <<>> /\ ~Contains(node["enum"].seq, Null)
    /\ \A key \in Combinators : Simplified(node, key)

-----------------------------------------------------------------------------
(* What a node allows, after the JSON Schema standard.  Allow(schema, v)   *)
(* says what the schemas in it allow.                                      *)

TypeOf(v) ==
    CASE Is("null", v) -> "null"
      [] Is("str", v)  -> "string"
      [] Is("num", v)  -> "integer"
      [] Is("seq", v)  -> "array"
      [] Is("map", v)  -> "object"

\* The types a "type" allows, which is one of them or a list.
Types(t) == IF Is("seq", t) THEN {t.seq[i].str : i \in DOMAIN t.seq} ELSE {t.str}

SomeAllows(options, v, Allow(_, _)) == \E i \in DOMAIN options : Allow(options[i], v)

OneAllows(options, v, Allow(_, _)) ==
    \E i \in DOMAIN options : \A j \in DOMAIN options : Allow(options[j], v) <=> j = i

NodeAllows(node, v, Allow(_, _)) ==
    /\ "type" \in DOMAIN node => TypeOf(v) \in Types(node["type"])
    /\ "const" \in DOMAIN node => v = node["const"]
    /\ "enum" \in DOMAIN node => Contains(node["enum"].seq, v)
    /\ "anyOf" \in DOMAIN node => SomeAllows(node["anyOf"].seq, v, Allow)
    /\ "oneOf" \in DOMAIN node => OneAllows(node["oneOf"].seq, v, Allow)
    /\ Has("map", node, "properties") /\ Is("map", v) =>
           \A k \in DOMAIN node["properties"].map \cap DOMAIN v.map :
               Allow(node["properties"].map[k], v.map[k])

-----------------------------------------------------------------------------
(* What there is to a combinator when references are to defs.              *)

Followed(node, defs) == IF Refers(node, defs) THEN Referent(node, defs).map ELSE node

\* What is referred to may be a reference, but of one that is not.
Resolved(node, defs) == Followed(Followed(node, defs), defs)

\* The options of a combinator that say more than null.
Options(node, key, defs) ==
    {Resolved(o.map, defs) : o \in IF Has("seq", node, key) THEN ToSet(node[key].seq) ELSE {}}

SayMore(node, key, defs) == {o \in Options(node, key, defs) : ~isNullSchema(o)}

=============================================================================
