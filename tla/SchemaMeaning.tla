---------------------------- MODULE SchemaMeaning -----------------------------
(***************************************************************************)
(* What a JSON schema of the kind ToolSchemas rewrites consists of and     *)
(* allows: the reference ToolSchemas is checked against.                   *)
(* "#/definitions/N" and "#/$defs/N" name what the schema as a whole       *)
(* defines, as the JSON Schema standard has it.                            *)
(***************************************************************************)
EXTENDS SchemaNode

\* v and everything in it.
RECURSIVE Parts(_)
Parts(v) == {v} \cup UNION {Parts(c) : c \in Children(v)}

\* schema, in which references are to defs, allows the value v.
RECURSIVE Allows(_, _, _)
Allows(schema, defs, v) ==
    IF Refers(schema.map, defs) THEN Allows(Referent(schema.map, defs), defs, v)
    ELSE NodeAllows(schema.map, v, LAMBDA s, w : Allows(s, defs, w))

\* The keys that take the place of a combinator: those of an option that remains
\* alone, and those that take the place of its own combinators.
RECURSIVE KeysFor(_, _, _)
KeysFor(node, key, defs) ==
    IF Cardinality(SayMore(node, key, defs)) # 1 THEN {}
    ELSE UNION {DOMAIN o \cup KeysFor(o, "anyOf", defs) \cup KeysFor(o, "oneOf", defs) :
                  o \in SayMore(node, key, defs)}

=============================================================================
