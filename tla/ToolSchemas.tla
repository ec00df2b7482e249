----------------------------- MODULE ToolSchemas ------------------------------
(***************************************************************************)
(* What normalizeToolSchemas (server.go) makes of the JSON schema of a     *)
(* tool's parameters before it goes upstream: references are replaced by   *)
(* what they refer to, and everything that only says "or null" goes.       *)
(*                                                                         *)
(* What becomes of a value, given what becomes of the values in it, is in  *)
(* SchemaNode; here is the recursion.  Every level of the JSON value and   *)
(* every reference followed takes one of the depth; what lies deeper stays *)
(* as it is.                                                               *)
(***************************************************************************)
EXTENDS SchemaNode

RECURSIVE normalizeSchemaMap(_, _, _)

RECURSIVE normalizeSchemaValue(_, _, _)
normalizeSchemaValue(value, defs, depth) ==
    CASE Is("map", value) -> Map(normalizeSchemaMap(value.map, defs, depth))
      [] Is("seq", value) /\ depth > 0 ->
             Seq_([i \in DOMAIN value.seq |-> normalizeSchemaValue(value.seq[i], defs, depth - 1)])
      [] OTHER -> value

normalizeSchemaMap(node, defs, depth) ==
    IF depth <= 0 THEN node
    ELSE LET known    == mergeDefinitions(defs, extractDefinitions(node))
             children == Without(node, {"definitions", "$defs", "nullable"})
         IN  IF Refers(node, known)
             THEN NormalizedReferent(node, known,
                      normalizeSchemaMap(Referent(node, known).map, known, depth - 1)).map
             ELSE NormalizedFields(
                      [k \in DOMAIN children |-> normalizeSchemaValue(children[k], known, depth - 1)])

=============================================================================
