---------------------------- MODULE MCUpstreamBody ----------------------------
(* Small instances of UpstreamBody for TLC.                                *)
EXTENDS UpstreamBody, ToolSchemas, SchemaMeaning, TLC

Type(t)      == "type" :> Str(t)
Object(k, s) == Type("object") @@ "properties" :> Map(k :> Map(s))
Enum(s)      == "enum" :> Seq_(s)
Types_(s)    == "type" :> Seq_(s)
Either(key, s, t) == key :> Seq_(<<Map(s), Map(t)>>)

\* An object that is rewritten when it stands where a schema may.
Rewritten == Map(Types_(<<Str("string"), Str("null")>>))

Leaves == {
    Empty, Type("string"), Type("null"),
    Type("integer") @@ "nullable" :> Str("true"),
    Types_(<<Str("null"), Str("string")>>), Types_(<<Str("integer"), Str("string")>>),
    Types_(<<Str("null")>>),
    Enum(<<Str("a"), Null, Str("a")>>), Enum(<<Null>>), Enum(<<>>),
    "const" :> Str("a"), "const" :> Null, "const" :> Rewritten,
    "$ref" :> Ref("R"), "$ref" :> Ref("R") @@ "description" :> Str("d")}

Combined == {Either(key, s, t) : key \in {"anyOf", "oneOf"}, s \in Leaves, t \in Leaves}

Simple == Leaves \cup Combined \cup {Enum(<<Rewritten, Null>>)}

\* One level of object, with a plain and a keyword's name for its property, or
\* a list of options beside other keys.
Nested ==
    {Object("p", s) : s \in Simple} \cup {Object("nullable", s) : s \in Leaves}
    \cup {Type("string") @@ c : c \in Combined}
    \cup {"description" :> Str("d") @@ c : c \in Combined}
    \cup {Either("anyOf", Object("p", s), t) : s \in Leaves, t \in Leaves}
    \cup {Either("oneOf", Either("anyOf", s, t), Type("null")) : s \in Leaves, t \in Leaves}
    \cup {Type("string") @@ Either("oneOf", Either(key, s, Type("null")), Type("null")) :
             key \in {"anyOf", "oneOf"}, s \in Leaves}
    \cup {Either("anyOf", s, Type("null")) @@ Either("oneOf", t, u) :
             s \in Leaves, t \in Leaves, u \in {Type("null"), Type("integer")}}

\* What R stands for: a nullable string, null, an object with a list of types,
\* an object with references to itself or to S, and a reference to S.
Referents == {Either("anyOf", Type("string"), Type("null")), Type("null"),
              Object("p", Types_(<<Str("string"), Str("null")>>)),
              Object("p", "$ref" :> Ref("R")), Object("p", "$ref" :> Ref("S")), "$ref" :> Ref("S")}

Defined(key, r) == key :> Map("R" :> Map(r) @@ "S" :> Map(Type("string")))

\* S stands for null, or is another R nearby, or R is what is listed twice.
Twisted(r, t) ==
    {t @@ "$defs" :> Map("R" :> Map("$ref" :> Ref("S")) @@ "S" :> Map(r)),
     Object("p", t @@ "$defs" :> Map("R" :> Map(Type("integer")))) @@ Defined("$defs", r),
     Object("p", t @@ "$defs" :> Map("R" :> Map(r))) @@ Defined("$defs", r)}

Tools ==
    Simple \cup Nested
    \cup {s @@ Defined("$defs", r) : s \in Simple \cup Nested, r \in Referents}
    \cup {Object("p", s) @@ Defined("definitions", r) : s \in Simple, r \in Referents}
    \cup UNION {Twisted(r, t) : r \in Referents, t \in
            {Type("string") @@ Either("anyOf", "$ref" :> Ref("R"), s) : s \in Leaves}}

Values ==
    {Str("a"), Str("b"), Num(1), Map(Empty)}
    \cup {Map("p" :> v) : v \in {Str("a"), Str("b"), Num(1), Map("p" :> Str("a"))}}
    \cup {Rewritten, Map("nullable" :> Num(1))}

=============================================================================
