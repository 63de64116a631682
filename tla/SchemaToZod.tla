----------------------------- MODULE SchemaToZod -----------------------------
(***************************************************************************)
(* The conversion of an SDK input schema to validators                     *)
(* (src/src/sdk/schema-to-zod.ts) and what the validators do with a value. *)
(*                                                                         *)
(* A value is a record tagged with its JavaScript type.  A number is       *)
(* counted in halves, so that some are not integers.  An object has a      *)
(* field for every name, undefined for those it does not give.             *)
(* A schema is a record whose fields are its keywords: DOMAIN schema is    *)
(* Object.keys(schema).  Its properties are a sequence of [key, schema],   *)
(* in declaration order.  A validator is what it makes of a value: the set *)
(* of its results, which is empty when it rejects the value.               *)
(***************************************************************************)
EXTENDS Integers, Sequences, FiniteSets, SequencesExt

CONSTANTS
  Names,       \* the names that properties may have
  Symbols,     \* the symbols of texts
  MaxDepth,    \* how deep values nest
  Nodes,       \* the schemas and the schemas inside them
  Depth        \* Depth[s]: how deep schema s nests

Undefined == [t |-> "undefined"]
Str(s) == [t |-> "string", str |-> s]
Num(halves) == [t |-> "number", num |-> halves]
Bool(b) == [t |-> "boolean", bool |-> b]
Arr(s) == [t |-> "array", items |-> s]
Obj(f) ==
  [t |-> "object", fields |-> [k \in Names |-> IF k \in DOMAIN f THEN f[k] ELSE Undefined]]

EmptyObject == Obj([k \in {} |-> Undefined])

\* The keys of an object.
Given(fields) == {k \in Names : fields[k] # Undefined}

Scalars ==
  {Undefined} \cup [t : {"string"}, str : Seq(Symbols)] \cup [t : {"number"}, num : Int]
    \cup [t : {"boolean"}, bool : BOOLEAN]
Composites(parts) ==
  [t : {"array"}, items : Seq(parts)] \cup [t : {"object"}, fields : [Names -> parts]]

ValuesTo[n \in 0..MaxDepth] ==
  IF n = 0 THEN Scalars ELSE ValuesTo[n-1] \cup Composites(ValuesTo[n-1])
Values == ValuesTo[MaxDepth]

IsInteger(n) == n % 2 = 0

\* jsonSchemaToZod(null): the operation takes no input.
NullSchema == [type |-> "null"]

KnownKeys == {"type", "properties", "required", "additionalProperties", "enum", "const",
              "oneOf", "items", "description", "minimum", "maximum", "minItems", "maxItems"}

Has(schema, keyword) == keyword \in DOMAIN schema

IsObject(schema) == Has(schema, "type") /\ schema.type = "object"
Properties(schema) == IF Has(schema, "properties") THEN schema.properties ELSE <<>>
Keys(schema) == {p.key : p \in ToSet(Properties(schema))}
Required(schema) == IF Has(schema, "required") THEN schema.required ELSE {}
IsStrict(schema) == Has(schema, "additionalProperties") /\ ~schema.additionalProperties
Property(schema, key) ==
  (CHOOSE p \in ToSet(Properties(schema)) : p.key = key).schema

\* The keyword that decides the validator: const, then enum, then oneOf, then type.
Form(schema) ==
  CASE Has(schema, "const") -> "const"
    [] Has(schema, "enum") /\ ~Has(schema, "const") -> "enum"
    [] Has(schema, "oneOf") /\ ~Has(schema, "const") /\ ~Has(schema, "enum") -> "oneOf"
    [] OTHER -> IF Has(schema, "type") THEN schema.type ELSE "missing"

ScalarTypes == {"string", "number", "integer", "boolean"}

\* value is of the type that a schema names.
OfType(type, value) ==
  IF type = "integer" THEN value.t = "number" /\ IsInteger(value.num) ELSE value.t = type

-----------------------------------------------------------------------------
(* What is assumed of the SDK's schemas *)

SubSchemas(schema) ==
  {p.schema : p \in ToSet(Properties(schema))}
    \cup (IF Has(schema, "oneOf") THEN ToSet(schema.oneOf) ELSE {})
    \cup (IF Has(schema, "items") THEN {schema.items} ELSE {})

\* The keywords have the types JSON schema gives them, and no key is declared twice.
WellTyped(schema) ==
  /\ Has(schema, "type") => schema.type \notin {"const", "enum", "oneOf"}
  /\ Has(schema, "const") => schema.const \in Scalars \ {Undefined}
  /\ Has(schema, "enum") => schema.enum \in Seq(Scalars \ {Undefined})
  /\ Has(schema, "oneOf") => schema.oneOf \in Seq(Nodes)
  /\ Has(schema, "items") => schema.items \in Nodes
  /\ Properties(schema) \in Seq([key : Names, schema : Nodes])
  /\ \A i, j \in DOMAIN Properties(schema) :
       Properties(schema)[i].key = Properties(schema)[j].key => i = j
  /\ Required(schema) \subseteq Names
  /\ Has(schema, "additionalProperties") => schema.additionalProperties \in BOOLEAN
  /\ \A bound \in {"minimum", "maximum", "minItems", "maxItems"} :
       Has(schema, bound) => schema[bound] \in Int

\* The keywords beside the one that decides the validator say nothing more: a const, an enum
\* or a oneOf stands alone or beside the type of its values, and what an object requires it
\* declares.
Coherent(schema) ==
  /\ Form(schema) \in {"const", "enum", "oneOf"} =>
       DOMAIN schema \subseteq {Form(schema), "type", "description"}
  /\ Form(schema) = "const" /\ Has(schema, "type") => OfType(schema.type, schema.const)
  /\ Form(schema) = "enum" /\ Has(schema, "type") =>
       schema.type \in ScalarTypes /\ \A v \in ToSet(schema.enum) : OfType(schema.type, v)
  /\ Form(schema) = "oneOf" => ~Has(schema, "type")
  /\ Required(schema) \subseteq Keys(schema)

ASSUME SchemaAssumption ==
  /\ "input" \in Names
  /\ MaxDepth \in Nat \ {0}
  /\ \A s \in Nodes :
       /\ WellTyped(s) /\ Coherent(s)
       /\ Depth[s] \in Nat
       /\ \A sub \in SubSchemas(s) : Depth[sub] < Depth[s]

-----------------------------------------------------------------------------
(* The validators that the conversion uses. *)

ZType(type, value) == {v \in {value} : v.t = type}
ZLiterals(values, value) == {value} \cap values

\* Inclusive bounds: n satisfies those the schema has.
Within(n, schema, lower, upper) ==
  /\ Has(schema, lower) => n >= schema[lower]
  /\ Has(schema, upper) => n <= schema[upper]

ZNumber(int, schema, value) ==
  {v \in ZType("number", value) :
     (int => IsInteger(v.num)) /\ Within(v.num, schema, "minimum", "maximum")}

\* The first option that accepts wins; results[i] is what option i makes of the value.
ZUnion(results) ==
  LET accepting == {i \in DOMAIN results : results[i] # {}}
  IN  IF accepting = {} THEN {} ELSE results[Min(accepting)]

\* results[i] is what the validator of the items makes of item i.
ZArray(results, sizes) ==
  IF /\ Within(Len(results), sizes, "minItems", "maxItems")
     /\ \A i \in DOMAIN results : results[i] # {}
  THEN {Arr([i \in DOMAIN results |-> CHOOSE v \in results[i] : TRUE])}
  ELSE {}

\* A strict object rejects undeclared keys, another one strips them.
ZObject(results, shape, strict, given) ==
  IF /\ \A k \in DOMAIN results : results[k] # {}
     /\ \A k \in DOMAIN shape \ given : shape[k].optional
     /\ strict => given \subseteq DOMAIN shape
  THEN {Obj([k \in DOMAIN results |-> CHOOSE v \in results[k] : TRUE])}
  ELSE {}

\* A property of a shape: a union of the types that its declarations convert to.
Field(types, optional) == [types |-> types, optional |-> optional]

ParseField(parse, field, value) ==
  ZUnion([i \in DOMAIN field.types |-> parse[<<field.types[i], value>>]])

ParseShape(parse, shape, strict, value) ==
  IF value.t = "object"
  THEN LET given == Given(value.fields)
       IN  ZObject([k \in given \cap DOMAIN shape |->
                      ParseField(parse, shape[k], value.fields[k])], shape, strict, given)
  ELSE {}

ParseItems(parse, schema, value) ==
  IF value.t = "array"
  THEN ZArray([i \in DOMAIN value.items |->
                 IF Has(schema, "items") THEN parse[<<schema.items, value.items[i]>>]
                                         ELSE {value.items[i]}], schema)
  ELSE {}

-----------------------------------------------------------------------------
(* The conversion. *)

\* convertSchema throws: an unknown keyword, an empty enum or oneOf, no known type.
ThrowsGiven(throws, schema) ==
  \/ ~(DOMAIN schema \subseteq KnownKeys)
  \/ Form(schema) = "enum" /\ schema.enum = <<>>
  \/ /\ Form(schema) = "oneOf"
     /\ schema.oneOf = <<>> \/ \E i \in DOMAIN schema.oneOf : throws[schema.oneOf[i]]
  \/ Form(schema) = "object" /\ \E p \in ToSet(Properties(schema)) : throws[p.schema]
  \/ Form(schema) = "array" /\ Has(schema, "items") /\ throws[schema.items]
  \/ Form(schema) \notin ScalarTypes \cup {"const", "enum", "oneOf", "object", "array"}
ThrowsOf[s \in Nodes] == ThrowsGiven(ThrowsOf, s)
Throws(schema) == ThrowsOf[schema]

\* Mutant: no property is required.
OptionalShape(schema) == [k \in Keys(schema) |-> Field(<<Property(schema, k)>>, TRUE)]

ConvertObjectShape(schema) ==
  [k \in Keys(schema) |-> Field(<<Property(schema, k)>>, k \notin Required(schema))]

\* What convertSchema(schema) makes of a value, given what the schemas inside make of theirs.
ParseGiven(parse, schema, value) ==
  CASE Form(schema) = "const" -> ZLiterals({schema.const}, value)
    [] Form(schema) = "enum" -> ZLiterals(ToSet(schema.enum), value)
    [] Form(schema) = "oneOf" ->
         ZUnion([i \in DOMAIN schema.oneOf |-> parse[<<schema.oneOf[i], value>>]])
    [] Form(schema) = "object" ->
         ParseShape(parse, ConvertObjectShape(schema), IsStrict(schema), value)
    [] Form(schema) = "array" -> ParseItems(parse, schema, value)
    [] Form(schema) \in {"string", "boolean"} -> ZType(Form(schema), value)
    [] Form(schema) \in {"number", "integer"} ->
         ZNumber(Form(schema) = "integer", schema, value)
    [] OTHER -> {}
ParseOf[p \in Nodes \X Values] == ParseGiven(ParseOf, p[1], p[2])
Parse(schema, value) == ParseOf[<<schema, value>>]

\* findCommonConstDiscriminator: the first property of the first branch that every branch
\* declares as a const.
CommonConsts(branches) ==
  {i \in DOMAIN Properties(branches[1]) :
     LET key == Properties(branches[1])[i].key
     IN  \A b \in ToSet(branches) : key \in Keys(b) /\ Has(Property(b, key), "const")}
TagKeys(branches) ==
  IF CommonConsts(branches) = {} THEN {}
  ELSE {Properties(branches[1])[Min(CommonConsts(branches))].key}

\* Mutant: the properties of the first branch only.
FirstBranchShape(branches) == ConvertObjectShape(branches[1])

\* One raw shape for all the branches: the discriminator becomes an enum of its consts, every
\* other property optional, and a union where several branches declare it.
FlattenObjectOneOf(branches) ==
  LET declaring(k) == {i \in DOMAIN branches : k \in Keys(branches[i])}
  IN  [k \in UNION {Keys(b) : b \in ToSet(branches)} |->
         Field([i \in declaring(k) |-> Property(branches[i], k)], k \notin TagKeys(branches))]

AllObjectBranches(schema) ==
  \A b \in ToSet(schema.oneOf) : IsObject(b) /\ Has(b, "properties")

\* The values by which a branch of a discriminated union is found.
Tags(branch, key) ==
  {Property(branch, key).const} \cup (IF key \in Required(branch) THEN {} ELSE {Undefined})

\* z.discriminatedUnion throws when two branches have a tag in common.
TagsClash(branches) ==
  \E k \in TagKeys(branches), i, j \in DOMAIN branches :
    i # j /\ Tags(branches[i], k) \cap Tags(branches[j], k) # {}

ParseDiscriminated(branches, value) ==
  UNION {Parse(branches[i], value) :
           i \in {j \in DOMAIN branches :
                    /\ value.t = "object"
                    /\ \A k \in TagKeys(branches) : value.fields[k] \in Tags(branches[j], k)}}

\* MCP arguments are an object: any other input travels under the one key "input".
Wraps(schema) ==
  /\ schema # NullSchema
  /\ IF Has(schema, "oneOf") THEN ~AllObjectBranches(schema) ELSE ~IsObject(schema)

\* jsonSchemaToZod(schema).shape
RawShape(schema) ==
  CASE schema = NullSchema -> [k \in {} |-> Undefined]
    [] Wraps(schema) -> [k \in {"input"} |-> Field(<<schema>>, FALSE)]
    [] OTHER -> IF Has(schema, "oneOf") THEN FlattenObjectOneOf(schema.oneOf)
                                        ELSE ConvertObjectShape(schema)

\* jsonSchemaToZod(schema).full: what it makes of a value.
ParseFull(schema, value) ==
  CASE schema = NullSchema -> ZType("undefined", value)
    [] Wraps(schema) -> Parse(schema, value)
    [] OTHER ->
         IF ~Has(schema, "oneOf")
         THEN ParseShape(ParseOf, ConvertObjectShape(schema), IsStrict(schema), value)
         ELSE IF TagKeys(schema.oneOf) = {}
              THEN ZUnion([i \in DOMAIN schema.oneOf |-> Parse(schema.oneOf[i], value)])
              ELSE ParseDiscriminated(schema.oneOf, value)

\* jsonSchemaToZod throws.  At the top level oneOf comes first, and type before const.
ConversionThrows(schema) ==
  /\ schema # NullSchema
  /\ \/ ~(DOMAIN schema \subseteq KnownKeys)
     \/ Has(schema, "oneOf") /\ Len(schema.oneOf) < 2
     \/ /\ Has(schema, "oneOf") /\ AllObjectBranches(schema)
        /\ (\E b \in ToSet(schema.oneOf) : Throws(b)) \/ TagsClash(schema.oneOf)
     \/ /\ ~Has(schema, "oneOf") /\ IsObject(schema)
        /\ \E p \in ToSet(Properties(schema)) : Throws(p.schema)
     \/ Wraps(schema) /\ Throws(schema)

-----------------------------------------------------------------------------
(* What the schema itself says, independently of the conversion. *)

\* value satisfies schema: every keyword applies, and oneOf asks for some branch.
SatisfiesGiven(satisfies, schema, value) ==
  /\ schema = NullSchema => value = Undefined
  /\ Has(schema, "const") => value = schema.const
  /\ Has(schema, "enum") => value \in ToSet(schema.enum)
  /\ Has(schema, "oneOf") => \E b \in ToSet(schema.oneOf) : satisfies[<<b, value>>]
  /\ Has(schema, "type") /\ schema # NullSchema => OfType(schema.type, value)
  /\ value.t = "number" => Within(value.num, schema, "minimum", "maximum")
  /\ value.t = "array" =>
       /\ Within(Len(value.items), schema, "minItems", "maxItems")
       /\ Has(schema, "items") =>
            \A i \in DOMAIN value.items : satisfies[<<schema.items, value.items[i]>>]
  /\ value.t = "object" =>
       /\ Required(schema) \subseteq Given(value.fields)
       /\ IsStrict(schema) => Given(value.fields) \subseteq Keys(schema)
       /\ \A k \in Keys(schema) \cap Given(value.fields) :
            satisfies[<<Property(schema, k), value.fields[k]>>]
SatisfiesOf[p \in Nodes \X Values] == SatisfiesGiven(SatisfiesOf, p[1], p[2])
Satisfies(schema, value) == SatisfiesOf[<<schema, value>>]

\* Every object in the schema forbids undeclared keys, so that none is stripped.
ClosedGiven(closed, schema) ==
  /\ IsObject(schema) => IsStrict(schema)
  /\ \A sub \in SubSchemas(schema) : closed[sub]
ClosedOf[s \in Nodes] == ClosedGiven(ClosedOf, s)
Closed(schema) == ClosedOf[schema]

\* Every branch of a top-level oneOf requires its discriminator.
TagsRequired(schema) ==
  Has(schema, "oneOf") /\ schema.oneOf # <<>> /\ AllObjectBranches(schema) =>
    \A b \in ToSet(schema.oneOf) : TagKeys(schema.oneOf) \subseteq Required(b)
=============================================================================
