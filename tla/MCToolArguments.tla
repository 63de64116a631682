--------------------------- MODULE MCToolArguments ---------------------------
(***************************************************************************)
(* Schemas of every form, and the values their arguments may take, for     *)
(* TLC.  The texts are those of two symbols; "mode" takes only one-symbol  *)
(* texts.  A numeral, a boolean, the comma and "[object Object]" are one   *)
(* symbol each.  Nodes and Depth are computed from the schemas.            *)
(***************************************************************************)
EXTENDS ToolArguments

LOCAL Fun == INSTANCE Functions

A == <<"a">>
B == <<"b">>

MCNames ==
  {"input", "key", "mode", "password", "extra"}
    \cup UNION {Arguments(c) \cup Fun!Range(c.renamed) : c \in Tools}
\* Numbers are counted in halves, and so are numerals.
Numerals == {ToString(n) : n \in 0..4}
MCSymbols ==
  {"a", "b", Marker, "true", "false", ",", "[object Object]"} \cup Numerals
    \cup UNION {Arguments(c) \cup DOMAIN c.actions : c \in Tools}

MCWords == SeqOf({"a", "b"}, 2)
MCTexts == MCWords \cup {<<"2">>, <<"a", ",", "b">>}
MCSecretNames == {"key", "password", "appKey", "secret"}

Of(type) == [type |-> type]
Const(s) == [const |-> Str(s)]
OneOf(branches) == [oneOf |-> branches]
Prop(key, schema) == [key |-> key, schema |-> schema]
Open(properties, required) ==
  [type |-> "object", properties |-> properties, required |-> required]
Strict(properties, required) ==
  [type |-> "object", properties |-> properties, required |-> required,
   additionalProperties |-> FALSE]

Mode(s) == Prop("mode", Const(s))
KeyString == Prop("key", Of("string"))
Percent == [type |-> "integer", minimum |-> 0, maximum |-> 2]
Several == [type |-> "array", items |-> Of("string"), minItems |-> 1, maxItems |-> 2]

ScalarSchemas ==
  {Of("string"), Of("boolean"), [type |-> "number", minimum |-> 1], Percent, Const(A),
   [enum |-> <<Str(A), Str(B)>>], [enum |-> <<Str(A), Num(2), Bool(TRUE)>>]}

Arrays ==
  {Several, Of("array"), [type |-> "array", items |-> Strict(<<KeyString>>, {"key"})]}

\* The conversion refuses each of these.
Broken ==
  {Of("tuple"), [description |-> "a type is missing"], [enum |-> <<>>], OneOf(<<>>),
   OneOf(<<Of("string")>>), [type |-> "string", pattern |-> "a keyword it does not know"],
   Strict(<<Prop("key", OneOf(<<>>))>>, {}),
   OneOf(<<Strict(<<Mode(A)>>, {"mode"}), Strict(<<Mode(A), KeyString>>, {"mode"})>>),
   OneOf(<<Strict(<<Mode(A)>>, {}), Strict(<<Mode(B), KeyString>>, {})>>)}

Objects ==
  {Strict(<<>>, {}), Open(<<KeyString>>, {}), Open(<<KeyString>>, {"key"}),
   Strict(<<KeyString, Prop("mode", [enum |-> <<Str(A), Str(B)>>])>>, {"key"}),
   Strict(<<KeyString, Prop("password", Of("string"))>>, {"key"}),
   Strict(<<Prop("key", Percent), Prop("mode", Of("boolean"))>>, {"key"}),
   Strict(<<Prop("key", OneOf(<<Of("string"), Percent>>))>>, {"key"}),
   Strict(<<Prop("key", OneOf(<<Strict(<<Mode(A)>>, {"mode"}), Const(B)>>)), Mode(A)>>, {}),
   Strict(<<Prop("key", Several), Mode(A)>>, {"mode"})}

Unions ==
  {OneOf(<<Strict(<<Mode(A)>>, {"mode"}), Strict(<<Mode(B), KeyString>>, {"mode", "key"})>>),
   OneOf(<<Strict(<<Mode(A), Prop("key", Percent)>>, {"mode", "key"}),
           Strict(<<Mode(B), KeyString>>, {"mode"})>>),
   OneOf(<<Strict(<<Mode(A), Prop("key", Several)>>, {"mode", "key"}),
           Strict(<<Mode(B), KeyString>>, {"mode"})>>),
   OneOf(<<Strict(<<Mode(A), KeyString>>, {}), Strict(<<Mode(B), KeyString>>, {"mode"})>>),
   OneOf(<<Strict(<<KeyString>>, {"key"}), Strict(<<Prop("password", Of("string"))>>, {})>>),
   OneOf(<<Strict(<<KeyString>>, {"key"}),
           Strict(<<KeyString, Prop("password", Of("string"))>>, {"key", "password"})>>),
   OneOf(<<Open(<<KeyString>>, {"key"}), Open(<<Mode(A)>>, {"mode"})>>),
   OneOf(<<Const(A), Const(B), Strict(<<KeyString>>, {"key"})>>),
   OneOf(<<OneOf(<<Const(A), Percent>>), Several>>)}

MCSchemas == {NullSchema} \cup ScalarSchemas \cup Arrays \cup Broken \cup Objects \cup Unions

\* Values that stand in another one, and more of the texts.
Small == {Str(A), Str(B), Num(2), Num(3), Bool(TRUE), Arr(<<Str(A)>>)}
Words == {Str(s) : s \in MCWords}

MCInputs ==
  Small \cup {Str(<<>>), Str(<<Marker>>), Num(0), Num(4), Arr(<<>>), Arr(<<Str(A), Str(B)>>),
              Arr(<<Num(2)>>), Arr(<<Str(A), Str(A), Str(A)>>)}
  \cup UNION {{Obj(f) : f \in [keys -> Small]} :
                keys \in {{}, {"key"}, {"mode"}, {"key", "mode"}}}
  \cup {Obj(f) : f \in [{"key", "password"} -> Words]}
  \cup {Obj([k \in {"key", "mode"} |-> IF k = "key" THEN EmptyObject ELSE Str(A)]),
        Obj([k \in {"key", "mode"} |-> IF k = "key" THEN Arr(<<Str(A), Str(B)>>) ELSE Str(A)]),
        Obj([k \in {"key", "extra"} |-> Str(B)]),
        Arr(<<Obj([k \in {"key"} |-> Str(B)])>>),
        Obj([k \in {"key"} |-> Obj([m \in {"mode"} |-> Str(A)])])}

-----------------------------------------------------------------------------

\* The elements of a set, in some fixed order.
Listed(set) == FoldSet(LAMBDA e, s : Append(s, e), <<>>, set)

Branch(c, action) ==
  LET all == ArgumentsOf(c, action)
  IN  Strict(<<Prop(c.choice, Const(<<action>>))>>
               \o [i \in 1..Cardinality(all) |->
                     Prop(InputKey(c, Listed(all)[i]), Of("string"))],
             {c.choice} \cup {InputKey(c, n) : n \in c.always \cup c.actions[action].needs})
MCSdkSchema ==
  [c \in Tools |-> LET actions == Listed(DOMAIN c.actions)
                   IN  OneOf([i \in DOMAIN actions |-> Branch(c, actions[i])])]

RECURSIVE WithInner(_), DepthOf(_), StringValue(_), FramesOf(_)

WithInner(schemas) ==
  IF schemas = {} THEN {}
  ELSE schemas \cup WithInner(UNION {SubSchemas(s) : s \in schemas})
MCNodes == WithInner(MCSchemas \cup Fun!Range(MCSdkSchema))

DepthOf(schema) ==
  IF SubSchemas(schema) = {} THEN 0 ELSE 1 + Max({DepthOf(s) : s \in SubSchemas(schema)})
MCDepth == [s \in MCNodes |-> DepthOf(s)]

\* JavaScript's String: an array joins its elements, an object says only that it is one.
StringValue(value) ==
  CASE value.t = "string" -> value.str
    [] value.t = "number" -> <<ToString(value.num)>>
    [] value.t = "boolean" -> <<IF value.bool THEN "true" ELSE "false">>
    [] value.t = "array" ->
         FlattenSeq([i \in DOMAIN value.items |->
                       (IF i = 1 THEN <<>> ELSE <<",">>) \o StringValue(value.items[i])])
    [] value.t = "object" -> <<"[object Object]">>
    [] OTHER -> <<>>

\* The texts of the input one after the other; what an object holds is among them.
FramesOf(value) ==
  CASE value.t = "object" ->
         LET keys == Listed(Given(value.fields))
         IN  FlattenSeq([i \in DOMAIN keys |-> FramesOf(value.fields[keys[i]])])
    [] value.t = "array" /\ \E i \in DOMAIN value.items : value.items[i].t = "object" ->
         FlattenSeq([i \in DOMAIN value.items |-> FramesOf(value.items[i])])
    [] OTHER -> StringValue(value)
=============================================================================
