---------------------------- MODULE ToolArguments ----------------------------
(***************************************************************************)
(* One call of one tool, from its MCP arguments to the command that a      *)
(* human approves: the validators built from the SDK schema, toInput and   *)
(* validate (src/src/commands/registry/builders.ts S,                      *)
(* src/src/commands/sdk-invoke.ts), the redacted preview                   *)
(* (src/src/commands/write-executor.ts prepareWrite) and the re-entry of   *)
(* what was redacted (src/tools/approve.mjs).                              *)
(*                                                                         *)
(* A generated tool takes its arguments from its schema.  A curated tool   *)
(* is one of ActionTools: its arguments and toInput are its own, and its   *)
(* operation's schema has one closed branch for each action.               *)
(***************************************************************************)
EXTENDS Redaction, ActionTools

CONSTANTS
  Schemas,     \* schemas of the operations that get a generated tool
  SdkSchema,   \* SdkSchema[c]: the schema of the operation of curated tool c
  Frames(_),   \* buildFrames of the SDK: the text of an input, a sequence of symbols
  Inputs,      \* values that callers of generated tools want to send
  Texts        \* what a human may type for a redacted field

VARIABLES
  tool,     \* the tool called: [generated, schema] or [generated, curated]
  phase,    \* how far the call has come
  args,     \* its MCP arguments: the fields of an object
  input,    \* the value that reaches the SDK
  command,  \* the rendered command, a sequence of symbols
  view,     \* what is previewed: [preview, fields]
  entered   \* what the human typed, by field

vars == <<tool, phase, args, input, command, view, entered>>

AllTools ==
  [generated : {TRUE}, schema : Schemas] \cup [generated : {FALSE}, curated : Tools]

NoFields == [k \in Names |-> Undefined]
NoView == [preview |-> <<>>, fields |-> <<>>]

Arguments(c) == {c.choice} \cup c.always \cup c.optional

\* The arguments that an action of a curated tool has a use for.
ArgumentsOf(c, action) == c.always \cup c.actions[action].needs \cup c.actions[action].takes

\* A branch of the operation's schema: a closed object for the action.
IsBranchOf(branch, c, action) ==
  /\ branch \in Nodes /\ IsObject(branch) /\ IsStrict(branch)
  /\ DOMAIN branch = {"type", "properties", "required", "additionalProperties"}
  /\ Keys(branch) = {c.choice} \cup {InputKey(c, n) : n \in ArgumentsOf(c, action)}
  /\ Required(branch) =
       {c.choice} \cup {InputKey(c, n) : n \in c.always \cup c.actions[action].needs}
  /\ \A k \in Keys(branch) :
       Property(branch, k) = IF k = c.choice THEN [const |-> Str(<<action>>)]
                                             ELSE [type |-> "string"]

ASSUME ToolAssumption ==
  /\ Schemas \subseteq Nodes
  /\ Inputs \subseteq ValuesTo[MaxDepth - 1]
  /\ \A c \in Tools :
       /\ Arguments(c) \subseteq Names /\ ToSet(c.secrets) \subseteq Names
       /\ \A a \in DOMAIN c.renamed : c.renamed[a] \in Names
       /\ DOMAIN c.actions \cup Arguments(c) \subseteq Symbols \ {Marker}
       /\ SdkSchema[c] \in Nodes
       /\ DOMAIN SdkSchema[c] = {"oneOf"}
       /\ \A b \in ToSet(SdkSchema[c].oneOf) : \E a \in DOMAIN c.actions : IsBranchOf(b, c, a)
       /\ \A a \in DOMAIN c.actions : \E b \in ToSet(SdkSchema[c].oneOf) : IsBranchOf(b, c, a)

SchemaOf(t) == IF t.generated THEN t.schema ELSE SdkSchema[t.curated]

\* server.tool validates the arguments with cmd.args: an object that is not strict.  Those of
\* a curated tool are the choice, a literal, and texts.
AcceptsArguments(c, given) ==
  /\ given[c.choice] \in {Str(<<a>>) : a \in DOMAIN c.actions}
  /\ \A k \in c.always : given[k].t = "string"
  /\ \A k \in c.optional : given[k].t \in {"string", "undefined"}

\* What the handler receives, as a set: empty when the server rejects the arguments.
Received(t, given) ==
  IF t.generated
  THEN ParseShape(ParseOf, RawShape(t.schema), FALSE, Obj(given))
  ELSE {v \in {Obj([k \in Arguments(t.curated) |-> given[k]])} :
          AcceptsArguments(t.curated, given)}

\* defaultToInput: a call without arguments invokes with undefined.
DefaultToInput(fields) == IF Given(fields) = {} THEN Undefined ELSE Obj(fields)

\* toInput: the set of its results, empty when it throws.
ToInput(t, fields) ==
  IF t.generated
  THEN {IF Wraps(t.schema) THEN fields["input"] ELSE DefaultToInput(fields)}
  ELSE LET c == t.curated
           action == Head(fields[c.choice].str)
           picked == Picked(c, action, Given(fields))
       IN  IF ToInputThrows(c, action, Given(fields)) THEN {}
           ELSE {Obj([k \in {c.choice} \cup {InputKey(c, a) : a \in picked} |->
                        IF k = c.choice THEN fields[k]
                        ELSE fields[CHOOSE a \in picked : InputKey(c, a) = k]])}

\* validate: full.safeParse, whose failure throws.
Validate(t, value) == ParseFull(SchemaOf(t), value)

SdkInputs(t, fields) == UNION {Validate(t, value) : value \in ToInput(t, fields)}

\* secretArgs: those the schema declares, then those the policy lists.
SecretArgs(t) ==
  LET declared == DeclaredSecrets(SchemaOf(t))
      wrapped == declared # <<>> /\ Wraps(SchemaOf(t))
  IN  (IF wrapped THEN <<"input">> ELSE declared)
        \o (IF t.generated THEN <<>> ELSE t.curated.secrets)

-----------------------------------------------------------------------------

Init ==
  /\ tool \in AllTools
  /\ phase = "loading"
  /\ args = NoFields
  /\ input = Undefined
  /\ command = <<>>
  /\ view = NoView
  /\ entered = [f \in {} |-> <<>>]

\* The registry is built when its module loads; a schema it cannot convert stops that.
Load ==
  /\ phase = "loading"
  /\ phase' = IF ConversionThrows(SchemaOf(tool)) THEN "unloadable" ELSE "ready"
  /\ UNCHANGED <<tool, args, input, command, view, entered>>

\* The optional arguments given to a curated tool: what the action needs, one argument more
\* or less, or all of them.
OptionalGiven(c, action) ==
  LET needs == c.actions[action].needs
  IN  {needs, c.optional} \cup {needs \ {a} : a \in needs} \cup {needs \cup {a} : a \in c.optional}

\* The arguments that calls are made with.  For a generated tool: what expresses an input,
\* as it is if it is an object, and under the key "input".
Calls(t) ==
  IF t.generated
  THEN {NoFields} \cup {v.fields : v \in {w \in Inputs : w.t = "object"}}
         \cup {[NoFields EXCEPT !["input"] = v] : v \in Inputs}
  ELSE LET c == t.curated
           call(action, given) == [k \in Names |->
             CASE k = c.choice -> Str(<<action>>)
               [] k \in c.always \cup given -> Str(<<k>>)
               [] OTHER -> Undefined]
       IN  UNION {{call(action, given) : given \in OptionalGiven(c, action)} :
                    action \in DOMAIN c.actions}

\* The MCP server rejects the arguments.
Reject ==
  /\ phase = "ready"
  /\ \E given \in Calls(tool) :
       /\ Received(tool, given) = {}
       /\ args' = given
  /\ phase' = "rejected"
  /\ UNCHANGED <<tool, input, command, view, entered>>

\* toInput or validate throws, or the command holds the reserved marker.
Refuse ==
  /\ phase = "ready"
  /\ \E given \in Calls(tool) : \E received \in Received(tool, given) :
       /\ \A value \in SdkInputs(tool, received.fields) : RedactThrows(Frames(value))
       /\ args' = given
  /\ phase' = "refused"
  /\ UNCHANGED <<tool, input, command, view, entered>>

Preview ==
  /\ phase = "ready"
  /\ \E given \in Calls(tool) : \E received \in Received(tool, given) :
       \E value \in SdkInputs(tool, received.fields) :
         /\ ~RedactThrows(Frames(value))
         /\ args' = given
         /\ input' = value
         /\ command' = Frames(value)
         /\ view' = RedactCommand(Frames(value), received.fields, SecretArgs(tool))
  /\ phase' = "previewed"
  /\ UNCHANGED <<tool, entered>>

\* approve.mjs asks for each redacted field, and signs if the command comes out the same.
Reenter ==
  /\ phase = "previewed"
  /\ \E values \in [ToSet(view.fields) -> Texts] :
       /\ entered' = values
       /\ phase' = IF VerifyReentry(view, command, values) THEN "signed" ELSE "mismatch"
  /\ UNCHANGED <<tool, args, input, command, view>>

Next == Load \/ Reject \/ Refuse \/ Preview \/ Reenter

Spec == Init /\ [][Next]_vars

-----------------------------------------------------------------------------

Accepted == phase \in {"previewed", "signed", "mismatch"}
Answered == Accepted \/ phase \in {"rejected", "refused"}

\* Types; there is a preview exactly of an accepted call, and the fields to re-enter
\* (PendingIntentView.redactedFields) are those whose placeholder the preview holds.
ArgumentsTypeOK ==
  /\ tool \in AllTools
  /\ phase \in {"loading", "unloadable", "ready", "rejected", "refused", "previewed",
                "signed", "mismatch"}
  /\ ~Accepted => (input = Undefined /\ command = <<>> /\ view = NoView)
  /\ ~Answered => args = NoFields
  /\ IsInjective(view.fields)
  /\ ToSet(view.fields) = {k \in Names : Placeholder(k) \in ToSet(view.preview)}
  /\ DOMAIN entered \subseteq ToSet(view.fields)

\* What reaches the SDK satisfies the operation's schema: the comment on ConvertedSchema
\* (schema-to-zod.ts:164) has "Strict ZodType used to validate the exact typed input
\* before sdk.invoke()".  The validators, the flat arguments and toInput are three views
\* of one schema, and oneOf is read as "some branch".
InputSatisfiesSchema == Accepted => Satisfies(SchemaOf(tool), input)

\* The input that the arguments of a generated tool express.
Expressed ==
  CASE Wraps(tool.schema) -> args["input"]
    [] tool.schema = NullSchema /\ Given(args) = {} -> Undefined
    [] OTHER -> Obj(args)

\* Every valid input of a generated tool has MCP arguments that bring it to the SDK
\* unchanged: neither the flat shape, nor the stripping of keys, nor the first match of a
\* union is in its way.  There are three exceptions: an object without fields
\* (sdk-invoke.ts:5 makes it undefined), objects that allow undeclared keys (they are
\* stripped) and a discriminator that a branch does not require (the flat shape does).
\* And a curated tool accepts a call with all its arguments, whatever the action: each has
\* its case in toInput, which needs nothing that the server strips as undeclared.
ValidInputArrives ==
  /\ (/\ tool.generated
      /\ Answered
      /\ Closed(tool.schema)
      /\ TagsRequired(tool.schema)
      /\ Satisfies(tool.schema, Expressed)
      /\ Expressed # EmptyObject
      /\ ~RedactThrows(Frames(Expressed)))
     => Accepted /\ input = Expressed
  /\ (~tool.generated /\ Answered /\ tool.curated.optional \subseteq Given(args))
     => Accepted

\* A preview shows no secret argument outside a placeholder, and the longest secret of a
\* command is asked again as a whole, not as a part that another one happens to be
\* (redaction.test.ts "round-trips random secrets including overlapping values").  A secret
\* is String of an argument: nothing else is hidden, so that a command with none of these
\* texts is shown as it is.  In particular a password inside a wrapped "input" object is
\* shown, as its String is "[object Object]" (redaction.ts:20), although
\* builders-secret.test.ts:29 calls that "redacts the whole input wrapper".
PreviewHidesSecrets ==
  Accepted =>
    \A received \in Received(tool, args) :
      LET secrets == PresentSecrets(received.fields, SecretArgs(tool))
          text(i) == SecretText(received.fields, SecretArgs(tool), i)
      IN  /\ \A i \in secrets :
               /\ ~Occurs(text(i), view.preview)
               /\ (/\ Occurs(text(i), command)
                   /\ \A other \in secrets \ {i} : Len(text(other)) < Len(text(i)))
                  => SecretArgs(tool)[i] \in ToSet(view.fields)
          /\ (\A i \in secrets : ~Occurs(text(i), command)) => view.preview = command

\* A human who types the texts of the secrets that the tool received is not turned away,
\* however they overlap, repeat or adjoin.
ReentryAccepted ==
  phase = "mismatch" =>
    \A received \in Received(tool, args) :
      \E f \in DOMAIN entered : entered[f] # TextOf(received.fields[f])
=============================================================================
