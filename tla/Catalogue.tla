------------------------------ MODULE Catalogue ------------------------------
(***************************************************************************)
(* From the SDK's operations and the curated tools to the tools a server   *)
(* offers, and what becomes of their calls (src/src/sdk/operation-index.ts,*)
(* void-operation-index.ts, src/src/commands/registry, tool-policy.ts,     *)
(* read-allowlist.ts, build.ts, src/src/config.ts).                        *)
(*                                                                         *)
(* The catalogue is built when the modules load, the configuration is read *)
(* and checked, the enabled tools are registered; then they are called.    *)
(* A tool renders one of its forms, a command line; args says whether it   *)
(* has none, enumerable (enum, literal, host) or free arguments.  A tool   *)
(* made by S that is not marked partial is taken at its word: it has all   *)
(* the forms of its operation.                                             *)
(***************************************************************************)
EXTENDS Naturals, Sequences, SequencesExt

CONSTANTS
  Operations,  \* the SDK's operations, in the order walkOperations finds them
  Sorted,      \* the same by manifestId
  Names,       \* the names of tools
  Forms,       \* the command lines
  Sdks,        \* what the SDK may say of them: class, name, forms, void
  Curations,   \* the sequences of curated tools
  Envs,        \* the environments
  Released,    \* RELEASED_GENERATED_TOOL_IDS, None for the others
  Dual,        \* ids WRITE_POLICY marks dual
  Unlinked,    \* SDK_VOID_BINDING_EXCLUSIONS
  Forbidden,   \* commands isForbidden refuses
  None

Ops == ToSet(Operations)

\* A name may have the prefix sdk_.
ToolId == [base : Names, sdk : BOOLEAN]
Arguments == {"none", "enum", "free"}
Tool ==
  [id : ToolId, kind : {"read", "write"}, args : Arguments, forms : SUBSET Forms,
   op : Ops \cup {None}, partial : BOOLEAN]

\* void: the one line that buildFrames(undefined) gives, also where all the arguments are
\* optional; None if it throws or does not give just one.
Sdk ==
  [class : [Ops -> {"read", "write", "destructive"}], name : [Ops -> ToolId],
   forms : [Ops -> SUBSET Forms], args : [Ops -> Arguments],
   void : [Ops -> Forms \cup {None}]]
Env ==
  [readOnly : BOOLEAN, key : BOOLEAN, verified : BOOLEAN,
   expose : {"", "all", "readonly", "list"}, ids : SUBSET ToolId, disabled : SUBSET ToolId]

\* A tool with the confirm tier the policy gives it.
Entry == [tool : Tool, confirm : {"auto", "confirm", "dual"}]

ASSUME CatalogueAssumption ==
  /\ Operations \in Seq(Ops) /\ Sorted \in Seq(Ops) /\ ToSet(Sorted) = Ops
  /\ None \notin Ops \cup Forms
  /\ Sdks \subseteq Sdk
  /\ \A s \in Sdks, op \in Ops : s.void[op] \in s.forms[op] \cup {None}
  /\ Curations \subseteq Seq(Tool)
  /\ Envs \subseteq Env
  /\ Released \in [Ops -> ToolId \cup {None}]

VARIABLES
  sdk,        \* the operations' classification, tool name, forms and arguments
  curated,    \* CURATED_REGISTRY
  env,        \* process.env
  catalogue,  \* ALL_COMMANDS
  tools,      \* the tools registered
  stage,      \* how far the process is
  calls       \* the calls made, with their outcome

vars == <<sdk, curated, env, catalogue, tools, stage, calls>>

Stages == {"start", "loaded", "configured", "serving", "failed"}

Init ==
  /\ sdk \in Sdks
  /\ curated \in Curations
  /\ env \in Envs
  /\ catalogue = <<>>
  /\ tools = {}
  /\ stage = "start"
  /\ calls = {}

-----------------------------------------------------------------------------
(* The registry *)

\* voidOperationForCommand: the first operation that gives form for no input.
VoidOperation(form) ==
  LET void == {i \in DOMAIN Operations : sdk.void[Operations[i]] = form}
  IN  IF void = {} THEN None ELSE Operations[Min(void)]

\* A tool without arguments whose rendering throws.
Unrenderable(tool) == tool.args = "none" /\ tool.forms = {}

\* attachSdkVoidBindings for one tool; it keeps its arguments and its form.
Linked(tool) ==
  IF tool.op # None \/ tool.id \in Unlinked \/ tool.args # "none" \/ Unrenderable(tool)
  THEN tool
  ELSE [tool EXCEPT !.op = VoidOperation(CHOOSE form \in tool.forms : TRUE)]

\* S: a tool made from an operation.
SdkTool(id, op) ==
  [id |-> id, kind |-> IF sdk.class[op] = "read" THEN "read" ELSE "write",
   args |-> sdk.args[op], forms |-> sdk.forms[op], op |-> op, partial |-> FALSE]

\* A curated tool is raw, or made by S; a partial one has arguments of its own, and what
\* they render is checked by the operation's schema.
Declared(tool) ==
  IF tool.op = None THEN tool
  ELSE LET whole == SdkTool(tool.id, tool.op)
       IN  IF tool.partial
           THEN [whole EXCEPT !.partial = TRUE, !.args = tool.args,
                              !.forms = @ \cap tool.forms]
           ELSE whole

LinkedCurated == [i \in DOMAIN curated |-> Linked(Declared(curated[i]))]

Prefixed(id) == [id EXCEPT !.sdk = TRUE]

\* collectCoveredManifestIds
CoveredAtAll(family) == {family[i].op : i \in DOMAIN family}
Covered(family) ==
  {family[i].op : i \in {j \in DOMAIN family : ~family[j].partial}} \ {None}

\* buildSdkGeneratedFamily: a tool for each operation no curated tool covers; a name
\* that is taken gets a prefix, a released one must be free.
AddGenerated(family, acc, op) ==
  IF op \in Covered(family) /\ Released[op] = None THEN acc
  ELSE LET wanted == IF Released[op] = None THEN sdk.name[op] ELSE Released[op]
           taken == wanted \in acc.used
           id == IF taken THEN Prefixed(wanted) ELSE wanted
       IN  [used |-> acc.used \cup {id},
            tools |-> Append(acc.tools, SdkTool(id, op)),
            clash |-> acc.clash \/ (taken /\ Released[op] # None)]
NoneGenerated(family) ==
  [used |-> {family[i].id : i \in DOMAIN family}, tools |-> <<>>, clash |-> FALSE]
Generated(family) ==
  FoldLeft(LAMBDA acc, op : AddGenerated(family, acc, op), NoneGenerated(family), Sorted)

\* resolveConfirmTier
TierByPolicy(tool) ==
  IF tool.kind = "read" THEN "auto" ELSE IF tool.id \in Dual THEN "dual" ELSE "confirm"
Tier(tool) ==
  IF tool.kind = "read" THEN "auto"
  ELSE IF tool.id \in Dual \/ (tool.op # None /\ sdk.class[tool.op] = "destructive")
       THEN "dual" ELSE "confirm"

\* applyToolPolicy
WithPolicy(tool) == [tool |-> tool, confirm |-> Tier(tool)]

ReadCommands == {tool \in {catalogue[i].tool : i \in DOMAIN catalogue} : tool.kind = "read"}

\* READ_EXACT and HOST_ARG_MATCHERS
ExactOfPlain == UNION {tool.forms : tool \in {t \in ReadCommands : t.args = "none"}}
ReadExact == UNION {tool.forms : tool \in {t \in ReadCommands : t.args # "free"}}

\* A read tool with free arguments and no operation cannot be allowed for, nor one that
\* does not render: the allowlist throws.
Inexpandable(tool) ==
  tool.kind = "read" /\ ((tool.args = "free" /\ tool.op = None) \/ Unrenderable(tool))

Load ==
  /\ stage = "start"
  /\ LET family == LinkedCurated
         all == family \o Generated(family).tools
     IN  IF Generated(family).clash \/ \E i \in DOMAIN all : Inexpandable(all[i])
         THEN stage' = "failed" /\ UNCHANGED catalogue
         ELSE /\ stage' = "loaded"
              /\ catalogue' = [i \in DOMAIN all |-> WithPolicy(all[i])]
  /\ UNCHANGED <<sdk, curated, env, tools, calls>>

-----------------------------------------------------------------------------
(* Configuration and registration *)

\* loadConfig refuses writes without a key and an unverified host.
Configure ==
  /\ stage = "loaded"
  /\ stage' = IF (env.readOnly \/ env.key) /\ env.verified THEN "configured" ELSE "failed"
  /\ UNCHANGED <<sdk, curated, env, catalogue, tools, calls>>

\* resolveExposeTools: the ids of the reads unless it says otherwise.
Exposed(tool) ==
  CASE env.expose = "all" -> TRUE
    [] env.expose \in {"", "readonly"} -> tool.kind = "read"
    [] env.expose = "list" -> tool.id \in env.ids

\* isToolEnabled
Enabled(entry) ==
  /\ Exposed(entry.tool)
  /\ entry.tool.id \notin env.disabled
  /\ ~(env.readOnly /\ entry.tool.kind = "write")

\* registerAllTools; the MCP server refuses a second tool of one id.
RegisterOver ==
  /\ stage = "configured"
  /\ stage' = "serving"
  /\ tools' = {catalogue[i] : i \in {j \in DOMAIN catalogue : Enabled(catalogue[j])}}
  /\ UNCHANGED <<sdk, curated, env, catalogue, calls>>
Register ==
  /\ stage = "configured"
  /\ LET enabled == {i \in DOMAIN catalogue : Enabled(catalogue[i])}
     IN  IF \E i, j \in enabled : i # j /\ catalogue[i].tool.id = catalogue[j].tool.id
         THEN stage' = "failed" /\ UNCHANGED tools
         ELSE stage' = "serving" /\ tools' = {catalogue[i] : i \in enabled}
  /\ UNCHANGED <<sdk, curated, env, catalogue, calls>>

-----------------------------------------------------------------------------
(* Calls *)

\* runOperation for a tool that has an operation, runCommand for the others.
ReadRuns(tool, form) ==
  /\ form \notin Forbidden
  /\ IF tool.op # None THEN sdk.class[tool.op] = "read" ELSE form \in ReadExact

\* executeWrite with an approval, which no gate without a key accepts, then
\* runWriteOperation or runWriteCommand.
WriteRuns(entry, form, acknowledge) ==
  /\ env.key
  /\ entry.confirm = "dual" => acknowledge
  /\ entry.tool.op # None => sdk.class[entry.tool.op] # "read"
  /\ form \notin Forbidden
  /\ ~env.readOnly

Call(entry, form, acknowledge) ==
  /\ stage = "serving" /\ calls = {}
  /\ calls' = {[entry |-> entry, form |-> form, acknowledge |-> acknowledge,
                sent |-> IF entry.tool.kind = "read" THEN ReadRuns(entry.tool, form)
                         ELSE WriteRuns(entry, form, acknowledge)]}
  /\ UNCHANGED <<sdk, curated, env, catalogue, tools, stage>>

Next ==
  \/ Load \/ Configure \/ Register
  \/ \E entry \in tools : \E form \in entry.tool.forms, acknowledge \in BOOLEAN :
       Call(entry, form, acknowledge)

Spec == Init /\ [][Next]_vars

-----------------------------------------------------------------------------
(* Properties *)

\* The types; what is registered is in the catalogue, and an id names one tool.
CatalogueTypeOK ==
  /\ sdk \in Sdk /\ curated \in Seq(Tool) /\ env \in Env
  /\ stage \in Stages
  /\ catalogue \in Seq(Entry)
  /\ tools \subseteq {catalogue[i] : i \in DOMAIN catalogue}
  /\ calls \subseteq
       [entry : tools, form : Forms, acknowledge : BOOLEAN, sent : BOOLEAN]
  /\ \A e, f \in tools : e.tool.id = f.tool.id => e = f

\* "runOperation invokes a typed SDK operation classified read only": what runs as a read is
\* one, and a destructive operation that runs has been acknowledged, whether the catalogue,
\* the linking by command line or the generator brought the tool to it.
WritesAreApproved ==
  \A call \in calls : call.sent /\ call.entry.tool.op # None =>
    LET class == sdk.class[call.entry.tool.op]
    IN  /\ call.entry.tool.kind = "read" => class = "read"
        /\ class = "destructive" => call.acknowledge

\* "Partial bindings do not suppress the generated tool, so every variant stays
\* reachable": each line that an operation can give is a form of one of its tools.
\* Excepted is an operation to which the loader has linked a tool by its command line: such
\* a tool counts as whole although it has that line only, so that the lines the operation's
\* optional arguments would give may have no tool.
LinkedByLine(op) ==
  \E i \in DOMAIN curated : curated[i].op = None /\ LinkedCurated[i].op = op
EveryOperationHasTool ==
  stage \in {"loaded", "configured", "serving"} =>
    \A op \in Ops : \A form \in sdk.forms[op] :
      \/ LinkedByLine(op) /\ form # sdk.void[op]
      \/ \E i \in DOMAIN catalogue :
           catalogue[i].tool.op = op /\ form \in catalogue[i].tool.forms

\* A tool that is offered works: the client's allowlist, built apart from the tools, lets a
\* read through, and no configuration offers a write that nothing can release once it is
\* approved and, where its tier asks for it, acknowledged.  Excepted are tools linked to an
\* operation of the other class.
ToolsRun ==
  \A call \in calls :
    ~call.sent /\ (call.entry.tool.kind = "read" \/ call.acknowledge) =>
      \/ call.form \in Forbidden
      \/ /\ call.entry.tool.op # None
         /\ (call.entry.tool.kind = "read") # (sdk.class[call.entry.tool.op] = "read")
=============================================================================
