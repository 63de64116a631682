# A verification development for vigor3912s-mcp

vigor3912s-mcp is an MCP server over standard input and output that lets an
assistant read and change a DrayTek Vigor3912S router through its command line.
Reads go straight to the router; every write needs a preview, an Ed25519
signature by a human over that preview, and a second call that brings the
signature back. This directory holds TLA+ models of the server, TLC
configurations that check them on small instances, and TLAPS proofs.

Paths below are relative to the repository's `src/` unless they name a document.

## The system

| component | state | operations | what makes it correct |
|---|---|---|---|
| confirmation gate `tools/confirm-gate.ts` | map of pending intents, map of used ids, pending file, promise chain | `create`, `consumeSigned`, `prune`, `persist`, `runExclusive` | an approval releases one write, the one signed, in time; nothing unexpired is lost |
| approval crypto `tools/approve-crypto.ts` | none | digest, sign, verify | a signature stands for one payload |
| `tools/approve.mjs` (run by the human) | reads the pending file | sign a listed intent, sign a payload blindly | signs what it showed |
| write executor `commands/write-executor.ts` | per call: snapshots, approval, timing | `executeWrite`: prepare, preview, verify, snapshot, write, snapshot, commit, record | one write at a time; answer and rows tell the truth about the router |
| tool logging `commands/tool-log.ts`, log store `db/log.ts` | two SQLite tables, prepared statements | open and migrate, insert a request row, insert an audit row, close | one audit row per released write, linked to its own request; no failure of the log stops a call |
| client facade `ssh/sdk-vigor-client.ts` | current session, one-shot authorization, closed flag | `runCommand`, `authorizeWrite`, `runWriteCommand`, `runOperation`, `runWriteOperation`, `disconnect` | a write goes out once per authorization; a failed session is replaced |
| transport `ssh/ssh-client-transport.ts` | open flag, last timing | `ensureConnected`, `send`, `close` | the timing is that of the last command |
| tool registration `commands/build.ts` | none | one handler per exposed tool | a disabled or read-only configuration exposes no write |
| bootstrap `index.ts`, `config.ts` | configuration | build, shut down | a write-enabled server has a public key |
| policy and catalogue `commands/tool-policy.ts`, `commands/registry/`, `sdk/*-index.ts` | frozen tables | link, generate and classify tools | every operation has a tool, destructive ones are dual-confirmed |
| read allowlist `commands/read-allowlist.ts` | table built at start | a predicate on command lines | it lets through what the read tools render |
| arguments `commands/registry/builders.ts`, `commands/registry/families/`, `sdk/schema-to-zod.ts` | converted schemas, built when the registry loads | validate the arguments, map them to an input, validate that | the SDK gets inputs its schema allows, and every such input can be said |
| redaction `tools/redaction.ts`, `sdk/secret-fields.ts` | none | hide secrets in a preview, restore them at re-entry | no secret is shown; re-entry gives back the command |
| forbidden list `commands/forbidden.ts` | a constant table | a predicate on command lines | no path to the router misses it |

The parts meet as follows. A tool handler calls `executeWrite`, which runs inside
`gate.runExclusive`, so write calls of a process form one chain; inside it the gate
is called synchronously and the client asynchronously. Read handlers call the
client directly and share its session, its queue and its last timing with the
writes. The gate writes the pending file; `approve.mjs`, another process, reads it
and prints a signature that the human carries to the assistant. Several servers
can share that file: by default it lies beside the log database
(`config.ts:140-145`). The maps die with the process, the file, the log and the
router's state do not.

What is hard here: the awaits of a write between which reads, other calls,
cancellations, expiry and crashes can fall; failures after the approval is spent;
errors that are swallowed (pending file, log, snapshots); two maps with deadlines
that must agree; process state that a restart loses while files and signatures
survive; a clock that can be set back.

`PROJECT.json` lists the hazards line by line with the properties that watch them.

## The modules

**`Approval`** is the abstract specification of the gate: nonces are offered,
signed, released or closed. A release needs a pending, signed nonce and happens
once; a closed nonce never comes back. It knows no clock, file, map or process.

**`ConfirmGate`** models `ConfirmGate` and `approve.mjs`. `intents[s]` and `used[s]`
are the two maps of server process `s`, `file` the pending file, `clock` the result
of `Date.now()`. Three history variables state the properties: `offered` (all
intents previews returned), `signed`, and `consumed` (successful `consumeSigned`
calls in order). Each operation is one action, since JavaScript runs it to
completion: `Create` and `CreateRefused` for `create`; `ConsumeReplayed`,
`ConsumeUnknown`, `ConsumeExpired`, `ConsumeMismatch`, `ConsumeBadSignature` and
`Consume` for the six ways out of `consumeSigned`; `ApproveListed` and `ApproveBlind`
for the two modes of `approve.mjs`; `Restart` for the end of a process and the start
of the next; `Tick` for the clock. `Persist` and `Prune` are the private methods,
inside the actions that call them, with every partial failure `persist` swallows:
nothing pruned and nothing written, pruned and not written, or an older listing
left in place.

**`WriteExecutor`** extends `ConfirmGate` with the calls of one process. `call[c]` is
the call in slot `c`: its program counter is `queued`, or the await it is at
(`before`, `writing`, `after`, `committing`), or `done` or `lost`. `queue` is the gate's
promise chain, `requests[c]` and `audits[c]` the rows the call has inserted, `running`
and `saved` the router's configurations, `timing` the client's last command timing.
The actions `Start...` take a call from its turn to its first await through
`prepareWrite`, `previewWrite` and `verifyApproval`, and include the gate's action;
`BeforeDone`, `BeforeDoneCancelled`, `WriteDone`, `WriteRejected`, `WriteFailed`,
`AfterDone`, `CommitDone` and `CommitFailed` take it from one router answer to the
next. `Arrive`, `Cancel`, `ReadTool` and `Crash` are what can come in between.

**`VigorSession`** models `SdkVigorClient` with `SshClientTransport`. `sessions` lists every
session created, each an SDK client with its transport: whether the client is `alive`, whether
the transport is `open`, the commands it queues, the one `send` has taken (`busy`) and whether
the SSH client has it (`exec`), the `timing` the transport keeps. `current` is the client's
`session` field, `authorized` its `writeAuthorized`. Each call `c` runs one command and
`status[c]` says how far it is. `RunRead`, `RunReadRefused`, `AuthorizeWrite`, `RunWrite`,
`RunWriteRefused`, `Connect` and `Disconnect` are the public methods up to the SDK; raw commands
and typed operations share them, since they differ in how the command is rendered. `Send` and
`SendRefused` are the start of `transport.send`, up to the await of the connection, and `Exec`
is what follows it, without another look at `open`; `Answer`, `Fail` and `FailDead` are its end
as the caller sees it. `Drop` and `SessionClosed` fail a call that still waits in the SDK's
queue. Those that reset do so in the same turn (`resetAfterSdkFailure`). History: the `grants`
given, the write `attempts`, and `stray`, set when a failure resets another session than its
own.

**`ReadTools`** extends `VigorSession` with `registerRead` and `shutdown`. `rows[c]` are the
request rows of read call `c` with their timing, `answer[c]` what its caller was told, `store`
and `exited` the log store and the process. A handler logs and formats in the turn in which the
client's promise settles, so `CallRefused`, `CallAnswered`, `CallFailed` and `CallDropped` are
each one step with the client's. A formatter that throws logs the read twice. `Signal` is the
first turn of `shutdown`, `Disconnected` its second, after the connection has closed; with a
second signal both run at once.

**`Catalogue`** models what happens between the import of the modules and a tool call.
`sdk` and `curated` are the tables it starts from, `env` the environment. `Load` links
curated tools to operations (`Linked`), adds a tool for every operation that is not
covered (`Generated`, a fold over the operations whose round `AddGenerated` is one turn of the
loop), gives each its tier and builds the read allowlist (`ReadExact`),
which may refuse to load. An operation gives a set of command lines (`forms`) and one of them,
or none, for no input (`void`), be its arguments none or all optional; a tool has the lines
it can render; `Configure` is `loadConfig`, `Register` is `registerAllTools`,
`Call` one tool call, whose outcome the client's checks decide (`ReadRuns`,
`WriteRuns`). It starts from every table and every environment of the instance: what
is checked is that derivations made in different files agree.

**`SchemaToZod`** models `jsonSchemaToZod`. A schema is a record of its keywords. A validator
is what it makes of a value: the set of its results, which is empty when it rejects.
`RawShape` is the flat `shape` for the MCP server, `ParseFull` the `full` validator, `Wraps`
says that the input travels under one key, and `ConversionThrows` that there is no validator.
`ParseGiven` follows `convertSchema` keyword by keyword with what zod (external) does: accept,
reject, strip keys, take the first branch that fits. `SatisfiesGiven` is the reference: what
the schema says of a value, without the conversion. Both, and `Throws` and `Closed`, recurse
as functions over the schemas `Nodes` and the values nested up to `MaxDepth`.

**`Redaction`** models `secretFieldsOf`, `redactCommand`, `restoreCommand` and `verifyReentry`
over texts, which are sequences of symbols; a placeholder is one symbol. A secret is what
JavaScript's `String` makes of a top-level argument (`TextOf`, `StringOf`), and an object's
shows nothing of the object. `RedactRound` is one
turn of the loop over the secrets, longest first, and `ReplaceText` the `split` and `join` in it.

**`ActionTools`** lists the 24 curated tools whose arguments choose an action (`swm_group`,
`wan_failover`, ...): which arguments each declares, which its `toInput` needs for each
action, takes if given, and renames.

**`ToolArguments`** composes the three: a tool call from its arguments to the signature.
`Load` converts the schema when the registry module loads; `Reject` is the MCP server,
which validates against the shape and strips what it does not know; `Refuse` and `Preview`
are `prepareWrite` with `toInput`, `validate` and `redactCommand`; `Reenter` is the human at
`approve.mjs`. A generated tool takes its arguments from its schema, a curated one its own.

**`LogStore`** models the SQLite log of several servers on one file. `columns[t]` are the
columns a table has by now, `requests` and `audits` the rows, `phase[s]` how far the store of
server `s` is and `pc[s]` the statement of the constructor it comes to, `handler[s]` the call
that has its request row and not yet its audit row. `Execute` runs one statement of the
constructor: open, the two `CREATE TABLE IF NOT EXISTS`, each migration, the two `prepare`.
SQLite rejects a migration whose column is there and a `prepare` that misses a column; any
statement may also fail without such a reason. `LogRequest` and `LogAudit` are the two
inserts, `Close` and `Crash` the two ways to stop.

`MCConfirmGate`, `MCWriteExecutor`, `MCVigorSession`, `MCReadTools`, `MCCatalogue`,
`MCToolArguments` and `MCLogStore` give TLC the constants' values and the symmetries.
`ConfirmGateProofs`, `ApprovalProofs`, `WriteExecutorProofs`, `VigorSessionProofs`,
`ReadToolsProofs`, `LogStoreProofs`, `CatalogueProofs` and `ToolArgumentsProofs` hold the
theorems.

### Abstractions

- Ids and nonces are members of small sets. A nonce is never drawn twice (16
  random bytes); an id may be drawn again once neither map has it, as in the code.
- The digest is an injective function; a signature is the payload it is over, so a
  wrong signature is any signature over another offered intent or an unsigned one.
- The `used` flag of an intent is left out: it is set on an object that leaves the
  map in the same call, so no lookup ever sees it.
- The client's one-shot authorization is set and taken in one step of
  `performWrite` and is left out of `WriteExecutor`.
- A snapshot is the number of writes the router had applied when it was read. A
  router command may be applied although its answer is lost.
- In `WriteExecutor` and `ReadTools` log inserts succeed while the store is open; inserts
  that fail and stores that do not open are in `LogStore`, which shows that they only
  drop rows. There a row is the number of its call, and an index goes with the statement
  before it.
- In `ToolArguments` numbers are counted in halves, so that some are not integers; a text is a
  sequence of at most two symbols; `String` makes one symbol of a number, a boolean or an object
  and joins the elements of an array with commas; values hold no placeholder, and the texts a
  human types are those of two symbols, a numeral and a joined array. The values of a curated
  tool's arguments are one text each: their validators (`commands/validators.ts`) are patterns
  over strings. The schema of a curated tool's operation is in the SDK: it is taken to have one
  closed branch for each action, over the keys `toInput` gives it. `buildFrames` of the SDK is a
  constant, `Frames`; the run's puts the texts of an input, nested ones included, one after the
  other.
- A tool of `Catalogue` renders command lines out of a set; its arguments are none,
  enumerable (enums, literals, a host) or free. A call renders one line. A curated tool made
  by `S` without `partial` is taken to have all the lines of its operation: the flag is the
  author's word, which nothing in the code compares with the arguments.
- The SDK and the SSH client are packages outside the repository. Their outcomes
  (answer, refusal, failure) are choices of the environment, marked external.
- `VigorSession` relies on the SDK as the code does: a client sends one command at a time, waits
  for `send` to settle, and queues the others; a queued command may fail without being sent,
  when its signal is aborted, its timeout is over or the framing refuses it; after
  `outputLimitExceeded` or `sessionClosed` it is dead and fails its queue with `sessionClosed`;
  after any other failure it goes on over the same transport, which reconnects unless
  `mcp_disconnect` closed it (comment at `ssh-client-transport.ts:106`). A command whose
  connection is closed under it fails.
- Command lines are members of a set, some registered as reads, some forbidden.

## What the runs check

| run | instance | checks |
|---|---|---|
| `gate_one_server` | 1 process, 3 ids, 3 nonces, 2 commands, failing file, restart | types, single use, releases as signed, unambiguous ids, the cap, replay detection, live intents kept |
| `gate_shared_file` | 2 processes, one file, clock may step back | the inductive invariant `GateInv`; the gate implements `Approval` |
| `executor_interleaved` | 2 concurrent calls, 2 approvals, cancellation, reads, 1 crash | exclusive workflows, one application per approval, truthful answers, rows and timings |
| `executor_paths` | 1 slot, dual command with snapshots and commit and a plain one, moving clock, reliable pending file | truthful answers on every path; every pending intent is listed in the file |
| `executor_live` | 2 slots with fairness | every queued call is answered |
| `executor_unlogged` | as `executor_paths` | violated: "Every request is logged locally" |
| `executor_timing` | as `executor_paths` | violated: `send_at` is the time the command was written |
| `session_safe` | 3 reads and 3 writes (one of each refused), 3 sessions, every failure, disconnect | one write per authorization, no leaked connection, replacement of failed sessions, one command at a time, nothing taken after disconnect |
| `reads_live` | 4 reads (one refused), 3 sessions, 2 signals, fairness | every read is answered, its rows agree with the answer, their timing is its own once it was sent |
| `catalogue_all` | 2 operations of every class, name, form and arguments; up to 2 curated tools; 24 environments | what runs as a read is one, destructive operations are acknowledged, every line of an operation has a tool, tools offered run |
| `tool_arguments` | 38 schemas of every form, 24 curated tools, texts of two symbols | inputs satisfy their schema, valid inputs arrive, secrets are hidden, re-entry restores them |
| `log_store` | 2 servers on one file, 2 migrations, 2 calls, 2 starts each, 2 faults, crashes; fairness | audit rows link their own request, opening succeeds on every database, logging never blocks |

What they show:

- No approval is consumed twice (`SingleUse`), and what is consumed was signed, for
  the previewed command, and unexpired (`ReleasedAsSigned`), through failed file
  writes, restarts, shared files and clock steps.
- While a process lives and its clock advances, a replay is recognised for a full
  ttl (`ReplayDetected`); no unexpired intent is dropped by a failed attempt, by
  pruning or by a full map (`LiveIntentKept`).
- With two calls in flight nothing lies between the two snapshots of a write but
  that write (`SnapshotsBracketWrite`), each approval reaches the router at most
  once (`AppliedAsReleased`), a released call that was answered has exactly one audit
  row (`ReleasedIsAudited`), and no answer or audit row denies a write that runs
  (`AnswerTruthful`).
- The timing of an executed write is its own (`ExecutedTimingIsOwn`).
- A write is let through once per authorization, whatever other attempts, refused or
  not, come between (`WriteOncePerAuthorization`). Every session no longer in use has
  been closed (`AbandonedClosed`), a session known to be dead is not used again
  (`DeadNotUsed`, the promise of `docs/02-guides/troubleshooting.md:23-25`).
- Commands of all sessions reach the router one at a time (`CommandsSerialized`) and
  after `disconnect` no transport takes another (`NothingTakenAfterDisconnect`), provided each
  reset hits the session that failed. The second does not say that the router hears no more:
  a command that waits for its connection when `disconnect` comes is given to the SSH client
  all the same, since `send` looks at `open` before the await only
  (`ssh-client-transport.ts:82-87`), and the SSH client may connect again for it. The comment
  at line 106, that the lifecycle closes the transport permanently, does not hold for that
  command. The proviso matters: `resetAfterSdkFailure` drops whichever session is
  current. Were a dead SDK client to report `sessionClosed` for a queued call only after
  the next session was in use, that healthy session would be dropped with
  `mcp_reset`, its transport would stay open, and its queue would run beside the third
  session's. Whether the SDK can be that late is not visible in this repository, so
  this is recorded as a hazard and not as a finding.

- Every read is answered unless the process ends first (`EveryReadAnswered`), whichever
  session fails under it, and its last row says what the caller was told, also when a
  shutdown cut it off (`AnswerIsLogged`): the store closes after the connection.
- The rows of a read that was given to the transport carry its own timing or none
  (`RowTimingIsOwn`). Reads that fail without that are excepted, refused by the client or
  failed in the SDK's queue (abort, timeout, framing): like the failed writes below they log
  whatever timing the client holds (`build.ts:87`), against the same line of the logging schema.
- Nothing but a read runs without an approval, and no destructive operation without an
  acknowledgement (`WritesAreApproved`), however a tool came to its operation. Every
  line of an operation is one of a tool's (`EveryOperationHasTool`): partial bindings never
  hide any, as `registry/types.ts:16-18` says. Excepted is an operation that
  `attachSdkVoidBindings` links a curated tool to: the index behind it holds every operation
  that gives one line for no input (`void-operation-index.ts:15-22`), those with optional
  arguments among them, and the link is not marked partial. The operation then counts as
  covered, and only that one line of it has a tool; without the exception the property fails.
- The allowlist lets through whatever a registered read tool renders, and a server that
  offers writes can release them (`ToolsRun`). Excepted is a curated tool whose command
  line belongs to an operation of the other kind: `attachSdkVoidBindings` links them
  without comparing the two, the client then refuses the tool, and the operation counts as
  covered. Only the tables, and the tests over them, keep this from happening.
- What reaches the SDK satisfies the operation's schema (`InputSatisfiesSchema`), and each
  input the schema allows has arguments that bring it there unchanged
  (`ValidInputArrives`), although the flat shape merges the branches of a `oneOf`, the
  server strips keys and a union takes the first branch that fits. Three exceptions are
  stated in the property, and it fails without any of them: the empty object, which
  `sdk-invoke.ts:5` makes undefined; objects that allow undeclared keys, which are
  stripped; and a branch that does not require its discriminator, which the flat shape
  does. With all its arguments given, every action of the 24 curated tools is accepted:
  `toInput` reads nothing the tool does not declare.
- A preview shows no text of a secret argument, however the secrets contain one another,
  repeat or adjoin (`PreviewHidesSecrets`), and a human who re-enters these texts is not
  turned away (`ReentryAccepted`). The property also says what is not hidden: a command
  without any of these texts is shown as it is. That is the case of a wrapped schema with a
  secret inside: the only secret argument is then the object `input`, `redaction.ts:20` looks
  for its `String`, which is "[object Object]", and the preview shows the secret. The title of a
  test says otherwise ("redacts the whole input wrapper",
  `commands/registry/builders-secret.test.ts:29`), but it tests only that `input` is listed.
- An audit row that links a request links the one of its own call, whichever server
  inserts in between and whichever insert fails (`AuditLinksOwnRequest`). The row of a
  confirmed write that failed links none: only `recordWrite` asks for the link. A new,
  old, half-migrated or concurrently migrated database never disables the log
  (`OpeningEnables`), and whatever fails, the call goes on (`LoggingNeverBlocks`).

The two violated properties are statements of the documentation:

- `EveryCallLogged`. `docs/02-guides/user-guide.md:129` and
  `docs/01-overview/overview.md:14` say every request is logged. A call with only one
  of `confirmation_id` and `signature` throws at `write-executor.ts:230`, and a preview
  on a full map throws out of `gate.create` at line 200, both outside any `try`: no row.
- `LoggedTimingIsOwn`. `docs/03-reference/logging-schema.md:25` defines `send_at` as the
  time the command was written to the shell. A write cancelled during its first
  snapshot is never written, but its row carries the snapshot's timing
  (`write-executor.ts:288`).

Besides the three disagreements noted above (the closed transport, the linked operation, the
wrapped secret), a comment differs from the code in a case no run is spent on: `config.ts:27`
says an empty `EXPOSE_TOOLS` exposes every tool; `resolveExposeTools` (`config.ts:80`) exposes
the reads, as `docs/03-reference/configuration.md:49` says and `Exposed` of `Catalogue` models.

### Bounds

`Ttl = 1` with a clock of at most 2 ticks has a time before, at and after every
deadline. `MaxPending` of 1 or 2 makes the map full with as many previews. Two
nonces give two approvals, the least for confusing one with another; with one or
two ids an id can be drawn again after its first approval. Two servers and one
restart cover every exchange through the file and every loss of the maps. Two call
slots are refilled after an answer, so queues of later calls behind earlier ones are
covered; each property of the executor relates at most two calls. Previews stop when
no nonce is left (`NonceLeft`); this is the only bound inside the actions besides
`MaxClock` and `MaxRestarts`. `executor_interleaved` fixes the clock: expiry between
queueing and consumption is in `executor_paths` and `executor_live`.

`session_safe` has three sessions, the least for a reset of one by another with a
third in use; two admitted reads and two writes of one command let a call be queued
behind another in each; two grants let a later authorization replace an earlier one.
`MaxSessions` and `MaxGrants` are bounds of the model in the guards of `Enqueue` and
`AuthorizeWrite`. `reads_live` uses three admitted reads, so that one may be sent, one
queued behind it and one on the next session; two signals let one shutdown overtake
the other (`MaxSignals`, in the guard of `Signal`).

`catalogue_all` has two operations, whose names may be the same, and a released id for
the second only: enough for a covered operation beside a generated one, a taken name, a
taken prefix and a released id that is taken. The derivations treat one tool at a time
except for the used ids and the covered operations, which two tools exercise. Each
server is called once, since calls leave the tables alone.

`tool_arguments` has every keyword the conversion knows except `description`, every form at
the top level, inside an object and inside an array, schemas the conversion refuses, and
objects with two branches that agree, overlap or have no discriminator; the conversion treats
deeper levels as it does the second. Texts of two symbols can contain, equal and adjoin one
another. Curated tools are called with what each action needs, one argument less or more,
and all.

`log_store` has two of the six migrations, one for each table, since each concerns its own
column only; two servers, for a second one to migrate and insert in between; two calls, for
two rows to confuse; two starts of each server, for one crash in the middle of a migration or
between two rows; two faults (`MaxCalls`, `MaxStarts` and `MaxFaults` in the guards of
`LogRequest`, `Start` and `Fault`). Every property is proved for all bounds except
`LoggingNeverBlocks`.

### Fairness

`FairSpec` asks for weak fairness of `Start(c)` and `RouterAnswer(c)`. The first is the
event loop: a settled promise runs its reactions. The second holds because every
router command is sent with a timeout (`sdk-vigor-client.ts:177`) and a failure is an
answer. Callers, the human, the clock and crashes owe nothing. The model deadlocks
nowhere in the executor; the gate's runs do not need the clock to move. `ServerFairSpec`
of `ReadTools` asks that the SDK works through the queue of each session, for the same
reason, and that a connection that is being closed is closed in the end; it does not ask for
`CallDropped`, since nobody owes the abort of a queued call. `FairSpec` of
`LogStore` asks that the constructor goes on to its next statement and a handler to its
second insert: both are synchronous code. A statement that fails is a step too; a crash ends
what is under way, and nobody owes a start or a call.

In `session_safe` the client stops when every call has ended, in `reads_live` the process
ends, and in `catalogue_all` a server has been called once or has failed to start: in
these deadlock is not checked; nor in
`tool_arguments`, whose calls end, and in `log_store`, where calls and starts are used up.

## What is proved

Every invariant and action property of the passing runs is a theorem for all values of the
constants. Where a run only samples, the theorem speaks of any number of servers, calls,
sessions, tools or rows, and of any schema and text.

`ConfirmGateProofs`: any sets of servers, ids, nonces and commands, any ttl and cap, any
behaviour of file and clock unless a hypothesis says otherwise.

| theorem | statement |
|---|---|
| `GateTypeCorrect` | `GateSpec => []GateTypeOK` |
| `GateCorrect` | `GateSpec => []GateInv` |
| `ApprovalsSingleUse` | `GateSpec => []SingleUse` |
| `ReleasesSigned` | `GateSpec => []ReleasedAsSigned` |
| `IdsNeverAmbiguous` | `GateSpec => []IdsUnambiguous` |
| `PendingNeverOverflows` | `GateSpec => []PendingBounded` |
| `LiveIntentsKept` | `GateSpec => LiveIntentKept` |
| `ReplaysDetected` | `GateSpec => []ReplayDetected`, if the clock never steps back |
| `PendingAlwaysListed` | `GateSpec => []PendingListed`, for one server whose file never fails |

The hypotheses of the last two are needed: a clock that is set back revives an id whose
entry has been pruned, and a second server or a failed write overwrites or keeps an old
listing. `gate_one_server` and `executor_paths` are instances of them.

`ApprovalProofs`: the gate implements `Approval`.

| theorem | statement |
|---|---|
| `GateImplementsApproval` | `GateSpec => ImplementsApproval` |

`WriteExecutorProofs`: any number of calls, any interleaving of cancellations, reads,
crashes and file failures.

| theorem | statement |
|---|---|
| `ExecutorUsesGate` | `Spec => GateSpec` |
| `ExecCorrect` | `Spec => []ExecInv` |
| `ExecTypeCorrect` | `Spec => []ExecTypeOK` |
| `AppliedAsApproved` | `Spec => []AppliedAsReleased` |
| `SnapshotsBracket` | `Spec => []SnapshotsBracketWrite` |
| `AnswersTruthful` | `Spec => []AnswerTruthful` |
| `ReleasesAudited` | `Spec => []ReleasedIsAudited` |
| `ExecutedTimingOwn` | `Spec => []ExecutedTimingIsOwn` |

`ExecutorUsesGate` carries every theorem about the gate, the refinement of `Approval`
included, over to the executor.

`VigorSessionProofs`: any reads, writes, sessions and failures.

| theorem | statement |
|---|---|
| `GrantCorrect` | `Spec => []GrantInv` |
| `WritesOncePerAuthorization` | `Spec => []WriteOncePerAuthorization` |
| `SessionCorrect` | `Spec => []SessionInv` |
| `SessionTypeCorrect` | `Spec => []SessionTypeOK` |
| `AbandonedAreClosed` | `Spec => []AbandonedClosed` |
| `DeadAreNotUsed` | `Spec => []DeadNotUsed` |
| `CommandsAreSerialized` | `Spec => []CommandsSerialized` |
| `NothingIsTakenAfterDisconnect` | `Spec => NothingTakenAfterDisconnect` |

`ReadToolsProofs`: any reads and signals, over that session.

| theorem | statement |
|---|---|
| `ReadsCorrect` | `ServerSpec => []ReadsInv` |
| `AnswersAreLogged` | `ServerSpec => []AnswerIsLogged` |
| `RowTimingsAreOwn` | `ServerSpec => []RowTimingIsOwn` |

`LogStoreProofs`: any servers, tables, migrations, calls, crashes and faults.

| theorem | statement |
|---|---|
| `LogInvariant` | `Spec => []LogInv` |
| `AuditsLinked` | `Spec => []AuditLinksOwnRequest` |
| `UpgradeSafe` | `Spec => []OpeningEnables` |

`CatalogueProofs`: any SDK, curated registry and environment.

| theorem | statement |
|---|---|
| `CatalogueCorrect` | `Spec => []CatalogueInv` |
| `CatalogueTypeCorrect` | `Spec => []CatalogueTypeOK` |
| `OperationsHaveTools` | `Spec => []EveryOperationHasTool` |
| `WritesApproved` | `Spec => []WritesAreApproved` |
| `OfferedToolsRun` | `Spec => []ToolsRun` |

`ToolArgumentsProofs`: any schemas, values, texts, secrets and calls.

| theorem | statement |
|---|---|
| `RedactionReversible` | of any command and arguments: what `RedactCommand` hides, lists, and lets be restored |
| `ValidatorsSound` | whatever `ParseFull` makes of a value satisfies the schema |
| `ArgumentsHaveTypes` | `Spec => []ArgumentsTypeOK`, if `RenderedAsTexts` |
| `InputsSatisfySchema` | `Spec => []InputSatisfiesSchema` |
| `PreviewsHideSecrets` | `Spec => []PreviewHidesSecrets`, if `RenderedAsTexts` |
| `ReentriesAccepted` | `Spec => []ReentryAccepted`, if `RenderedAsTexts` |
| `ValidInputsArrive` | `Spec => []ValidInputArrives`, if `FramesAddNoMarker` |

The hypotheses are about `buildFrames`, which is in the SDK, and JavaScript's `String`.
`RenderedAsTexts`: both make a text of each value. `FramesAddNoMarker`: `buildFrames` puts
`<redacted:` in no command unless an argument of the caller holds it; the words of a router
command do not contain it. Without the second, a curated call could be refused although its
arguments are complete.

### Assumptions

- `ConfirmGate`: the digest is injective into `Digests`, the numbers are natural, the
  flags Boolean.
- `WriteExecutor`: the constants are of their types, and `None` is not a nonce.
- `VigorSession`, `ReadTools`: reads and writes are different calls, `None` is no call.
- `LogStore`: every table has an `id` which no migration adds, and the schema has the
  columns the migrations add (`log.ts:52-101`).
- `Catalogue`: the tables have the types of `CommandDef`, the SDK's manifest and the
  configuration; the sorted operations are the operations; the line an operation gives for no
  input is one of its lines; `None` is neither an operation nor a line.
- `SchemaToZod`: the SDK's schemas are finite trees (`Depth`), their keywords have the types
  JSON schema gives them (`WellTyped`), and a keyword that decides the validator has none
  beside it that says more (`Coherent`): the conversion ignores a `minimum` beside an `enum`,
  or a required key that is not declared, and would be unsound for such a schema. The SDK is
  not in the repository, so that its generated schemas are of this kind is assumed.
- `Redaction`: placeholders of different fields differ, and values hold none: `redactCommand`
  throws for a command with `<redacted:` in it. What `String` makes of a value is not assumed.
- `ToolArguments`: the arguments of the curated tools have names, and the schema of each one's
  operation has one closed branch for each action.

### The arguments

**Gate.** `SingleUse` alone is not inductive: nothing in it keeps a consumed intent from
being still pending. `GateInv` adds `IntentsOffered` (pending, listed and signed intents
were offered, and a nonce names one offer) and `PendingOnce` (an intent is pending in one
process at most, and in none after its consumption). A second consumption under a nonce
would then need an intent that is both consumed and pending. `ReleasedAsSigned` keeps its
history because `signed` and `offered` only grow. `IdsUnambiguous` needs the disjointness
of the two maps, which `Create` keeps by drawing an id neither has and `Consume` by moving
the id from one to the other.

The proof goes in two layers. `StepShapes` reduces the actions, with all their partial
failures of the file, to four shapes: a step drops intents (`Drops`), offers one
(`Offers`), consumes one (`Consumes`) or signs one (`Signs`). One lemma per part of the
invariant then treats those four and `Tick`. `PendingNeverOverflows` adds that the maps are
finite and uses the library's facts on cardinality.

`ReplayDetected` compares the history with the map of used ids, so `ReplayInv` adds
`Remembers`, that every consumption of the living process is in its map until a ttl later,
and `LivesInOrder`, that a restart makes a later life. Pruning removes expired entries only,
and a new entry replaces none because `IdsUnambiguous` kept a used id from being drawn.
`PendingListed` is inductive for one reliable file: a step that adds an intent also writes
the whole map, and no other process overwrites it.

**Refinement.** `NonceSets` shows from `GateInv` that pending and released nonces were
offered and that no nonce is both, so that a nonce has one status. `Drops` is then a `Close`
of the nonces that are no longer pending in any process, `Offers` an `Offer` and `Consumes`
a `Release` that close others along the way (the pruning of `create` and `persist`),
`Signs` a `Sign`; every other step stutters.

**Executor.** `ExecInv` joins `GateInv` with what is known of each call at each await.
`QueueOK` says that only the head of the promise chain has left the queue, so nothing can be
written between the snapshots of a call but its own write. `NoncesOK` says that every
applied write and every call past approval has a consumption of the gate behind it, under a
nonce of its own. `CallOK` gives the router's state seen from each program counter, and
sorts the answered calls in three: the router was left alone (`NothingSent`), may have been
written (`Uncertain`), or was written and the rows say so (`Recorded`). The properties
about answers, rows, snapshots and timings are read off these three.

**Session.** `WriteOncePerAuthorization` speaks only of attempts already made. `GrantInv`
adds `GrantIsFresh`, that an authorization in force is newer than every attempt, and the
types of the history; `OthersKeepGrant` shows that no other action touches either. For the
rest, `SessionInv` adds `PlacesOK`, that a call waits in one queue or is sent in one session
exactly when its status says so, and `ConnectionsOK`: a session that is not current has been
told to close, and one that was told, unless a reset was stray, is dead and sends nothing, or
is the last one, shut by `disconnect`. At most one command is in flight because only the last
session can have one; none is taken after `disconnect` because no session is current then, so
that each is dead or shut, and `Send` needs one that is neither.

**Reads.** `ReadsInv` adds to `SessionInv` that the store stays open until the process
exits and what the rows of each call are. Each handler's step ends a call in the session,
whose timing is by then the call's own if it was sent; a call that failed without a send stays
so (`UnsentStays`), which keeps the exception where it belongs.

**Log.** `OpeningEnables` speaks of stores that have failed. `LogInv` adds `OpeningsOK`: the
statements an opening has passed have done their work, so that both tables and all the
migrated columns are there when it comes to `prepare`, and no other server can take them
away, as columns only grow (`MigratedIsComplete` is the step from there to the columns of the
schema). `AuditLinksOwnRequest` needs `HandlersOK`, that the id a handler holds names the row
of its own call, which later inserts leave alone because rows only grow at the end.

**Catalogue.** `CatalogueInv` records what each stage has established: tiers and coverage
once loaded (`EntriesOK`), an accepted environment and enabled tools once serving (`OffersOK`),
and for each call the verdict of the client (`CallsOK`). `OperationsHaveTools` is a statement
about a loop: `Generated` folds `AddGenerated` over the sorted operations. The fold is shown
to be a function of the rounds (`FoldsExists` constructs the recursive function that
`FoldLeft` chooses), `RoundOK` is the invariant of a round, and it holds of every
round because there is no least one where it fails (`LeastNatural`, from the
well-foundedness of `<` on the naturals, a theorem about sets and not about operators). A
generated tool has all the lines of its operation, and so has a curated one that covers it,
unless it was linked to it (`CuratedReaches`).

**Arguments.** What is defined by recursion over nested data is first shown to be defined at
all. For `ParseOf`, `SatisfiesOf`, `ThrowsOf`, `ClosedOf` and `DeclaredOf` a solution of the
recursive equation is built from partial ones, depth by depth, since the right-hand side only
asks about schemas of less depth; the lemmas named `...Unfolds` then give the equation for
every schema. What holds of every schema is proved by contradiction: the set of schemas for
which it fails has none of least depth (`NoneBad`, from the well-foundedness of `<`). It is
applied to two facts, with one case for each form of schema:

- soundness (`Sound`): what `Parse` makes of a value satisfies the schema;
- completeness (`Complete`): a closed schema that converts makes of every value that satisfies
  it that value itself. The union needs both: the first branch that accepts may be another
  than the one the value was meant for, and it still returns the value unchanged.

`ClosedKeeps` says that closed schemas never change a value. `GeneratedArrives` follows the
arguments of a generated tool through flat shape, stripping, `toInput` and `full`: a property
of the flattened `oneOf` accepts what any of its branches accepts, and the discriminator that
every branch requires leads `full` back to the same branch. `ToolsAreOk` goes through the 24
curated tools; `CuratedArrives` needs of them only that what an action needs or takes is
declared and that no two of its arguments get one key.

**Redaction.** The invariant of a round of `RedactAll` (`RoundOk`) says that putting the true
values back for the placeholders so far gives the command, that no secret already treated occurs
in the preview, that the fields listed are those with a placeholder, each once, that before a
secret longer than all others nothing has been replaced, so that it is listed whenever the
command holds it, and that nothing has changed if the command holds none. `NextRound` shows that
a round keeps it. An occurrence of a secret in the new preview lies between placeholders, so it
was there before (`Windows`, `NoTextInRest`); what `ReplaceText` takes away `RestoreCommand`
puts back (`ReplaceRestores`).

**Calls.** `ArgumentsInv` says of each phase which computation its variables are the result
of. The five invariants follow from it and the facts above.

### Only model-checked

- Liveness: `EveryCallAnswered`, `EveryReadAnswered` and `LoggingNeverBlocks` rest on
  fairness, that is on `ENABLED`, which the prover does not treat.
- The two documentation claims, which are false.

## The plan

In order of importance:

1. Composition: the executor over the session, with the one-shot authorization, and
   recovery after a failed session as liveness.
2. A serial write log as abstract specification, which `WriteExecutor` implements. Its steps
   are in `ExecInv` already.
3. The walk over the SDK's tree and the expansion of enumerated arguments, as functions.

## Not modelled

The patterns of `commands/validators.ts`, of forbidden commands, of router results and of
secret names are matching of strings, better tested than modelled; the models take their
verdicts as sets or choices. Of the tables of router commands the tools without a choice of
actions are left out: they pass their arguments on one by one. So are Ed25519, key
generation, prompts, the truncation and formatting of texts, `LogStore.query` (called by
tests only), the generator of documentation, the simulated router and end-to-end tests.
`PROJECT.json` lists every component with its status.

## Running

```
tlc -config GateOneServer.cfg MCConfirmGate.tla
tlapm ConfirmGateProofs.tla
tlapm ApprovalProofs.tla
tlapm WriteExecutorProofs.tla
tlapm VigorSessionProofs.tla
tlapm ReadToolsProofs.tla
tlapm LogStoreProofs.tla
tlapm CatalogueProofs.tla
tlapm ToolArgumentsProofs.tla
```
