--------------------------- MODULE WriteExecutor ---------------------------
(***************************************************************************)
(* Write tool calls of one server process, from the request to the audit   *)
(* row (src/src/commands/write-executor.ts), on top of the gate.           *)
(*                                                                         *)
(* Any number of calls arrive; gate.runExclusive chains them, so one at a  *)
(* time runs: prepare, preview or verify, snapshot, write, snapshot,       *)
(* commit, audit.  Between two router answers a call is one step: the      *)
(* JavaScript in between runs to completion.  Read tools are not chained   *)
(* and may run at any time; the human, the clock, the caller's             *)
(* cancellation and a crash may come in at any time too.                   *)
(*                                                                         *)
(* Abstractions.  Calls is a set of slots: a slot whose call was answered  *)
(* may take the next call.  The router is the sequence of the writes it    *)
(* has applied, each named by the approval it consumed, and how many of    *)
(* them `sys commit' has saved; a snapshot is the number of writes applied *)
(* when it was read.  The client's one-shot authorization is set and taken *)
(* in the same step, so it is never set between steps and is left out.     *)
(* What the client or the SDK refuses to send is a failure of the command, *)
(* whatever the reason.                                                    *)
(***************************************************************************)
EXTENDS ConfirmGate, SequencesExt

CONSTANTS
  Self,          \* the server process whose calls are modelled
  Calls,         \* slots of concurrent write tool calls
  Dual,          \* commands of confirm tier `dual'
  Snapshotted,   \* commands with a snapshotRead
  SkipCommit,    \* commands that are never followed by `sys commit'
  AutoCommit,    \* VIGOR_AUTO_COMMIT
  None           \* absent: an omitted argument, a null snapshot, no timing

ASSUME ExecutorAssumption ==
  /\ Self \in Servers
  /\ Dual \cup Snapshotted \cup SkipCommit \subseteq Commands
  /\ AutoCommit \in BOOLEAN
  /\ None \notin Nonces

VARIABLES
  call,       \* call[c]: the call in slot c
  queue,      \* gate.chain: the unanswered calls in order of arrival
  requests,   \* requests[c]: rows of `requests' the call in c has inserted
  audits,     \* audits[c]: rows of `write_audit' the call in c has inserted
  running,    \* the writes the router has applied, in order
  saved,      \* how many of them its saved configuration holds
  timing      \* client.lastCommandTiming: the router command it belongs to

execVars == <<call, queue, requests, audits, running, saved, timing>>
vars == <<gateVars, execVars>>

Idle == [pc |-> "idle"]

NewCall(cmd, cid, sig, ack) ==
  [pc |-> "queued", cmd |-> cmd, cid |-> cid, sig |-> sig, ack |-> ack,
   aborted |-> FALSE, nonce |-> None, before |-> None, after |-> None, own |-> None,
   reply |-> None]

Active(c) == call[c].pc \in {"before", "writing", "after", "committing"}
Commits(cmd) == AutoCommit /\ cmd \notin SkipCommit
Applied(n) == \E k \in DOMAIN running : running[k].nonce = n
SnapshotOutcome == {Len(running), None}     \* errors are swallowed

ExecTypeOK ==
  /\ \A c \in Calls :
       /\ call[c].pc \in {"idle", "queued", "before", "writing", "after",
                          "committing", "done", "lost"}
       /\ call[c].pc # "idle" =>
            /\ call[c].cmd \in Commands \cup {None}
            /\ call[c].cid \in Ids \cup {None}
            /\ call[c].sig \in offered \cup {None}
            /\ call[c].nonce \in Nonces \cup {None}
            /\ {call[c].before, call[c].after} \subseteq 0..Len(running) \cup {None}
  /\ queue \in Seq(Calls) /\ IsInjective(queue)
  /\ running \in Seq([nonce : Nonces, command : Commands])
  /\ saved \in 0..Len(running)

ExecInit ==
  /\ call = [c \in Calls |-> Idle]
  /\ queue = <<>>
  /\ requests = [c \in Calls |-> <<>>]
  /\ audits = [c \in Calls |-> <<>>]
  /\ running = <<>>
  /\ saved = 0
  /\ timing = None

-----------------------------------------------------------------------------
(* Log rows.  Without timing columns a row has timing None. *)

Row(tool, outcome, code, t) ==
  [tool |-> tool, outcome |-> outcome, code |-> code, timing |-> t]
Audit(status, before, after, commit, linked) ==
  [status |-> status, before |-> before, after |-> after, commit |-> commit,
   linked |-> linked]

\* auditDenyStatus
DenyStatus(code) ==
  CASE code = "token_expired" -> "expired"
    [] code = "mismatch" -> "mismatch"
    [] OTHER -> "denied"

(***************************************************************************)
(* The call in c, at the head of the chain, becomes r and inserts rows; an *)
(* answered call hands the chain to the next, whether it returned or threw *)
(* (runExclusive).                                                         *)
(***************************************************************************)
StepKeepingChain(c, r, reqs, auds) ==
  /\ call' = [call EXCEPT ![c] = r]
  /\ requests' = [requests EXCEPT ![c] = @ \o reqs]
  /\ audits' = [audits EXCEPT ![c] = @ \o auds]
  /\ UNCHANGED queue
Step(c, r, reqs, auds) ==
  /\ call' = [call EXCEPT ![c] = r]
  /\ requests' = [requests EXCEPT ![c] = @ \o reqs]
  /\ audits' = [audits EXCEPT ![c] = @ \o auds]
  /\ queue' = IF r.pc = "done" THEN Tail(queue) ELSE queue

Answer(r, reply) == [r EXCEPT !.pc = "done", !.reply = reply]

\* A call refused before the router: one denied row and its audit row.
Deny(c, code) ==
  Step(c, Answer(call[c], code), <<Row("write", "denied", code, None)>>,
       <<Audit(DenyStatus(code), None, None, None, FALSE)>>)

\* A call that throws without a row.
Throw(c, code) == Step(c, Answer(call[c], code), <<>>, <<>>)

-----------------------------------------------------------------------------
(* The caller *)

\* cmd = None stands for arguments that do not render.
Arrive(c, cmd, cid, sig, ack) ==
  /\ call[c].pc \in {"idle", "done", "lost"}
  /\ call' = [call EXCEPT ![c] = NewCall(cmd, cid, sig, ack)]
  /\ queue' = Append(queue, c)
  /\ requests' = [requests EXCEPT ![c] = <<>>]
  /\ audits' = [audits EXCEPT ![c] = <<>>]
  /\ UNCHANGED <<gateVars, running, saved, timing>>

CancelUnchaining(c) ==
  /\ call[c].pc = "queued" /\ ~call[c].aborted
  /\ call' = [call EXCEPT ![c].aborted = TRUE]
  /\ queue' = SelectSeq(queue, LAMBDA d : d # c)
  /\ UNCHANGED <<gateVars, requests, audits, running, saved, timing>>
Cancel(c) ==
  /\ call[c].pc = "queued" \/ Active(c)
  /\ ~call[c].aborted
  /\ call' = [call EXCEPT ![c].aborted = TRUE]
  /\ UNCHANGED <<gateVars, queue, requests, audits, running, saved, timing>>

-----------------------------------------------------------------------------
(* executeWriteLocked up to its first await *)

\* runExclusive: the head of the chain starts once the calls before it settled.
TurnUnchained(c) == call[c].pc = "queued"
Turn(c) == call[c].pc = "queued" /\ queue # <<>> /\ Head(queue) = c

\* prepareWrite throws
StartInvalid(c) ==
  /\ Turn(c)
  /\ call[c].cmd = None
  /\ Deny(c, "invalid")
  /\ UNCHANGED <<gateVars, running, saved, timing>>

Prepared(c) == Turn(c) /\ call[c].cmd # None
WantsPreview(c) == call[c].cid = None /\ call[c].sig = None
Complete(c) == call[c].cid # None /\ call[c].sig # None

StartPreview(c) ==
  /\ Prepared(c) /\ WantsPreview(c)
  /\ \E cid \in Ids, n \in Nonces : Create(Self, call[c].cmd, cid, n)
  /\ Step(c, Answer(call[c], "needs_confirmation"),
          <<Row("write", "needs_confirmation", None, None)>>,
          <<Audit("preview", None, None, None, FALSE)>>)
  /\ UNCHANGED <<running, saved, timing>>

\* create() throws, outside every try
StartPreviewFull(c) ==
  /\ Prepared(c) /\ WantsPreview(c)
  /\ CreateRefused(Self)
  /\ Throw(c, "invalid_token")
  /\ UNCHANGED <<running, saved, timing>>

\* only one of confirmation_id and signature
StartIncomplete(c) ==
  /\ Prepared(c) /\ ~WantsPreview(c) /\ ~Complete(c)
  /\ Throw(c, "invalid_token")
  /\ UNCHANGED <<gateVars, running, saved, timing>>

Unacknowledged(c) == call[c].cmd \in Dual /\ ~call[c].ack

StartUnacknowledged(c) ==
  /\ Prepared(c) /\ Complete(c) /\ Unacknowledged(c)
  /\ Deny(c, "not_acknowledged")
  /\ UNCHANGED <<gateVars, running, saved, timing>>

Verifies(c) == Prepared(c) /\ Complete(c) /\ ~Unacknowledged(c)

\* throwIfCancelled comes before consumeSigned
StartCancelled(c) ==
  /\ Verifies(c) /\ call[c].aborted
  /\ Deny(c, "cancelled")
  /\ UNCHANGED <<gateVars, running, saved, timing>>

\* consumeSigned throws
StartDenied(c) ==
  /\ Verifies(c) /\ ~call[c].aborted
  /\ LET cid == call[c].cid
     IN  \/ ConsumeReplayed(Self, cid) /\ Deny(c, "token_used")
         \/ ConsumeUnknown(Self, cid) /\ Deny(c, "invalid_token")
         \/ ConsumeExpired(Self, cid) /\ Deny(c, "token_expired")
         \/ ConsumeMismatch(Self, cid, call[c].cmd) /\ Deny(c, "mismatch")
         \/ /\ ConsumeBadSignature(Self, cid, call[c].cmd, call[c].sig)
            /\ Deny(c, "bad_signature")
  /\ UNCHANGED <<running, saved, timing>>

\* consumeSigned succeeds; without a snapshotRead the write goes out at once
StartApproved(c) ==
  /\ Verifies(c) /\ ~call[c].aborted
  /\ Consume(Self, call[c].cid, call[c].cmd, call[c].sig)
  /\ Step(c, [call[c] EXCEPT !.nonce = call[c].sig.nonce,
                !.pc = IF call[c].cmd \in Snapshotted THEN "before" ELSE "writing"],
          <<>>, <<>>)
  /\ UNCHANGED <<running, saved, timing>>

-----------------------------------------------------------------------------
(* performWrite and recordWrite *)

\* send() sets the timing, or clears it when it throws; a reply that only the SDK's
\* parser rejects keeps it, and what fails before send leaves the one before.
ReadTiming(value) == {"read"} \cup IF value = None THEN {None, timing} ELSE {}

\* The snapshot before the write is back and the write goes out...
BeforeDone(c) ==
  /\ call[c].pc = "before" /\ ~call[c].aborted
  /\ \E b \in SnapshotOutcome :
       /\ Step(c, [call[c] EXCEPT !.pc = "writing", !.before = b], <<>>, <<>>)
       /\ timing' \in ReadTiming(b)
  /\ UNCHANGED <<gateVars, running, saved>>

\* ... unless the caller has cancelled: the approval is spent, nothing was sent.
BeforeDoneCancelledSilently(c) ==
  /\ call[c].pc = "before" /\ call[c].aborted
  /\ \E b \in SnapshotOutcome :
       /\ timing' \in ReadTiming(b)
       /\ Throw(c, "cancelled")
  /\ UNCHANGED <<gateVars, running, saved>>
BeforeDoneCancelled(c) ==
  /\ call[c].pc = "before" /\ call[c].aborted
  /\ \E b \in SnapshotOutcome :
       /\ timing' \in ReadTiming(b)
       /\ Step(c, Answer([call[c] EXCEPT !.before = b], "cancelled"),
               <<Row("write", "denied", "cancelled", timing')>>,
               <<Audit("denied", b, None, None, FALSE)>>)
  /\ UNCHANGED <<gateVars, running, saved>>

\* recordWrite, after the rows the commit has inserted
RecordLastTiming(c, r, commitRows, commit) ==
  Step(c, Answer(r, "done"), commitRows \o <<Row("write", "ok", None, timing')>>,
       <<Audit("executed", r.before, r.after, commit, TRUE)>>)
Record(c, r, commitRows, commit) ==
  LET ok == commit # "failed"
  IN  Step(c, Answer(r, IF ok THEN "done" ELSE "commit_failed"),
           commitRows \o <<Row("write", IF ok THEN "ok" ELSE "error",
                               IF ok THEN None ELSE "commit_failed", r.own)>>,
           <<Audit(IF ok THEN "executed" ELSE "failed", r.before, r.after, commit, TRUE)>>)

\* writeTiming is taken when the write returns, and kept in r.own.
ToCommit(c, r) ==
  IF Commits(r.cmd)
  THEN Step(c, [r EXCEPT !.pc = "committing"], <<>>, <<>>)
  ELSE Record(c, r, <<>>, "skipped")

ToAfter(c, r) ==
  IF r.cmd \in Snapshotted
  THEN Step(c, [r EXCEPT !.pc = "after"], <<>>, <<>>)
  ELSE ToCommit(c, r)

Write(c) == [nonce |-> call[c].nonce, command |-> call[c].cmd]

\* The router applies the write and its answer comes back.
WriteDone(c) ==
  /\ call[c].pc = "writing"
  /\ running' = Append(running, Write(c))
  /\ timing' = call[c].nonce
  /\ ToAfter(c, [call[c] EXCEPT !.own = timing'])
  /\ UNCHANGED <<gateVars, saved>>

\* The catch of performWrite.
WriteErrorDenied(c, code) ==
  Step(c, Answer(call[c], code), <<Row("write", "denied", code, timing')>>,
       <<Audit("denied", call[c].before, None, None, FALSE)>>)
WriteError(c, code) ==
  Step(c, Answer(call[c], code), <<Row("write", "error", code, timing')>>,
       <<Audit("failed", call[c].before, None, None, FALSE)>>)

\* isRouterCliFailure: the router answers that it refuses the command.
WriteRejected(c) ==
  /\ call[c].pc = "writing"
  /\ timing' = call[c].nonce
  /\ WriteError(c, "router_error")
  /\ UNCHANGED <<gateVars, running, saved>>

\* Timeout, lost connection, oversized output: the router may have applied it.  Or the
\* client or the SDK fails the command before send: nothing has changed.
WriteFailedRetried(c) ==
  /\ call[c].pc = "writing"
  /\ Len(running) < 2 * Cardinality(Nonces)
  /\ running' \in {running, Append(running, Write(c))}
  /\ timing' = None
  /\ UNCHANGED <<gateVars, call, queue, requests, audits, saved>>
WriteFailed(c) ==
  /\ call[c].pc = "writing"
  /\ \/ /\ running' \in {running, Append(running, Write(c))}
        /\ timing' \in {None, call[c].nonce}
     \/ UNCHANGED <<running, timing>>
  /\ WriteError(c, "failed")
  /\ UNCHANGED <<gateVars, saved>>

AfterDone(c) ==
  /\ call[c].pc = "after"
  /\ \E a \in SnapshotOutcome :
       /\ timing' \in ReadTiming(a)
       /\ ToCommit(c, [call[c] EXCEPT !.after = a])
  /\ UNCHANGED <<gateVars, running, saved>>

\* runCommit: `sys commit' saves everything that runs.
CommitDone(c) ==
  /\ call[c].pc = "committing"
  /\ saved' = Len(running)
  /\ timing' = "commit"
  /\ Record(c, call[c], <<Row("commit", "ok", None, None)>>, "ok")
  /\ UNCHANGED <<gateVars, running>>

CommitFailed(c) ==
  /\ call[c].pc = "committing"
  /\ \/ /\ saved' \in {saved, Len(running)}
        /\ timing' \in {None, "commit"}
     \/ UNCHANGED <<saved, timing>>
  /\ Record(c, call[c], <<Row("commit", "error", "failed", None)>>, "failed")
  /\ UNCHANGED <<gateVars, running>>

-----------------------------------------------------------------------------
(* The rest of the process *)

\* A read tool, outside the chain, returns or fails.
ReadTool ==
  /\ timing' \in {"read", None}
  /\ UNCHANGED <<gateVars, call, queue, requests, audits, running, saved>>

\* The process dies with its calls; the log and the router stay.
Crash ==
  /\ Restart(Self)
  /\ call' = [c \in Calls |->
       IF call[c].pc = "queued" \/ Active(c) THEN [call[c] EXCEPT !.pc = "lost"] ELSE call[c]]
  /\ queue' = <<>>
  /\ timing' = None
  /\ UNCHANGED <<requests, audits, running, saved>>

Outside == (HumanStep \/ Tick) /\ UNCHANGED execVars

-----------------------------------------------------------------------------

Start(c) ==
  \/ StartInvalid(c) \/ StartPreview(c) \/ StartPreviewFull(c) \/ StartIncomplete(c)
  \/ StartUnacknowledged(c) \/ StartCancelled(c) \/ StartDenied(c) \/ StartApproved(c)

RouterAnswer(c) ==
  \/ BeforeDone(c) \/ BeforeDoneCancelled(c)
  \/ WriteDone(c) \/ WriteRejected(c) \/ WriteFailed(c)
  \/ AfterDone(c) \/ CommitDone(c) \/ CommitFailed(c)

(***************************************************************************)
(* The calls a caller can make.  acknowledge is only looked at for a dual  *)
(* command, and nothing else is when the arguments do not render.  A       *)
(* preview comes only while a nonce is left for it: a bound of the model.  *)
(***************************************************************************)
PreviewsQueued == {d \in Calls : call[d].pc = "queued" /\ call[d].cmd # None /\ WantsPreview(d)}
NonceLeft == Cardinality(PreviewsQueued) < Cardinality(Nonces \ OfferedNonces)

Request(c) ==
  \/ Arrive(c, None, None, None, FALSE)
  \/ \E cmd \in Commands :
       \/ NonceLeft /\ Arrive(c, cmd, None, None, FALSE)
       \/ \E cid \in Ids \cup {None}, sig \in offered \cup {None} :
            /\ cid # None \/ sig # None
            /\ \E ack \in IF cmd \in Dual THEN BOOLEAN ELSE {FALSE} :
                 Arrive(c, cmd, cid, sig, ack)

Next ==
  \/ \E c \in Calls : Request(c) \/ Cancel(c) \/ Start(c) \/ RouterAnswer(c)
  \/ ReadTool
  \/ Crash
  \/ Outside

Init == GateInit /\ ExecInit

Spec == Init /\ [][Next]_vars

(***************************************************************************)
(* Fairness: a turn that has come is taken by the event loop, and every    *)
(* router command returns or fails within its timeout (commandTimeoutMs).  *)
(* The caller, the human, the clock and crashes owe nothing.               *)
(***************************************************************************)
FairSpec == Spec /\ \A c \in Calls : WF_vars(Start(c)) /\ WF_vars(RouterAnswer(c))

-----------------------------------------------------------------------------
(* What the log says *)

Answered(c) == call[c].pc = "done"
WriteRows(c) == {k \in DOMAIN requests[c] : requests[c][k].tool = "write"}
Audited(c, statuses) == \E k \in DOMAIN audits[c] : audits[c][k].status \in statuses

\* A write reaches the router at most once per approval, and is the command that
\* approval was consumed for: no call slips in another command on the way.
AppliedAsReleased ==
  /\ \A j, k \in DOMAIN running : running[j].nonce = running[k].nonce => j = k
  /\ \A k \in DOMAIN running : \E m \in DOMAIN consumed :
       /\ consumed[m].intent.nonce = running[k].nonce
       /\ consumed[m].command = running[k].command

\* "Serialize write confirm->execute workflows so snapshot/write/commit cannot
\* interleave": whenever both snapshots of an executed write were taken, that
\* write and nothing else lies between them.
SnapshotsBracketWrite ==
  \A c \in Calls : \A k \in DOMAIN audits[c] :
    LET row == audits[c][k]
    IN  None \notin {row.before, row.after} =>
          /\ row.after = row.before + 1
          /\ running[row.after] = Write(c)

\* The answer tells the truth about the router: `done' means the write runs, and
\* is saved when the commit is reported ok; `commit_failed' that it runs; and a
\* call answered with a denial has left the router alone, wherever it stopped.
AnswerTruthful ==
  \A c \in Calls : Answered(c) =>
    /\ call[c].reply \in {"done", "commit_failed"} => Applied(call[c].nonce)
    /\ Audited(c, {"executed"}) /\ audits[c][1].commit = "ok" =>
         \E k \in 1..saved : running[k].nonce = call[c].nonce
    /\ Audited(c, {"preview", "denied", "expired", "mismatch"}) => ~Applied(call[c].nonce)

\* An answered call that was released leaves exactly one audit row and one request
\* row of its own, whichever await it failed at, and a write the router applied
\* is never audited as denied.
ReleasedIsAudited ==
  \A c \in Calls : Answered(c) /\ call[c].nonce # None =>
    /\ Len(audits[c]) = 1 /\ Cardinality(WriteRows(c)) = 1
    /\ Applied(call[c].nonce) => Audited(c, {"executed", "failed"})

\* The timing logged with an executed write is that of the write itself, though
\* the second snapshot, the commit and any read tool overwrite the client's last
\* timing before the row is written.
ExecutedTimingIsOwn ==
  \A c \in Calls : Audited(c, {"executed"}) =>
    \A k \in WriteRows(c) : requests[c][k].timing = call[c].nonce

\* Every call is answered, whatever became of the calls queued before it.
EveryCallAnswered ==
  \A c \in Calls : call[c].pc = "queued" ~> call[c].pc \in {"done", "lost"}

\* docs/02-guides/user-guide.md: "Every request is logged locally".
EveryCallLogged == \A c \in Calls : Answered(c) => requests[c] # <<>>

\* docs/03-reference/logging-schema.md: send_at is "when the CLI command was
\* written to the shell", so a row with a timing tells of a command that was sent.
LoggedTimingIsOwn ==
  \A c \in Calls : \A k \in DOMAIN requests[c] :
    requests[c][k].timing \in {None, call[c].nonce}
=============================================================================
