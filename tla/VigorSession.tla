---------------------------- MODULE VigorSession ----------------------------
(***************************************************************************)
(* The client between the tools and the router                             *)
(* (src/src/ssh/sdk-vigor-client.ts, ssh-client-transport.ts): refusals,   *)
(* the one-shot authorization of writes, the session that is created when  *)
(* it is needed, reset after some failures and closed at shutdown.         *)
(*                                                                         *)
(* Callers are concurrent tool calls; each runs one command and awaits its *)
(* answer.  Raw commands and typed operations differ only in how the       *)
(* command line is rendered, so they share an action.                      *)
(*                                                                         *)
(* The SDK and the SSH client are external.  As the code relies on them:   *)
(* an SDK client sends one command at a time over its transport, waits for *)
(* send to settle, and queues the others; a queued command may fail        *)
(* without being sent (aborted, out of time, refused by the framing);      *)
(* after outputLimitExceeded or sessionClosed the SDK client is dead and   *)
(* fails what is queued with sessionClosed; after any other failure it     *)
(* goes on over the same transport.  The SSH client connects, or connects  *)
(* again, whenever it is asked to, also after disconnect.                  *)
(***************************************************************************)
EXTENDS Naturals, Sequences, SequencesExt, FiniteSets

CONSTANTS
  Reads,         \* calls of runCommand and runOperation
  Writes,        \* calls of runWriteCommand and runWriteOperation
  Commands,      \* command lines
  Command,       \* the command line each call renders to
  Registered,    \* commands that isAllowedReadCommand, or a read operation, admits
  Forbidden,     \* commands isForbidden refuses
  ReadOnly,      \* VIGOR_READ_ONLY
  MaxSessions,   \* bound on the sessions created
  MaxGrants,     \* bound on the authorizations given
  None           \* no call

Calls == Reads \cup Writes

ASSUME SessionAssumption ==
  /\ Command \in [Calls -> Commands]
  /\ Registered \cup Forbidden \subseteq Commands
  /\ ReadOnly \in BOOLEAN
  /\ MaxSessions \in Nat /\ MaxGrants \in Nat
  /\ Reads \cap Writes = {} /\ None \notin Calls

VARIABLES
  closed,      \* SdkVigorClient.closed
  authorized,  \* writeAuthorized: the grant it comes from, 0 for null
  current,     \* the session in use, an index of sessions, 0 for null
  sessions,    \* every session created, in order
  status,      \* status[c]: how far the call is
  grants,      \* history: the commands authorizeWrite was given
  attempts,    \* history: the write attempts, each with the grants before it
  stray        \* history: a failure of one session has reset another

vars == <<closed, authorized, current, sessions, status, grants, attempts, stray>>

(***************************************************************************)
(* A session is an SDK client with its transport.  busy is the call that   *)
(* transport.send has taken; it awaits the connection until exec.  last    *)
(* and told are history: the call it finished last, and whether this       *)
(* client has closed its transport.                                        *)
(***************************************************************************)
NewSession ==
  [alive |-> TRUE, open |-> TRUE, queue |-> <<>>, busy |-> None, exec |-> FALSE,
   timing |-> None, last |-> None, told |-> FALSE]

Session ==
  [alive : BOOLEAN, open : BOOLEAN, queue : Seq(Calls), busy : Calls \cup {None},
   exec : BOOLEAN, timing : Calls \cup {None}, last : Calls \cup {None}, told : BOOLEAN]

Waiting(c) == {k \in DOMAIN sessions : c \in ToSet(sessions[k].queue)}
Sending(c) == {k \in DOMAIN sessions : sessions[k].busy = c}

\* Types; and a call waits or is sent in one session, exactly as its status says.
SessionTypeOK ==
  /\ closed \in BOOLEAN
  /\ authorized \in 0..Len(grants)
  /\ current \in 0..Len(sessions)
  /\ sessions \in Seq(Session)
  /\ grants \in Seq(Commands)
  /\ stray \in BOOLEAN
  /\ \A c \in Calls :
       /\ status[c] \in {"new", "queued", "sent", "ok", "failed", "refused", "dropped"}
       /\ status[c] = "queued" <=> Waiting(c) # {}
       /\ status[c] = "sent" <=> Sending(c) # {}

Init ==
  /\ closed = FALSE
  /\ authorized = 0
  /\ current = 0
  /\ sessions = <<>>
  /\ status = [c \in Calls |-> "new"]
  /\ grants = <<>>
  /\ attempts = <<>>
  /\ stray = FALSE

-----------------------------------------------------------------------------
(* The tools *)

\* current(): the session in use, a new one if there is none; its queue takes cs.
Enqueue(cs) ==
  IF current # 0
  THEN /\ sessions' = [sessions EXCEPT ![current].queue = @ \o cs]
       /\ UNCHANGED current
  ELSE /\ Len(sessions) < MaxSessions
       /\ sessions' = Append(sessions, [NewSession EXCEPT !.queue = cs])
       /\ current' = Len(sessions')

\* exec, invokeOperation: hand the command to the SDK.
Submit(c) ==
  /\ Enqueue(<<c>>)
  /\ status' = [status EXCEPT ![c] = "queued"]

\* connect()
Connect ==
  /\ ~closed
  /\ Enqueue(<<>>)
  /\ UNCHANGED <<closed, authorized, status, grants, attempts, stray>>

ReadAdmitted(c) == Command[c] \in Registered \ Forbidden /\ ~closed

RunRead(c) ==
  /\ status[c] = "new"
  /\ ReadAdmitted(c)
  /\ Submit(c)
  /\ UNCHANGED <<closed, authorized, grants, attempts, stray>>

RunReadRefused(c) ==
  /\ status[c] = "new"
  /\ ~ReadAdmitted(c)
  /\ status' = [status EXCEPT ![c] = "refused"]
  /\ UNCHANGED <<closed, authorized, current, sessions, grants, attempts, stray>>

AuthorizeWrite(cmd) ==
  /\ Len(grants) < MaxGrants
  /\ grants' = Append(grants, cmd)
  /\ authorized' = Len(grants')
  /\ UNCHANGED <<closed, current, sessions, status, attempts, stray>>

\* The authorization is for this very command, and nothing else forbids it.
Authorized(c) == authorized # 0 /\ grants[authorized] = Command[c]
WriteAdmitted(c) == Authorized(c) /\ Command[c] \notin Forbidden /\ ~ReadOnly /\ ~closed

\* Every attempt takes the authorization.
Attempt(c, grant) ==
  /\ authorized' = 0
  /\ attempts' = Append(attempts, [call |-> c, before |-> Len(grants), grant |-> grant])

RunWrite(c) ==
  /\ status[c] = "new"
  /\ WriteAdmitted(c)
  /\ Attempt(c, authorized)
  /\ Submit(c)
  /\ UNCHANGED <<closed, grants, stray>>

RunWriteRefusedKeeping(c) ==
  /\ status[c] = "new"
  /\ ~WriteAdmitted(c)
  /\ attempts' = Append(attempts, [call |-> c, before |-> Len(grants), grant |-> 0])
  /\ status' = [status EXCEPT ![c] = "refused"]
  /\ UNCHANGED <<closed, authorized, current, sessions, grants, stray>>
RunWriteRefused(c) ==
  /\ status[c] = "new"
  /\ ~WriteAdmitted(c)
  /\ Attempt(c, 0)
  /\ status' = [status EXCEPT ![c] = "refused"]
  /\ UNCHANGED <<closed, current, sessions, grants, stray>>

\* close(reason): the SSH connection goes; only mcp_disconnect shuts the transport.
CloseTransport(s, reason) ==
  [s EXCEPT !.told = TRUE, !.open = @ /\ reason # "mcp_disconnect"]

DisconnectReopening ==
  /\ closed' = TRUE
  /\ current' = 0
  /\ sessions' = IF current = 0 THEN sessions
                 ELSE [sessions EXCEPT ![current] = CloseTransport(@, "mcp_reset")]
  /\ UNCHANGED <<authorized, status, grants, attempts, stray>>
Disconnect ==
  /\ closed' = TRUE
  /\ current' = 0
  /\ sessions' = IF current = 0 THEN sessions
                 ELSE [sessions EXCEPT ![current] = CloseTransport(@, "mcp_disconnect")]
  /\ UNCHANGED <<authorized, status, grants, attempts, stray>>

\* The timing of the session in use.
lastCommandTiming == IF current = 0 THEN None ELSE sessions[current].timing

-----------------------------------------------------------------------------
(* The SDK client of session k, and what the awaiting call does at once *)

Finish(c, result) == status' = [status EXCEPT ![c] = result]

\* resetAfterSdkFailure for a failure of session k, after the sessions have become S:
\* whichever session is in use by now is dropped, and its transport closed.
ResetForgetting(k, S) ==
  /\ sessions' = S
  /\ current' = IF closed THEN current ELSE 0
  /\ UNCHANGED stray
Reset(k, S) ==
  IF closed \/ current = 0
  THEN sessions' = S /\ UNCHANGED <<current, stray>>
  ELSE /\ sessions' = [S EXCEPT ![current] = CloseTransport(@, "mcp_reset")]
       /\ current' = 0
       /\ stray' = (stray \/ current # k)

SdkUnchanged == UNCHANGED <<closed, authorized, grants, attempts>>

Ready(k) == sessions[k].busy = None /\ sessions[k].queue # <<>>

\* The next command goes to transport.send, which finds the transport open and awaits
\* the connection...
SendOnceConnected(k) ==
  /\ Ready(k) /\ sessions[k].alive /\ sessions[k].open /\ ~sessions[k].told
  /\ LET c == Head(sessions[k].queue)
     IN  /\ sessions' = [sessions EXCEPT ![k].queue = Tail(@), ![k].busy = c,
                                         ![k].exec = FALSE]
         /\ Finish(c, "sent")
  /\ UNCHANGED <<current, stray>> /\ SdkUnchanged
SendKeepingQueued(k) ==
  /\ Ready(k) /\ sessions[k].alive /\ sessions[k].open
  /\ LET c == Head(sessions[k].queue)
     IN  /\ sessions' = [sessions EXCEPT ![k].busy = c, ![k].exec = FALSE]
         /\ Finish(c, "sent")
  /\ UNCHANGED <<current, stray>> /\ SdkUnchanged
Send(k) ==
  /\ Ready(k) /\ sessions[k].alive /\ sessions[k].open
  /\ LET c == Head(sessions[k].queue)
     IN  /\ sessions' = [sessions EXCEPT ![k].queue = Tail(@), ![k].busy = c,
                                         ![k].exec = FALSE]
         /\ Finish(c, "sent")
  /\ UNCHANGED <<current, stray>> /\ SdkUnchanged

\* ... or refuses it: transport is closed.
SendRefused(k) ==
  /\ Ready(k) /\ sessions[k].alive /\ ~sessions[k].open
  /\ sessions' = [sessions EXCEPT ![k].queue = Tail(@), ![k].last = Head(sessions[k].queue)]
  /\ Finish(Head(sessions[k].queue), "failed")
  /\ UNCHANGED <<current, stray>> /\ SdkUnchanged

\* Once connected, send gives the command to the SSH client.  It does not look again
\* whether the transport is open.
Exec(k) ==
  /\ sessions[k].busy # None /\ ~sessions[k].exec
  /\ sessions' = [sessions EXCEPT ![k].exec = TRUE]
  /\ UNCHANGED <<current, status, stray>> /\ SdkUnchanged

\* The call at place i of the queue fails before it is sent: its signal is aborted, its
\* time is up, or the framing refuses its command.  No send, so the timing stays.
Drop(k, i) ==
  /\ sessions' = [sessions EXCEPT ![k].queue = RemoveAt(@, i)]
  /\ Finish(sessions[k].queue[i], "dropped")
  /\ UNCHANGED <<current, stray>> /\ SdkUnchanged

\* A dead SDK client fails what is queued with sessionClosed.
SessionClosed(k) ==
  /\ Ready(k) /\ ~sessions[k].alive
  /\ Reset(k, [sessions EXCEPT ![k].queue = Tail(@), ![k].last = Head(sessions[k].queue)])
  /\ Finish(Head(sessions[k].queue), "failed")
  /\ SdkUnchanged

\* The call that send has taken is done; send leaves timing t.
Done(k, t, alive) ==
  [sessions EXCEPT ![k] = [@ EXCEPT !.busy = None, !.last = sessions[k].busy,
                                    !.timing = t, !.alive = alive]]

Answer(k) ==
  /\ sessions[k].busy # None /\ sessions[k].exec
  /\ sessions' = Done(k, sessions[k].busy, TRUE)
  /\ Finish(sessions[k].busy, "ok")
  /\ UNCHANGED <<current, stray>> /\ SdkUnchanged

\* send clears the timing when it throws; a reply that only the SDK's parser rejects
\* keeps it.
FailTimings(k) == IF sessions[k].exec THEN {None, sessions[k].busy} ELSE {None}

\* No connection, timeout, abort, lost connection, or a reply the SDK's parser rejects.
FailKeepingTiming(k) ==
  /\ sessions[k].busy # None
  /\ sessions' = Done(k, sessions[k].timing, TRUE)
  /\ Finish(sessions[k].busy, "failed")
  /\ UNCHANGED <<current, stray>> /\ SdkUnchanged
FailResetting(k) ==
  /\ sessions[k].busy # None
  /\ \E t \in FailTimings(k) : Reset(k, Done(k, t, TRUE))
  /\ Finish(sessions[k].busy, "failed")
  /\ SdkUnchanged
Fail(k) ==
  /\ sessions[k].busy # None
  /\ \E t \in FailTimings(k) : sessions' = Done(k, t, TRUE)
  /\ Finish(sessions[k].busy, "failed")
  /\ UNCHANGED <<current, stray>> /\ SdkUnchanged

\* outputLimitExceeded or sessionClosed: the SDK client is dead.
FailDeadKept(k) ==
  /\ sessions[k].busy # None
  /\ \E t \in FailTimings(k) : sessions' = Done(k, t, FALSE)
  /\ Finish(sessions[k].busy, "failed")
  /\ UNCHANGED <<current, stray>> /\ SdkUnchanged
FailDead(k) ==
  /\ sessions[k].busy # None
  /\ \E t \in FailTimings(k) : Reset(k, Done(k, t, FALSE))
  /\ Finish(sessions[k].busy, "failed")
  /\ SdkUnchanged

-----------------------------------------------------------------------------

Tool ==
  \/ Connect
  \/ \E c \in Reads : RunRead(c) \/ RunReadRefused(c)
  \/ \E cmd \in Commands : AuthorizeWrite(cmd)
  \/ \E c \in Writes : RunWrite(c) \/ RunWriteRefused(c)

Sdk(k) ==
  \/ Send(k) \/ Exec(k) \/ SendRefused(k) \/ SessionClosed(k)
  \/ \E i \in DOMAIN sessions[k].queue : Drop(k, i)
  \/ Answer(k) \/ Fail(k) \/ FailDead(k)

Next ==
  \/ Tool
  \/ Disconnect
  \/ \E k \in DOMAIN sessions : Sdk(k)

Spec == Init /\ [][Next]_vars

-----------------------------------------------------------------------------
(* Properties *)

\* "Authorize a confirmed write for one attempt; every attempt consumes
\* authorization": a write that was let through had been authorized as that very
\* command since the attempt before it, whether that one was refused or not.
WriteOncePerAuthorization ==
  \A j \in DOMAIN attempts : attempts[j].grant # 0 =>
    /\ grants[attempts[j].grant] = Command[attempts[j].call]
    /\ \A i \in 1..(j - 1) : attempts[i].before < attempts[j].grant

\* No SSH connection is leaked: the client has closed every session it no longer
\* uses, however it stopped using it.
AbandonedClosed == \A k \in DOMAIN sessions : k # current => sessions[k].told

\* "The next tool call should create a fresh session automatically": once a failure
\* has shown that an SDK client is dead, no call is handed to it any more.
DeadNotUsed == \A k \in DOMAIN sessions : ~sessions[k].alive => current # k

\* Commands that the SSH client has: they are at the router, or on their way.
InFlight == {k \in DOMAIN sessions : sessions[k].busy # None /\ sessions[k].exec}

\* "All commands serialized; concurrent tool calls never interleave": commands of
\* all the sessions reach the router one at a time, as long as every reset was of the
\* session that failed.  (The SDK promises it only within a session.)
CommandsSerialized == ~stray => Cardinality(InFlight) <= 1

\* "Only the MCP lifecycle closes this transport permanently": from disconnect on no
\* transport takes another command, though calls are queued and transports reconnect.
\* (Under the same proviso.)  The command a transport has taken before may go out all the
\* same: send does not look at `open' again once it is connected.
NothingTakenAfterDisconnect ==
  [][closed /\ ~stray =>
       \A c \in Calls : status'[c] = "sent" => status[c] = "sent"]_vars
=============================================================================
