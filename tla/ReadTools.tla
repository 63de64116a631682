------------------------------ MODULE ReadTools ------------------------------
(***************************************************************************)
(* The read tools over the client of VigorSession, the rows they log and   *)
(* the shutdown of the process (src/src/commands/build.ts registerRead,    *)
(* src/src/db/log.ts, src/src/index.ts).                                   *)
(*                                                                         *)
(* A handler does its logging and formatting in the turn in which the      *)
(* client's promise settles, so each is one step with the client's.        *)
(* Inserts succeed while the store is open.                                *)
(***************************************************************************)
EXTENDS VigorSession

CONSTANT MaxSignals  \* bound on the termination signals

ASSUME SignalAssumption == MaxSignals \in Nat

VARIABLES
  rows,      \* rows[c]: the request rows of read call c, in order
  answer,    \* answer[c]: what the caller was told, "none" before
  store,     \* LogStore: "open" or "closed"
  signals,   \* SIGINT and SIGTERM received
  exited     \* process.exit has been called

serverVars == <<rows, answer, store, signals, exited>>
allVars == <<vars, serverVars>>

Outcomes == {"ok", "error"}

ServerInit ==
  /\ Init
  /\ rows = [c \in Reads |-> <<>>]
  /\ answer = [c \in Reads |-> "none"]
  /\ store = "open"
  /\ signals = 0
  /\ exited = FALSE

\* timingOf reads lastCommandTiming after the client's part of the step.
Row(outcome) == [outcome |-> outcome, timing |-> lastCommandTiming']

\* The handler of c logs these outcomes and answers with a.
RespondAfter(c, outcomes, a) ==
  /\ rows' = IF store = "open"
             THEN [rows EXCEPT ![c] = @ \o [i \in DOMAIN outcomes |-> Row(outcomes[i])]]
             ELSE rows
  /\ answer' = [answer EXCEPT ![c] = a]
  /\ UNCHANGED <<store, signals, exited>>

-----------------------------------------------------------------------------

Call(c) ==
  /\ ~exited /\ RunRead(c)
  /\ UNCHANGED serverVars

\* render throws, or the client refuses the command.
CallRefused(c) ==
  /\ ~exited
  /\ \/ RunReadRefused(c)
     \/ /\ status[c] = "new"
        /\ status' = [status EXCEPT ![c] = "refused"]
        /\ UNCHANGED <<closed, authorized, current, sessions, grants, attempts, stray>>
  /\ RespondAfter(c, <<"error">>, "error")

Sent(k) ==
  /\ ~exited /\ (Send(k) \/ Exec(k))
  /\ UNCHANGED serverVars

\* The answer is logged, then formatted; a formatter that throws is logged again.
CallAnswered(k) ==
  /\ ~exited /\ Answer(k)
  /\ \/ RespondAfter(sessions[k].busy, <<"ok">>, "ok")
     \/ RespondAfter(sessions[k].busy, <<"ok", "error">>, "error")

CallFailed(k) ==
  /\ ~exited
  /\ \/ (Fail(k) \/ FailDead(k)) /\ RespondAfter(sessions[k].busy, <<"error">>, "error")
     \/ /\ SendRefused(k) \/ SessionClosed(k)
        /\ RespondAfter(Head(sessions[k].queue), <<"error">>, "error")

\* The SDK fails a call that it has not sent.
CallDropped(k) ==
  /\ ~exited
  /\ \E i \in DOMAIN sessions[k].queue :
       Drop(k, i) /\ RespondAfter(sessions[k].queue[i], <<"error">>, "error")

-----------------------------------------------------------------------------
(* shutdown: disconnect, store.close, exit *)

Exit ==
  /\ store' = "closed"
  /\ exited' = TRUE

SignalClosingFirst ==
  /\ ~exited /\ signals < MaxSignals
  /\ signals' = signals + 1
  /\ Disconnect
  /\ IF current # 0 THEN store' = "closed" /\ UNCHANGED exited ELSE Exit
  /\ UNCHANGED <<rows, answer>>
\* The disconnect of an open session takes a while; without one it is done at once.
Signal ==
  /\ ~exited /\ signals < MaxSignals
  /\ signals' = signals + 1
  /\ Disconnect
  /\ IF current # 0 THEN UNCHANGED <<store, exited>> ELSE Exit
  /\ UNCHANGED <<rows, answer>>

Disconnected ==
  /\ ~exited /\ closed
  /\ Exit
  /\ UNCHANGED <<vars, rows, answer, signals>>

-----------------------------------------------------------------------------

SdkStep(k) == Sent(k) \/ CallAnswered(k) \/ CallFailed(k)

ServerNext ==
  \/ \E c \in Reads : Call(c) \/ CallRefused(c)
  \/ \E k \in DOMAIN sessions : SdkStep(k) \/ CallDropped(k)
  \/ Signal
  \/ Disconnected

ServerSpec == ServerInit /\ [][ServerNext]_allVars

\* The SDK works through its queues, with a timeout on every command, and a
\* connection that is closed is closed in the end.  Nobody owes the abort of a call that
\* waits in a queue.
ServerFairSpec ==
  /\ ServerSpec
  /\ \A k \in 1..MaxSessions : WF_allVars(k \in DOMAIN sessions /\ SdkStep(k))
  /\ WF_allVars(Disconnected)

-----------------------------------------------------------------------------
(* Properties *)

\* "Every request is logged locally": whatever a caller was told, the last row of its
\* call says the same, also for calls that fail because of a shutdown.
AnswerIsLogged ==
  \A c \in Reads : answer[c] # "none" =>
    rows[c] # <<>> /\ rows[c][Len(rows[c])].outcome = answer[c]

\* The row of a command that was given to the transport has that command's timing or
\* none, whichever other calls and sessions came in between.  Excepted are the calls that
\* fail without a send, refused by the client or dropped from the SDK's queue: their rows
\* take whatever timing the client holds (registerRead's catch), that of an earlier command.
RowTimingIsOwn ==
  \A c \in Reads : status[c] \notin {"refused", "dropped"} /\ ~stray =>
    \A i \in DOMAIN rows[c] : rows[c][i].timing \in {None, c}

\* No read hangs: neither a failed session nor a shutdown leaves a call without an
\* answer, unless the process ends first.
EveryReadAnswered ==
  \A c \in Reads : status[c] \in {"queued", "sent"} ~> (answer[c] # "none" \/ exited)
=============================================================================
