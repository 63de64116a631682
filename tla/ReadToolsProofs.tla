-------------------------- MODULE ReadToolsProofs --------------------------
(***************************************************************************)
(* Theorems about ReadTools, for all values of its constants: whatever the *)
(* session does under a read and whenever the process is told to stop, the *)
(* log says what the caller was told, with the timing of its own command.  *)
(***************************************************************************)
EXTENDS ReadTools, VigorSessionProofs

RowRecord == [outcome : Outcomes, timing : Calls \cup {None}]

\* The log is open until the process exits, and the rows of a call end with its answer.
RowsOK ==
  /\ rows \in [Reads -> Seq(RowRecord)]
  /\ answer \in [Reads -> Outcomes \cup {"none"}]
  /\ ~exited => store = "open"
  /\ AnswerIsLogged

ReadsInv == SessionInv /\ RowsOK /\ RowTimingIsOwn

\* Calls that fail without a send.
Unsent == {"refused", "dropped"}

-----------------------------------------------------------------------------
(* What the client leaves behind when a call is done *)

\* A call that failed without a send stays so.
LEMMA UnsentStays ==
  ASSUME SessionInv, [Next]_vars, NEW c \in Calls, status[c] \in Unsent
  PROVE  status'[c] \in Unsent
<1>1. TypesOK /\ PlacesOK
  BY DEF SessionInv
<1>2. ASSUME NEW d \in Calls, NEW r, status[d] \notin Unsent, status' = [status EXCEPT ![d] = r]
      PROVE  status'[c] \in Unsent
  BY <1>1, <1>2 DEF TypesOK
<1>3. ASSUME NEW k \in DOMAIN sessions, Sdk(k)
      PROVE  status'[c] \in Unsent
  <2>1. k \in 1..Len(sessions) /\ sessions[k] \in Session
    BY <1>1 DEF TypesOK
  <2>2. CASE Send(k) \/ SendRefused(k) \/ SessionClosed(k)
    <3>1. PICK q \in Seq(Calls) : q = sessions[k].queue /\ q # <<>>
      BY <2>1, <2>2 DEF Session, Send, SendRefused, SessionClosed, Ready
    <3>2. PICK d \in Calls : d = Head(q)
      BY <3>1
    <3>3. WaitsAt(d, k, 1) /\ k \in Nat
      <4>1. 1 \in 1..Len(q) /\ q[1] = d
        BY <3>1, <3>2
      <4> QED
        BY <2>1, <3>1, <4>1 DEF WaitsAt
    <3>4. status[d] \notin Unsent
      BY <1>1, <3>3 DEF PlacesOK, Unsent
    <3>5. PICK r : status' = [status EXCEPT ![d] = r]
      BY <2>2, <3>1, <3>2 DEF Send, SendRefused, SessionClosed, Finish
    <3> QED
      BY <1>2, <3>4, <3>5
  <2>3. CASE Answer(k) \/ Fail(k) \/ FailDead(k)
    <3>1. PICK d \in Calls : d = sessions[k].busy
      BY <2>1, <2>3 DEF Session, Answer, Fail, FailDead
    <3>2. SentIn(d, k) /\ k \in Nat
      BY <2>1, <3>1 DEF SentIn
    <3>3. status[d] \notin Unsent
      BY <1>1, <3>2 DEF PlacesOK, Unsent
    <3>4. PICK r : status' = [status EXCEPT ![d] = r]
      BY <2>3, <3>1 DEF Answer, Fail, FailDead, Finish
    <3> QED
      BY <1>2, <3>3, <3>4
  <2>4. CASE \E i \in DOMAIN sessions[k].queue : Drop(k, i)
    <3>1. PICK d : status' = [status EXCEPT ![d] = "dropped"]
      BY <2>4 DEF Drop, Finish
    <3> QED
      BY <1>1, <3>1 DEF TypesOK, Unsent
  <2>5. CASE Exec(k)
    BY <2>5 DEF Exec
  <2> QED
    BY <1>3, <2>2, <2>3, <2>4, <2>5 DEF Sdk
<1>4. ASSUME NEW d \in Calls, RunRead(d) \/ RunReadRefused(d) \/ RunWrite(d) \/ RunWriteRefused(d)
      PROVE  status'[c] \in Unsent
  <2>1. PICK r : status[d] = "new" /\ status' = [status EXCEPT ![d] = r]
    BY <1>4 DEF RunRead, RunReadRefused, RunWrite, RunWriteRefused, Submit
  <2> QED
    BY <1>2, <2>1 DEF Unsent
<1> QED
  BY <1>3, <1>4 DEF Next, Tool, Connect, AuthorizeWrite, Disconnect, vars, Calls

\* A reset that was stray is remembered.
LEMMA StrayStays ==
  ASSUME SessionInv, [Next]_vars, ~stray'
  PROVE  ~stray
<1>1. DOMAIN sessions = 1..Len(sessions)
  BY DEF SessionInv, TypesOK
<1> QED
  BY <1>1, NotSentOK, FinishedOK DEF Next, Tool, Sdk, Send, Exec, Drop, Connect, RunRead,
     RunReadRefused, RunWrite, RunWriteRefused, AuthorizeWrite, Disconnect, vars

\* The timing of the session in use, once session k is done with c, is that of c or missing.
LEMMA TimingOfDone ==
  ASSUME SessionInv, NEW k \in 1..Len(sessions), Answer(k) \/ Fail(k) \/ FailDead(k), ~stray'
  PROVE  lastCommandTiming' \in {None, sessions[k].busy}
<1>1. TypesOK /\ ConnectionsOK /\ SessionOK(k) /\ ~stray
  BY FinishedOK DEF SessionInv, ConnectionsOK
<1>2. CASE FailDead(k)
  BY <1>2, FinishedOK DEF lastCommandTiming
<1>3. CASE Answer(k) \/ Fail(k)
  <2>1. PICK t \in {None, sessions[k].busy} : sessions' = Done(k, t, TRUE)
    BY <1>3 DEF Answer, Fail, FailTimings
  <2>2. sessions[k].busy # None /\ current' = current
    BY <1>3 DEF Answer, Fail
  <2>3. current # 0 => current = k
    BY <1>1, <2>2 DEF SessionOK, ConnectionsOK, TypesOK
  <2>4. sessions'[k].timing = t
    <3>1. sessions[k] \in Session
      BY <1>1 DEF TypesOK
    <3> QED
      BY <1>1, <2>1, <3>1 DEF Done, TypesOK, Session
  <2> QED
    BY <2>1, <2>2, <2>3, <2>4 DEF lastCommandTiming
<1> QED
  BY <1>2, <1>3

\* Nor has a call that was never sent any timing.
LEMMA TimingOfNotSent ==
  ASSUME SessionInv, NEW k \in 1..Len(sessions), SendRefused(k) \/ SessionClosed(k)
  PROVE  lastCommandTiming' = None
<1>1. TypesOK /\ ConnectionsOK /\ SessionOK(k)
  BY DEF SessionInv, ConnectionsOK
<1>2. current' = 0
  BY <1>1, NotSentOK DEF SendRefused, ConnectionsOK, SessionOK
<1> QED
  BY <1>2 DEF lastCommandTiming

-----------------------------------------------------------------------------
(* What a handler adds to the log *)

\* One answer, or one whose formatting failed after it was logged, and its rows.
EndsWith(outcomes, a) == outcomes \in {<<a>>, <<"ok", a>>}
RowsOf(outcomes, t) == [i \in DOMAIN outcomes |-> [outcome |-> outcomes[i], timing |-> t]]

LEMMA NewRows ==
  ASSUME NEW a \in Outcomes, NEW outcomes, EndsWith(outcomes, a),
         NEW t \in Calls \cup {None}, NEW new,
         new = RowsOf(outcomes, t)
  PROVE  /\ new \in Seq(RowRecord) /\ Len(new) \in Nat /\ Len(new) > 0
         /\ new[Len(new)].outcome = a
         /\ \A i \in 1..Len(new) : new[i].timing = t
<1>1. PICK n \in Nat : n = Len(outcomes) /\ n > 0 /\ outcomes \in Seq(Outcomes) /\ outcomes[n] = a
  <2>1. CASE outcomes = <<a>>
    <3>1. outcomes \in Seq(Outcomes) /\ Len(outcomes) = 1 /\ outcomes[1] = a
      BY <2>1
    <3> QED
      BY <3>1
  <2>2. CASE outcomes = <<"ok", a>>
    <3>1. outcomes \in Seq(Outcomes) /\ Len(outcomes) = 2 /\ outcomes[2] = a
      BY <2>2 DEF Outcomes
    <3> QED
      BY <3>1
  <2> QED
    BY <2>1, <2>2 DEF EndsWith
<1>2. DOMAIN outcomes = 1..n
  BY <1>1
<1>3. \A i \in 1..n : outcomes[i] \in Outcomes /\ [outcome |-> outcomes[i], timing |-> t] \in RowRecord
  <2>1. \A i \in 1..n : outcomes[i] \in Outcomes
    BY <1>1
  <2> QED
    BY <2>1 DEF RowRecord
<1>4. new \in [1..n -> RowRecord] /\ \A i \in 1..n : new[i].outcome = outcomes[i] /\ new[i].timing = t
  BY <1>2, <1>3 DEF RowsOf
<1>5. new \in Seq(RowRecord)
  BY <1>1, <1>4, SeqDef
<1>6. 1..Len(new) = 1..n /\ Len(new) \in Nat
  BY <1>4, <1>5, LenProperties
<1>7. Len(new) = n
  BY <1>1, <1>6
<1> QED
  BY <1>1, <1>4, <1>5, <1>6, <1>7

\* A handler that answers call c with a adds its rows, and touches those of no other call.
LEMMA Responds ==
  ASSUME ReadsInv, SessionInv', NEW c \in Calls, ~exited,
         NEW a \in Outcomes, NEW outcomes, EndsWith(outcomes, a), RespondAfter(c, outcomes, a),
         \A d \in Reads : status'[d] \notin Unsent => status[d] \notin Unsent,
         ~stray' => ~stray,
         status'[c] \notin Unsent /\ ~stray' => lastCommandTiming' \in {None, c}
  PROVE  RowsOK' /\ RowTimingIsOwn'
<1>1. PICK t : t = lastCommandTiming'
  OBVIOUS
<1>2. t \in Calls \cup {None}
  <2>1. /\ current' \in 0..Len(sessions') /\ sessions' \in Seq(Session)
    BY DEF SessionInv, TypesOK
  <2>2. current' # 0 => sessions'[current'] \in Session
    BY <2>1
  <2>3. current' # 0 => sessions'[current'].timing \in Calls \cup {None}
    BY <2>2 DEF Session
  <2> QED
    BY <1>1, <2>3 DEF lastCommandTiming
<1>3. PICK new : new = RowsOf(outcomes, t)
  OBVIOUS
<1>4. /\ new \in Seq(RowRecord) /\ Len(new) \in Nat /\ Len(new) > 0
      /\ new[Len(new)].outcome = a /\ \A i \in 1..Len(new) : new[i].timing = t
  BY <1>2, <1>3, NewRows
<1>5. /\ rows \in [Reads -> Seq(RowRecord)] /\ answer \in [Reads -> Outcomes \cup {"none"}]
      /\ store = "open" /\ AnswerIsLogged /\ RowTimingIsOwn
  BY DEF ReadsInv, RowsOK
<1>6. /\ rows' = [rows EXCEPT ![c] = rows[c] \o new] /\ answer' = [answer EXCEPT ![c] = a]
      /\ store' = store /\ exited' = exited
  BY <1>1, <1>3, <1>5 DEF RespondAfter, Row, RowsOf
<1>7. ASSUME NEW d \in Reads, d # c
      PROVE  rows'[d] = rows[d] /\ answer'[d] = answer[d]
  BY <1>5, <1>6, <1>7
<1>8. ASSUME c \in Reads
      PROVE  /\ rows'[c] \in Seq(RowRecord) /\ rows'[c] # <<>>
             /\ rows'[c][Len(rows'[c])].outcome = a /\ answer'[c] = a
             /\ \A i \in 1..Len(rows'[c]) :
                  \/ rows'[c][i].timing = t
                  \/ i \in 1..Len(rows[c]) /\ rows'[c][i] = rows[c][i]
  <2>1. PICK old \in Seq(RowRecord) : old = rows[c]
    BY <1>5, <1>8
  <2>2. rows'[c] = old \o new /\ answer'[c] = a
    BY <1>5, <1>6, <1>8, <2>1
  <2>3. /\ old \o new \in Seq(RowRecord) /\ Len(old \o new) = Len(old) + Len(new) /\ Len(old) \in Nat
        /\ \A i \in 1..Len(old) + Len(new) :
             (old \o new)[i] = IF i <= Len(old) THEN old[i] ELSE new[i - Len(old)]
    BY <1>4, ConcatProperties
  <2>4. (old \o new)[Len(old) + Len(new)] = new[Len(new)]
    BY <1>4, <2>3
  <2>5. old \o new # <<>>
    BY <1>4, <2>3
  <2>6. \A i \in 1..Len(old) + Len(new) :
          (old \o new)[i].timing = t \/ (i \in 1..Len(old) /\ (old \o new)[i] = old[i])
    BY <1>4, <2>3
  <2> QED
    BY <1>4, <2>1, <2>2, <2>3, <2>4, <2>5, <2>6
<1>9. rows' \in [Reads -> Seq(RowRecord)] /\ answer' \in [Reads -> Outcomes \cup {"none"}]
  <2>1. \A d \in Reads : rows'[d] \in Seq(RowRecord) /\ answer'[d] \in Outcomes \cup {"none"}
    BY <1>5, <1>7, <1>8
  <2>2. rows' = [d \in Reads |-> rows'[d]] /\ answer' = [d \in Reads |-> answer'[d]]
    BY <1>5, <1>6
  <2> QED
    BY <2>1, <2>2
<1>10. AnswerIsLogged'
  BY <1>5, <1>7, <1>8 DEF AnswerIsLogged
<1>11. RowTimingIsOwn'
  <2> SUFFICES ASSUME NEW d \in Reads, status'[d] \notin Unsent, ~stray', NEW i \in DOMAIN rows'[d]
               PROVE  rows'[d][i].timing \in {None, d}
    BY DEF RowTimingIsOwn, Unsent
  <2>1. CASE d # c
    BY <1>5, <1>7, <2>1 DEF RowTimingIsOwn, Unsent
  <2>2. CASE d = c
    <3>1. rows[c] \in Seq(RowRecord) /\ DOMAIN rows'[c] = 1..Len(rows'[c]) /\ DOMAIN rows[c] = 1..Len(rows[c])
      BY <1>5, <1>8, <2>2
    <3>2. \A j \in 1..Len(rows[c]) : rows[c][j].timing \in {None, c}
      BY <1>5, <2>2, <3>1 DEF RowTimingIsOwn, Unsent
    <3> QED
      BY <1>1, <1>8, <2>2, <3>1, <3>2
  <2> QED
    BY <2>1, <2>2
<1> QED
  BY <1>5, <1>6, <1>9, <1>10, <1>11 DEF RowsOK

\* Steps that log nothing.
LEMMA Silent ==
  ASSUME ReadsInv, UNCHANGED <<rows, answer>>, ~exited' => store' = "open",
         \A d \in Reads : status'[d] \notin Unsent => status[d] \notin Unsent,
         ~stray' => ~stray
  PROVE  RowsOK' /\ RowTimingIsOwn'
<1>1. RowsOK'
  BY DEF ReadsInv, RowsOK, AnswerIsLogged
<1>2. RowTimingIsOwn'
  BY DEF ReadsInv, RowTimingIsOwn, Unsent
<1> QED
  BY <1>1, <1>2

\* The refusal of a call that never reached the SDK.
LEMMA RefusalStep ==
  ASSUME SessionInv, NEW c \in Reads, CallRefused(c)
  PROVE  /\ SessionInv' /\ c \in Calls /\ status'[c] \in Unsent /\ stray' = stray
         /\ \A d \in Reads : status'[d] \notin Unsent => status[d] \notin Unsent
<1>1. /\ c \in Calls /\ status[c] = "new" /\ status' = [status EXCEPT ![c] = "refused"]
      /\ UNCHANGED <<closed, current, sessions, stray>>
  BY DEF CallRefused, RunReadRefused, Calls
<1>2. status \in [Calls -> Statuses]
  BY DEF SessionInv, TypesOK
<1> QED
  BY <1>1, <1>2, RefusedOK DEF Calls, Unsent

LEMMA ReadsStep == ReadsInv /\ [ServerNext]_allVars => ReadsInv'
<1> SUFFICES ASSUME ReadsInv, [ServerNext]_allVars PROVE ReadsInv'
  OBVIOUS
<1>1. /\ SessionInv /\ DOMAIN sessions = 1..Len(sessions)
      /\ \A k \in 1..Len(sessions) : sessions[k] \in Session
  BY DEF ReadsInv, SessionInv, TypesOK
<1>2. ASSUME [Next]_vars
      PROVE  /\ SessionInv' /\ (~stray' => ~stray)
             /\ \A d \in Calls : status'[d] \notin Unsent => status[d] \notin Unsent
  BY <1>1, <1>2, SessionStep, StrayStays, UnsentStays
<1>3. ASSUME NEW c \in Reads, CallRefused(c) PROVE ReadsInv'
  <2>1. RespondAfter(c, <<"error">>, "error") /\ ~exited /\ "error" \in Outcomes
    BY <1>3 DEF CallRefused, Outcomes
  <2>2. /\ SessionInv' /\ c \in Calls /\ status'[c] \in Unsent /\ (~stray' => ~stray)
        /\ \A d \in Reads : status'[d] \notin Unsent => status[d] \notin Unsent
    BY <1>1, <1>3, RefusalStep
  <2>3. PICK a \in Outcomes : RespondAfter(c, <<a>>, a) /\ EndsWith(<<a>>, a)
    BY <2>1 DEF EndsWith
  <2> QED
    BY <2>1, <2>2, <2>3, Responds DEF ReadsInv
<1>4. ASSUME NEW k \in DOMAIN sessions, CallAnswered(k) PROVE ReadsInv'
  <2>1. k \in 1..Len(sessions) /\ Answer(k) /\ [Next]_vars /\ ~exited
    BY <1>1, <1>4 DEF CallAnswered, Next, Sdk
  <2>2. PICK c \in Calls : c = sessions[k].busy
    BY <1>1, <2>1 DEF Answer, Session
  <2>3. PICK a \in Outcomes : \E outcomes : EndsWith(outcomes, a) /\ RespondAfter(c, outcomes, a)
    BY <1>4, <2>2 DEF CallAnswered, Outcomes, EndsWith
  <2>4. ~stray' => lastCommandTiming' \in {None, c}
    BY <1>1, <2>1, <2>2, TimingOfDone
  <2> QED
    BY <1>2, <2>1, <2>3, <2>4, Responds DEF ReadsInv, Calls
<1>5. ASSUME NEW k \in DOMAIN sessions, CallFailed(k) PROVE ReadsInv'
  <2>1. k \in 1..Len(sessions) /\ [Next]_vars /\ ~exited
    BY <1>1, <1>5 DEF CallFailed, Next, Sdk
  <2>2. PICK c \in Calls :
          /\ RespondAfter(c, <<"error">>, "error")
          /\ ~stray' => lastCommandTiming' \in {None, c}
    <3>1. CASE (Fail(k) \/ FailDead(k)) /\ RespondAfter(sessions[k].busy, <<"error">>, "error")
      <4>1. sessions[k].busy \in Calls
        BY <1>1, <2>1, <3>1 DEF Fail, FailDead, Session
      <4> QED
        BY <1>1, <2>1, <3>1, <4>1, TimingOfDone
    <3>2. CASE /\ SendRefused(k) \/ SessionClosed(k)
               /\ RespondAfter(Head(sessions[k].queue), <<"error">>, "error")
      <4>1. sessions[k].queue \in Seq(Calls) /\ sessions[k].queue # <<>>
        BY <1>1, <2>1, <3>2 DEF SendRefused, SessionClosed, Ready, Session
      <4>2. Head(sessions[k].queue) \in Calls
        BY <4>1
      <4> QED
        BY <1>1, <2>1, <3>2, <4>2, TimingOfNotSent
    <3> QED
      BY <1>5, <3>1, <3>2 DEF CallFailed
  <2>3. "error" \in Outcomes /\ EndsWith(<<"error">>, "error")
    BY DEF Outcomes, EndsWith
  <2> QED
    BY <1>2, <2>1, <2>2, <2>3, Responds DEF ReadsInv, Calls
<1>6. ASSUME NEW k \in DOMAIN sessions, CallDropped(k) PROVE ReadsInv'
  <2>1. k \in 1..Len(sessions) /\ [Next]_vars /\ ~exited
    BY <1>1, <1>6 DEF CallDropped, Next, Sdk
  <2>2. PICK i \in DOMAIN sessions[k].queue :
          Drop(k, i) /\ RespondAfter(sessions[k].queue[i], <<"error">>, "error")
    BY <1>6 DEF CallDropped
  <2>3. PICK c \in Calls : c = sessions[k].queue[i]
    BY <1>1, <2>1, <2>2, DropOK
  <2>4. status' = [status EXCEPT ![c] = "dropped"] /\ status \in [Calls -> Statuses]
    BY <1>1, <2>2, <2>3 DEF Drop, Finish, SessionInv, TypesOK
  <2>5. status'[c] \in Unsent
    BY <2>3, <2>4 DEF Unsent
  <2>6. "error" \in Outcomes /\ EndsWith(<<"error">>, "error")
    BY DEF Outcomes, EndsWith
  <2> QED
    BY <1>2, <2>1, <2>2, <2>3, <2>5, <2>6, Responds DEF ReadsInv, Calls
<1>7. ASSUME (\E c \in Reads : Call(c)) \/ (\E k \in DOMAIN sessions : Sent(k))
             \/ Signal \/ Disconnected \/ UNCHANGED allVars
      PROVE  ReadsInv'
  <2>1. /\ [Next]_vars /\ UNCHANGED <<rows, answer>>
    BY <1>7 DEF Call, Sent, Signal, Disconnected, allVars, serverVars, Next, Tool, Sdk
  <2>2. ~exited' => store' = "open"
    BY <1>7 DEF Call, Sent, Signal, Disconnected, Exit, allVars, serverVars, ReadsInv, RowsOK
  <2> QED
    BY <1>2, <2>1, <2>2, Silent DEF ReadsInv, Calls
<1> QED
  BY <1>3, <1>4, <1>5, <1>6, <1>7 DEF ServerNext, SdkStep

-----------------------------------------------------------------------------
(* Theorems *)

\* The client's invariant, an open log until the process exits, and rows that end with the
\* answer and bear their own timing.
THEOREM ReadsCorrect == ServerSpec => []ReadsInv
<1>1. ServerInit => ReadsInv
  <2> SUFFICES ASSUME ServerInit PROVE ReadsInv
    OBVIOUS
  <2>1. SessionInv
    BY InitSession DEF ServerInit
  <2>2. \A c \in Reads : rows[c] = <<>> /\ answer[c] = "none"
    BY DEF ServerInit
  <2>3. rows \in [Reads -> Seq(RowRecord)] /\ answer \in [Reads -> Outcomes \cup {"none"}]
    BY DEF ServerInit
  <2>4. RowsOK /\ RowTimingIsOwn
    BY <2>2, <2>3 DEF ServerInit, RowsOK, AnswerIsLogged, RowTimingIsOwn
  <2> QED
    BY <2>1, <2>4 DEF ReadsInv
<1> QED
  BY <1>1, ReadsStep, PTL DEF ServerSpec

\* "Every request is logged locally": the last row of a read says what its caller was told,
\* in whatever way the session failed or the process was being shut down (registerRead).
THEOREM AnswersAreLogged == ServerSpec => []AnswerIsLogged
<1>1. ReadsInv => AnswerIsLogged
  BY DEF ReadsInv, RowsOK
<1> QED
  BY <1>1, ReadsCorrect, PTL

\* The timing in the row of a command that was given to the transport is that command's or
\* missing, although all calls share the client's lastCommandTiming, unless a stray reset
\* has mixed two sessions.  Calls that fail without a send are excepted (RowTimingIsOwn).
THEOREM RowTimingsAreOwn == ServerSpec => []RowTimingIsOwn
<1>1. ReadsInv => RowTimingIsOwn
  BY DEF ReadsInv
<1> QED
  BY <1>1, ReadsCorrect, PTL
=============================================================================
