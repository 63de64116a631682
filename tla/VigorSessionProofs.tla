------------------------- MODULE VigorSessionProofs -------------------------
(***************************************************************************)
(* Theorems about VigorSession, for all values of its constants.  That a   *)
(* confirmed write is let through once is shown first; the sessions play   *)
(* no part in it: only AuthorizeWrite and the two outcomes of a write      *)
(* attempt touch the authorization and its history.  Then the sessions:    *)
(* where each call is, and what a session can do after it was left.        *)
(***************************************************************************)
EXTENDS VigorSession, FiniteSetTheorems, SequenceTheorems, TLAPS

Grant == <<authorized, grants, attempts>>

AttemptRecord == [call : Writes, before : Nat, grant : Nat]

\* What the history of authorizations and attempts can be.
GrantTypeOK ==
  /\ grants \in Seq(Commands)
  /\ authorized \in 0..Len(grants)
  /\ attempts \in Seq(AttemptRecord)
  /\ \A i \in 1..Len(attempts) :
       attempts[i].before <= Len(grants) /\ attempts[i].grant <= Len(grants)

\* The authorization in force is newer than every attempt.
GrantIsFresh ==
  authorized # 0 => \A i \in 1..Len(attempts) : attempts[i].before < authorized

GrantInv == GrantTypeOK /\ GrantIsFresh /\ WriteOncePerAuthorization

\* A new authorization is newer than all attempts, and rewrites no earlier one.
LEMMA AuthorizeKeepsGrantInv ==
  ASSUME GrantInv, NEW cmd \in Commands, AuthorizeWrite(cmd)
  PROVE  GrantInv'
<1>1. /\ grants \in Seq(Commands) /\ attempts \in Seq(AttemptRecord)
      /\ Len(grants) \in Nat /\ Len(attempts) \in Nat /\ DOMAIN attempts = 1..Len(attempts)
      /\ \A i \in 1..Len(attempts) : attempts[i] \in AttemptRecord
  BY DEF GrantInv, GrantTypeOK
<1>2. /\ grants' \in Seq(Commands) /\ Len(grants') = Len(grants) + 1
      /\ \A i \in 1..Len(grants) : grants'[i] = grants[i]
      /\ authorized' = Len(grants) + 1 /\ attempts' = attempts
  BY <1>1 DEF AuthorizeWrite
<1>3. \A i \in 1..Len(attempts) :
        /\ attempts[i].before \in Nat /\ attempts[i].grant \in Nat
        /\ attempts[i].before <= Len(grants) /\ attempts[i].grant <= Len(grants)
  BY <1>1 DEF GrantInv, GrantTypeOK, AttemptRecord
<1>4. GrantTypeOK'
  BY <1>1, <1>2, <1>3 DEF GrantTypeOK
<1>5. GrantIsFresh'
  BY <1>1, <1>2, <1>3 DEF GrantIsFresh
<1>6. WriteOncePerAuthorization'
  BY <1>1, <1>2, <1>3 DEF GrantInv, WriteOncePerAuthorization
<1> QED BY <1>4, <1>5, <1>6 DEF GrantInv

\* An attempt takes the authorization; it is let through only by one of its own
\* command that is newer than all the attempts before.
LEMMA AttemptKeepsGrantInv ==
  ASSUME GrantInv, NEW c \in Writes, NEW g \in {0, authorized}, Attempt(c, g),
         g # 0 => Authorized(c), grants' = grants
  PROVE  GrantInv'
<1>1. /\ grants \in Seq(Commands) /\ attempts \in Seq(AttemptRecord)
      /\ Len(grants) \in Nat /\ Len(attempts) \in Nat /\ DOMAIN attempts = 1..Len(attempts)
      /\ authorized \in 0..Len(grants)
      /\ \A i \in 1..Len(attempts) :
           /\ attempts[i] \in AttemptRecord
           /\ attempts[i].before <= Len(grants) /\ attempts[i].grant <= Len(grants)
  BY DEF GrantInv, GrantTypeOK
<1>2. PICK a \in AttemptRecord :
        /\ a.call = c /\ a.before = Len(grants) /\ a.grant = g
        /\ authorized' = 0 /\ attempts' = Append(attempts, a)
  <2> DEFINE r == [call |-> c, before |-> Len(grants), grant |-> g]
  <2>1. r.call = c /\ r.before = Len(grants) /\ r.grant = g
    OBVIOUS
  <2>2. r \in AttemptRecord
    <3>1. g \in Nat
      BY <1>1
    <3> QED BY <3>1, <1>1 DEF AttemptRecord
  <2>3. authorized' = 0 /\ attempts' = Append(attempts, r)
    BY DEF Attempt
  <2> HIDE DEF r
  <2> QED BY <2>1, <2>2, <2>3
<1>3. /\ attempts' \in Seq(AttemptRecord) /\ Len(attempts') = Len(attempts) + 1
      /\ DOMAIN attempts' = 1..(Len(attempts) + 1)
      /\ \A i \in 1..Len(attempts) : attempts'[i] = attempts[i]
      /\ attempts'[Len(attempts) + 1] = a
  BY <1>1, <1>2
<1>4. GrantTypeOK'
  <2>1. \A i \in 1..Len(attempts') :
          attempts'[i].before <= Len(grants) /\ attempts'[i].grant <= Len(grants)
    BY <1>1, <1>2, <1>3
  <2> QED BY <1>1, <1>2, <1>3, <2>1 DEF GrantTypeOK
<1>5. GrantIsFresh'
  BY <1>2 DEF GrantIsFresh
<1>6. WriteOncePerAuthorization'
  <2> SUFFICES ASSUME NEW j \in 1..(Len(attempts) + 1), attempts'[j].grant # 0
               PROVE  /\ grants[attempts'[j].grant] = Command[attempts'[j].call]
                      /\ \A i \in 1..(j - 1) : attempts'[i].before < attempts'[j].grant
    BY <1>3 DEF WriteOncePerAuthorization
  <2>1. CASE j \in 1..Len(attempts)
    <3>1. attempts'[j] = attempts[j] /\ \A i \in 1..(j - 1) : attempts'[i] = attempts[i]
      BY <2>1, <1>1, <1>3
    <3> QED BY <2>1, <3>1, <1>1 DEF GrantInv, WriteOncePerAuthorization
  <2>2. CASE j = Len(attempts) + 1
    <3>1. attempts'[j].grant = authorized /\ attempts'[j].call = c /\ authorized # 0
      BY <2>2, <1>2, <1>3
    <3>2. grants[authorized] = Command[c]
      BY <3>1, <1>2, <1>3, <2>2 DEF Authorized
    <3>3. \A i \in 1..(j - 1) : attempts'[i].before < authorized
      BY <2>2, <3>1, <1>1, <1>3 DEF GrantInv, GrantIsFresh
    <3> QED BY <3>1, <3>2, <3>3
  <2> QED BY <2>1, <2>2, <1>1
<1> QED BY <1>4, <1>5, <1>6 DEF GrantInv

\* All other steps leave the authorization and its history alone.
LEMMA OthersKeepGrant ==
  ASSUME \/ Connect \/ Disconnect
         \/ \E c \in Reads : RunRead(c) \/ RunReadRefused(c)
         \/ \E k \in DOMAIN sessions : Sdk(k)
  PROVE  UNCHANGED Grant
BY DEF Grant, Connect, Disconnect, RunRead, RunReadRefused, Sdk, Send, Exec, Drop,
       SendRefused, SessionClosed, Answer, Fail, FailDead, SdkUnchanged

LEMMA GrantStep == GrantInv /\ [Next]_vars => GrantInv'
<1> SUFFICES ASSUME GrantInv, [Next]_vars PROVE GrantInv'
  OBVIOUS
<1>1. GrantInv /\ UNCHANGED Grant => GrantInv'
  BY DEF Grant, GrantInv, GrantTypeOK, GrantIsFresh, WriteOncePerAuthorization
<1>2. ASSUME NEW cmd \in Commands, AuthorizeWrite(cmd) PROVE GrantInv'
  BY <1>2, AuthorizeKeepsGrantInv
<1>3. ASSUME NEW c \in Writes, RunWrite(c) PROVE GrantInv'
  BY <1>3, AttemptKeepsGrantInv DEF RunWrite, WriteAdmitted
<1>4. ASSUME NEW c \in Writes, RunWriteRefused(c) PROVE GrantInv'
  BY <1>4, AttemptKeepsGrantInv DEF RunWriteRefused
<1>5. CASE UNCHANGED vars
  BY <1>1, <1>5 DEF vars, Grant
<1> QED
  BY <1>1, <1>2, <1>3, <1>4, <1>5, OthersKeepGrant DEF Next, Tool

\* The authorization in force is newer than every attempt, which had one of its own.
THEOREM GrantCorrect == Spec => []GrantInv
<1>1. Init => GrantInv
  BY DEF Init, GrantInv, GrantTypeOK, GrantIsFresh, WriteOncePerAuthorization,
         AttemptRecord
<1> QED
  BY <1>1, GrantStep, PTL DEF Spec

\* A confirmed write is let through once, as the command that was authorized: every
\* attempt between takes the authorization (authorizeWrite, runWriteCommand,
\* runWriteOperation).
THEOREM WritesOncePerAuthorization == Spec => []WriteOncePerAuthorization
<1>1. GrantInv => WriteOncePerAuthorization
  BY DEF GrantInv
<1> QED
  BY <1>1, GrantCorrect, PTL

-----------------------------------------------------------------------------
(* The sessions *)

Statuses == {"new", "queued", "sent", "ok", "failed", "refused", "dropped"}

TypesOK ==
  /\ closed \in BOOLEAN
  /\ current \in 0..Len(sessions)
  /\ sessions \in Seq(Session)
  /\ stray \in BOOLEAN
  /\ status \in [Calls -> Statuses]

\* Call c waits at place i of the queue of session k.
WaitsAt(c, k, i) ==
  k \in 1..Len(sessions) /\ i \in 1..Len(sessions[k].queue) /\ sessions[k].queue[i] = c
SentIn(c, k) == k \in 1..Len(sessions) /\ sessions[k].busy = c

\* A call waits in one place or is sent in one session, exactly when its status says so.
PlacesOK ==
  \A c \in Calls :
    /\ status[c] = "queued" <=> \E k, i \in Nat : WaitsAt(c, k, i)
    /\ status[c] = "sent" <=> \E k \in Nat : SentIn(c, k)
    /\ \A k, l, i, j \in Nat : WaitsAt(c, k, i) /\ WaitsAt(c, l, j) => k = l /\ i = j
    /\ \A k, l \in Nat : SentIn(c, k) /\ SentIn(c, l) => k = l

\* A session that is no longer used was closed; a dead SDK client is not used, and only
\* disconnect shuts a transport.  Unless a reset was stray, a session was closed because it
\* is dead, or by disconnect, as the last one there will be.
SessionOK(k) ==
  LET s == sessions[k]
  IN  /\ k # current => s.told
      /\ ~s.alive => s.busy = None /\ k # current
      /\ ~s.open => closed
      /\ s.told /\ ~stray => ~s.alive \/ (closed /\ ~s.open /\ k = Len(sessions))

ConnectionsOK ==
  /\ closed => current = 0
  /\ current \in {0, Len(sessions)}
  /\ \A k \in 1..Len(sessions) : SessionOK(k)

SessionInv == TypesOK /\ PlacesOK /\ ConnectionsOK

\* What a step does to the places: a call gets one, the call at place p of a queue leaves
\* it; a call is sent, or no longer.
AddsWaiting(c, k, n) ==
  \A d \in Calls, l, i \in Nat :
    WaitsAt(d, l, i)' <=> WaitsAt(d, l, i) \/ (d = c /\ l = k /\ i = n)
TakesWaiting(k, p) ==
  \A d \in Calls, l, i \in Nat :
    WaitsAt(d, l, i)' <=> IF l = k /\ i >= p THEN WaitsAt(d, l, i + 1) ELSE WaitsAt(d, l, i)
KeepsWaiting == \A d \in Calls, l, i \in Nat : WaitsAt(d, l, i)' <=> WaitsAt(d, l, i)
AddsSent(c, k) == \A d \in Calls, l \in Nat : SentIn(d, l)' <=> SentIn(d, l) \/ (d = c /\ l = k)
DropsSent(k) == \A d \in Calls, l \in Nat : SentIn(d, l)' <=> SentIn(d, l) /\ l # k
KeepsSent == \A d \in Calls, l \in Nat : SentIn(d, l)' <=> SentIn(d, l)

\* A call that is new goes to the end of a queue...
LEMMA PlacesQueued ==
  ASSUME TypesOK, PlacesOK, NEW c \in Calls, NEW k \in Nat, NEW n \in Nat, status[c] = "new",
         status' = [status EXCEPT ![c] = "queued"], AddsWaiting(c, k, n), KeepsSent
  PROVE  PlacesOK'
<1>1. \A d \in Calls : status'[d] = IF d = c THEN "queued" ELSE status[d]
  BY DEF TypesOK
<1>2. \A l, i \in Nat : ~WaitsAt(c, l, i) /\ ~SentIn(c, l)
  BY DEF PlacesOK
<1> QED
  BY <1>1, <1>2 DEF PlacesOK, AddsWaiting, KeepsSent

\* ... its SDK client takes one from a queue, and sends it or not...
LEMMA PlacesTaken ==
  ASSUME TypesOK, PlacesOK, NEW c \in Calls, NEW k \in Nat, NEW p \in Nat, WaitsAt(c, k, p),
         NEW result \in {"sent", "failed", "dropped"},
         status' = [status EXCEPT ![c] = result], TakesWaiting(k, p),
         IF result = "sent" THEN AddsSent(c, k) ELSE KeepsSent
  PROVE  PlacesOK'
<1>1. \A d \in Calls : status'[d] = IF d = c THEN result ELSE status[d]
  BY DEF TypesOK
<1>2. status[c] = "queued" /\ \A l \in Nat : ~SentIn(c, l)
  BY DEF PlacesOK
<1>3. \A l, i \in Nat : WaitsAt(c, l, i) => l = k /\ i = p
  BY DEF PlacesOK
<1>4. ASSUME NEW d \in Calls \ {c}, NEW l \in Nat, NEW i \in Nat, WaitsAt(d, l, i)
      PROVE  \E j \in Nat : WaitsAt(d, l, j)'
  <2>1. l = k => i # p /\ i # 0
    BY <1>4 DEF WaitsAt
  <2>2. CASE l # k \/ i < p
    BY <1>4, <2>2 DEF TakesWaiting
  <2>3. CASE l = k /\ i > p
    <3>1. PICK j \in Nat : j + 1 = i /\ j >= p
      <4>1. i - 1 \in Nat /\ i - 1 >= p /\ (i - 1) + 1 = i
        BY <2>3
      <4> QED
        BY <4>1
    <3>2. WaitsAt(d, l, j + 1)
      BY <1>4, <3>1
    <3> QED
      BY <2>3, <3>1, <3>2 DEF TakesWaiting
  <2> QED
    BY <2>1, <2>2, <2>3
<1>5. ASSUME NEW d \in Calls, NEW l \in Nat, NEW i \in Nat, WaitsAt(d, l, i)'
      PROVE  d # c /\ \E j \in Nat : WaitsAt(d, l, j) /\ j = IF l = k /\ i >= p THEN i + 1 ELSE i
  <2>1. PICK j \in Nat : WaitsAt(d, l, j) /\ j = IF l = k /\ i >= p THEN i + 1 ELSE i
    BY <1>5 DEF TakesWaiting
  <2>2. ~(l = k /\ j = p)
    BY <2>1
  <2> QED
    BY <1>3, <2>1, <2>2
<1>6. ASSUME NEW d \in Calls
      PROVE  status'[d] = "queued" <=> \E l, i \in Nat : WaitsAt(d, l, i)'
  BY <1>1, <1>2, <1>4, <1>5 DEF PlacesOK
<1>7. ASSUME NEW d \in Calls, NEW l \in Nat, NEW m \in Nat, NEW i \in Nat, NEW j \in Nat,
             WaitsAt(d, l, i)', WaitsAt(d, m, j)'
      PROVE  l = m /\ i = j
  <2>1. PICK a \in Nat : WaitsAt(d, l, a) /\ a = IF l = k /\ i >= p THEN i + 1 ELSE i
    BY <1>5, <1>7
  <2>2. PICK b \in Nat : WaitsAt(d, m, b) /\ b = IF m = k /\ j >= p THEN j + 1 ELSE j
    BY <1>5, <1>7
  <2>3. l = m /\ a = b
    BY <2>1, <2>2 DEF PlacesOK
  <2> QED
    BY <2>1, <2>2, <2>3
<1>8. ASSUME NEW d \in Calls
      PROVE  /\ status'[d] = "sent" <=> \E l \in Nat : SentIn(d, l)'
             /\ \A l, m \in Nat : SentIn(d, l)' /\ SentIn(d, m)' => l = m
  BY <1>1, <1>2 DEF PlacesOK, AddsSent, KeepsSent
<1> QED
  BY <1>6, <1>7, <1>8 DEF PlacesOK

\* ... and finishes the one that is sent.
LEMMA PlacesFinished ==
  ASSUME TypesOK, PlacesOK, NEW c \in Calls, NEW k \in Nat, SentIn(c, k),
         NEW result \in {"ok", "failed"}, status' = [status EXCEPT ![c] = result], KeepsWaiting, DropsSent(k)
  PROVE  PlacesOK'
<1>1. \A d \in Calls : status'[d] = IF d = c THEN result ELSE status[d]
  BY DEF TypesOK
<1>2. status[c] = "sent" /\ \A l, i \in Nat : ~WaitsAt(c, l, i)
  BY DEF PlacesOK
<1>3. \A l \in Nat : SentIn(c, l) => l = k
  BY DEF PlacesOK
<1>4. \A d \in Calls : SentIn(d, k) => d = c
  BY DEF SentIn
<1> QED
  BY <1>1, <1>2, <1>3, <1>4 DEF PlacesOK, KeepsWaiting, DropsSent

\* Neither a refusal nor a closing moves a call.
LEMMA PlacesStay ==
  ASSUME TypesOK, PlacesOK,
         \A d \in Calls : status'[d] = status[d] \/ (status[d] = "new" /\ status'[d] = "refused"),
         KeepsWaiting, KeepsSent
  PROVE  PlacesOK'
BY DEF PlacesOK, KeepsWaiting, KeepsSent

\* The session in use, or a new one, takes the commands.
LEMMA EnqueueShape ==
  ASSUME TypesOK, NEW cs \in Seq(Calls), Enqueue(cs)
  PROVE  \E k \in Nat :
           /\ sessions' \in Seq(Session) /\ current' = k /\ k # 0
           /\ \A l \in 1..Len(sessions) : l # k => sessions'[l] = sessions[l]
           /\ \/ /\ current = k /\ k \in 1..Len(sessions) /\ Len(sessions') = Len(sessions)
                 /\ sessions'[k] = [sessions[k] EXCEPT !.queue = sessions[k].queue \o cs]
              \/ /\ current = 0 /\ k = Len(sessions) + 1 /\ Len(sessions') = Len(sessions) + 1
                 /\ sessions'[k] = [NewSession EXCEPT !.queue = cs]
<1>1. CASE current # 0
  <2>1. PICK s : s = [sessions[current] EXCEPT !.queue = sessions[current].queue \o cs]
    OBVIOUS
  <2>2. current \in 1..Len(sessions) /\ sessions[current] \in Session
    BY <1>1 DEF TypesOK
  <2>3. s \in Session
    BY <2>1, <2>2, ConcatProperties DEF Session
  <2>4. sessions' = [sessions EXCEPT ![current] = s] /\ current' = current
    BY <1>1, <2>1 DEF Enqueue
  <2>5. /\ sessions' \in Seq(Session) /\ Len(sessions') = Len(sessions) /\ sessions'[current] = s
        /\ \A l \in 1..Len(sessions) : l # current => sessions'[l] = sessions[l]
    BY <2>2, <2>3, <2>4 DEF TypesOK
  <2>6. current \in Nat
    BY <2>2 DEF TypesOK
  <2> QED
    BY <1>1, <2>1, <2>2, <2>4, <2>5, <2>6
<1>2. CASE current = 0
  <2>1. PICK s : s = [NewSession EXCEPT !.queue = cs]
    OBVIOUS
  <2>2. s \in Session
    BY <2>1 DEF Session, NewSession
  <2>3. sessions' = Append(sessions, s) /\ current' = Len(sessions')
    BY <1>2, <2>1 DEF Enqueue
  <2> QED
    BY <1>2, <2>1, <2>2, <2>3 DEF TypesOK
<1> QED
  BY <1>1, <1>2

\* connect, and the acceptance of a call, leave every connection as it should be.
LEMMA EnqueueConnections ==
  ASSUME TypesOK, ConnectionsOK, NEW cs \in Seq(Calls), Enqueue(cs), ~closed,
         UNCHANGED <<closed, stray>>
  PROVE  ConnectionsOK'
<1>1. PICK k \in Nat :
         /\ sessions' \in Seq(Session) /\ current' = k /\ k # 0
         /\ \A l \in 1..Len(sessions) : l # k => sessions'[l] = sessions[l]
         /\ \/ /\ current = k /\ k \in 1..Len(sessions) /\ Len(sessions') = Len(sessions)
               /\ sessions'[k] = [sessions[k] EXCEPT !.queue = sessions[k].queue \o cs]
            \/ /\ current = 0 /\ k = Len(sessions) + 1 /\ Len(sessions') = Len(sessions) + 1
               /\ sessions'[k] = [NewSession EXCEPT !.queue = cs]
  BY EnqueueShape
<1>2. SessionOK(k)'
  <2>1. CASE k \in 1..Len(sessions) /\ sessions'[k] = [sessions[k] EXCEPT !.queue = sessions[k].queue \o cs]
                 /\ current = k
    <3>1. sessions[k] \in Session /\ SessionOK(k)
      BY <2>1 DEF TypesOK, ConnectionsOK
    <3> QED
      BY <1>1, <2>1, <3>1 DEF SessionOK, Session
  <2>2. CASE sessions'[k] = [NewSession EXCEPT !.queue = cs]
    BY <1>1, <2>2 DEF SessionOK, NewSession
  <2> QED
    BY <1>1, <2>1, <2>2
<1>3. ASSUME NEW l \in 1..Len(sessions), l # k PROVE SessionOK(l)'
  BY <1>1, <1>3 DEF ConnectionsOK, SessionOK
<1>4. \A l \in 1..Len(sessions') : l = k \/ l \in 1..Len(sessions)
  BY <1>1 DEF TypesOK
<1>5. current' \in {0, Len(sessions')} /\ ~closed'
  BY <1>1 DEF TypesOK, ConnectionsOK
<1> QED
  BY <1>2, <1>3, <1>4, <1>5 DEF ConnectionsOK

\* A call that is accepted waits at the end of the queue of the session in use.
LEMMA SubmitOK ==
  ASSUME SessionInv, NEW c \in Calls, status[c] = "new", ~closed, Submit(c),
         UNCHANGED <<closed, stray>>
  PROVE  SessionInv'
<1>1. <<c>> \in Seq(Calls) /\ Enqueue(<<c>>) /\ TypesOK /\ PlacesOK /\ ConnectionsOK
      /\ status' = [status EXCEPT ![c] = "queued"]
  BY DEF Submit, SessionInv
<1>2. PICK k \in Nat :
         /\ sessions' \in Seq(Session) /\ current' = k /\ k # 0
         /\ \A l \in 1..Len(sessions) : l # k => sessions'[l] = sessions[l]
         /\ \/ /\ current = k /\ k \in 1..Len(sessions) /\ Len(sessions') = Len(sessions)
               /\ sessions'[k] = [sessions[k] EXCEPT !.queue = sessions[k].queue \o <<c>>]
            \/ /\ current = 0 /\ k = Len(sessions) + 1 /\ Len(sessions') = Len(sessions) + 1
               /\ sessions'[k] = [NewSession EXCEPT !.queue = <<c>>]
  BY <1>1, EnqueueShape
<1>3. TypesOK'
  BY <1>1, <1>2 DEF TypesOK, Statuses
<1>4. PlacesOK'
  <2>1. CASE k \in 1..Len(sessions)
    <3>1. /\ Len(sessions') = Len(sessions) /\ sessions[k] \in Session
          /\ sessions'[k] = [sessions[k] EXCEPT !.queue = sessions[k].queue \o <<c>>]
      BY <1>1, <1>2, <2>1 DEF TypesOK
    <3>2. PICK q \in Seq(Calls) : q = sessions[k].queue
      BY <3>1 DEF Session
    <3>3. sessions'[k].queue = Append(q, c) /\ sessions'[k].busy = sessions[k].busy
      <4>1. q \o <<c>> = Append(q, c)
        BY <3>2
      <4> QED
        BY <3>1, <3>2, <4>1 DEF Session
    <3>4. /\ Len(Append(q, c)) = Len(q) + 1 /\ Append(q, c)[Len(q) + 1] = c /\ Len(q) \in Nat
          /\ \A i \in 1..Len(q) : Append(q, c)[i] = q[i]
      BY <3>2
    <3>5. PICK n \in Nat : n = Len(q) + 1
      BY <3>4
    <3>6. ASSUME NEW d \in Calls, NEW l \in Nat, NEW i \in Nat
          PROVE  WaitsAt(d, l, i)' <=> WaitsAt(d, l, i) \/ (d = c /\ l = k /\ i = n)
      <4>1. CASE l = k
        <5>1. WaitsAt(d, k, i)' <=> i \in 1..Len(Append(q, c)) /\ Append(q, c)[i] = d
          BY <2>1, <3>1, <3>3 DEF WaitsAt
        <5>2. WaitsAt(d, k, i) <=> i \in 1..Len(q) /\ q[i] = d
          BY <2>1, <3>2 DEF WaitsAt
        <5> QED
          BY <3>4, <3>5, <4>1, <5>1, <5>2
      <4>2. CASE l # k
        BY <1>2, <3>1, <4>2 DEF WaitsAt
      <4> QED
        BY <4>1, <4>2
    <3>7. KeepsSent
      BY <1>2, <2>1, <3>1, <3>3 DEF SentIn, KeepsSent
    <3>8. AddsWaiting(c, k, n)
      BY <3>6 DEF AddsWaiting
    <3> QED
      BY <1>1, <3>7, <3>8, PlacesQueued
  <2>2. CASE k = Len(sessions) + 1
    <3>1. Len(sessions') = Len(sessions) + 1 /\ Len(sessions) \in Nat
          /\ sessions'[k].queue = <<c>> /\ sessions'[k].busy = None
      BY <1>1, <1>2, <2>2 DEF TypesOK, NewSession
    <3>2. PICK n \in Nat : n = 1
      OBVIOUS
    <3>3. ASSUME NEW d \in Calls, NEW l \in Nat, NEW i \in Nat
          PROVE  WaitsAt(d, l, i)' <=> WaitsAt(d, l, i) \/ (d = c /\ l = k /\ i = n)
      <4>1. ASSUME l = k PROVE WaitsAt(d, l, i)' <=> d = c /\ i = 1
        BY <2>2, <3>1, <4>1 DEF WaitsAt
      <4>2. ASSUME l = k PROVE ~WaitsAt(d, l, i)
        BY <2>2, <3>1, <4>2 DEF WaitsAt
      <4>3. CASE l # k
        BY <1>2, <2>2, <3>1, <4>3 DEF WaitsAt
      <4> QED
        BY <3>2, <4>1, <4>2, <4>3
    <3>4. KeepsSent
      BY <1>2, <2>2, <3>1, SessionAssumption DEF SentIn, KeepsSent
    <3>5. AddsWaiting(c, k, n)
      BY <3>3 DEF AddsWaiting
    <3> QED
      BY <1>1, <3>4, <3>5, PlacesQueued
  <2> QED
    BY <1>2, <2>1, <2>2
<1>5. ConnectionsOK'
  BY <1>1, EnqueueConnections
<1> QED
  BY <1>3, <1>4, <1>5 DEF SessionInv

LEMMA ConnectOK ==
  ASSUME SessionInv, Connect
  PROVE  SessionInv'
<1>1. <<>> \in Seq(Calls) /\ Enqueue(<<>>) /\ TypesOK /\ PlacesOK /\ ConnectionsOK
      /\ ~closed /\ UNCHANGED <<closed, stray, status>>
  BY DEF Connect, SessionInv
<1>2. PICK k \in Nat :
         /\ sessions' \in Seq(Session) /\ current' = k /\ k # 0
         /\ \A l \in 1..Len(sessions) : l # k => sessions'[l] = sessions[l]
         /\ \/ /\ current = k /\ k \in 1..Len(sessions) /\ Len(sessions') = Len(sessions)
               /\ sessions'[k] = [sessions[k] EXCEPT !.queue = sessions[k].queue \o <<>>]
            \/ /\ current = 0 /\ k = Len(sessions) + 1 /\ Len(sessions') = Len(sessions) + 1
               /\ sessions'[k] = [NewSession EXCEPT !.queue = <<>>]
  BY <1>1, EnqueueShape
<1>3. TypesOK'
  BY <1>1, <1>2 DEF TypesOK
<1>4. PlacesOK'
  <2>1. CASE k \in 1..Len(sessions)
    <3>1. /\ Len(sessions') = Len(sessions) /\ sessions[k] \in Session
          /\ sessions'[k] = [sessions[k] EXCEPT !.queue = sessions[k].queue \o <<>>]
      BY <1>1, <1>2, <2>1 DEF TypesOK
    <3>2. sessions[k].queue \o <<>> = sessions[k].queue
      BY <3>1, ConcatEmptySeq DEF Session
    <3>3. sessions'[k].queue = sessions[k].queue /\ sessions'[k].busy = sessions[k].busy
      BY <3>1, <3>2 DEF Session
    <3> QED
      BY <1>1, <1>2, <3>1, <3>3, PlacesStay DEF WaitsAt, SentIn, KeepsWaiting, KeepsSent
  <2>2. CASE k = Len(sessions) + 1
    <3>1. Len(sessions') = Len(sessions) + 1 /\ Len(sessions) \in Nat
          /\ sessions'[k].queue = <<>> /\ sessions'[k].busy = None
      BY <1>1, <1>2, <2>2 DEF TypesOK, NewSession
    <3>2. KeepsWaiting
      BY <1>2, <2>2, <3>1 DEF WaitsAt, KeepsWaiting
    <3>3. KeepsSent
      BY <1>2, <2>2, <3>1, SessionAssumption DEF SentIn, KeepsSent
    <3> QED
      BY <1>1, <3>2, <3>3, PlacesStay
  <2> QED
    BY <1>2, <2>1, <2>2
<1>5. ConnectionsOK'
  BY <1>1, EnqueueConnections
<1> QED
  BY <1>3, <1>4, <1>5 DEF SessionInv

\* In session k the queue becomes q and the call in flight b; the others keep theirs.
Moves(k, q, b) ==
  /\ Len(sessions') = Len(sessions)
  /\ \A l \in 1..Len(sessions) :
       /\ sessions'[l].queue = IF l = k THEN q ELSE sessions[l].queue
       /\ sessions'[l].busy = IF l = k THEN b ELSE sessions[l].busy

\* The queue q without what was at place p.
Without(q, p, r) ==
  /\ r \in Seq(Calls) /\ Len(r) = Len(q) - 1
  /\ \A i \in 1..Len(q) - 1 : r[i] = IF i < p THEN q[i] ELSE q[i + 1]

LEMMA HeadWithout ==
  ASSUME NEW q \in Seq(Calls), q # <<>>
  PROVE  /\ Head(q) \in Calls /\ Head(q) = q[1] /\ 1 \in 1..Len(q)
         /\ Tail(q) \in Seq(Calls) /\ Without(q, 1, Tail(q))
<1>1. /\ Head(q) \in Calls /\ Head(q) = q[1] /\ 1 \in 1..Len(q) /\ Len(q) \in Nat
      /\ Tail(q) \in Seq(Calls) /\ Len(Tail(q)) = Len(q) - 1
      /\ \A i \in 1..Len(q) - 1 : Tail(q)[i] = q[i + 1]
  OBVIOUS
<1> QED
  BY <1>1 DEF Without

LEMMA DropWithout ==
  ASSUME NEW q \in Seq(Calls), NEW p \in 1..Len(q)
  PROVE  Without(q, p, RemoveAt(q, p))
<1>1. Len(q) \in Nat /\ p \in Nat /\ p - 1 \in 0..Len(q) /\ p + 1 \in 1..(Len(q) + 1)
      /\ \A i \in 1..Len(q) : q[i] \in Calls
  OBVIOUS
<1>2. PICK a : a = SubSeq(q, 1, p - 1)
  OBVIOUS
<1>3. PICK b : b = SubSeq(q, p + 1, Len(q))
  OBVIOUS
<1>4. a \in Seq(Calls) /\ Len(a) = p - 1 /\ \A i \in 1..p - 1 : a[i] = q[i]
  BY <1>1, <1>2
<1>5. b \in Seq(Calls) /\ Len(b) = Len(q) - p /\ \A i \in 1..Len(q) - p : b[i] = q[p + i]
  <2>1. b \in Seq(Calls)
    BY <1>1, <1>3
  <2>2. Len(b) = Len(q) - p
    BY <1>1, <1>3
  <2>3. \A i \in 1..Len(q) - p : b[i] = q[p + i]
    BY <1>1, <1>3
  <2> QED
    BY <2>1, <2>2, <2>3
<1>6. /\ a \o b \in Seq(Calls) /\ Len(a \o b) = Len(a) + Len(b)
      /\ \A i \in 1..Len(a) + Len(b) : (a \o b)[i] = IF i <= Len(a) THEN a[i] ELSE b[i - Len(a)]
  BY <1>4, <1>5, ConcatProperties
<1>7. RemoveAt(q, p) = a \o b
  BY <1>2, <1>3 DEF RemoveAt
<1>8. ASSUME NEW i \in 1..Len(q) - 1
      PROVE  (a \o b)[i] = IF i < p THEN q[i] ELSE q[i + 1]
  <2>0. i \in Nat /\ i \in 1..Len(a) + Len(b)
    BY <1>1, <1>4, <1>5
  <2>1. CASE i < p
    BY <1>1, <1>4, <1>5, <1>6, <2>0, <2>1
  <2>2. CASE i >= p
    <3>1. PICK n \in 1..Len(q) - p : n = i - (p - 1)
      BY <1>1, <2>0, <2>2
    <3>2. (a \o b)[i] = b[n]
      BY <1>1, <1>4, <1>5, <1>6, <2>0, <2>2, <3>1
    <3>3. b[n] = q[p + n]
      BY <1>5
    <3>4. p + n = i + 1 /\ ~(i < p)
      BY <1>1, <2>0, <2>2, <3>1
    <3>5. b[n] = q[i + 1]
      BY <3>3, <3>4
    <3> QED
      BY <3>2, <3>4, <3>5
  <2> QED
    BY <1>1, <2>0, <2>1, <2>2
<1>9. Len(a \o b) = Len(q) - 1
  BY <1>1, <1>4, <1>5, <1>6
<1> QED
  BY <1>6, <1>7, <1>8, <1>9 DEF Without

LEMMA PlaceTaken ==
  ASSUME TypesOK, NEW k \in 1..Len(sessions), NEW q, q = sessions[k].queue,
         NEW p \in 1..Len(q), NEW r, Without(q, p, r), NEW b, Moves(k, r, b)
  PROVE  /\ q[p] \in Calls /\ WaitsAt(q[p], k, p) /\ TakesWaiting(k, p)
         /\ b = sessions[k].busy => KeepsSent
         /\ sessions[k].busy = None /\ b = q[p] => AddsSent(q[p], k)
<1>1. sessions[k] \in Session /\ q \in Seq(Calls) /\ Len(sessions) \in Nat
  <2>1. sessions[k] \in Session /\ Len(sessions) \in Nat
    BY DEF TypesOK
  <2> QED
    BY <2>1 DEF Session
<1>2. Len(q) \in Nat /\ p \in Nat /\ q[p] \in Calls
  BY <1>1
<1>3. WaitsAt(q[p], k, p)
  BY <1>2 DEF WaitsAt
<1>4. ASSUME NEW d \in Calls, NEW l \in Nat, NEW i \in Nat
      PROVE  WaitsAt(d, l, i)' <=>
               IF l = k /\ i >= p THEN WaitsAt(d, l, i + 1) ELSE WaitsAt(d, l, i)
  <2>1. CASE l = k
    <3>1. WaitsAt(d, k, i)' <=> i \in 1..Len(r) /\ r[i] = d
      BY DEF WaitsAt, Moves
    <3>2. \A m \in Nat : WaitsAt(d, k, m) <=> m \in 1..Len(q) /\ q[m] = d
      BY DEF WaitsAt
    <3>3. /\ Len(r) = Len(q) - 1
          /\ i \in 1..Len(q) - 1 => r[i] = IF i < p THEN q[i] ELSE q[i + 1]
      BY DEF Without
    <3>4. CASE i >= p
      <4>1. WaitsAt(d, k, i + 1) <=> i + 1 \in 1..Len(q) /\ q[i + 1] = d
        BY <3>2
      <4> QED
        BY <1>2, <2>1, <3>1, <3>3, <3>4, <4>1
    <3>5. CASE i < p
      BY <1>2, <2>1, <3>1, <3>2, <3>3, <3>5
    <3> QED
      BY <1>2, <3>4, <3>5
  <2>2. CASE l # k
    BY <2>2 DEF WaitsAt, Moves
  <2> QED
    BY <2>1, <2>2
<1>5. b = sessions[k].busy => KeepsSent
  BY DEF KeepsSent, SentIn, Moves
<1>6. sessions[k].busy = None /\ b = q[p] => AddsSent(q[p], k)
  <2> SUFFICES ASSUME sessions[k].busy = None, b = q[p], NEW d \in Calls, NEW l \in Nat
               PROVE  SentIn(d, l)' <=> SentIn(d, l) \/ (d = q[p] /\ l = k)
    BY DEF AddsSent
  <2>1. CASE l = k
    BY <2>1, SessionAssumption DEF SentIn, Moves
  <2>2. CASE l # k
    BY <2>2 DEF SentIn, Moves
  <2> QED
    BY <2>1, <2>2
<1> QED
  BY <1>2, <1>3, <1>4, <1>5, <1>6 DEF TakesWaiting

LEMMA CallDone ==
  ASSUME TypesOK, NEW k \in 1..Len(sessions), sessions[k].busy # None,
         Moves(k, sessions[k].queue, None)
  PROVE  /\ sessions[k].busy \in Calls /\ SentIn(sessions[k].busy, k)
         /\ KeepsWaiting /\ DropsSent(k)
<1>1. sessions[k] \in Session /\ Len(sessions) \in Nat
  BY DEF TypesOK
<1>2. KeepsWaiting
  BY DEF KeepsWaiting, WaitsAt, Moves
<1>3. DropsSent(k)
  BY <1>1, SessionAssumption DEF DropsSent, SentIn, Moves
<1> QED
  BY <1>1, <1>2, <1>3 DEF Session, SentIn

\* Closing a transport leaves the calls of its session in place.
LEMMA CloseFields ==
  ASSUME NEW s \in Session, NEW reason \in {"mcp_reset", "mcp_disconnect"}
  PROVE  /\ CloseTransport(s, reason) \in Session
         /\ CloseTransport(s, reason).told
         /\ CloseTransport(s, reason).open = (s.open /\ reason # "mcp_disconnect")
         /\ CloseTransport(s, reason).alive = s.alive
         /\ CloseTransport(s, reason).queue = s.queue
         /\ CloseTransport(s, reason).busy = s.busy
         /\ CloseTransport(s, reason).timing = s.timing
BY DEF CloseTransport, Session

\* A step of session k that resets nothing.
LEMMA StepPlain ==
  ASSUME TypesOK, ConnectionsOK, NEW k \in 1..Len(sessions), NEW s \in Session,
         sessions' = [sessions EXCEPT ![k] = s], UNCHANGED <<closed, current, stray>>,
         /\ s.told = sessions[k].told /\ s.open = sessions[k].open /\ s.alive = sessions[k].alive
         /\ ~s.alive => s.busy = None
  PROVE  /\ sessions' \in Seq(Session) /\ current' \in 0..Len(sessions') /\ stray' \in BOOLEAN
         /\ Moves(k, s.queue, s.busy) /\ ConnectionsOK'
<1>1. /\ sessions' \in Seq(Session) /\ Len(sessions') = Len(sessions) /\ sessions'[k] = s
      /\ \A l \in 1..Len(sessions) : l # k => sessions'[l] = sessions[l]
  BY DEF TypesOK
<1>2. SessionOK(k)'
  BY <1>1 DEF ConnectionsOK, SessionOK
<1>3. \A l \in 1..Len(sessions) : l # k => SessionOK(l)'
  BY <1>1 DEF ConnectionsOK, SessionOK
<1>4. ConnectionsOK'
  BY <1>1, <1>2, <1>3 DEF ConnectionsOK
<1>5. Moves(k, s.queue, s.busy)
  BY <1>1 DEF Moves
<1> QED
  BY <1>1, <1>4, <1>5 DEF TypesOK

\* A failure of session k after which its SDK client is dead, and whichever session is in
\* use is reset.
LEMMA StepReset ==
  ASSUME TypesOK, ConnectionsOK, NEW k \in 1..Len(sessions), NEW s \in Session,
         NEW S, S = [sessions EXCEPT ![k] = s], Reset(k, S), closed' = closed,
         s.told = sessions[k].told, s.open = sessions[k].open, ~s.alive, s.busy = None
  PROVE  /\ sessions' \in Seq(Session) /\ current' \in 0..Len(sessions') /\ stray' \in BOOLEAN
         /\ Moves(k, s.queue, s.busy) /\ ConnectionsOK' /\ current' = 0
         /\ ~stray' => ~stray
<1>1. /\ S \in Seq(Session) /\ Len(S) = Len(sessions) /\ S[k] = s
      /\ \A l \in 1..Len(sessions) : S[l] \in Session /\ (l # k => S[l] = sessions[l])
      /\ Len(sessions) \in Nat
  BY DEF TypesOK
<1>2. CASE closed \/ current = 0
  <2>1. sessions' = S /\ UNCHANGED <<current, stray>> /\ current = 0
    BY <1>2 DEF Reset, ConnectionsOK
  <2>2. ASSUME NEW l \in 1..Len(sessions) PROVE SessionOK(l)'
    <3>0. l # 0
      BY <1>1
    <3>1. SessionOK(l) /\ l # 0
      BY <3>0 DEF ConnectionsOK
    <3>2. CASE l = k
      <4>1. sessions'[l] = s /\ s.told /\ (~s.open => closed)
        BY <1>1, <2>1, <3>1, <3>2 DEF SessionOK
      <4> QED
        BY <2>1, <3>1, <4>1 DEF SessionOK
    <3>3. CASE l # k
      BY <1>1, <2>1, <3>1, <3>3 DEF SessionOK
    <3> QED
      BY <3>2, <3>3
  <2>3. ConnectionsOK' /\ current' = 0
    BY <1>1, <2>1, <2>2 DEF ConnectionsOK
  <2>4. Moves(k, s.queue, s.busy)
    BY <1>1, <2>1 DEF Moves
  <2> QED
    BY <1>1, <2>1, <2>3, <2>4 DEF TypesOK
<1>3. CASE ~(closed \/ current = 0)
  <2>1. PICK m \in 1..Len(sessions) : m = current
    BY <1>3 DEF TypesOK
  <2>2. PICK t : t = CloseTransport(S[m], "mcp_reset")
    OBVIOUS
  <2>3. /\ sessions' = [S EXCEPT ![m] = t] /\ current' = 0 /\ stray' = (stray \/ m # k)
    BY <1>3, <2>1, <2>2 DEF Reset
  <2>4. /\ t \in Session /\ t.told /\ t.open = S[m].open /\ t.alive = S[m].alive
        /\ t.queue = S[m].queue /\ t.busy = S[m].busy
    <3>1. PICK x \in Session : x = S[m]
      BY <1>1
    <3>2. x.open \in BOOLEAN
      BY DEF Session
    <3>3. /\ t \in Session /\ t.told /\ t.open = (x.open /\ "mcp_reset" # "mcp_disconnect")
          /\ t.alive = x.alive /\ t.queue = x.queue /\ t.busy = x.busy
      BY <2>2, <3>1, CloseFields
    <3> QED
      BY <3>1, <3>2, <3>3
  <2>5. /\ sessions' \in Seq(Session) /\ Len(sessions') = Len(sessions) /\ sessions'[m] = t
        /\ \A l \in 1..Len(sessions) : l # m => sessions'[l] = S[l]
    BY <1>1, <2>3, <2>4
  <2>6. SessionOK(m) /\ SessionOK(k) /\ stray \in BOOLEAN
    BY DEF ConnectionsOK, TypesOK
  <2>7. SessionOK(m)'
    <3>1. CASE m = k
      BY <1>1, <1>3, <2>1, <2>3, <2>4, <2>5, <2>6, <3>1 DEF SessionOK
    <3>2. CASE m # k
      BY <1>1, <1>3, <2>1, <2>3, <2>4, <2>5, <2>6, <3>2 DEF SessionOK
    <3> QED
      BY <3>1, <3>2
  <2>8. ASSUME NEW l \in 1..Len(sessions), l # m PROVE SessionOK(l)'
    <3>1. SessionOK(l)
      BY DEF ConnectionsOK
    <3>5. sessions'[l] = S[l] /\ ~closed /\ ~closed' /\ current' = 0
      BY <1>3, <2>3, <2>5, <2>8
    <3>0. l # 0
      BY <1>1
    <3>6. sessions[l].told /\ l # 0
      BY <2>1, <2>8, <3>0, <3>1 DEF SessionOK
    <3>7. ~stray' => ~stray /\ m = k
      BY <2>3, <2>6
    <3>4. /\ sessions'[l] = S[l] /\ ~closed /\ ~closed' /\ current' = 0
          /\ sessions[l].told /\ l # 0 /\ (~stray' => ~stray /\ m = k)
      BY <3>5, <3>6, <3>7
    <3>2. CASE l = k
      BY <1>1, <2>8, <3>1, <3>2, <3>4 DEF SessionOK
    <3>3. CASE l # k
      BY <1>1, <3>1, <3>3, <3>4 DEF SessionOK
    <3> QED
      BY <3>2, <3>3
  <2>9. Moves(k, s.queue, s.busy)
    BY <1>1, <2>4, <2>5 DEF Moves
  <2>10. ConnectionsOK'
    <3>1. \A l \in 1..Len(sessions') : SessionOK(l)'
      BY <2>5, <2>7, <2>8
    <3> QED
      BY <1>3, <2>3, <3>1 DEF ConnectionsOK
  <2> QED
    BY <1>1, <2>3, <2>5, <2>6, <2>9, <2>10
<1> QED
  BY <1>2, <1>3

\* send: the first command of the queue is in flight.
LEMMA SendOK ==
  ASSUME SessionInv, NEW k \in 1..Len(sessions), Send(k)
  PROVE  SessionInv'
<1>1. /\ TypesOK /\ PlacesOK /\ ConnectionsOK /\ SessionOK(k) /\ sessions[k] \in Session
  BY DEF SessionInv, TypesOK, ConnectionsOK
<1>n. k \in Nat
  OBVIOUS
<1>2. PICK q \in Seq(Calls) : q = sessions[k].queue /\ q # <<>> /\ sessions[k].busy = None
  BY <1>1 DEF Session, Send, Ready
<1>3. PICK c \in Calls : c = Head(q) /\ Tail(q) \in Seq(Calls)
  BY <1>2
<1>4. PICK s : s = [sessions[k] EXCEPT !.queue = Tail(q), !.busy = c, !.exec = FALSE]
  OBVIOUS
<1>5. /\ s \in Session /\ s.queue = Tail(q) /\ s.busy = c /\ s.told = sessions[k].told
      /\ s.open = sessions[k].open /\ s.alive = sessions[k].alive
  BY <1>1, <1>2, <1>3, <1>4 DEF Session
<1>6. /\ sessions' = [sessions EXCEPT ![k] = s] /\ status' = [status EXCEPT ![c] = "sent"]
      /\ UNCHANGED <<closed, current, stray>> /\ sessions[k].alive /\ sessions[k].open
  BY <1>1, <1>2, <1>3, <1>4 DEF Send, Finish, SdkUnchanged, TypesOK
<1>7. /\ sessions' \in Seq(Session) /\ current' \in 0..Len(sessions') /\ stray' \in BOOLEAN
      /\ Moves(k, Tail(q), c) /\ ConnectionsOK'
  BY <1>1, <1>5, <1>6, StepPlain
<1>8. WaitsAt(c, k, 1) /\ TakesWaiting(k, 1) /\ AddsSent(c, k)
  BY <1>1, <1>2, <1>3, <1>7, HeadWithout, PlaceTaken
<1>9. PlacesOK'
  BY <1>1, <1>6, <1>8, PlacesTaken, <1>n
<1>10. TypesOK'
  BY <1>1, <1>6, <1>7 DEF TypesOK, Statuses
<1> QED
  BY <1>7, <1>9, <1>10 DEF SessionInv

\* The first command of the queue is not sent: the transport or the SDK client is closed.
LEMMA NotSentOK ==
  ASSUME SessionInv, NEW k \in 1..Len(sessions), SendRefused(k) \/ SessionClosed(k)
  PROVE  /\ SessionInv'
         /\ SessionClosed(k) => current' = 0
         /\ ~stray' => ~stray
<1>1. /\ TypesOK /\ PlacesOK /\ ConnectionsOK /\ SessionOK(k) /\ sessions[k] \in Session
  BY DEF SessionInv, TypesOK, ConnectionsOK
<1>n. k \in Nat
  OBVIOUS
<1>2. PICK q \in Seq(Calls) : q = sessions[k].queue /\ q # <<>> /\ sessions[k].busy = None
  BY <1>1 DEF Session, SendRefused, SessionClosed, Ready
<1>3. PICK c \in Calls : c = Head(q) /\ Tail(q) \in Seq(Calls)
  BY <1>2
<1>4. PICK s : s = [sessions[k] EXCEPT !.queue = Tail(q), !.last = c]
  OBVIOUS
<1>5. /\ s \in Session /\ s.queue = Tail(q) /\ s.busy = None /\ s.told = sessions[k].told
      /\ s.open = sessions[k].open /\ s.alive = sessions[k].alive
  BY <1>1, <1>2, <1>3, <1>4 DEF Session
<1>6. PICK S : S = [sessions EXCEPT ![k] = s]
  OBVIOUS
<1>7. /\ status' = [status EXCEPT ![c] = "failed"] /\ closed' = closed
      /\ \/ SendRefused(k) /\ sessions' = [sessions EXCEPT ![k] = s] /\ UNCHANGED <<current, stray>>
         \/ SessionClosed(k) /\ Reset(k, S) /\ ~s.alive
  <2>1. S = [sessions EXCEPT ![k].queue = Tail(@), ![k].last = Head(sessions[k].queue)]
    BY <1>1, <1>2, <1>3, <1>4, <1>6 DEF TypesOK
  <2> QED
    BY <1>2, <1>3, <1>5, <1>6, <2>1 DEF SendRefused, SessionClosed, Finish, SdkUnchanged
<1>8. /\ sessions' \in Seq(Session) /\ current' \in 0..Len(sessions') /\ stray' \in BOOLEAN
      /\ Moves(k, Tail(q), None) /\ ConnectionsOK' /\ (~stray' => ~stray)
      /\ SessionClosed(k) => current' = 0
  <2>1. CASE SendRefused(k) /\ sessions' = [sessions EXCEPT ![k] = s] /\ UNCHANGED <<current, stray>>
    <3>2. ~SessionClosed(k)
      BY <2>1 DEF SendRefused, SessionClosed
    <3> QED
      BY <1>1, <1>5, <1>7, <2>1, <3>2, StepPlain
  <2>2. CASE Reset(k, S) /\ ~s.alive
    BY <1>1, <1>5, <1>6, <1>7, <2>2, StepReset
  <2> QED
    BY <1>7, <2>1, <2>2
<1>9. WaitsAt(c, k, 1) /\ TakesWaiting(k, 1) /\ KeepsSent
  BY <1>1, <1>2, <1>3, <1>8, HeadWithout, PlaceTaken
<1>10. PlacesOK'
  BY <1>1, <1>7, <1>9, PlacesTaken, <1>n
<1>11. TypesOK'
  BY <1>1, <1>7, <1>8 DEF TypesOK, Statuses
<1> QED
  BY <1>8, <1>10, <1>11 DEF SessionInv

\* The call in flight is answered or fails.
LEMMA FinishedOK ==
  ASSUME SessionInv, NEW k \in 1..Len(sessions), Answer(k) \/ Fail(k) \/ FailDead(k)
  PROVE  /\ SessionInv'
         /\ FailDead(k) => current' = 0
         /\ ~stray' => ~stray
<1>1. /\ TypesOK /\ PlacesOK /\ ConnectionsOK /\ SessionOK(k) /\ sessions[k] \in Session
  BY DEF SessionInv, TypesOK, ConnectionsOK
<1>n. k \in Nat
  OBVIOUS
<1>2. PICK c \in Calls : c = sessions[k].busy /\ c # None
  BY <1>1 DEF Session, Answer, Fail, FailDead
<1>3. sessions[k].alive = TRUE
  BY <1>1, <1>2 DEF SessionOK, Session
<1>4. PICK t \in {None, c}, alive \in BOOLEAN :
        /\ closed' = closed
        /\ \/ alive = TRUE /\ sessions' = Done(k, t, alive) /\ UNCHANGED <<current, stray>>
              /\ ~FailDead(k)
           \/ alive = FALSE /\ Reset(k, Done(k, t, alive))
  <2>1. CASE Answer(k) /\ ~FailDead(k)
    BY <1>2, <2>1 DEF Answer, SdkUnchanged
  <2>2. CASE Fail(k) /\ ~FailDead(k)
    BY <1>2, <2>2 DEF Fail, FailTimings, SdkUnchanged
  <2>3. CASE FailDead(k)
    BY <1>2, <2>3 DEF FailDead, FailTimings, SdkUnchanged
  <2> QED
    BY <2>1, <2>2, <2>3
<1>4a. PICK S : S = Done(k, t, alive)
  OBVIOUS
<1>5. PICK result \in {"ok", "failed"} : status' = [status EXCEPT ![c] = result]
  BY <1>2 DEF Answer, Fail, FailDead, Finish
<1>6. PICK s : s = [sessions[k] EXCEPT !.busy = None, !.last = c, !.timing = t, !.alive = alive]
  OBVIOUS
<1>7. /\ s \in Session /\ s.queue = sessions[k].queue /\ s.busy = None /\ s.told = sessions[k].told
      /\ s.open = sessions[k].open /\ s.alive = alive
  BY <1>1, <1>6 DEF Session
<1>8. S = [sessions EXCEPT ![k] = s]
  BY <1>1, <1>2, <1>4a, <1>6 DEF Done, TypesOK
<1>9. /\ sessions' \in Seq(Session) /\ current' \in 0..Len(sessions') /\ stray' \in BOOLEAN
      /\ Moves(k, sessions[k].queue, None) /\ ConnectionsOK' /\ (~stray' => ~stray)
      /\ FailDead(k) => current' = 0
  <2>1. CASE alive = TRUE /\ sessions' = S /\ UNCHANGED <<current, stray>> /\ ~FailDead(k)
    BY <1>1, <1>3, <1>4, <1>7, <1>8, <2>1, StepPlain
  <2>2. CASE alive = FALSE /\ Reset(k, S)
    BY <1>1, <1>4, <1>7, <1>8, <2>2, StepReset
  <2> QED
    BY <1>4, <1>4a, <2>1, <2>2
<1>10. SentIn(c, k) /\ KeepsWaiting /\ DropsSent(k)
  BY <1>1, <1>2, <1>9, CallDone
<1>11. PlacesOK'
  BY <1>1, <1>5, <1>10, PlacesFinished, <1>n
<1>12. TypesOK'
  BY <1>1, <1>4, <1>5, <1>9 DEF TypesOK, Statuses
<1> QED
  BY <1>9, <1>11, <1>12 DEF SessionInv

\* The connection is there, and the command goes out.
LEMMA ExecOK ==
  ASSUME SessionInv, NEW k \in 1..Len(sessions), Exec(k)
  PROVE  SessionInv'
<1>1. /\ TypesOK /\ PlacesOK /\ ConnectionsOK /\ SessionOK(k) /\ sessions[k] \in Session
  BY DEF SessionInv, TypesOK, ConnectionsOK
<1>2. PICK s : s = [sessions[k] EXCEPT !.exec = TRUE]
  OBVIOUS
<1>3. /\ s \in Session /\ s.queue = sessions[k].queue /\ s.busy = sessions[k].busy
      /\ s.told = sessions[k].told /\ s.open = sessions[k].open /\ s.alive = sessions[k].alive
  BY <1>1, <1>2 DEF Session
<1>4. sessions' = [sessions EXCEPT ![k] = s] /\ UNCHANGED <<closed, current, status, stray>>
  BY <1>1, <1>2 DEF Exec, SdkUnchanged, TypesOK
<1>5. /\ sessions' \in Seq(Session) /\ current' \in 0..Len(sessions') /\ stray' \in BOOLEAN
      /\ Moves(k, s.queue, s.busy) /\ ConnectionsOK'
  <2>1. ~s.alive => s.busy = None
    BY <1>1, <1>3 DEF SessionOK
  <2> QED
    BY <1>1, <1>3, <1>4, <2>1, StepPlain
<1>6. KeepsWaiting /\ KeepsSent
  BY <1>3, <1>5 DEF KeepsWaiting, KeepsSent, WaitsAt, SentIn, Moves
<1>7. PlacesOK'
  BY <1>1, <1>4, <1>6, PlacesStay
<1>8. TypesOK'
  BY <1>1, <1>4, <1>5 DEF TypesOK
<1> QED
  BY <1>5, <1>7, <1>8 DEF SessionInv

\* A call that waits is given up, wherever it is in the queue.
LEMMA DropOK ==
  ASSUME SessionInv, NEW k \in 1..Len(sessions), NEW p \in DOMAIN sessions[k].queue, Drop(k, p)
  PROVE  SessionInv' /\ sessions[k].queue[p] \in Calls
<1>1. /\ TypesOK /\ PlacesOK /\ ConnectionsOK /\ SessionOK(k) /\ sessions[k] \in Session
  BY DEF SessionInv, TypesOK, ConnectionsOK
<1>2. PICK q \in Seq(Calls) : q = sessions[k].queue
  BY <1>1 DEF Session
<1>3. p \in 1..Len(q) /\ p \in Nat /\ k \in Nat
  BY <1>2
<1>4. PICK r : r = RemoveAt(q, p)
  OBVIOUS
<1>5. Without(q, p, r) /\ r \in Seq(Calls)
  <2>1. Without(q, p, r)
    BY <1>2, <1>3, <1>4, DropWithout
  <2> QED
    BY <2>1 DEF Without
<1>6. PICK s : s = [sessions[k] EXCEPT !.queue = r]
  OBVIOUS
<1>7. /\ s \in Session /\ s.queue = r /\ s.busy = sessions[k].busy
      /\ s.told = sessions[k].told /\ s.open = sessions[k].open /\ s.alive = sessions[k].alive
  BY <1>1, <1>5, <1>6 DEF Session
<1>8. PICK c : c = q[p]
  OBVIOUS
<1>9. /\ sessions' = [sessions EXCEPT ![k] = s] /\ status' = [status EXCEPT ![c] = "dropped"]
      /\ UNCHANGED <<closed, current, stray>>
  <2>1. sessions' = [sessions EXCEPT ![k].queue = r]
    BY <1>2, <1>4 DEF Drop
  <2> QED
    BY <1>1, <1>2, <1>6, <1>8, <2>1 DEF Drop, Finish, SdkUnchanged, TypesOK
<1>10. /\ sessions' \in Seq(Session) /\ current' \in 0..Len(sessions') /\ stray' \in BOOLEAN
       /\ Moves(k, r, s.busy) /\ ConnectionsOK'
  <2>1. ~s.alive => s.busy = None
    BY <1>1, <1>7 DEF SessionOK
  <2> QED
    BY <1>1, <1>7, <1>9, <2>1, StepPlain
<1>11. c \in Calls /\ WaitsAt(c, k, p) /\ TakesWaiting(k, p) /\ KeepsSent
  BY <1>1, <1>2, <1>3, <1>5, <1>7, <1>8, <1>10, PlaceTaken
<1>12. PlacesOK'
  BY <1>1, <1>3, <1>9, <1>11, PlacesTaken
<1>13. TypesOK'
  BY <1>1, <1>9, <1>10 DEF TypesOK, Statuses
<1> QED
  BY <1>2, <1>8, <1>10, <1>11, <1>12, <1>13 DEF SessionInv

\* disconnect: the session in use is closed for good.
LEMMA DisconnectOK ==
  ASSUME SessionInv, Disconnect
  PROVE  SessionInv'
<1>1. TypesOK /\ PlacesOK /\ ConnectionsOK
  BY DEF SessionInv
<1>2. closed' = TRUE /\ current' = 0 /\ UNCHANGED <<status, stray>>
  BY DEF Disconnect
<1>3. CASE current = 0
  <2>1. sessions' = sessions
    BY <1>3 DEF Disconnect
  <2>2. PlacesOK'
    BY <1>1, <1>2, <2>1, PlacesStay DEF KeepsWaiting, KeepsSent, WaitsAt, SentIn
  <2>3. TypesOK' /\ ConnectionsOK'
    BY <1>1, <1>2, <1>3, <2>1 DEF TypesOK, ConnectionsOK, SessionOK
  <2> QED
    BY <2>2, <2>3 DEF SessionInv
<1>4. CASE current # 0
  <2>1. PICK m \in 1..Len(sessions) : m = current
    BY <1>1, <1>4 DEF TypesOK
  <2>2. PICK x \in Session : x = sessions[m]
    BY <1>1 DEF TypesOK
  <2>3. PICK t : t = CloseTransport(x, "mcp_disconnect")
    OBVIOUS
  <2>4. /\ t \in Session /\ t.told /\ t.open = FALSE
        /\ t.alive = x.alive /\ t.queue = x.queue /\ t.busy = x.busy
    <3>1. x.open \in BOOLEAN
      BY DEF Session
    <3>2. /\ t \in Session /\ t.told /\ t.open = (x.open /\ "mcp_disconnect" # "mcp_disconnect")
          /\ t.alive = x.alive /\ t.queue = x.queue /\ t.busy = x.busy
      BY <2>3, CloseFields
    <3> QED
      BY <3>1, <3>2
  <2>5. sessions' = [sessions EXCEPT ![m] = t]
    BY <1>4, <2>1, <2>2, <2>3 DEF Disconnect
  <2>6. /\ sessions' \in Seq(Session) /\ Len(sessions') = Len(sessions) /\ sessions'[m] = t
        /\ \A l \in 1..Len(sessions) : l # m => sessions'[l] = sessions[l]
    BY <1>1, <2>4, <2>5 DEF TypesOK
  <2>7. KeepsWaiting /\ KeepsSent
    BY <2>2, <2>4, <2>6 DEF KeepsWaiting, KeepsSent, WaitsAt, SentIn
  <2>8. PlacesOK'
    BY <1>1, <1>2, <2>7, PlacesStay
  <2>9. SessionOK(m)'
    BY <1>1, <1>2, <2>2, <2>4, <2>6 DEF ConnectionsOK, SessionOK
  <2>10. \A l \in 1..Len(sessions) : l # m => SessionOK(l)'
    BY <1>1, <1>2, <2>1, <2>6 DEF ConnectionsOK, SessionOK
  <2>11. TypesOK' /\ ConnectionsOK'
    BY <1>1, <1>2, <2>6, <2>9, <2>10 DEF TypesOK, ConnectionsOK
  <2> QED
    BY <2>8, <2>11 DEF SessionInv
<1> QED
  BY <1>3, <1>4

\* A refused call is answered at once.
LEMMA RefusedOK ==
  ASSUME SessionInv, NEW c \in Calls, status[c] = "new",
         status' = [status EXCEPT ![c] = "refused"], UNCHANGED <<closed, current, sessions, stray>>
  PROVE  SessionInv'
<1>1. TypesOK /\ PlacesOK /\ ConnectionsOK
  BY DEF SessionInv
<1>2. TypesOK' /\ \A d \in Calls : status'[d] = status[d] \/ (status[d] = "new" /\ status'[d] = "refused")
  BY <1>1 DEF TypesOK, Statuses
<1>3. PlacesOK'
  BY <1>1, <1>2, PlacesStay DEF KeepsWaiting, KeepsSent, WaitsAt, SentIn
<1>4. ConnectionsOK'
  BY <1>1 DEF ConnectionsOK, SessionOK
<1> QED
  BY <1>2, <1>3, <1>4 DEF SessionInv

\* A step that touches neither calls nor sessions.
LEMMA SessionsAlone ==
  ASSUME SessionInv, UNCHANGED <<closed, current, sessions, status, stray>>
  PROVE  SessionInv'
BY DEF SessionInv, TypesOK, PlacesOK, WaitsAt, SentIn, ConnectionsOK, SessionOK

LEMMA InitSession == Init => SessionInv
<1> SUFFICES ASSUME Init PROVE SessionInv
  OBVIOUS
<1>1. sessions = <<>> /\ sessions \in Seq(Session) /\ Len(sessions) = 0 /\ 1..Len(sessions) = {}
  BY DEF Init
<1>2. TypesOK
  <2>1. status \in [Calls -> Statuses]
    BY DEF Init, Statuses
  <2>2. closed = FALSE /\ stray = FALSE /\ current = 0
    BY DEF Init
  <2>3. sessions \in Seq(Session) /\ Len(sessions) = 0
    BY <1>1
  <2>4. current \in 0..Len(sessions)
    BY <2>2, <2>3
  <2>5. closed \in BOOLEAN /\ stray \in BOOLEAN
    BY <2>2
  <2> QED
    BY <2>1, <2>3, <2>4, <2>5 DEF TypesOK
<1>3. PlacesOK
  BY <1>1 DEF Init, PlacesOK, WaitsAt, SentIn
<1>4. ConnectionsOK
  BY <1>1 DEF Init, ConnectionsOK
<1> QED
  BY <1>2, <1>3, <1>4 DEF SessionInv

LEMMA SessionStep == SessionInv /\ [Next]_vars => SessionInv'
<1> SUFFICES ASSUME SessionInv, [Next]_vars PROVE SessionInv'
  OBVIOUS
<1>1. ASSUME NEW c \in Reads, RunRead(c) \/ RunReadRefused(c) PROVE SessionInv'
  BY <1>1, SubmitOK, RefusedOK DEF RunRead, RunReadRefused, ReadAdmitted, Calls
<1>2. ASSUME NEW c \in Writes, RunWrite(c) \/ RunWriteRefused(c) PROVE SessionInv'
  BY <1>2, SubmitOK, RefusedOK DEF RunWrite, RunWriteRefused, WriteAdmitted, Calls
<1>3. ASSUME NEW k \in DOMAIN sessions, Sdk(k) PROVE SessionInv'
  <2>1. k \in 1..Len(sessions)
    BY DEF SessionInv, TypesOK
  <2> QED
    BY <1>3, <2>1, SendOK, ExecOK, DropOK, NotSentOK, FinishedOK DEF Sdk
<1>4. CASE UNCHANGED vars \/ \E cmd \in Commands : AuthorizeWrite(cmd)
  BY <1>4, SessionsAlone DEF vars, AuthorizeWrite
<1> QED
  BY <1>1, <1>2, <1>3, <1>4, ConnectOK, DisconnectOK DEF Next, Tool

-----------------------------------------------------------------------------
(* Theorems about the sessions *)

\* Sessions, calls and the history stay of their types; and every call is waiting or sent
\* in one session only, exactly when its status says so.
THEOREM SessionCorrect == Spec => []SessionInv
<1> QED
  BY InitSession, SessionStep, PTL DEF Spec

\* The types of the client's state, and that a call waits or is sent exactly as its status
\* says.
THEOREM SessionTypeCorrect == Spec => []SessionTypeOK
<1>1. ASSUME SessionInv, GrantInv PROVE SessionTypeOK
  <2>1. TypesOK /\ PlacesOK /\ DOMAIN sessions = 1..Len(sessions) /\ Len(sessions) \in Nat
    BY <1>1 DEF SessionInv, TypesOK
  <2>2. ASSUME NEW c \in Calls
        PROVE  /\ Waiting(c) # {} <=> \E k, i \in Nat : WaitsAt(c, k, i)
               /\ Sending(c) # {} <=> \E k \in Nat : SentIn(c, k)
    <3>1. \A k \in 1..Len(sessions) : sessions[k].queue \in Seq(Calls)
      <4>1. \A k \in 1..Len(sessions) : sessions[k] \in Session
        BY <2>1 DEF TypesOK
      <4> QED
        BY <4>1 DEF Session
    <3>2. \A k \in 1..Len(sessions) :
            c \in ToSet(sessions[k].queue) <=>
              \E i \in 1..Len(sessions[k].queue) : sessions[k].queue[i] = c
      BY <3>1 DEF ToSet
    <3>3. Waiting(c) # {} <=> \E k \in 1..Len(sessions) : c \in ToSet(sessions[k].queue)
      BY <2>1 DEF Waiting
    <3>4. \A k \in 1..Len(sessions) : k \in Nat /\ \A i \in 1..Len(sessions[k].queue) : i \in Nat
      BY <2>1, <3>1
    <3>5. (\E k, i \in Nat : WaitsAt(c, k, i)) <=>
             \E k \in 1..Len(sessions) : \E i \in 1..Len(sessions[k].queue) : sessions[k].queue[i] = c
      BY <3>4 DEF WaitsAt
    <3>6. Sending(c) # {} <=> \E k \in Nat : SentIn(c, k)
      BY <2>1, <3>4 DEF Sending, SentIn
    <3> QED
      BY <3>2, <3>3, <3>5, <3>6
  <2>3. ASSUME NEW c \in Calls
        PROVE  /\ status[c] \in Statuses
               /\ status[c] = "queued" <=> Waiting(c) # {}
               /\ status[c] = "sent" <=> Sending(c) # {}
    BY <2>1, <2>2 DEF TypesOK, PlacesOK
  <2> QED
    BY <1>1, <2>1, <2>3 DEF SessionTypeOK, TypesOK, GrantInv, GrantTypeOK, Statuses
<1> QED
  BY <1>1, SessionCorrect, GrantCorrect, PTL

\* Whatever fails, is reset or is shut down, in whatever order: the client has closed every
\* session it does not use any more (resetAfterSdkFailure, disconnect).
THEOREM AbandonedAreClosed == Spec => []AbandonedClosed
<1>1. SessionInv => AbandonedClosed
  BY DEF SessionInv, TypesOK, ConnectionsOK, SessionOK, AbandonedClosed
<1> QED
  BY <1>1, SessionCorrect, PTL

\* After outputLimitExceeded or sessionClosed no call is handed to that SDK client.
THEOREM DeadAreNotUsed == Spec => []DeadNotUsed
<1>1. SessionInv => DeadNotUsed
  BY DEF SessionInv, TypesOK, ConnectionsOK, SessionOK, DeadNotUsed
<1> QED
  BY <1>1, SessionCorrect, PTL

\* Only the last session can have a command with its transport.
LEMMA OnlyLast ==
  ASSUME SessionInv, ~stray
  PROVE  InFlight \subseteq {Len(sessions)}
<1>1. DOMAIN sessions = 1..Len(sessions) /\ Len(sessions) \in Nat /\ TypesOK /\ ConnectionsOK
  BY DEF SessionInv, TypesOK
<1>2. ASSUME NEW k \in 1..Len(sessions), sessions[k].busy # None
      PROVE  k = Len(sessions)
  <2>0. k # 0
    BY <1>1
  <2>1. SessionOK(k) /\ current \in {0, Len(sessions)} /\ k # 0
    BY <1>1, <2>0 DEF ConnectionsOK
  <2>2. CASE k = current
    BY <2>1, <2>2
  <2>3. CASE k # current
    BY <1>2, <2>1, <2>3 DEF SessionOK
  <2> QED
    BY <2>2, <2>3
<1> QED
  BY <1>1, <1>2 DEF InFlight

\* Commands reach the router one at a time over all sessions, as long as every reset was of
\* the session that failed.
THEOREM CommandsAreSerialized == Spec => []CommandsSerialized
<1>1. ASSUME SessionInv, ~stray PROVE Cardinality(InFlight) <= 1
  <2>1. IsFiniteSet({Len(sessions)}) /\ Cardinality({Len(sessions)}) = 1
    BY FS_Singleton
  <2>2. Cardinality(InFlight) <= Cardinality({Len(sessions)})
    BY <1>1, <2>1, OnlyLast, FS_Subset
  <2> QED
    BY <2>1, <2>2
<1> QED
  BY <1>1, SessionCorrect, PTL DEF CommandsSerialized

\* It is transport.send that takes a call.
LEMMA TakenBySend ==
  ASSUME SessionInv, [Next]_vars, NEW c \in Calls, status'[c] = "sent", status[c] # "sent"
  PROVE  \E k \in DOMAIN sessions : Send(k)
<1>1. status \in [Calls -> Statuses]
  BY DEF SessionInv, TypesOK
<1>2. \A d, r : r # "sent" => status' # [status EXCEPT ![d] = r]
  BY <1>1
<1>3. status' # status
  OBVIOUS
<1>4. ASSUME NEW d, RunRead(d) \/ RunReadRefused(d) \/ RunWrite(d) \/ RunWriteRefused(d)
      PROVE  FALSE
  BY <1>2, <1>4 DEF RunRead, RunReadRefused, RunWrite, RunWriteRefused, Submit
<1>5. ASSUME NEW k \in DOMAIN sessions, Sdk(k) PROVE Send(k)
  BY <1>2, <1>3, <1>5 DEF Sdk, Exec, Drop, SendRefused, SessionClosed, Answer, Fail, FailDead,
     Finish
<1> QED
  BY <1>3, <1>4, <1>5 DEF Next, Tool, Connect, AuthorizeWrite, Disconnect, vars

\* Once the client is disconnected no transport takes a command any more, whatever is queued
\* on whichever session: a session that is not used any more was closed, and was so because
\* it is dead or because its transport is shut.
THEOREM NothingIsTakenAfterDisconnect == Spec => NothingTakenAfterDisconnect
<1>1. ASSUME SessionInv, [Next]_vars, closed, ~stray, NEW c \in Calls, status'[c] = "sent"
      PROVE  status[c] = "sent"
  <2> SUFFICES ASSUME status[c] # "sent" PROVE FALSE
    OBVIOUS
  <2>1. PICK k \in DOMAIN sessions : Send(k)
    BY <1>1, TakenBySend
  <2>2. sessions[k].alive /\ sessions[k].open
    BY <2>1 DEF Send
  <2>3. SessionOK(k) /\ current = 0 /\ k # 0
    BY <1>1 DEF SessionInv, ConnectionsOK, TypesOK
  <2> QED
    BY <1>1, <2>2, <2>3 DEF SessionOK
<1>2. SessionInv /\ [Next]_vars =>
        [closed /\ ~stray => \A c \in Calls : status'[c] = "sent" => status[c] = "sent"]_vars
  BY <1>1
<1> QED
  BY <1>2, SessionCorrect, PTL DEF Spec, NothingTakenAfterDisconnect
====
