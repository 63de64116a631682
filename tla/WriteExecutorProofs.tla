------------------------ MODULE WriteExecutorProofs ------------------------
(***************************************************************************)
(* Theorems about WriteExecutor, for all values of its constants: what the *)
(* router has applied was released once, as the command it was released    *)
(* for; snapshots, answer, audit row and timing tell of the call's own     *)
(* write; and the executor uses the gate as the gate is specified.         *)
(***************************************************************************)
EXTENDS WriteExecutor, ApprovalProofs, SequenceTheorems

-----------------------------------------------------------------------------
(* The inductive invariant *)

\* The answers of a call: reports of a write, and the others.
Reports == {"done", "commit_failed"}
Codes ==
  Reports \cup {"needs_confirmation", "invalid", "invalid_token", "not_acknowledged", "cancelled",
               "token_used", "token_expired", "mismatch", "bad_signature", "router_error", "failed"}

CallRecord ==
  [pc : {"queued", "before", "writing", "after", "committing", "done", "lost"},
   cmd : Commands \cup {None}, cid : Ids \cup {None}, sig : Intent \cup {None},
   ack : BOOLEAN, aborted : BOOLEAN, nonce : Nonces \cup {None},
   before : Nat \cup {None}, after : Nat \cup {None}, own : Nonces \cup {None},
   reply : Codes \cup {None}]

WriteRecord == [nonce : Nonces, command : Commands]

Used(c) == call[c].pc # "idle"

TypesOK ==
  /\ call \in [Calls -> CallRecord \cup {Idle}]
  /\ \A c \in Calls : Used(c) =>
       /\ call[c].sig \in offered \cup {None}
       /\ {call[c].before, call[c].after} \subseteq 0..Len(running) \cup {None}
  /\ queue \in Seq(Calls)
  /\ running \in Seq(WriteRecord)
  /\ saved \in 0..Len(running)
  /\ DOMAIN requests = Calls
  /\ DOMAIN audits = Calls

\* Only the call at the head of the chain is active, and the chain holds no answered call.
QueueOK ==
  /\ \A i, j \in 1..Len(queue) : queue[i] = queue[j] => i = j
  /\ \A i \in 1..Len(queue) : call[queue[i]].pc = "queued" \/ Active(queue[i])
  /\ \A c \in Calls : Active(c) => queue # <<>> /\ Head(queue) = c

\* The writes an approval was consumed for.
Approved ==
  {[nonce |-> consumed[m].intent.nonce, command |-> consumed[m].command] : m \in DOMAIN consumed}

\* What runs was approved, once; so was the write of a call, and no two calls share one.
NoncesOK ==
  /\ \A k \in 1..Len(running) : running[k] \in Approved
  /\ \A j, k \in 1..Len(running) : running[j].nonce = running[k].nonce => j = k
  /\ \A c \in Calls : Used(c) /\ call[c].nonce # None => Write(c) \in Approved
  /\ \A c, d \in Calls :
       Used(c) /\ Used(d) /\ call[c].nonce # None /\ call[c].nonce = call[d].nonce => c = d

OneWriteRow(c) == \E k \in DOMAIN requests[c] : WriteRows(c) = {k}
OneAudit(c, statuses) == Len(audits[c]) = 1 /\ audits[c][1].status \in statuses

\* An answered call that left the router alone...
NothingSent(c) ==
  /\ ~Applied(call[c].nonce)
  /\ call[c].reply \notin Reports
  /\ \/ call[c].nonce = None /\ audits[c] = <<>>
     \/ /\ OneAudit(c, {"preview", "denied", "expired", "mismatch"})
        /\ audits[c][1].after = None
        /\ call[c].nonce # None => OneWriteRow(c)

\* ... one whose write failed, whatever the router made of it...
Uncertain(c) ==
  /\ call[c].nonce # None
  /\ call[c].reply \notin Reports
  /\ OneAudit(c, {"failed"})
  /\ audits[c][1].after = None
  /\ OneWriteRow(c)

\* ... and one whose write was applied between its snapshots and recorded.
Recorded(c) ==
  /\ call[c].nonce # None
  /\ Applied(call[c].nonce)
  /\ OneAudit(c, {"executed", "failed"})
  /\ audits[c][1].commit = "ok" => \E k \in 1..saved : running[k].nonce = call[c].nonce
  /\ LET row == audits[c][1]
     IN  None \notin {row.before, row.after} =>
           /\ row.after = row.before + 1 /\ row.after \in 1..Len(running)
           /\ running[row.after] = Write(c)
  /\ OneWriteRow(c)
  /\ \A k \in WriteRows(c) : requests[c][k].timing = call[c].nonce

\* What is known of a call at each await, and once it is answered.
CallOK(c) ==
  LET r == call[c]
  IN  /\ r.pc # "done" => requests[c] = <<>> /\ audits[c] = <<>>
      /\ r.pc \in {"queued", "before"} => r.before = None
      /\ r.pc \in {"queued", "before", "writing", "after"} => r.after = None
      /\ r.pc = "queued" => r.nonce = None
      /\ Active(c) => r.nonce # None /\ r.cmd # None
      /\ r.pc \in {"before", "writing"} => ~Applied(r.nonce)
      /\ r.pc = "writing" => r.before \in {None, Len(running)}
      /\ r.pc \in {"after", "committing"} =>
           /\ running # <<>> /\ running[Len(running)] = Write(c)
           /\ r.before \in {None, Len(running) - 1}
           /\ r.own = r.nonce
      /\ r.pc = "committing" => r.after \in {None, Len(running)}
      /\ r.pc = "done" => NothingSent(c) \/ Uncertain(c) \/ Recorded(c)

CallsOK ==
  /\ TypesOK
  /\ QueueOK
  /\ NoncesOK
  /\ \A c \in Calls : CallOK(c)

ExecInv == GateInv /\ CallsOK

-----------------------------------------------------------------------------
(* The executor and the gate *)

\* Every step of the executor is one of the gate, or leaves the gate alone.
LEMMA GateSteps ==
  ASSUME GateTypeOK, TypesOK, [Next]_vars
  PROVE  [GateNext]_gateVars
<1>1. ASSUME NEW c \in Calls, Start(c) PROVE [GateNext]_gateVars
  <2> USE ExecutorAssumption
  <2>1. call[c].pc = "queued" => call[c] \in CallRecord /\ call[c].sig \in offered \cup {None}
    BY DEF TypesOK, Idle, Used
  <2>2. CASE StartInvalid(c) \/ StartIncomplete(c) \/ StartUnacknowledged(c) \/ StartCancelled(c)
    BY <2>2 DEF StartInvalid, StartIncomplete, StartUnacknowledged, StartCancelled
  <2>3. CASE StartPreview(c)
    <3>1. call[c].cmd \in Commands
      BY <2>1, <2>3 DEF StartPreview, Prepared, Turn, CallRecord
    <3>2. PICK cid \in Ids, n \in Nonces : Create(Self, call[c].cmd, cid, n)
      BY <2>3 DEF StartPreview
    <3> QED
      BY <3>1, <3>2 DEF GateNext, ServerStep
  <2>4. CASE StartPreviewFull(c)
    BY <2>4 DEF StartPreviewFull, GateNext, ServerStep
  <2>5. CASE StartDenied(c) \/ StartApproved(c)
    <3>1. call[c].cmd \in Commands /\ call[c].cid \in Ids /\ call[c].sig \in offered
      BY <2>1, <2>5 DEF StartDenied, StartApproved, Verifies, Prepared, Turn, Complete, CallRecord
    <3>2. ConsumeSigned(Self, call[c].cid, call[c].cmd, call[c].sig)
      BY <2>5 DEF StartDenied, StartApproved, ConsumeSigned
    <3> QED
      BY <3>1, <3>2 DEF GateNext, ServerStep
  <2> QED
    BY <1>1, <2>2, <2>3, <2>4, <2>5 DEF Start
<1>2. ASSUME NEW c \in Calls, Request(c) \/ Cancel(c) \/ RouterAnswer(c)
      PROVE  UNCHANGED gateVars
  BY <1>2 DEF Request, Arrive, Cancel, RouterAnswer, BeforeDone, BeforeDoneCancelled, WriteDone,
     WriteRejected, WriteFailed, AfterDone, CommitDone, CommitFailed
<1>3. Crash => GateNext
  BY ExecutorAssumption DEF Crash, GateNext, ServerStep
<1>4. Outside => GateNext
  BY DEF Outside, GateNext
<1> QED
  BY <1>1, <1>2, <1>3, <1>4 DEF Next, ReadTool, vars

\* Offers and consumptions are never taken back.
LEMMA GateGrows ==
  ASSUME GateInv, [GateNext]_gateVars
  PROVE  /\ offered \subseteq offered'
         /\ Approved \subseteq Approved'
<1>0. GateTypeOK
  BY DEF GateInv
<1>1. CASE \E s \in Servers, i \in Intent, cmd \in Commands : Consumes(s, i, cmd)
  <2>1. PICK s \in Servers, i \in Intent, cmd \in Commands : Consumes(s, i, cmd)
    BY <1>1
  <2>2. PICK m \in Nat : EntryAt(m, i, cmd)
    BY <1>0, <2>1, ConsumedEntries
  <2> QED
    BY <2>1, <2>2 DEF EntryAt, Approved, Consumes
<1>2. CASE offered \subseteq offered' /\ consumed' = consumed
  BY <1>2 DEF Approved
<1> QED
  BY <1>0, <1>1, <1>2, StepShapes DEF Drops, Offers, Signs, Tick, gateVars

\* An approval that is consumed was never consumed before.
LEMMA Approves ==
  ASSUME GateInv, NEW cid \in Ids, NEW cmd \in Commands, NEW sig,
         Consume(Self, cid, cmd, sig)
  PROVE  /\ sig.nonce \in Nonces
         /\ \A w \in Approved : w.nonce # sig.nonce
         /\ [nonce |-> sig.nonce, command |-> cmd] \in Approved'
<1>0. GateTypeOK /\ Self \in Servers
  BY ExecutorAssumption DEF GateInv
<1>1. sig \in intents[Self] /\ sig \in Intent
  BY <1>0 DEF Consume, Verified, WithId, GateTypeOK
<1>2. sig.nonce \in PendingNonces
  BY <1>0, <1>1 DEF PendingNonces
<1>3. sig.nonce \in Nonces /\ sig.nonce \notin ReleasedNonces
  BY <1>1, <1>2, NonceSets DEF Intent
<1>4. consumed \in Seq(Consumption)
  BY <1>0 DEF GateTypeOK
<1>5. PICK e : e.intent = sig /\ e.command = cmd /\ consumed' = Append(consumed, e)
  BY DEF Consume, Verified
<1>6. [nonce |-> sig.nonce, command |-> cmd] \in Approved'
  <2>1. consumed'[Len(consumed) + 1] = e /\ Len(consumed) + 1 \in DOMAIN consumed'
    BY <1>4, <1>5
  <2> QED
    BY <1>5, <2>1 DEF Approved
<1> QED
  BY <1>3, <1>6 DEF Approved, ReleasedNonces

-----------------------------------------------------------------------------
(* What a step does to the calls *)

\* The call in c becomes r; what the log holds for it is reqs and auds.
Becomes(c, r, reqs, auds) ==
  /\ call' = [call EXCEPT ![c] = r]
  /\ requests' = [requests EXCEPT ![c] = reqs]
  /\ audits' = [audits EXCEPT ![c] = auds]

\* The chain after a step of its head, which r is what it becomes.
Chains(r) ==
  \/ r.pc = "done" /\ queue' = Tail(queue)
  \/ r.pc \in {"before", "writing", "after", "committing"} /\ queue' = queue

IsRows(s) == \E S : s \in Seq(S)

LEMMA FewRows == IsRows(<<>>) /\ \A x, y : IsRows(<<x>>) /\ IsRows(<<x, y>>)
<1>1. IsRows(<<>>)
  <2>1. <<>> \in Seq({})
    OBVIOUS
  <2> QED
    BY <2>1 DEF IsRows
<1>2. ASSUME NEW x, NEW y PROVE IsRows(<<x>>) /\ IsRows(<<x, y>>)
  <2>1. <<x>> \in Seq({x, y}) /\ <<x, y>> \in Seq({x, y})
    OBVIOUS
  <2> QED
    BY <2>1 DEF IsRows
<1> QED
  BY <1>1, <1>2

\* A call that is not answered yet has no rows.
LEMMA StepBecomes ==
  ASSUME NEW c \in Calls, CallOK(c), call[c].pc # "done", NEW r,
         NEW reqs, IsRows(reqs), NEW auds, IsRows(auds), Step(c, r, reqs, auds), TypesOK
  PROVE  Becomes(c, r, reqs, auds)
<1>1. requests[c] = <<>> /\ audits[c] = <<>>
  BY DEF CallOK
<1>2. <<>> \o reqs = reqs /\ <<>> \o auds = auds
  BY ConcatEmptySeq DEF IsRows
<1> QED
  BY <1>1, <1>2 DEF Step, Becomes, TypesOK

\* The chain stays a chain when its head moves on...
LEMMA HeadMoves ==
  ASSUME TypesOK, QueueOK, NEW c \in Calls, NEW r,
         Turn(c) \/ Active(c), call' = [call EXCEPT ![c] = r], Chains(r)
  PROVE  QueueOK' /\ queue' \in Seq(Calls)
<1>1. queue \in Seq(Calls) /\ queue # <<>> /\ Head(queue) = c
  BY DEF TypesOK, QueueOK, Turn
<1>2. \A d \in Calls : call'[d] = IF d = c THEN r ELSE call[d]
  BY DEF TypesOK
<1>3. \A d \in Calls : Active(d) => d = c
  BY <1>1 DEF QueueOK
<1>4. \A i \in 1..Len(queue) : queue[i] \in Calls
  BY <1>1
<1>5. CASE r.pc = "done" /\ queue' = Tail(queue)
  <2>1. /\ queue' \in Seq(Calls) /\ Len(queue') = Len(queue) - 1 /\ Len(queue) \in Nat
        /\ \A i \in 1..Len(queue') : i + 1 \in 1..Len(queue) /\ queue'[i] = queue[i + 1]
    BY <1>1, <1>5
  <2>2. c = queue[1] /\ 1 \in 1..Len(queue)
    BY <1>1
  <2>3. \A i \in 1..Len(queue') : queue'[i] # c /\ queue'[i] \in Calls
    BY <1>4, <2>1, <2>2 DEF QueueOK
  <2>4. \A i, j \in 1..Len(queue') : queue'[i] = queue'[j] => i = j
    BY <2>1 DEF QueueOK
  <2>5. \A i \in 1..Len(queue') : call'[queue'[i]].pc = "queued"
    BY <1>2, <1>3, <2>1, <2>3 DEF QueueOK
  <2>6. \A d \in Calls : call'[d].pc \notin {"before", "writing", "after", "committing"}
    BY <1>2, <1>3, <1>5 DEF Active
  <2> QED
    BY <2>1, <2>4, <2>5, <2>6 DEF QueueOK, Active
<1>6. CASE r.pc \in {"before", "writing", "after", "committing"} /\ queue' = queue
  <2>1. \A d \in Calls : Active(d)' => d = c
    BY <1>2, <1>3 DEF Active
  <2>2. \A i \in 1..Len(queue) : call'[queue[i]].pc = "queued" \/ Active(queue[i])'
    BY <1>2, <1>4, <1>6 DEF QueueOK, Active
  <2> QED
    BY <1>1, <1>6, <2>1, <2>2 DEF QueueOK
<1> QED
  BY <1>5, <1>6 DEF Chains

\* What the router has applied: nothing new, or the write of the call in c.
Applies(c) == running' = running \/ (call[c].pc = "writing" /\ running' = Append(running, Write(c)))

LEMMA RunningGrows ==
  ASSUME TypesOK, NEW c \in Calls, CallOK(c), Applies(c)
  PROVE  /\ running' \in Seq(WriteRecord)
         /\ Len(running) \in Nat /\ Len(running') \in Nat /\ Len(running) <= Len(running')
         /\ \A k \in 1..Len(running) : running'[k] = running[k]
         /\ \A k \in 1..Len(running') : k \in 1..Len(running) \/
              (k = Len(running) + 1 /\ running'[k] = Write(c) /\ call[c].pc = "writing")
         /\ \A n : Applied(n)' => Applied(n) \/ (n = call[c].nonce /\ call[c].pc = "writing")
<1>1. running \in Seq(WriteRecord)
  BY DEF TypesOK
<1>2. call[c].pc = "writing" => Write(c) \in WriteRecord
  BY DEF TypesOK, CallOK, Active, Write, WriteRecord, CallRecord, Idle
<1>3. CASE running' = running
  BY <1>1, <1>3 DEF Applied
<1>4. CASE call[c].pc = "writing" /\ running' = Append(running, Write(c))
  <2>1. /\ running' \in Seq(WriteRecord) /\ Len(running) \in Nat
        /\ Len(running') = Len(running) + 1 /\ DOMAIN running' = 1..(Len(running) + 1)
        /\ \A k \in 1..Len(running) : running'[k] = running[k]
        /\ running'[Len(running) + 1] = Write(c)
    BY <1>1, <1>2, <1>4
  <2>2. Write(c).nonce = call[c].nonce
    BY DEF Write
  <2> QED
    BY <1>1, <1>4, <2>1, <2>2 DEF Applied
<1> QED
  BY <1>3, <1>4 DEF Applies

\* A step of one call changes nothing another call relies on.
LEMMA OthersOK ==
  ASSUME TypesOK, QueueOK, NoncesOK,
         NEW c \in Calls, NEW d \in Calls \ {c}, CallOK(c), CallOK(d),
         Turn(c) \/ Active(c), Applies(c), saved' \in saved..Len(running'),
         call'[d] = call[d], requests'[d] = requests[d], audits'[d] = audits[d]
  PROVE  CallOK(d)'
<1>1. ~Active(d)
  BY DEF QueueOK, Turn
<1>2. Used(d) /\ call[d].nonce # None => (Applied(call[d].nonce)' => Applied(call[d].nonce))
  <2>1. call[c].pc = "writing" => Used(c) /\ call[c].nonce # None
    BY DEF CallOK, Active, Used
  <2> QED
    BY <2>1, RunningGrows DEF NoncesOK
<1>3. Used(d) /\ call[d].nonce = None => ~Applied(call[d].nonce)'
  <2>1. \A k \in 1..Len(running') : running'[k].nonce \in Nonces
    <3>1. \A k \in 1..Len(running') : running'[k] \in WriteRecord
      BY RunningGrows
    <3> QED
      BY <3>1 DEF WriteRecord
  <2>2. running' \in Seq(WriteRecord)
    BY RunningGrows
  <2> QED
    BY <2>1, <2>2, ExecutorAssumption DEF Applied
<1>4. Applied(call[d].nonce) => Applied(call[d].nonce)'
  <2>1. DOMAIN running = 1..Len(running) /\ DOMAIN running' = 1..Len(running')
    BY RunningGrows DEF TypesOK
  <2> QED
    BY <2>1, RunningGrows DEF Applied
<1>5. call[d].pc # "done" => CallOK(d)'
  BY <1>1, <1>2 DEF CallOK, Active
<1>6. CASE call[d].pc = "done" /\ NothingSent(d)
  BY <1>2, <1>3, <1>6 DEF CallOK, NothingSent, OneAudit, OneWriteRow, WriteRows, Used, Active
<1>7. CASE call[d].pc = "done" /\ Uncertain(d)
  BY <1>7 DEF CallOK, Uncertain, OneAudit, OneWriteRow, WriteRows, Active
<1>8. CASE call[d].pc = "done" /\ Recorded(d)
  <2>1. saved \in Nat /\ saved <= Len(running)
    BY RunningGrows DEF TypesOK
  <2>2. (\E k \in 1..saved : running[k].nonce = call[d].nonce)
          => \E k \in 1..saved' : running'[k].nonce = call[d].nonce
    BY <2>1, RunningGrows
  <2>3. \A k \in 1..Len(running) : k \in 1..Len(running') /\ running'[k] = running[k]
    BY RunningGrows
  <2>4. Recorded(d)'
    BY <1>4, <1>8, <2>2, <2>3 DEF Recorded, OneAudit, OneWriteRow, WriteRows, Write
  <2> QED
    BY <1>8, <2>4 DEF CallOK, Active
<1> QED
  BY <1>5, <1>6, <1>7, <1>8 DEF CallOK

\* Nor does a step that leaves the call, the rows and the router alone.
LEMMA SameOK ==
  ASSUME NEW d \in Calls, CallOK(d), UNCHANGED <<running, saved>>,
         call'[d] = call[d], requests'[d] = requests[d], audits'[d] = audits[d]
  PROVE  CallOK(d)'
BY DEF CallOK, NothingSent, Uncertain, Recorded, OneAudit, OneWriteRow, WriteRows, Write,
       Applied, Active

\* Nonces stay as they should when the call in c keeps its nonce and its command, or
\* has no nonce any more...
LEMMA NoncesStay ==
  ASSUME TypesOK, NoncesOK, NEW c \in Calls, CallOK(c), Applies(c),
         Approved \subseteq Approved',
         \A d \in Calls \ {c} : call'[d] = call[d],
         Used(c)' => \/ call'[c].nonce = None
                     \/ Used(c) /\ call'[c].nonce = call[c].nonce /\ call'[c].cmd = call[c].cmd
  PROVE  NoncesOK'
<1>1. call[c].pc = "writing" => Write(c) \in Approved /\ ~Applied(call[c].nonce)
  BY DEF NoncesOK, CallOK, Active, Used
<1>2. Write(c).nonce = call[c].nonce
  BY DEF Write
<1>3. \A k \in 1..Len(running) : call[c].pc = "writing" => running[k].nonce # call[c].nonce
  BY <1>1 DEF Applied, TypesOK
<1>4. \A k \in 1..Len(running') : running'[k] \in Approved'
  BY <1>1, RunningGrows DEF NoncesOK
<1>5. \A j, k \in 1..Len(running') : running'[j].nonce = running'[k].nonce => j = k
  BY <1>2, <1>3, RunningGrows DEF NoncesOK
<1>6. \A d \in Calls : Used(d)' /\ call'[d].nonce # None =>
        Used(d) /\ call'[d].nonce = call[d].nonce /\ call'[d].cmd = call[d].cmd
  BY DEF Used
<1>7. \A d \in Calls : Used(d)' /\ call'[d].nonce # None => Write(d)' \in Approved'
  BY <1>6 DEF NoncesOK, Write
<1>8. \A d, e \in Calls :
        Used(d)' /\ Used(e)' /\ call'[d].nonce # None /\ call'[d].nonce = call'[e].nonce => d = e
  BY <1>6 DEF NoncesOK
<1> QED
  BY <1>4, <1>5, <1>7, <1>8 DEF NoncesOK

\* ... and when it is given one that was never approved before.
LEMMA NonceGiven ==
  ASSUME TypesOK, NoncesOK, NEW c \in Calls, NEW n \in Nonces, running' = running,
         Approved \subseteq Approved', \A w \in Approved : w.nonce # n,
         \A d \in Calls \ {c} : call'[d] = call[d],
         call'[c].nonce = n, Write(c)' \in Approved'
  PROVE  NoncesOK' /\ ~Applied(n)'
<1>1. \A d \in Calls \ {c} : Used(d) /\ call[d].nonce # None => call[d].nonce # n
  BY DEF NoncesOK, Write
<1>2. n # None
  BY ExecutorAssumption
<1>3. \A d \in Calls : Used(d)' /\ call'[d].nonce # None => Write(d)' \in Approved'
  BY DEF NoncesOK, Write, Used
<1>4. \A d, e \in Calls :
        Used(d)' /\ Used(e)' /\ call'[d].nonce # None /\ call'[d].nonce = call'[e].nonce => d = e
  BY <1>1, <1>2 DEF NoncesOK, Used
<1>5. NoncesOK'
  BY <1>3, <1>4 DEF NoncesOK
<1>6. ~Applied(n)
  BY DEF NoncesOK, Applied, TypesOK
<1> QED
  BY <1>5, <1>6 DEF Applied

\* What a step of the call at the head of the chain leaves to show: that its own record
\* and its rows are right.
LEMMA Advance ==
  ASSUME TypesOK, QueueOK, NoncesOK, \A d \in Calls : CallOK(d),
         NEW c \in Calls, NEW r \in CallRecord, NEW reqs, NEW auds,
         Turn(c) \/ Active(c), Becomes(c, r, reqs, auds), Chains(r),
         Applies(c), saved' \in saved..Len(running'),
         offered \subseteq offered', r.sig = call[c].sig,
         {r.before, r.after} \subseteq 0..Len(running') \cup {None}
  PROVE  /\ TypesOK' /\ QueueOK'
         /\ \A d \in Calls \ {c} : CallOK(d)' /\ call'[d] = call[d]
         /\ call'[c] = r /\ requests'[c] = reqs /\ audits'[c] = auds
<1>1. /\ call'[c] = r /\ requests'[c] = reqs /\ audits'[c] = auds
      /\ \A d \in Calls \ {c} :
           call'[d] = call[d] /\ requests'[d] = requests[d] /\ audits'[d] = audits[d]
      /\ call' \in [Calls -> CallRecord \cup {Idle}]
      /\ DOMAIN requests' = Calls /\ DOMAIN audits' = Calls
  BY DEF Becomes, TypesOK
<1>2. QueueOK' /\ queue' \in Seq(Calls)
  BY HeadMoves DEF Becomes
<1>3. /\ running' \in Seq(WriteRecord) /\ Len(running) \in Nat /\ Len(running') \in Nat
      /\ Len(running) <= Len(running')
  BY RunningGrows
<1>4. saved' \in 0..Len(running')
  BY <1>3 DEF TypesOK
<1>5. \A d \in Calls : Used(d)' =>
        /\ call'[d].sig \in offered' \cup {None}
        /\ {call'[d].before, call'[d].after} \subseteq 0..Len(running') \cup {None}
  <2>1. Used(c)
    BY DEF Used, Turn, Active
  <2> QED
    BY <1>1, <1>3, <2>1 DEF TypesOK, Used
<1>6. TypesOK'
  BY <1>1, <1>2, <1>3, <1>4, <1>5 DEF TypesOK
<1>7. \A d \in Calls \ {c} : CallOK(d)'
  BY <1>1, OthersOK
<1> QED
  BY <1>1, <1>2, <1>6, <1>7

LEMMA AnswerFields ==
  ASSUME NEW r \in CallRecord, NEW code \in Codes
  PROVE  /\ Answer(r, code) \in CallRecord
         /\ Answer(r, code).pc = "done" /\ Answer(r, code).reply = code
         /\ Answer(r, code).sig = r.sig /\ Answer(r, code).nonce = r.nonce
         /\ Answer(r, code).cmd = r.cmd
         /\ Answer(r, code).before = r.before /\ Answer(r, code).after = r.after
BY DEF Answer, CallRecord

\* A call that is waiting for its turn or for the router has a record.
LEMMA UsedRecord ==
  ASSUME TypesOK, NEW c \in Calls, Used(c)
  PROVE  call[c] \in CallRecord /\ {call[c].before, call[c].after} \subseteq 0..Len(running) \cup {None}
BY DEF TypesOK, Used, Idle

-----------------------------------------------------------------------------
(* One lemma per group of actions *)

\* executeWriteLocked answers without a write.
LEMMA AnsweredAtOnce ==
  ASSUME ExecInv, NEW c \in Calls, Turn(c), NEW code \in Codes \ Reports,
         NEW reqs, IsRows(reqs),
         NEW auds \in {<<>>} \cup {<<Audit(st, None, None, None, FALSE)>> :
                                     st \in {"preview", "denied", "expired", "mismatch"}},
         Step(c, Answer(call[c], code), reqs, auds),
         UNCHANGED <<running, saved>>, offered \subseteq offered', Approved \subseteq Approved'
  PROVE  CallsOK'
<1> DEFINE r == Answer(call[c], code)
<1>1. /\ Used(c) /\ call[c].pc = "queued" /\ call[c].pc # "done"
      /\ TypesOK /\ QueueOK /\ NoncesOK /\ \A d \in Calls : CallOK(d)
  BY DEF ExecInv, CallsOK, Turn, Used
<1>2. call[c] \in CallRecord /\ call[c].nonce = None /\ call[c].before = None /\ call[c].after = None
  BY <1>1, UsedRecord DEF CallOK
<1>3. /\ r \in CallRecord /\ r.pc = "done" /\ r.reply = code /\ r.sig = call[c].sig
      /\ r.nonce = None /\ r.cmd = call[c].cmd /\ r.before = None /\ r.after = None
  BY <1>2, AnswerFields
<1>4. IsRows(auds)
  BY FewRows
<1> HIDE DEF r
<1>5. Becomes(c, r, reqs, auds) /\ Chains(r) /\ Applies(c) /\ saved' \in saved..Len(running')
  <2>1. Becomes(c, r, reqs, auds)
    BY <1>1, <1>4, StepBecomes DEF r
  <2> QED
    BY <1>1, <1>3, <2>1 DEF Chains, Step, Applies, TypesOK, r
<1>6. /\ TypesOK' /\ QueueOK'
      /\ \A d \in Calls \ {c} : CallOK(d)' /\ call'[d] = call[d]
      /\ call'[c] = r /\ requests'[c] = reqs /\ audits'[c] = auds
  BY <1>1, <1>3, <1>5, Advance
<1>7. NoncesOK'
  BY <1>1, <1>3, <1>5, <1>6, NoncesStay
<1>8. CallOK(c)'
  <2>1. ~Applied(None)'
    <3>1. \A k \in 1..Len(running') : running'[k] \in WriteRecord
      BY <1>6 DEF TypesOK
    <3>2. \A k \in 1..Len(running') : running'[k].nonce \in Nonces
      BY <3>1 DEF WriteRecord
    <3> QED
      BY <1>6, <3>2, ExecutorAssumption DEF Applied, TypesOK
  <2>2. CASE auds = <<>>
    BY <1>3, <1>6, <2>1, <2>2 DEF CallOK, NothingSent, Applied, Active
  <2>3. CASE auds # <<>>
    <3>1. PICK st \in {"preview", "denied", "expired", "mismatch"} :
            auds = <<Audit(st, None, None, None, FALSE)>>
      BY <2>3
    <3>2. Len(auds) = 1 /\ auds[1].status = st /\ auds[1].after = None
      BY <3>1 DEF Audit
    <3> QED
      BY <1>3, <1>6, <2>1, <3>2 DEF CallOK, NothingSent, OneAudit, Applied, Active
  <2> QED
    BY <2>2, <2>3
<1> QED
  BY <1>6, <1>7, <1>8 DEF CallsOK

LEMMA DenySteps ==
  ASSUME ExecInv, NEW c \in Calls, Turn(c), NEW code \in Codes \ Reports, Deny(c, code),
         UNCHANGED <<running, saved>>, offered \subseteq offered', Approved \subseteq Approved'
  PROVE  CallsOK'
<1>1. DenyStatus(code) \in {"preview", "denied", "expired", "mismatch"}
  BY DEF DenyStatus
<1> QED
  BY <1>1, FewRows, AnsweredAtOnce DEF Deny

LEMMA ThrowSteps ==
  ASSUME ExecInv, NEW c \in Calls, Turn(c), NEW code \in Codes \ Reports, Throw(c, code),
         UNCHANGED <<running, saved>>, offered \subseteq offered', Approved \subseteq Approved'
  PROVE  CallsOK'
BY FewRows, AnsweredAtOnce DEF Throw

\* The approval is consumed: its nonce becomes that of the call.
LEMMA ApprovedOK ==
  ASSUME ExecInv, NEW c \in Calls, StartApproved(c), GateInv',
         offered \subseteq offered', Approved \subseteq Approved'
  PROVE  CallsOK'
<1> DEFINE pc == IF call[c].cmd \in Snapshotted THEN "before" ELSE "writing"
           r == [call[c] EXCEPT !.nonce = call[c].sig.nonce, !.pc = pc]
<1>1. /\ Used(c) /\ call[c].pc = "queued" /\ Turn(c) /\ call[c].cmd # None
      /\ call[c].cid # None /\ call[c].sig # None
      /\ TypesOK /\ QueueOK /\ NoncesOK /\ (\A d \in Calls : CallOK(d)) /\ GateInv
      /\ Consume(Self, call[c].cid, call[c].cmd, call[c].sig)
      /\ Step(c, r, <<>>, <<>>) /\ UNCHANGED <<running, saved>>
  BY DEF StartApproved, ExecInv, CallsOK, Verifies, Prepared, Complete, Turn, Used
<1>2. /\ call[c] \in CallRecord /\ call[c].before = None /\ call[c].after = None
      /\ requests[c] = <<>> /\ audits[c] = <<>>
  BY <1>1, UsedRecord DEF CallOK
<1>3. call[c].cmd \in Commands /\ call[c].cid \in Ids
  BY <1>1, <1>2 DEF CallRecord
<1>4. PICK n \in Nonces :
        /\ n = call[c].sig.nonce
        /\ \A w \in Approved : w.nonce # n
        /\ [nonce |-> n, command |-> call[c].cmd] \in Approved'
  BY <1>1, <1>3, Approves
<1>4a. pc \in {"before", "writing"}
  OBVIOUS
<1> HIDE DEF pc
<1>5. /\ r \in CallRecord /\ r.pc \in {"before", "writing"} /\ r.nonce = n
      /\ r.sig = call[c].sig /\ r.cmd = call[c].cmd /\ r.before = None /\ r.after = None
  BY <1>2, <1>4, <1>4a DEF CallRecord
<1>6. IsRows(<<>>)
  BY FewRows
<1> HIDE DEF r
<1>7. Becomes(c, r, <<>>, <<>>) /\ Chains(r) /\ Applies(c) /\ saved' \in saved..Len(running')
  <2>1. Becomes(c, r, <<>>, <<>>)
    BY <1>1, <1>6, StepBecomes
  <2> QED
    BY <1>1, <1>5, <2>1 DEF Chains, Step, Applies, TypesOK
<1>8. /\ TypesOK' /\ QueueOK'
      /\ \A d \in Calls \ {c} : CallOK(d)' /\ call'[d] = call[d]
      /\ call'[c] = r /\ requests'[c] = <<>> /\ audits'[c] = <<>>
  BY <1>1, <1>5, <1>7, Advance
<1>9. Write(c)' \in Approved'
  BY <1>4, <1>5, <1>8 DEF Write
<1>10. NoncesOK' /\ ~Applied(n)'
  BY <1>1, <1>4, <1>5, <1>8, <1>9, NonceGiven
<1>11. CallOK(c)'
  BY <1>1, <1>4, <1>5, <1>8, <1>10, ExecutorAssumption DEF CallOK, Active, Applied
<1> QED
  BY <1>8, <1>10, <1>11 DEF CallsOK

\* What a router answer leaves to show: that the record and the rows of its call are right.
LEMMA RouterMove ==
  ASSUME ExecInv, NEW c \in Calls, Active(c), NEW r \in CallRecord,
         NEW reqs, IsRows(reqs), NEW auds, IsRows(auds), Step(c, r, reqs, auds),
         r.pc \in {"done", "before", "writing", "after", "committing"},
         UNCHANGED gateVars, Applies(c), saved' \in saved..Len(running'),
         r.sig = call[c].sig, r.nonce = call[c].nonce, r.cmd = call[c].cmd,
         {r.before, r.after} \subseteq 0..Len(running') \cup {None}
  PROVE  /\ call'[c] = r /\ requests'[c] = reqs /\ audits'[c] = auds
         /\ running' \in Seq(WriteRecord)
         /\ CallOK(c)' => CallsOK'
<1>1. /\ TypesOK /\ QueueOK /\ NoncesOK /\ (\A d \in Calls : CallOK(d))
      /\ Used(c) /\ call[c].pc # "done"
  BY DEF ExecInv, CallsOK, Active, Used
<1>2. offered \subseteq offered' /\ Approved \subseteq Approved'
  BY DEF gateVars, Approved
<1>3. Becomes(c, r, reqs, auds) /\ Chains(r)
  <2>1. Becomes(c, r, reqs, auds)
    BY <1>1, StepBecomes
  <2> QED
    BY <2>1 DEF Chains, Step
<1>4. /\ TypesOK' /\ QueueOK'
      /\ \A d \in Calls \ {c} : CallOK(d)' /\ call'[d] = call[d]
      /\ call'[c] = r /\ requests'[c] = reqs /\ audits'[c] = auds
  BY <1>1, <1>2, <1>3, Advance
<1>5. NoncesOK'
  BY <1>1, <1>2, <1>4, NoncesStay
<1> QED
  BY <1>4, <1>5 DEF CallsOK, TypesOK

\* What an active call knows before the router answers.
LEMMA ActiveRecord ==
  ASSUME ExecInv, NEW c \in Calls, Active(c)
  PROVE  /\ call[c] \in CallRecord /\ CallOK(c) /\ TypesOK /\ running \in Seq(WriteRecord)
         /\ call[c].nonce \in Nonces /\ call[c].cmd \in Commands /\ call[c].nonce # None
         /\ {call[c].before, call[c].after} \subseteq 0..Len(running) \cup {None}
         /\ saved \in 0..Len(running) /\ Len(running) \in Nat
<1>1. TypesOK /\ CallOK(c) /\ Used(c)
  BY DEF ExecInv, CallsOK, Active, Used
<1> QED
  BY <1>1, UsedRecord DEF CallOK, CallRecord, TypesOK

\* The snapshot before the write is back: nothing else is written until the call answers.
LEMMA BeforeDoneOK ==
  ASSUME ExecInv, NEW c \in Calls, BeforeDone(c)
  PROVE  CallsOK'
<1>1. PICK b \in {Len(running), None} :
        Step(c, [call[c] EXCEPT !.pc = "writing", !.before = b], <<>>, <<>>)
  BY DEF BeforeDone, SnapshotOutcome
<1>2. Active(c) /\ call[c].pc = "before" /\ UNCHANGED <<gateVars, running, saved>>
  BY DEF BeforeDone, Active
<1> DEFINE r == [call[c] EXCEPT !.pc = "writing", !.before = b]
<1>3. /\ call[c] \in CallRecord /\ CallOK(c) /\ call[c].nonce # None /\ call[c].cmd \in Commands
      /\ Len(running) \in Nat /\ saved \in 0..Len(running)
  BY <1>2, ActiveRecord
<1>4. /\ r \in CallRecord /\ r.pc = "writing" /\ r.before = b /\ r.after = call[c].after
      /\ r.sig = call[c].sig /\ r.nonce = call[c].nonce /\ r.cmd = call[c].cmd
  BY <1>3 DEF CallRecord
<1>5. IsRows(<<>>)
  BY FewRows
<1>6. call[c].after = None /\ ~Applied(call[c].nonce) /\ call[c].cmd # None
  BY <1>2, <1>3 DEF CallOK
<1> HIDE DEF r
<1>7. {r.before, r.after} \subseteq 0..Len(running') \cup {None}
  BY <1>2, <1>3, <1>4, <1>6
<1>8. Step(c, r, <<>>, <<>>) /\ Applies(c) /\ saved' \in saved..Len(running')
  BY <1>1, <1>2, <1>3 DEF r, Applies
<1>9. /\ call'[c] = r /\ requests'[c] = <<>> /\ audits'[c] = <<>>
      /\ CallOK(c)' => CallsOK'
  BY <1>2, <1>4, <1>5, <1>7, <1>8, RouterMove
<1>10. CallOK(c)'
  BY <1>2, <1>3, <1>4, <1>6, <1>9 DEF CallOK, Active, Applied
<1> QED
  BY <1>9, <1>10

\* The caller has cancelled meanwhile: a denial is recorded, and nothing was sent.
LEMMA BeforeDoneCancelledOK ==
  ASSUME ExecInv, NEW c \in Calls, BeforeDoneCancelled(c)
  PROVE  CallsOK'
<1>t. PICK t : t = timing'
  OBVIOUS
<1>1. PICK b \in {Len(running), None} :
        Step(c, Answer([call[c] EXCEPT !.before = b], "cancelled"),
             <<Row("write", "denied", "cancelled", t)>>,
             <<Audit("denied", b, None, None, FALSE)>>)
  BY <1>t DEF BeforeDoneCancelled, SnapshotOutcome
<1>2. Active(c) /\ call[c].pc = "before" /\ UNCHANGED <<gateVars, running, saved>>
  BY DEF BeforeDoneCancelled, Active
<1> DEFINE r0 == [call[c] EXCEPT !.before = b]
           r == Answer(r0, "cancelled")
           row == Row("write", "denied", "cancelled", t)
           audit == Audit("denied", b, None, None, FALSE)
<1>3. /\ call[c] \in CallRecord /\ CallOK(c) /\ call[c].nonce # None
      /\ Len(running) \in Nat /\ saved \in 0..Len(running)
  BY <1>2, ActiveRecord
<1>4. /\ r0 \in CallRecord /\ r0.before = b /\ r0.after = call[c].after
      /\ r0.sig = call[c].sig /\ r0.nonce = call[c].nonce /\ r0.cmd = call[c].cmd
  BY <1>3 DEF CallRecord
<1>5. /\ row.tool = "write" /\ audit.status = "denied" /\ audit.after = None
      /\ IsRows(<<row>>) /\ IsRows(<<audit>>)
  BY FewRows DEF Row, Audit
<1>6. call[c].after = None /\ ~Applied(call[c].nonce)
  BY <1>2, <1>3 DEF CallOK
<1> HIDE DEF r0, row, audit
<1>7. /\ r \in CallRecord /\ r.pc = "done" /\ r.reply = "cancelled" /\ r.before = b /\ r.after = None
      /\ r.sig = call[c].sig /\ r.nonce = call[c].nonce /\ r.cmd = call[c].cmd
  BY <1>4, <1>6, AnswerFields DEF Codes
<1>8. Step(c, r, <<row>>, <<audit>>) /\ Applies(c) /\ saved' \in saved..Len(running')
  BY <1>1, <1>2, <1>3 DEF r0, row, audit, Applies
<1> HIDE DEF r
<1>9. {r.before, r.after} \subseteq 0..Len(running') \cup {None}
  BY <1>2, <1>3, <1>7
<1>10. /\ call'[c] = r /\ requests'[c] = <<row>> /\ audits'[c] = <<audit>>
       /\ CallOK(c)' => CallsOK'
  BY <1>2, <1>5, <1>7, <1>8, <1>9, RouterMove
<1>11. NothingSent(c)'
  <2>1. OneWriteRow(c)'
    BY <1>5, <1>10 DEF OneWriteRow, WriteRows
  <2> QED
    BY <1>2, <1>5, <1>6, <1>7, <1>10, <2>1 DEF NothingSent, OneAudit, Reports, Applied
<1>12. CallOK(c)'
  BY <1>7, <1>10, <1>11 DEF CallOK, Active
<1> QED
  BY <1>10, <1>12

\* The write failed, and the router may have applied it all the same.
LEMMA WriteErrorOK ==
  ASSUME ExecInv, NEW c \in Calls, call[c].pc = "writing",
         NEW code \in {"router_error", "failed"}, WriteError(c, code),
         running' \in {running, Append(running, Write(c))}, UNCHANGED <<gateVars, saved>>
  PROVE  CallsOK'
<1>1. PICK t : t = timing'
  OBVIOUS
<1> DEFINE r == Answer(call[c], code)
           row == Row("write", "error", code, t)
           audit == Audit("failed", call[c].before, None, None, FALSE)
<1>2. Active(c) /\ Step(c, r, <<row>>, <<audit>>) /\ Applies(c)
  BY <1>1 DEF Active, WriteError, Applies
<1>3. /\ call[c] \in CallRecord /\ CallOK(c) /\ TypesOK /\ call[c].nonce # None
      /\ {call[c].before, call[c].after} \subseteq 0..Len(running) \cup {None}
      /\ saved \in 0..Len(running) /\ Len(running) \in Nat
  BY <1>2, ActiveRecord
<1>4. /\ row.tool = "write" /\ audit.status = "failed" /\ audit.after = None
      /\ IsRows(<<row>>) /\ IsRows(<<audit>>)
  BY FewRows DEF Row, Audit
<1>5. /\ r \in CallRecord /\ r.pc = "done" /\ r.reply = code
      /\ r.before = call[c].before /\ r.after = call[c].after
      /\ r.sig = call[c].sig /\ r.nonce = call[c].nonce /\ r.cmd = call[c].cmd
  BY <1>3, AnswerFields DEF Codes
<1> HIDE DEF r, row, audit
<1>6. Len(running') \in Nat /\ Len(running) <= Len(running')
  BY <1>2, <1>3, RunningGrows
<1>7. saved' \in saved..Len(running') /\ {r.before, r.after} \subseteq 0..Len(running') \cup {None}
  BY <1>3, <1>5, <1>6
<1>8. /\ call'[c] = r /\ requests'[c] = <<row>> /\ audits'[c] = <<audit>>
      /\ CallOK(c)' => CallsOK'
  BY <1>2, <1>4, <1>5, <1>7, RouterMove
<1>9. Uncertain(c)'
  <2>1. OneWriteRow(c)'
    BY <1>4, <1>8 DEF OneWriteRow, WriteRows
  <2> QED
    BY <1>3, <1>4, <1>5, <1>8, <2>1 DEF Uncertain, OneAudit, Reports
<1>10. CallOK(c)'
  BY <1>5, <1>8, <1>9 DEF CallOK, Active
<1> QED
  BY <1>8, <1>10

\* What the record of a call says once its write is applied, and the router still holds.
Settled(c, r) ==
  /\ r \in CallRecord
  /\ r.sig = call[c].sig /\ r.nonce = call[c].nonce /\ r.cmd = call[c].cmd /\ r.own = r.nonce
  /\ running' # <<>> /\ running'[Len(running')] = Write(c)
  /\ r.before \in {None, Len(running') - 1}
  /\ r.after \in {None, Len(running')}

\* The rows of a commit.
CommitRows == {<<>>} \cup {<<Row("commit", o, code, None)>> : o \in {"ok", "error"}, code \in {None, "failed"}}

\* The row of the write comes after them, and is the only one of its kind.
OnlyWriteRow(row, q) ==
  /\ IsRows(q)
  /\ \E k \in DOMAIN q : q[k] = row /\ {i \in DOMAIN q : q[i].tool = "write"} = {k}

LEMMA WriteRowLast ==
  ASSUME NEW rs \in CommitRows, NEW row, row.tool = "write"
  PROVE  OnlyWriteRow(row, rs \o <<row>>)
<1> DEFINE q == rs \o <<row>>
<1>1. ASSUME rs = <<>> PROVE OnlyWriteRow(row, q)
  <2>1. q = <<row>>
    BY <1>1
  <2> HIDE DEF q
  <2>2. IsRows(q)
    BY <2>1, FewRows
  <2>3. DOMAIN q = {1} /\ q[1] = row
    BY <2>1
  <2>4. {i \in DOMAIN q : q[i].tool = "write"} = {1}
    BY <2>3
  <2> QED
    BY <2>2, <2>3, <2>4 DEF OnlyWriteRow
<1>2. ASSUME NEW o, NEW e, rs = <<Row("commit", o, e, None)>>
      PROVE  OnlyWriteRow(row, q)
  <2>1. PICK first : first = Row("commit", o, e, None)
    OBVIOUS
  <2>2. first.tool = "commit" /\ rs = <<first>>
    BY <1>2, <2>1 DEF Row
  <2>3. <<first>> \in Seq({first, row}) /\ <<row>> \in Seq({first, row})
    OBVIOUS
  <2>4. q \in Seq({first, row}) /\ Len(q) = 2 /\ q[1] = first /\ q[2] = row
    BY <2>2, <2>3, ConcatProperties
  <2> HIDE DEF q
  <2>5. DOMAIN q = 1..2
    BY <2>4
  <2>6. {i \in DOMAIN q : q[i].tool = "write"} = {2}
    BY <2>2, <2>4, <2>5
  <2> QED
    BY <2>4, <2>5, <2>6 DEF IsRows, OnlyWriteRow
<1> QED
  BY <1>1, <1>2 DEF CommitRows

LEMMA RecordOK ==
  ASSUME ExecInv, NEW c \in Calls, Active(c), NEW r, Settled(c, r),
         NEW commitRows \in CommitRows, NEW commit \in {"ok", "failed", "skipped"},
         Record(c, r, commitRows, commit), UNCHANGED gateVars, Applies(c),
         saved' \in saved..Len(running'), commit = "ok" => saved' = Len(running')
  PROVE  CallsOK'
<1> DEFINE ok == commit # "failed"
           code == IF ok THEN "done" ELSE "commit_failed"
           row == Row("write", IF ok THEN "ok" ELSE "error", IF ok THEN None ELSE "commit_failed", r.own)
           status == IF ok THEN "executed" ELSE "failed"
           audit == Audit(status, r.before, r.after, commit, TRUE)
           rows == commitRows \o <<row>>
           a == Answer(r, code)
<1>1. /\ Step(c, a, rows, <<audit>>) /\ code \in Codes /\ status \in {"executed", "failed"}
  BY DEF Record, Codes, Reports
<1>2. /\ row.tool = "write" /\ row.timing = r.own /\ audit.status = status
      /\ audit.before = r.before /\ audit.after = r.after /\ audit.commit = commit
      /\ IsRows(<<audit>>)
  BY FewRows DEF Row, Audit
<1>3. /\ call[c].nonce # None /\ TypesOK /\ running \in Seq(WriteRecord)
      /\ saved \in 0..Len(running) /\ CallOK(c)
  BY ActiveRecord
<1>4. /\ running' \in Seq(WriteRecord) /\ Len(running') \in Nat
  BY <1>3, RunningGrows
<1>5. Len(running') \in 1..Len(running') /\ Len(running') >= 1
  BY <1>4 DEF Settled
<1> HIDE DEF row, status, audit, code, ok
<1>6. OnlyWriteRow(row, rows)
  BY <1>2, WriteRowLast
<1> HIDE DEF rows
<1>7. /\ a \in CallRecord /\ a.pc = "done"
      /\ a.sig = call[c].sig /\ a.nonce = call[c].nonce /\ a.cmd = call[c].cmd
      /\ {a.before, a.after} \subseteq 0..Len(running') \cup {None}
  BY <1>1, <1>4, <1>5, AnswerFields DEF Settled
<1> HIDE DEF a
<1>8. /\ call'[c] = a /\ requests'[c] = rows /\ audits'[c] = <<audit>>
      /\ CallOK(c)' => CallsOK'
  BY <1>1, <1>2, <1>6, <1>7, RouterMove DEF OnlyWriteRow
<1>9. Recorded(c)'
  <2>1. Write(c)' = Write(c) /\ Write(c).nonce = call[c].nonce
    BY <1>7, <1>8 DEF Write
  <2>2. Applied(call[c].nonce)'
    BY <1>4, <1>5, <1>7, <1>8, <2>1 DEF Applied, Settled
  <2>3. audit.commit = "ok" => \E k \in 1..saved' : running'[k].nonce = call'[c].nonce
    BY <1>2, <1>5, <1>7, <1>8, <2>1 DEF Settled
  <2>4. None \notin {audit.before, audit.after} =>
           /\ audit.after = audit.before + 1 /\ audit.after \in 1..Len(running')
           /\ running'[audit.after] = Write(c)'
    BY <1>2, <1>4, <1>5, <2>1 DEF Settled
  <2>5. OneWriteRow(c)' /\ \A k \in WriteRows(c)' : requests'[c][k].timing = call'[c].nonce
    BY <1>2, <1>6, <1>7, <1>8 DEF OneWriteRow, WriteRows, OnlyWriteRow, Settled
  <2>6. Len(audits'[c]) = 1 /\ audits'[c][1] = audit
    BY <1>8
  <2> QED
    BY <1>1, <1>2, <1>3, <1>7, <1>8, <2>2, <2>3, <2>4, <2>5, <2>6 DEF Recorded, OneAudit
<1>10. CallOK(c)'
  BY <1>7, <1>8, <1>9 DEF CallOK, Active
<1> QED
  BY <1>8, <1>10

\* The write is applied and no snapshot is outstanding: the call goes on to the commit, or
\* is recorded without one.
LEMMA ToCommitOK ==
  ASSUME ExecInv, NEW c \in Calls, Active(c), NEW r, Settled(c, r), ToCommit(c, r),
         UNCHANGED <<gateVars, saved>>, Applies(c)
  PROVE  CallsOK'
<1>1. /\ TypesOK /\ CallOK(c) /\ call[c].nonce # None /\ call[c].cmd # None
      /\ saved \in 0..Len(running) /\ Len(running) \in Nat
  <2>1. TypesOK /\ CallOK(c) /\ saved \in 0..Len(running) /\ Len(running) \in Nat
    BY ActiveRecord
  <2> QED
    BY <2>1 DEF CallOK
<1>2. /\ running' \in Seq(WriteRecord) /\ Len(running') \in Nat /\ Len(running) <= Len(running')
  BY <1>1, RunningGrows
<1>3. saved' \in saved..Len(running')
  BY <1>1, <1>2
<1>4. Len(running') >= 1 /\ {r.before, r.after} \subseteq 0..Len(running') \cup {None}
  BY <1>2 DEF Settled
<1>5. CASE ~Commits(r.cmd)
  <2>1. Record(c, r, <<>>, "skipped")
    BY <1>5 DEF ToCommit
  <2> QED
    BY <1>3, <2>1, RecordOK DEF CommitRows
<1>6. CASE Commits(r.cmd)
  <2> DEFINE r2 == [r EXCEPT !.pc = "committing"]
  <2>1. /\ r2 \in CallRecord /\ r2.pc = "committing" /\ r2.sig = r.sig /\ r2.nonce = r.nonce
        /\ r2.cmd = r.cmd /\ r2.own = r.own /\ r2.before = r.before /\ r2.after = r.after
    BY DEF Settled, CallRecord
  <2>2. Step(c, r2, <<>>, <<>>) /\ IsRows(<<>>)
    BY <1>6, FewRows DEF ToCommit
  <2> HIDE DEF r2
  <2>3. /\ r2.sig = call[c].sig /\ r2.nonce = call[c].nonce /\ r2.cmd = call[c].cmd
        /\ {r2.before, r2.after} \subseteq 0..Len(running') \cup {None}
    BY <1>4, <2>1 DEF Settled
  <2>4. /\ call'[c] = r2 /\ requests'[c] = <<>> /\ audits'[c] = <<>>
        /\ CallOK(c)' => CallsOK'
    BY <1>3, <2>1, <2>2, <2>3, RouterMove
  <2>5. Write(c)' = Write(c)
    BY <2>3, <2>4 DEF Write
  <2>6. CallOK(c)'
    BY <1>1, <2>1, <2>3, <2>4, <2>5 DEF CallOK, Active, Settled
  <2> QED
    BY <2>4, <2>6
<1> QED
  BY <1>5, <1>6

\* The router's answer to the write: the write comes right after the call's first snapshot,
\* since no other call has written in between.
LEMMA WriteDoneOK ==
  ASSUME ExecInv, NEW c \in Calls, WriteDone(c)
  PROVE  CallsOK'
<1>1. PICK t \in Nonces : t = call[c].nonce
  BY ActiveRecord DEF WriteDone, Active
<1> DEFINE r == [call[c] EXCEPT !.own = t]
<1>2. /\ call[c].pc = "writing" /\ Active(c) /\ running' = Append(running, Write(c))
      /\ UNCHANGED <<gateVars, saved>> /\ Applies(c) /\ ToAfter(c, r)
  BY <1>1 DEF WriteDone, Active, Applies
<1>3. /\ TypesOK /\ CallOK(c) /\ call[c] \in CallRecord /\ call[c].nonce # None
      /\ call[c].cmd \in Commands /\ running \in Seq(WriteRecord)
      /\ saved \in 0..Len(running) /\ Len(running) \in Nat
  BY <1>2, ActiveRecord
<1>4. call[c].after = None /\ call[c].before \in {None, Len(running)} /\ call[c].cmd # None
  BY <1>2, <1>3 DEF CallOK, Active
<1>5. Len(running') = Len(running) + 1 /\ running'[Len(running')] = Write(c) /\ running' # <<>>
  <2>1. Write(c) \in WriteRecord
    BY <1>1, <1>3 DEF Write, WriteRecord
  <2> QED
    BY <1>2, <1>3, <2>1
<1>6. /\ r \in CallRecord /\ r.pc = "writing" /\ r.sig = call[c].sig /\ r.nonce = call[c].nonce
      /\ r.cmd = call[c].cmd /\ r.own = r.nonce /\ r.before = call[c].before /\ r.after = None
  BY <1>1, <1>2, <1>3, <1>4 DEF CallRecord
<1> HIDE DEF r
<1>7. Settled(c, r)
  BY <1>3, <1>4, <1>5, <1>6 DEF Settled
<1>8. CASE r.cmd \notin Snapshotted
  BY <1>2, <1>7, <1>8, ToCommitOK DEF ToAfter
<1>9. CASE r.cmd \in Snapshotted
  <2> DEFINE r2 == [r EXCEPT !.pc = "after"]
  <2>1. /\ r2 \in CallRecord /\ r2.pc = "after" /\ r2.sig = r.sig /\ r2.nonce = r.nonce
        /\ r2.cmd = r.cmd /\ r2.own = r.own /\ r2.before = r.before /\ r2.after = r.after
    BY <1>6 DEF CallRecord
  <2>2. Step(c, r2, <<>>, <<>>) /\ IsRows(<<>>)
    BY <1>9, <1>2, FewRows DEF ToAfter
  <2> HIDE DEF r2
  <2>3. /\ {r2.before, r2.after} \subseteq 0..Len(running') \cup {None}
        /\ saved' \in saved..Len(running')
    BY <1>2, <1>3, <1>4, <1>5, <1>6, <2>1
  <2>4. /\ call'[c] = r2 /\ requests'[c] = <<>> /\ audits'[c] = <<>>
        /\ CallOK(c)' => CallsOK'
    BY <1>2, <1>6, <2>1, <2>2, <2>3, RouterMove
  <2>5. Write(c)' = Write(c)
    BY <1>6, <2>1, <2>4 DEF Write
  <2>6. CallOK(c)'
    BY <1>3, <1>4, <1>5, <1>6, <2>1, <2>4, <2>5 DEF CallOK, Active
  <2> QED
    BY <2>4, <2>6
<1> QED
  BY <1>8, <1>9

\* A call whose write is applied and that waits for the router.
LEMMA WaitingSettled ==
  ASSUME ExecInv, NEW c \in Calls, call[c].pc \in {"after", "committing"},
         UNCHANGED running, NEW a \in {None, Len(running)}, NEW r,
         (r = call[c] /\ a = call[c].after) \/ r = [call[c] EXCEPT !.after = a]
  PROVE  Settled(c, r)
<1>1. Active(c)
  BY DEF Active
<1>2. /\ TypesOK /\ CallOK(c) /\ call[c] \in CallRecord /\ running \in Seq(WriteRecord)
      /\ Len(running) \in Nat
  BY <1>1, ActiveRecord
<1>3. /\ running # <<>> /\ running[Len(running)] = Write(c) /\ call[c].own = call[c].nonce
      /\ call[c].before \in {None, Len(running) - 1}
  BY <1>2 DEF CallOK
<1>4. /\ r \in CallRecord /\ r.sig = call[c].sig /\ r.nonce = call[c].nonce
      /\ r.cmd = call[c].cmd /\ r.own = call[c].own /\ r.before = call[c].before /\ r.after = a
  BY <1>2 DEF CallRecord
<1> QED
  BY <1>2, <1>3, <1>4 DEF Settled

\* The snapshot after the write is back.
LEMMA AfterDoneOK ==
  ASSUME ExecInv, NEW c \in Calls, AfterDone(c)
  PROVE  CallsOK'
<1>1. PICK a \in {None, Len(running)} : ToCommit(c, [call[c] EXCEPT !.after = a])
  BY DEF AfterDone, SnapshotOutcome
<1>2. PICK r : r = [call[c] EXCEPT !.after = a]
  OBVIOUS
<1>3. /\ call[c].pc = "after" /\ Active(c) /\ UNCHANGED <<gateVars, running, saved>>
      /\ Applies(c) /\ ToCommit(c, r)
  BY <1>1, <1>2 DEF AfterDone, Active, Applies
<1> QED
  BY <1>2, <1>3, WaitingSettled, ToCommitOK

\* `sys commit' has returned, or failed.
LEMMA CommitOK ==
  ASSUME ExecInv, NEW c \in Calls, CommitDone(c) \/ CommitFailed(c)
  PROVE  CallsOK'
<1>1. /\ call[c].pc = "committing" /\ Active(c) /\ UNCHANGED <<gateVars, running>> /\ Applies(c)
  BY DEF CommitDone, CommitFailed, Active, Applies
<1>2. /\ saved \in 0..Len(running) /\ Len(running) \in Nat /\ CallOK(c)
  BY <1>1, ActiveRecord
<1>3. Settled(c, call[c])
  BY <1>1, <1>2, WaitingSettled DEF CallOK
<1>4. CASE CommitDone(c)
  BY <1>1, <1>2, <1>3, <1>4, RecordOK DEF CommitDone, CommitRows
<1>5. CASE CommitFailed(c)
  BY <1>1, <1>2, <1>3, <1>5, RecordOK DEF CommitFailed, CommitRows
<1> QED
  BY <1>4, <1>5

LEMMA RouterAnswerOK ==
  ASSUME ExecInv, NEW c \in Calls, RouterAnswer(c)
  PROVE  CallsOK'
<1>1. CASE WriteRejected(c)
  BY <1>1, WriteErrorOK DEF WriteRejected
<1>2. CASE WriteFailed(c)
  BY <1>2, WriteErrorOK DEF WriteFailed
<1> QED
  BY <1>1, <1>2, BeforeDoneOK, BeforeDoneCancelledOK, WriteDoneOK, AfterDoneOK, CommitOK
     DEF RouterAnswer

LEMMA StartOK ==
  ASSUME ExecInv, NEW c \in Calls, Start(c), GateInv',
         offered \subseteq offered', Approved \subseteq Approved'
  PROVE  CallsOK'
<1>1. CASE StartInvalid(c) \/ StartUnacknowledged(c) \/ StartCancelled(c)
  <2>1. PICK code \in {"invalid", "not_acknowledged", "cancelled"} : Deny(c, code)
    BY <1>1 DEF StartInvalid, StartUnacknowledged, StartCancelled
  <2>2. Turn(c) /\ UNCHANGED <<running, saved>>
    BY <1>1 DEF StartInvalid, StartUnacknowledged, StartCancelled, Verifies, Prepared
  <2> QED
    BY <2>1, <2>2, DenySteps DEF Codes, Reports
<1>2. CASE StartDenied(c)
  <2>1. PICK code \in {"token_used", "invalid_token", "token_expired", "mismatch", "bad_signature"} :
          Deny(c, code)
    BY <1>2 DEF StartDenied
  <2>2. Turn(c) /\ UNCHANGED <<running, saved>>
    BY <1>2 DEF StartDenied, Verifies, Prepared
  <2> QED
    BY <2>1, <2>2, DenySteps DEF Codes, Reports
<1>3. CASE StartPreviewFull(c) \/ StartIncomplete(c)
  BY <1>3, ThrowSteps DEF StartPreviewFull, StartIncomplete, Prepared, Codes, Reports
<1>4. CASE StartPreview(c)
  <2>1. /\ Turn(c) /\ UNCHANGED <<running, saved>>
        /\ Step(c, Answer(call[c], "needs_confirmation"),
                <<Row("write", "needs_confirmation", None, None)>>,
                <<Audit("preview", None, None, None, FALSE)>>)
    BY <1>4 DEF StartPreview, Prepared
  <2>2. "needs_confirmation" \in Codes \ Reports
    BY DEF Codes, Reports
  <2> QED
    BY <2>1, <2>2, FewRows, AnsweredAtOnce
<1> QED
  BY <1>1, <1>2, <1>3, <1>4, ApprovedOK DEF Start

\* A new call takes a free slot, at the end of the chain.
LEMMA RequestOK ==
  ASSUME ExecInv, NEW c \in Calls, Request(c)
  PROVE  CallsOK'
<1>1. PICK cmd \in Commands \cup {None}, cid \in Ids \cup {None}, sig \in offered \cup {None},
           ack \in BOOLEAN : Arrive(c, cmd, cid, sig, ack)
  BY DEF Request
<1>2. PICK r : r = NewCall(cmd, cid, sig, ack)
  OBVIOUS
<1>3. /\ TypesOK /\ QueueOK /\ NoncesOK /\ (\A d \in Calls : CallOK(d)) /\ GateTypeOK
  BY DEF ExecInv, CallsOK, GateInv
<1>4. /\ r.pc = "queued" /\ r \in CallRecord /\ r.nonce = None /\ r.sig = sig
      /\ r.before = None /\ r.after = None
  BY <1>2, <1>3 DEF NewCall, CallRecord, GateTypeOK
<1>5. /\ call[c].pc \in {"idle", "done", "lost"} /\ queue' = Append(queue, c)
      /\ UNCHANGED <<gateVars, running, saved>>
      /\ call'[c] = r /\ requests'[c] = <<>> /\ audits'[c] = <<>>
      /\ \A d \in Calls \ {c} :
           call'[d] = call[d] /\ requests'[d] = requests[d] /\ audits'[d] = audits[d]
      /\ call' \in [Calls -> CallRecord \cup {Idle}]
      /\ DOMAIN requests' = Calls /\ DOMAIN audits' = Calls
  BY <1>1, <1>2, <1>3, <1>4 DEF Arrive, TypesOK
<1>6. /\ queue' \in Seq(Calls) /\ Len(queue') = Len(queue) + 1 /\ queue \in Seq(Calls)
      /\ queue'[Len(queue) + 1] = c /\ Len(queue) \in Nat
      /\ \A i \in 1..Len(queue) : queue'[i] = queue[i] /\ queue[i] \in Calls
  BY <1>3, <1>5 DEF TypesOK
<1>7. \A i \in 1..Len(queue) : queue[i] # c
  BY <1>3, <1>5 DEF QueueOK, Active
<1>8. QueueOK'
  <2>1. \A i, j \in 1..Len(queue') : queue'[i] = queue'[j] => i = j
    BY <1>3, <1>6, <1>7 DEF QueueOK
  <2>2. (\A i \in 1..Len(queue) : call[queue[i]].pc = "queued" \/ Active(queue[i]))'
    <3>1. \A i \in 1..Len(queue) : call'[queue'[i]].pc
             \in {"queued", "before", "writing", "after", "committing"}
      BY <1>3, <1>5, <1>6, <1>7 DEF QueueOK, Active
    <3>2. call'[queue'[Len(queue) + 1]].pc = "queued"
      BY <1>4, <1>5, <1>6
    <3>3. \A i \in 1..Len(queue') : i \in 1..Len(queue) \/ i = Len(queue) + 1
      BY <1>6
    <3> QED
      BY <3>1, <3>2, <3>3 DEF Active
  <2>3. \A d \in Calls : Active(d)' => Active(d)
    BY <1>4, <1>5 DEF Active
  <2>4. queue # <<>> => queue' # <<>> /\ Head(queue') = Head(queue)
    BY <1>5, <1>6
  <2>5. \A d \in Calls : Active(d)' => queue' # <<>> /\ Head(queue') = d
    BY <1>3, <2>3, <2>4 DEF QueueOK
  <2> QED
    BY <2>1, <2>2, <2>5 DEF QueueOK
<1>9. TypesOK'
  BY <1>3, <1>4, <1>5, <1>6 DEF TypesOK, Used, gateVars
<1>10. NoncesOK'
  BY <1>3, <1>4, <1>5, NoncesStay DEF Applies, Approved, gateVars
<1>11. CallOK(c)'
  BY <1>4, <1>5 DEF CallOK, Active
<1>12. \A d \in Calls \ {c} : CallOK(d)'
  BY <1>3, <1>5, SameOK
<1> QED
  BY <1>8, <1>9, <1>10, <1>11, <1>12 DEF CallsOK

\* The caller's cancellation only raises a flag.
LEMMA CancelOK ==
  ASSUME ExecInv, NEW c \in Calls, Cancel(c)
  PROVE  CallsOK'
<1>1. PICK r : r = [call[c] EXCEPT !.aborted = TRUE]
  OBVIOUS
<1>2. /\ TypesOK /\ QueueOK /\ NoncesOK /\ (\A d \in Calls : CallOK(d)) /\ Used(c)
      /\ call[c].pc # "done"
  BY DEF ExecInv, CallsOK, Cancel, Used, Active
<1>3. call[c] \in CallRecord
  BY <1>2, UsedRecord
<1>4. /\ r \in CallRecord /\ r.pc = call[c].pc /\ r.nonce = call[c].nonce /\ r.sig = call[c].sig
      /\ r.cmd = call[c].cmd /\ r.before = call[c].before /\ r.after = call[c].after
      /\ r.own = call[c].own
  BY <1>1, <1>3 DEF CallRecord
<1>5. /\ UNCHANGED <<gateVars, queue, requests, audits, running, saved>>
      /\ call'[c] = r /\ \A d \in Calls \ {c} : call'[d] = call[d]
      /\ call' \in [Calls -> CallRecord \cup {Idle}]
  BY <1>1, <1>2, <1>4 DEF Cancel, TypesOK
<1>6. \A d \in Calls : call'[d].pc = call[d].pc
  BY <1>4, <1>5
<1>7. QueueOK'
  BY <1>2, <1>5, <1>6 DEF QueueOK, Active, TypesOK
<1>8. TypesOK'
  BY <1>2, <1>4, <1>5 DEF TypesOK, Used, gateVars
<1>9. NoncesOK'
  BY <1>2, <1>4, <1>5, NoncesStay DEF Applies, Approved, gateVars
<1>10. CallOK(c)'
  BY <1>2, <1>4, <1>5 DEF CallOK, Active, Applied, Write
<1>11. \A d \in Calls \ {c} : CallOK(d)'
  BY <1>2, <1>5, SameOK
<1> QED
  BY <1>7, <1>8, <1>9, <1>10, <1>11 DEF CallsOK

\* A crash loses the unanswered calls, and none of the others.
LEMMA CrashOK ==
  ASSUME ExecInv, Crash, offered \subseteq offered', Approved \subseteq Approved'
  PROVE  CallsOK'
<1>1. TypesOK /\ QueueOK /\ NoncesOK /\ \A d \in Calls : CallOK(d)
  BY DEF ExecInv, CallsOK
<1>2. /\ queue' = <<>> /\ UNCHANGED <<requests, audits, running, saved>>
      /\ call' = [d \in Calls |-> call'[d]]
      /\ \A d \in Calls : call'[d] =
           IF call[d].pc = "queued" \/ Active(d) THEN [call[d] EXCEPT !.pc = "lost"] ELSE call[d]
  BY DEF Crash
<1>3. ASSUME NEW d \in Calls
      PROVE  /\ call'[d] \in CallRecord \cup {Idle}
             /\ ~Active(d)' /\ call'[d].pc # "queued" /\ CallOK(d)'
             /\ Used(d)' => /\ Used(d) /\ call'[d].sig = call[d].sig /\ call'[d].nonce = call[d].nonce
                            /\ call'[d].cmd = call[d].cmd
                            /\ call'[d].before = call[d].before /\ call'[d].after = call[d].after
  <2>1. CASE call[d].pc = "queued" \/ Active(d)
    <3>1. PICK r : r = [call[d] EXCEPT !.pc = "lost"]
      OBVIOUS
    <3>2. call[d] \in CallRecord /\ Used(d) /\ call[d].pc # "done"
      BY <1>1, <2>1, UsedRecord DEF Used, Active
    <3>3. /\ r \in CallRecord /\ r.pc = "lost" /\ r.nonce = call[d].nonce /\ r.sig = call[d].sig
          /\ r.cmd = call[d].cmd /\ r.before = call[d].before /\ r.after = call[d].after
      BY <3>1, <3>2 DEF CallRecord
    <3>4. call'[d] = r /\ requests'[d] = <<>> /\ audits'[d] = <<>>
      BY <1>1, <1>2, <2>1, <3>1, <3>2 DEF CallOK
    <3> QED
      BY <3>2, <3>3, <3>4 DEF CallOK, Active
  <2>2. CASE ~(call[d].pc = "queued" \/ Active(d))
    <3>1. call'[d] = call[d]
      BY <1>2, <2>2
    <3>2. CallOK(d)'
      BY <1>1, <1>2, <3>1, SameOK
    <3> QED
      BY <1>1, <2>2, <3>1, <3>2 DEF Active, TypesOK, Used
  <2> QED
    BY <2>1, <2>2
<1>4. QueueOK'
  BY <1>2, <1>3 DEF QueueOK
<1>5. TypesOK'
  BY <1>1, <1>2, <1>3 DEF TypesOK
<1>6. NoncesOK'
  <2>1. \A d \in Calls : Used(d)' => Write(d)' = Write(d)
    BY <1>3 DEF Write
  <2> QED
    BY <1>1, <1>2, <1>3, <2>1 DEF NoncesOK
<1> QED
  BY <1>3, <1>4, <1>5, <1>6 DEF CallsOK

\* Steps that touch no call: read tools, the human, the clock.
LEMMA AsideOK ==
  ASSUME ExecInv, UNCHANGED <<call, queue, requests, audits, running, saved>>,
         offered \subseteq offered', Approved \subseteq Approved'
  PROVE  CallsOK'
<1>1. TypesOK /\ QueueOK /\ NoncesOK /\ \A d \in Calls : CallOK(d)
  BY DEF ExecInv, CallsOK
<1>2. TypesOK' /\ QueueOK'
  BY <1>1 DEF TypesOK, QueueOK, Used, Active
<1>3. NoncesOK'
  BY <1>1 DEF NoncesOK, Used, Write
<1>4. \A d \in Calls : CallOK(d)'
  BY <1>1, SameOK
<1> QED
  BY <1>2, <1>3, <1>4 DEF CallsOK

-----------------------------------------------------------------------------
(* Theorems *)

LEMMA InitExec == Init => ExecInv
<1> SUFFICES ASSUME Init PROVE ExecInv
  OBVIOUS
<1>1. GateInv
  BY InitInv DEF Init
<1>2. TypesOK
  BY DEF Init, ExecInit, TypesOK, Used, Idle
<1>3. QueueOK /\ NoncesOK
  BY DEF Init, ExecInit, QueueOK, NoncesOK, Used, Idle, Active
<1>4. \A c \in Calls : CallOK(c)
  BY DEF Init, ExecInit, CallOK, Idle, Active
<1> QED
  BY <1>1, <1>2, <1>3, <1>4 DEF ExecInv, CallsOK

LEMMA ExecStep == ExecInv /\ [Next]_vars => ExecInv'
<1> SUFFICES ASSUME ExecInv, [Next]_vars PROVE ExecInv'
  OBVIOUS
<1>1. GateInv'
  BY GateSteps, StepInv DEF ExecInv, CallsOK, GateInv
<1>2. offered \subseteq offered' /\ Approved \subseteq Approved'
  BY GateSteps, GateGrows DEF ExecInv, CallsOK, GateInv
<1>3. CallsOK'
  <2>1. ASSUME NEW c \in Calls, Request(c) \/ Cancel(c) \/ Start(c) \/ RouterAnswer(c)
        PROVE  CallsOK'
    BY <1>1, <1>2, <2>1, RequestOK, CancelOK, StartOK, RouterAnswerOK
  <2>2. CASE Crash
    BY <1>2, <2>2, CrashOK
  <2>3. CASE ReadTool \/ Outside \/ UNCHANGED vars
    BY <1>2, <2>3, AsideOK DEF ReadTool, Outside, vars, execVars
  <2> QED
    BY <2>1, <2>2, <2>3 DEF Next
<1> QED
  BY <1>1, <1>3 DEF ExecInv

\* Whatever the interleaving of calls, cancellations, crashes and router failures: the
\* gate's invariant; one active call, at the head of the chain of runExclusive; writes
\* that run under distinct consumed approvals; and, at every await of executeWriteLocked
\* and after it, what the call's record, its rows and the router say of each other.
THEOREM ExecCorrect == Spec => []ExecInv
<1> QED
  BY InitExec, ExecStep, PTL DEF Spec

\* The executor uses the gate as the gate is specified: it calls create and consumeSigned
\* with arguments the gate admits, one step at a time, so that what is proved of GateSpec
\* holds of the server with any number of concurrent write calls.
THEOREM ExecutorUsesGate == Spec => GateSpec
<1>1. Init => GateInit
  BY DEF Init
<1>2. ExecInv /\ [Next]_vars => [GateNext]_gateVars
  BY GateSteps DEF ExecInv, CallsOK, GateInv
<1> QED
  BY <1>1, <1>2, ExecCorrect, PTL DEF Spec, GateSpec

\* Every call slot, the chain of calls without repetition, the router's writes and what
\* is saved of them stay of their types.
THEOREM ExecTypeCorrect == Spec => []ExecTypeOK
<1>1. ExecInv => ExecTypeOK
  <2> SUFFICES ASSUME ExecInv PROVE ExecTypeOK
    OBVIOUS
  <2>1. TypesOK /\ QueueOK
    BY DEF ExecInv, CallsOK
  <2>2. ASSUME NEW c \in Calls
        PROVE  /\ call[c].pc \in {"idle", "queued", "before", "writing", "after",
                                  "committing", "done", "lost"}
               /\ call[c].pc # "idle" =>
                    /\ call[c].cmd \in Commands \cup {None}
                    /\ call[c].cid \in Ids \cup {None}
                    /\ call[c].sig \in offered \cup {None}
                    /\ call[c].nonce \in Nonces \cup {None}
                    /\ {call[c].before, call[c].after} \subseteq 0..Len(running) \cup {None}
    BY <2>1 DEF TypesOK, Used, CallRecord, Idle
  <2>3. IsInjective(queue)
    BY <2>1 DEF IsInjective, TypesOK, QueueOK
  <2> QED
    BY <2>1, <2>2, <2>3 DEF ExecTypeOK, TypesOK, WriteRecord
<1> QED
  BY <1>1, ExecCorrect, PTL

\* A write reaches the router at most once per approval, as the command that approval was
\* consumed for: performWrite sends what consumeSigned has verified, whatever the calls
\* around it do.
THEOREM AppliedAsApproved == Spec => []AppliedAsReleased
<1>1. ExecInv => AppliedAsReleased
  BY DEF ExecInv, CallsOK, TypesOK, NoncesOK, Approved, AppliedAsReleased
<1> QED
  BY <1>1, ExecCorrect, PTL

\* Serialized calls: between the two snapshots of an audit row lies the write of that
\* call, and nothing else.
THEOREM SnapshotsBracket == Spec => []SnapshotsBracketWrite
<1>1. ASSUME ExecInv, NEW c \in Calls, NEW k \in DOMAIN audits[c],
             None \notin {audits[c][k].before, audits[c][k].after}
      PROVE  /\ audits[c][k].after = audits[c][k].before + 1
             /\ running[audits[c][k].after] = Write(c)
  <2>1. CallOK(c)
    BY <1>1 DEF ExecInv, CallsOK
  <2>2. call[c].pc = "done" /\ audits[c] # <<>>
    BY <1>1, <2>1 DEF CallOK
  <2>3. Recorded(c)
    <3>1. ASSUME NEW S, OneAudit(c, S), audits[c][1].after = None PROVE FALSE
      BY <1>1, <3>1 DEF OneAudit
    <3> QED
      BY <2>1, <2>2, <3>1 DEF CallOK, NothingSent, Uncertain
  <2>4. k = 1
    BY <1>1, <2>3 DEF Recorded, OneAudit
  <2> QED
    BY <1>1, <2>3, <2>4 DEF Recorded
<1>2. ExecInv => SnapshotsBracketWrite
  BY <1>1 DEF SnapshotsBracketWrite
<1> QED
  BY <1>2, ExecCorrect, PTL

\* What an answered call has: one of the three outcomes, each with its own statuses.
LEMMA Outcome ==
  ASSUME ExecInv, NEW c \in Calls, Answered(c)
  PROVE  \/ NothingSent(c) /\ ~Audited(c, {"executed"})
         \/ Uncertain(c) /\ ~Audited(c, {"executed"})
              /\ ~Audited(c, {"preview", "denied", "expired", "mismatch"})
         \/ Recorded(c) /\ ~Audited(c, {"preview", "denied", "expired", "mismatch"})
<1>1. NothingSent(c) \/ Uncertain(c) \/ Recorded(c)
  BY DEF ExecInv, CallsOK, CallOK, Answered
<1>2. ASSUME NEW S, NEW T, OneAudit(c, S), S \cap T = {} PROVE ~Audited(c, T)
  BY <1>2 DEF OneAudit, Audited
<1>3. audits[c] = <<>> => ~Audited(c, {"executed"})
  BY DEF Audited
<1> QED
  BY <1>1, <1>2, <1>3 DEF NothingSent, Uncertain, Recorded

\* The answer tells the truth about the router: a reported write runs, is saved when its
\* commit is reported ok, and a denied call has left the router alone, at whichever await
\* it stopped.
THEOREM AnswersTruthful == Spec => []AnswerTruthful
<1>1. ASSUME ExecInv, NEW c \in Calls, Answered(c)
      PROVE  /\ call[c].reply \in {"done", "commit_failed"} => Applied(call[c].nonce)
             /\ Audited(c, {"executed"}) /\ audits[c][1].commit = "ok" =>
                  \E k \in 1..saved : running[k].nonce = call[c].nonce
             /\ Audited(c, {"preview", "denied", "expired", "mismatch"}) => ~Applied(call[c].nonce)
  BY <1>1, Outcome DEF NothingSent, Uncertain, Recorded, Reports
<1>2. ExecInv => AnswerTruthful
  BY <1>1 DEF AnswerTruthful
<1> QED
  BY <1>2, ExecCorrect, PTL

\* Every answered call whose approval was consumed leaves one audit row and one request
\* row, and a write that was applied is never audited as denied.
THEOREM ReleasesAudited == Spec => []ReleasedIsAudited
<1>1. ASSUME ExecInv, NEW c \in Calls, Answered(c), call[c].nonce # None
      PROVE  /\ Len(audits[c]) = 1 /\ Cardinality(WriteRows(c)) = 1
             /\ Applied(call[c].nonce) => Audited(c, {"executed", "failed"})
  <2>1. OneWriteRow(c) /\ Len(audits[c]) = 1
    BY <1>1, Outcome DEF NothingSent, Uncertain, Recorded, OneAudit
  <2>2. Cardinality(WriteRows(c)) = 1
    BY <2>1, FS_Singleton DEF OneWriteRow
  <2>3. ASSUME OneAudit(c, {"executed", "failed"}) \/ OneAudit(c, {"failed"})
        PROVE  Audited(c, {"executed", "failed"})
    <3>1. audits[c][1].status \in {"executed", "failed"} /\ Len(audits[c]) = 1
      BY <2>3 DEF OneAudit
    <3>2. 1 \in DOMAIN audits[c]
      BY <1>1, <3>1, Outcome
    <3> QED
      BY <3>1, <3>2 DEF Audited
  <2> QED
    BY <1>1, <2>1, <2>2, <2>3, Outcome DEF NothingSent, Uncertain, Recorded
<1>2. ExecInv => ReleasedIsAudited
  BY <1>1 DEF ReleasedIsAudited
<1> QED
  BY <1>2, ExecCorrect, PTL

\* The timing in the request row of an executed write is that of the write, taken when it
\* returned, whatever the client was last used for.
THEOREM ExecutedTimingOwn == Spec => []ExecutedTimingIsOwn
<1>1. ASSUME ExecInv, NEW c \in Calls, Audited(c, {"executed"})
      PROVE  \A k \in WriteRows(c) : requests[c][k].timing = call[c].nonce
  <2>1. Answered(c)
    BY <1>1 DEF ExecInv, CallsOK, CallOK, Audited, Answered
  <2> QED
    BY <1>1, <2>1, Outcome DEF Recorded
<1>2. ExecInv => ExecutedTimingIsOwn
  BY <1>1 DEF ExecutedTimingIsOwn
<1> QED
  BY <1>2, ExecCorrect, PTL
=============================================================================
