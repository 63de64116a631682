------------------------------ MODULE LogStore ------------------------------
(***************************************************************************)
(* The SQLite log (src/src/db/log.ts) and the two rows of a write          *)
(* (src/src/commands/tool-log.ts): servers that share one database file,   *)
(* each opening it statement by statement, an old or half-made database,   *)
(* statements that fail (a locked database, a full disk) and servers that  *)
(* crash between two statements and start again.                           *)
(*                                                                         *)
(* A row is the number of the call that wrote it; the id of a request row  *)
(* is its position (AUTOINCREMENT, no row is ever deleted).  The indexes   *)
(* go with the statement before them, as no statement depends on them.     *)
(***************************************************************************)
EXTENDS Integers, Sequences

CONSTANTS
  Servers,     \* server processes on one database file
  Columns,     \* Columns[t]: the columns of table t in SCHEMA
  Migrations,  \* the columns that databases may lack: a sequence of [table, column]
  None,        \* SQL NULL, and no handler
  MaxCalls,    \* bound on the calls
  MaxStarts,   \* bound on the starts of each server
  MaxFaults    \* bound on the statements that fail

Tables == {"requests", "write_audit"}

ASSUME MigrationAssumption ==
  /\ Columns \in [Tables -> SUBSET STRING]
  /\ \A t \in Tables : "id" \in Columns[t]
  /\ Migrations \in Seq([table : Tables, column : STRING \ {"id"}])
  /\ \A i \in DOMAIN Migrations : Migrations[i].column \in Columns[Migrations[i].table]

ASSUME NoneAssumption == None \notin Nat

ASSUME BoundAssumption == MaxCalls \in Nat /\ MaxStarts \in Nat /\ MaxFaults \in Nat

VARIABLES
  columns,   \* columns[t]: the columns of table t in the file, {} if there is no table
  requests,  \* the rows of requests
  audits,    \* the rows of write_audit: [call, links, request]
  phase,     \* phase[s]: "down", "opening", "enabled", "disabled" or "closed"
  pc,        \* pc[s]: the statement of the constructor that comes next
  hit,       \* hit[s]: a statement of this opening failed though the database allowed it
  handler,   \* handler[s]: the call between its request and its audit row, or None
  begun,     \* how many calls have come to be logged
  starts,    \* starts[s]: how often the server was started
  faults     \* how many statements have failed though the database allowed them

vars == <<columns, requests, audits, phase, pc, hit, handler, begun, starts, faults>>

Calls == 1..MaxCalls
Phases == {"down", "opening", "enabled", "disabled", "closed"}

\* A database that an earlier version left: it lacks the last migrations.
Version(k) ==
  [t \in Tables |->
     Columns[t] \ {Migrations[i].column : i \in {j \in DOMAIN Migrations :
                                                   j > k /\ Migrations[j].table = t}}]

Init ==
  /\ columns \in {[t \in Tables |-> {}]} \cup {Version(k) : k \in 0..Len(Migrations)}
  /\ requests = <<>>
  /\ audits = {}
  /\ phase = [s \in Servers |-> "down"]
  /\ pc = [s \in Servers |-> 1]
  /\ hit = [s \in Servers |-> FALSE]
  /\ handler = [s \in Servers |-> None]
  /\ begun = 0
  /\ starts = [s \in Servers |-> 0]
  /\ faults = 0

-----------------------------------------------------------------------------
(* The constructor. *)

FirstPrepare == 4 + Len(Migrations)
LastStatement == 5 + Len(Migrations)

Statement(op, table, column) == [op |-> op, table |-> table, column |-> column]

StatementAt(p) ==
  IF p = 1 THEN Statement("open", "requests", "id")
  ELSE IF p = 2 THEN Statement("create", "requests", "id")
  ELSE IF p = 3 THEN Statement("create", "write_audit", "id")
  ELSE IF p < FirstPrepare
       THEN Statement("alter", Migrations[p - 3].table, Migrations[p - 3].column)
  ELSE IF p = FirstPrepare THEN Statement("prepare", "requests", "id")
  ELSE Statement("prepare", "write_audit", "id")

\* SQLite rejects it: no such table, a duplicate column, or no such column.
Rejected(stmt) ==
  \/ stmt.op = "alter" /\ (columns[stmt.table] = {} \/ stmt.column \in columns[stmt.table])
  \/ stmt.op = "prepare" /\ ~(Columns[stmt.table] \subseteq columns[stmt.table])

\* Mutant: ALTER is not in a try block of its own.
NothingSwallowed(stmt) == FALSE

\* The failure is caught where it happens.
Swallowed(stmt) == stmt.op = "alter"

\* The columns of a table after the statement.
After(stmt) ==
  CASE stmt.op = "create" /\ columns[stmt.table] = {} -> Columns[stmt.table]
    [] stmt.op = "alter" -> columns[stmt.table] \cup {stmt.column}
    [] OTHER -> columns[stmt.table]

\* A statement fails, or not, though the database would allow it.
Fault(faulty) ==
  /\ faulty => faults < MaxFaults
  /\ faults' = IF faulty THEN faults + 1 ELSE faults

Start(s) ==
  /\ phase[s] = "down"
  /\ starts[s] < MaxStarts
  /\ phase' = [phase EXCEPT ![s] = "opening"]
  /\ starts' = [starts EXCEPT ![s] = @ + 1]
  /\ UNCHANGED <<columns, requests, audits, pc, hit, handler, begun, faults>>

Execute(s) ==
  /\ phase[s] = "opening"
  /\ LET stmt == StatementAt(pc[s])
     IN  \E faulty \in BOOLEAN :
           /\ Fault(faulty)
           /\ hit' = [hit EXCEPT ![s] = @ \/ faulty]
           /\ LET failed == faulty \/ Rejected(stmt)
              IN  /\ columns' = IF failed THEN columns
                                ELSE [columns EXCEPT ![stmt.table] = After(stmt)]
                  /\ IF failed /\ ~Swallowed(stmt)
                     THEN /\ phase' = [phase EXCEPT ![s] = "disabled"]
                          /\ UNCHANGED pc
                     ELSE IF pc[s] = LastStatement
                     THEN /\ phase' = [phase EXCEPT ![s] = "enabled"]
                          /\ UNCHANGED pc
                     ELSE /\ pc' = [pc EXCEPT ![s] = @ + 1]
                          /\ UNCHANGED phase
  /\ UNCHANGED <<requests, audits, handler, begun, starts>>

-----------------------------------------------------------------------------
(* The rows.  A handler logs both in one turn, other servers run in between. *)

Serving(s) == phase[s] \in {"enabled", "disabled", "closed"}

\* An insert, which db = null skips, succeeds; or it fails, and the failure is swallowed.
Insert(s, stored) ==
  /\ stored => phase[s] = "enabled"
  /\ Fault(phase[s] = "enabled" /\ ~stored)

\* Mutant: the position of the row, counted from zero.
CountedFromZero == Len(requests)

\* lastInsertRowid
InsertedId == Len(requests) + 1

\* logRequest; audited: logWriteOutcome, whose linkRequest is links.
LogRequest(s) ==
  /\ Serving(s)
  /\ handler[s] = None
  /\ begun < MaxCalls
  /\ LET call == begun + 1
     IN  \E audited, links, stored \in BOOLEAN :
           /\ links => audited
           /\ Insert(s, stored)
           /\ requests' = IF stored THEN Append(requests, call) ELSE requests
           /\ handler' = [handler EXCEPT ![s] =
                IF audited
                THEN [call |-> call, links |-> links,
                      id |-> IF stored THEN InsertedId ELSE None]
                ELSE None]
  /\ begun' = begun + 1
  /\ UNCHANGED <<columns, audits, phase, pc, hit, starts>>

\* Mutant: the id is the last one in the table, not the one of the insert.
LatestId(s) == IF handler[s].links THEN Len(requests) ELSE None

LinkedId(s) == IF handler[s].links THEN handler[s].id ELSE None

AuditRow(s) == [call |-> handler[s].call, links |-> handler[s].links, request |-> LinkedId(s)]

\* Mutant: a failed insert is not caught, and the call never gets its answer.
LogAuditUncaught(s) ==
  /\ Serving(s)
  /\ handler[s] # None
  /\ \E stored \in BOOLEAN :
       /\ Insert(s, stored)
       /\ audits' = IF stored THEN audits \cup {AuditRow(s)} ELSE audits
       /\ handler' = [handler EXCEPT ![s] = IF stored THEN None ELSE @]
  /\ UNCHANGED <<columns, requests, phase, pc, hit, begun, starts>>

\* logWriteAudit, after which the handler answers its call.
LogAudit(s) ==
  /\ Serving(s)
  /\ handler[s] # None
  /\ \E stored \in BOOLEAN :
       /\ Insert(s, stored)
       /\ audits' = IF stored THEN audits \cup {AuditRow(s)} ELSE audits
  /\ handler' = [handler EXCEPT ![s] = None]
  /\ UNCHANGED <<columns, requests, phase, pc, hit, begun, starts>>

\* The shutdown closes the store between two turns.
Close(s) ==
  /\ phase[s] = "enabled"
  /\ handler[s] = None
  /\ phase' = [phase EXCEPT ![s] = "closed"]
  /\ UNCHANGED <<columns, requests, audits, pc, hit, handler, begun, starts, faults>>

\* The process ends, at any point; what it had in memory is gone.
Crash(s) ==
  /\ phase[s] # "down"
  /\ phase' = [phase EXCEPT ![s] = "down"]
  /\ pc' = [pc EXCEPT ![s] = 1]
  /\ hit' = [hit EXCEPT ![s] = FALSE]
  /\ handler' = [handler EXCEPT ![s] = None]
  /\ UNCHANGED <<columns, requests, audits, begun, starts, faults>>

Next ==
  \E s \in Servers :
    Start(s) \/ Execute(s) \/ LogRequest(s) \/ LogAudit(s) \/ Close(s) \/ Crash(s)

\* The constructor and a handler's turn run to their ends without waiting for anything.
Fairness == \A s \in Servers : WF_vars(Execute(s)) /\ WF_vars(LogAudit(s))

Spec == Init /\ [][Next]_vars
FairSpec == Spec /\ Fairness

-----------------------------------------------------------------------------

Rows == {requests[i] : i \in DOMAIN requests}

\* Types; and a row is of a call that was made.
LogTypeOK ==
  /\ columns \in [Tables -> SUBSET STRING]
  /\ requests \in Seq(Calls)
  /\ phase \in [Servers -> Phases]
  /\ pc \in [Servers -> 1..LastStatement]
  /\ hit \in [Servers -> BOOLEAN]
  /\ begun \in 0..MaxCalls
  /\ starts \in [Servers -> 0..MaxStarts]
  /\ faults \in 0..MaxFaults
  /\ \A call \in Rows : call <= begun

\* The audit row of a linked write holds the id of that same call's request row, whatever
\* other servers insert in between, and NULL only if that row was not stored
\* (docs/03-reference/logging-schema.md:37 "FK to requests.id (the confirmed execute
\* request)").
AuditLinksOwnRequest ==
  \A a \in audits :
    /\ a.request # None => a.links /\ a.request \in DOMAIN requests /\ requests[a.request] = a.call
    /\ a.links /\ a.request = None => a.call \notin Rows

\* The log is disabled only after a statement failed that the database allowed: opening
\* succeeds on a new, an old, a half-migrated and a current database, and while another
\* server migrates it (log.ts:93 "Idempotent column migrations").
OpeningEnables == \A s \in Servers : phase[s] = "disabled" => hit[s]

\* A call between its two rows knows the id of the first, or that there is none.
HandlersOK ==
  /\ handler = [s \in Servers |-> handler[s]]
  /\ \A s \in Servers : handler[s] # None =>
       /\ handler[s].call \in 1..begun
       /\ handler[s].links \in BOOLEAN
       /\ handler[s].id # None =>
            handler[s].id \in DOMAIN requests /\ requests[handler[s].id] = handler[s].call
       /\ handler[s].id = None => handler[s].call \notin Rows

\* A table that exists has the columns of the first version, an opening begins with the first
\* statement, and what its statements have done stays done, unless one failed without need.
OpeningsOK ==
  /\ \A t \in Tables : columns[t] = {} \/ Version(0)[t] \subseteq columns[t]
  /\ \A s \in Servers : phase[s] = "down" => pc[s] = 1
  /\ \A s \in Servers : phase[s] = "opening" /\ ~hit[s] =>
       /\ pc[s] > 2 => columns["requests"] # {}
       /\ pc[s] > 3 => columns["write_audit"] # {}
       /\ \A i \in DOMAIN Migrations :
            pc[s] > 3 + i => Migrations[i].column \in columns[Migrations[i].table]

\* The inductive invariant from which the properties above are proved, for any number of
\* servers, columns and migrations.
LogInv ==
  /\ LogTypeOK
  /\ HandlersOK
  /\ \A a \in audits : a.call \in 1..begun
  /\ AuditLinksOwnRequest
  /\ OpeningsOK
  /\ OpeningEnables

\* Whatever fails in the store, a server that opens it comes to serve, and a call that has
\* logged its request gets its answer, unless the process ends (log.ts:112-113 "any log
\* failure is swallowed so it can never block a router command").
LoggingNeverBlocks ==
  \A s \in Servers :
    (phase[s] = "opening" \/ handler[s] # None) ~>
      (phase[s] # "opening" /\ handler[s] = None)
=============================================================================
