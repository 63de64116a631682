--------------------------- MODULE LogStoreProofs ---------------------------
(***************************************************************************)
(* LogInv is an inductive invariant of LogStore, for any number of         *)
(* servers, columns and migrations.                                        *)
(***************************************************************************)
EXTENDS LogStore, TLAPS

\* A table that has the first version's columns and every migrated one is complete.
LEMMA MigratedIsComplete ==
  ASSUME NEW t \in Tables, Version(0)[t] \subseteq columns[t],
         \A i \in DOMAIN Migrations : Migrations[i].column \in columns[Migrations[i].table]
  PROVE  Columns[t] \subseteq columns[t]
<1>1. SUFFICES ASSUME NEW c \in Columns[t], c \notin Version(0)[t]
               PROVE  c \in columns[t]
  BY DEF Version
<1>2. PICK i \in DOMAIN Migrations : Migrations[i].table = t /\ Migrations[i].column = c
  BY <1>1 DEF Version
<1>3. QED
  BY <1>2

\* Migrations is a sequence of columns of the two tables.
LEMMA MigrationTypes ==
  /\ Len(Migrations) \in Nat
  /\ DOMAIN Migrations = 1..Len(Migrations)
  /\ \A i \in DOMAIN Migrations :
       Migrations[i].table \in Tables /\ Migrations[i].column \in STRING
<1> DEFINE Entry == [table : Tables, column : STRING \ {"id"}]
<1>1. Migrations \in Seq(Entry)
  BY MigrationAssumption
<1>2. \A e \in Entry : e.table \in Tables /\ e.column \in STRING
  OBVIOUS
<1> HIDE DEF Entry
<1>3. /\ Len(Migrations) \in Nat
      /\ DOMAIN Migrations = 1..Len(Migrations)
      /\ \A i \in DOMAIN Migrations : Migrations[i] \in Entry
  BY <1>1
<1>4. QED
  BY <1>2, <1>3

\* Every statement is about one of the two tables.
LEMMA StatementTypes ==
  ASSUME NEW p \in 1..LastStatement
  PROVE  /\ StatementAt(p).table \in Tables
         /\ StatementAt(p).column \in STRING
<1> USE DEF Tables
<1>0. "id" \in STRING
  BY MigrationAssumption
<1>1. CASE 3 < p /\ p < FirstPrepare
  <2>1. p - 3 \in DOMAIN Migrations
    BY <1>1, MigrationTypes DEF FirstPrepare, LastStatement
  <2>2. StatementAt(p) = Statement("alter", Migrations[p - 3].table, Migrations[p - 3].column)
    BY <1>1, MigrationTypes DEF StatementAt, FirstPrepare, LastStatement
  <2>3. QED
    BY <2>1, <2>2, MigrationTypes DEF Statement
<1>2. CASE p \in {1, 2, 3}
  <2>1. \/ StatementAt(p) = Statement("open", "requests", "id")
        \/ StatementAt(p) = Statement("create", "requests", "id")
        \/ StatementAt(p) = Statement("create", "write_audit", "id")
    BY <1>2 DEF StatementAt
  <2>2. QED
    BY <1>0, <2>1 DEF Statement
<1>3. CASE p \notin {1, 2, 3} /\ ~(p < FirstPrepare)
  <2>1. \/ StatementAt(p) = Statement("prepare", "requests", "id")
        \/ StatementAt(p) = Statement("prepare", "write_audit", "id")
    BY <1>3, MigrationTypes DEF StatementAt
  <2>2. QED
    BY <1>0, <2>1 DEF Statement
<1>4. QED
  BY <1>1, <1>2, <1>3, MigrationTypes DEF LastStatement, FirstPrepare

-----------------------------------------------------------------------------

LEMMA InitInv == Init => LogInv
<1> SUFFICES ASSUME Init
             PROVE  LogInv
  OBVIOUS
<1>1. \A k \in 0..Len(Migrations) : \A t \in Tables :
        Version(0)[t] \subseteq Version(k)[t] /\ Version(k)[t] \subseteq Columns[t]
  BY MigrationAssumption DEF Version
<1>2. Len(Migrations) \in Nat
  BY MigrationTypes
<1>3. \A t \in Tables : columns[t] = {} \/ Version(0)[t] \subseteq columns[t]
  BY <1>1 DEF Init
<1>4. columns \in [Tables -> SUBSET STRING]
  <2>1. \A k \in 0..Len(Migrations) : Version(k) \in [Tables -> SUBSET STRING]
    BY MigrationAssumption DEF Version
  <2>2. [t \in Tables |-> {}] \in [Tables -> SUBSET STRING]
    OBVIOUS
  <2>3. QED
    BY <2>1, <2>2 DEF Init
<1>5. LogTypeOK
  BY <1>2, <1>4, BoundAssumption
     DEF Init, LogTypeOK, Phases, LastStatement, Rows, Calls
<1>6. HandlersOK
  BY DEF Init, HandlersOK
<1>7. OpeningsOK /\ OpeningEnables
  BY <1>3 DEF Init, OpeningsOK, OpeningEnables
<1>8. AuditLinksOwnRequest /\ \A a \in audits : a.call \in 1..begun
  BY DEF Init, AuditLinksOwnRequest
<1>9. QED
  BY <1>5, <1>6, <1>7, <1>8 DEF LogInv

\* An opening keeps the columns as its statements promise.
LEMMA ExecuteInv ==
  ASSUME LogInv, NEW s \in Servers, Execute(s)
  PROVE  LogInv'
<1> DEFINE stmt == StatementAt(pc[s])
<1>1. PICK faulty \in BOOLEAN :
        /\ Fault(faulty)
        /\ hit' = [hit EXCEPT ![s] = @ \/ faulty]
        /\ LET failed == faulty \/ Rejected(stmt)
           IN  /\ columns' = IF failed THEN columns
                             ELSE [columns EXCEPT ![stmt.table] = After(stmt)]
               /\ IF failed /\ ~Swallowed(stmt)
                  THEN /\ phase' = [phase EXCEPT ![s] = "disabled"]
                       /\ UNCHANGED pc
                  ELSE IF pc[s] = LastStatement
                  THEN /\ phase' = [phase EXCEPT ![s] = "enabled"]
                       /\ UNCHANGED pc
                  ELSE /\ pc' = [pc EXCEPT ![s] = @ + 1]
                       /\ UNCHANGED phase
  BY DEF Execute
<1> DEFINE failed == faulty \/ Rejected(stmt)
<1>2. /\ UNCHANGED <<requests, audits, handler, begun, starts>>
      /\ phase[s] = "opening"
      /\ pc[s] \in 1..LastStatement
      /\ Len(Migrations) \in Nat /\ DOMAIN Migrations = 1..Len(Migrations)
      /\ stmt.table \in Tables
      /\ stmt.column \in STRING
  BY StatementTypes, MigrationTypes DEF Execute, LogInv, LogTypeOK
<1> HIDE DEF stmt
<1>3. /\ columns' \in [Tables -> SUBSET STRING]
      /\ \A t \in Tables : columns[t] \subseteq columns'[t]
      /\ \A t \in Tables : columns'[t] = {} \/ Version(0)[t] \subseteq columns'[t]
  <2>1. CASE failed
    BY <1>1, <2>1 DEF LogInv, LogTypeOK, OpeningsOK
  <2>2. CASE ~failed
    <3>1. columns' = [columns EXCEPT ![stmt.table] = After(stmt)]
      BY <1>1, <2>2
    <3>2. Version(0)[stmt.table] \subseteq Columns[stmt.table] /\ Columns[stmt.table] \subseteq STRING
      BY <1>2, MigrationAssumption DEF Version
    <3>3. /\ After(stmt) \subseteq STRING
          /\ columns[stmt.table] \subseteq After(stmt)
          /\ After(stmt) = {} \/ Version(0)[stmt.table] \subseteq After(stmt)
      BY <1>2, <2>2, <3>2 DEF After, Rejected, LogInv, LogTypeOK, OpeningsOK
    <3>4. QED
      BY <1>2, <3>1, <3>3 DEF LogInv, LogTypeOK, OpeningsOK
  <2>3. QED
    BY <2>1, <2>2
<1>4. LogTypeOK'
  <2>1. phase' \in [Servers -> Phases] /\ hit' \in [Servers -> BOOLEAN]
    BY <1>1 DEF LogInv, LogTypeOK, Phases
  <2>2. pc' \in [Servers -> 1..LastStatement]
    BY <1>1, <1>2 DEF LogInv, LogTypeOK, LastStatement
  <2>3. faults' \in 0..MaxFaults
    BY <1>1, BoundAssumption DEF LogInv, LogTypeOK, Fault
  <2>4. QED
    BY <1>2, <1>3, <2>1, <2>2, <2>3 DEF LogInv, LogTypeOK, Rows
<1>5. HandlersOK' /\ AuditLinksOwnRequest' /\ (\A a \in audits : a.call \in 1..begun)'
  BY <1>2 DEF LogInv, HandlersOK, AuditLinksOwnRequest, Rows
<1>6. OpeningsOK'
  <2>1. SUFFICES ASSUME NEW o \in Servers, phase'[o] = "opening", ~hit'[o]
                 PROVE  /\ pc'[o] > 2 => columns'["requests"] # {}
                        /\ pc'[o] > 3 => columns'["write_audit"] # {}
                        /\ \A i \in DOMAIN Migrations :
                             pc'[o] > 3 + i =>
                               Migrations[i].column \in columns'[Migrations[i].table]
    <3>1. \A o \in Servers : phase'[o] = "down" => pc'[o] = 1
      BY <1>1, <1>2 DEF LogInv, LogTypeOK, OpeningsOK
    <3>2. QED
      BY <1>3, <3>1 DEF OpeningsOK, Version
  <2>2. \A i \in DOMAIN Migrations : Migrations[i].table \in Tables
    BY MigrationTypes
  <2>3. CASE o # s
    <3>1. phase[o] = "opening" /\ ~hit[o] /\ pc'[o] = pc[o]
      BY <1>1, <2>1, <2>3 DEF LogInv, LogTypeOK
    <3>2. QED
      BY <1>3, <2>2, <3>1 DEF LogInv, OpeningsOK, Tables
  <2>4. CASE o = s
    <3>1. ~hit[s] /\ ~faulty
      BY <1>1, <2>1, <2>4 DEF LogInv, LogTypeOK
    <3>2. pc'[s] = pc[s] + 1 /\ (~failed \/ Swallowed(stmt))
      BY <1>1, <1>2, <2>1, <2>4 DEF LogInv, LogTypeOK
    <3>3. pc[s] = 2 => columns'["requests"] # {}
      <4>1. SUFFICES ASSUME pc[s] = 2
                     PROVE  columns'["requests"] # {}
        OBVIOUS
      <4>2. stmt = Statement("create", "requests", "id")
        BY <4>1 DEF stmt, StatementAt
      <4>3. columns' = [columns EXCEPT !["requests"] = After(stmt)]
        BY <1>1, <3>1, <4>2 DEF Rejected, Statement
      <4>4. QED
        BY <4>2, <4>3, MigrationAssumption
           DEF After, Statement, LogInv, LogTypeOK, Tables
    <3>4. pc[s] = 3 => columns'["write_audit"] # {}
      <4>1. SUFFICES ASSUME pc[s] = 3
                     PROVE  columns'["write_audit"] # {}
        OBVIOUS
      <4>2. stmt = Statement("create", "write_audit", "id")
        BY <4>1 DEF stmt, StatementAt
      <4>3. columns' = [columns EXCEPT !["write_audit"] = After(stmt)]
        BY <1>1, <3>1, <4>2 DEF Rejected, Statement
      <4>4. QED
        BY <4>2, <4>3, MigrationAssumption
           DEF After, Statement, LogInv, LogTypeOK, Tables
    <3>5. \A i \in DOMAIN Migrations :
            pc[s] = 3 + i => Migrations[i].column \in columns'[Migrations[i].table]
      <4>1. SUFFICES ASSUME NEW i \in DOMAIN Migrations, pc[s] = 3 + i
                     PROVE  Migrations[i].column \in columns'[Migrations[i].table]
        OBVIOUS
      <4>2. stmt = Statement("alter", Migrations[i].table, Migrations[i].column)
        BY <1>2, <4>1 DEF stmt, StatementAt, FirstPrepare
      <4>3. columns[Migrations[i].table] # {}
        BY <1>2, <2>1, <2>2, <2>4, <3>1, <4>1 DEF LogInv, OpeningsOK, Tables
      <4>4. CASE Migrations[i].column \in columns[Migrations[i].table]
        BY <1>3, <2>2, <4>4
      <4>5. CASE Migrations[i].column \notin columns[Migrations[i].table]
        <5>1. ~failed
          BY <3>1, <4>2, <4>3, <4>5 DEF Rejected, Statement
        <5>2. columns' = [columns EXCEPT ![Migrations[i].table] = After(stmt)]
          BY <1>1, <4>2, <5>1 DEF Statement
        <5>3. Migrations[i].column \in After(stmt)
          BY <4>2 DEF After, Statement
        <5>4. QED
          BY <2>2, <5>2, <5>3 DEF LogInv, LogTypeOK
      <4>6. QED
        BY <4>4, <4>5
    <3>6. QED
      BY <1>2, <1>3, <2>1, <2>2, <2>4, <3>1, <3>2, <3>3, <3>4, <3>5
         DEF LogInv, OpeningsOK, Tables
  <2>5. QED
    BY <2>3, <2>4
<1>7. OpeningEnables'
  <2>1. SUFFICES ASSUME NEW o \in Servers, phase'[o] = "disabled", ~hit'[o]
                 PROVE  FALSE
    BY DEF OpeningEnables
  <2>2. o = s
    BY <1>1, <2>1 DEF LogInv, LogTypeOK, OpeningEnables
  <2>3. ~hit[s] /\ ~faulty
    BY <1>1, <2>1, <2>2 DEF LogInv, LogTypeOK
  <2>4. Rejected(stmt) /\ ~Swallowed(stmt)
    BY <1>1, <1>2, <2>1, <2>2, <2>3 DEF LogInv, LogTypeOK
  <2>5. stmt.op = "prepare" /\ ~(Columns[stmt.table] \subseteq columns[stmt.table])
    BY <2>4 DEF Rejected, Swallowed
  <2>6. pc[s] >= FirstPrepare
    BY <1>2, <2>5 DEF stmt, StatementAt, Statement, FirstPrepare
  <2>7. \A t \in Tables : columns[t] # {}
    BY <1>2, <2>3, <2>6 DEF LogInv, OpeningsOK, Tables, FirstPrepare
  <2>8. \A t \in Tables : Version(0)[t] \subseteq columns[t]
    BY <2>7 DEF LogInv, OpeningsOK
  <2>9. \A i \in DOMAIN Migrations : Migrations[i].column \in columns[Migrations[i].table]
    BY <1>2, <2>3, <2>6 DEF LogInv, OpeningsOK, FirstPrepare
  <2>10. QED
    BY <1>2, <2>5, <2>8, <2>9, MigratedIsComplete
<1>8. QED
  BY <1>4, <1>5, <1>6, <1>7 DEF LogInv

-----------------------------------------------------------------------------

LEMMA LogRequestInv ==
  ASSUME LogInv, NEW s \in Servers, LogRequest(s)
  PROVE  LogInv'
<1> DEFINE call == begun + 1
<1>1. PICK audited \in BOOLEAN, links \in BOOLEAN, stored \in BOOLEAN :
        /\ Insert(s, stored)
        /\ requests' = IF stored THEN Append(requests, call) ELSE requests
        /\ handler' = [handler EXCEPT ![s] =
             IF audited
             THEN [call |-> call, links |-> links,
                   id |-> IF stored THEN InsertedId ELSE None]
             ELSE None]
  BY DEF LogRequest
<1>2. /\ UNCHANGED <<columns, audits, phase, pc, hit, starts>>
      /\ begun' = begun + 1 /\ begun < MaxCalls /\ begun \in 0..MaxCalls
      /\ call \in Calls
      /\ requests \in Seq(Calls)
  BY BoundAssumption DEF LogRequest, LogInv, LogTypeOK, Calls
<1>3. /\ requests' \in Seq(Calls)
      /\ DOMAIN requests \subseteq DOMAIN requests'
      /\ \A i \in DOMAIN requests : requests'[i] = requests[i]
      /\ Rows \subseteq Rows' /\ Rows' \subseteq Rows \cup {call}
      /\ ~stored => Rows' = Rows
      /\ stored => InsertedId \in DOMAIN requests' /\ requests'[InsertedId] = call
  <2>1. CASE stored
    <3>1. requests' = Append(requests, call)
      BY <1>1, <2>1
    <3>2. /\ DOMAIN requests = 1..Len(requests)
          /\ Len(requests) \in Nat
          /\ DOMAIN requests' = 1..(Len(requests) + 1)
          /\ \A i \in DOMAIN requests : requests'[i] = requests[i]
          /\ requests'[Len(requests) + 1] = call
      BY <1>2, <3>1
    <3>3. QED
      BY <1>2, <2>1, <3>1, <3>2 DEF Rows, InsertedId
  <2>2. CASE ~stored
    BY <1>1, <1>2, <2>2 DEF Rows
  <2>3. QED
    BY <2>1, <2>2
<1> HIDE DEF call
<1>4. call = begun + 1
  BY DEF call
<1>5. \A r \in Rows : r \in Calls /\ r <= begun
  BY <1>2 DEF LogInv, LogTypeOK, Rows
<1>6. LogTypeOK'
  <2>1. faults' \in 0..MaxFaults
    BY <1>1, BoundAssumption DEF LogInv, LogTypeOK, Insert, Fault
  <2>2. \A r \in Rows' : r <= begun'
    BY <1>2, <1>3, <1>4, <1>5, BoundAssumption DEF Calls
  <2>3. QED
    BY <1>2, <1>3, <2>1, <2>2, BoundAssumption DEF LogInv, LogTypeOK
<1>7. HandlersOK'
  <2>1. handler' = [h \in Servers |-> handler'[h]]
    BY <1>1 DEF LogInv, HandlersOK
  <2>2. SUFFICES ASSUME NEW h \in Servers, handler'[h] # None
                 PROVE  /\ handler'[h].call \in 1..begun'
                        /\ handler'[h].links \in BOOLEAN
                        /\ handler'[h].id # None =>
                             /\ handler'[h].id \in DOMAIN requests'
                             /\ requests'[handler'[h].id] = handler'[h].call
                        /\ handler'[h].id = None => handler'[h].call \notin Rows'
    BY <2>1 DEF HandlersOK
  <2>3. CASE h # s
    <3>1. handler'[h] = handler[h]
      BY <1>1, <2>3 DEF LogInv, HandlersOK
    <3>2. handler[h].call \in 1..begun /\ handler[h].call # call
      BY <1>2, <1>4, <2>2, <3>1, BoundAssumption DEF LogInv, HandlersOK
    <3>3. QED
      BY <1>2, <1>3, <2>2, <3>1, <3>2, BoundAssumption DEF LogInv, HandlersOK
  <2>4. CASE h = s
    <3>1. handler'[s] = [call |-> call, links |-> links,
                         id |-> IF stored THEN InsertedId ELSE None]
      BY <1>1, <2>2, <2>4 DEF LogInv, HandlersOK
    <3>2. call \in 1..begun' /\ call \notin Rows
      BY <1>2, <1>4, <1>5, BoundAssumption DEF Calls
    <3>3. InsertedId # None
      BY <1>2, NoneAssumption DEF InsertedId
    <3>4. QED
      BY <1>3, <2>4, <3>1, <3>2, <3>3
  <2>5. QED
    BY <2>3, <2>4
<1>8. AuditLinksOwnRequest' /\ (\A a \in audits : a.call \in 1..begun)'
  <2>1. SUFFICES ASSUME NEW a \in audits
                 PROVE  /\ a.call \in 1..begun'
                        /\ a.request # None =>
                             /\ a.links /\ a.request \in DOMAIN requests'
                             /\ requests'[a.request] = a.call
                        /\ a.links /\ a.request = None => a.call \notin Rows'
    BY <1>2 DEF AuditLinksOwnRequest
  <2>2. a.call \in 1..begun /\ a.call # call
    BY <1>2, <1>4, BoundAssumption DEF LogInv
  <2>3. QED
    BY <1>2, <1>3, <2>2, BoundAssumption DEF LogInv, AuditLinksOwnRequest
<1>9. OpeningsOK' /\ OpeningEnables'
  BY <1>2 DEF LogInv, OpeningsOK, OpeningEnables, Version
<1>10. QED
  BY <1>2, <1>6, <1>7, <1>8, <1>9 DEF LogInv

LEMMA LogAuditInv ==
  ASSUME LogInv, NEW s \in Servers, LogAudit(s)
  PROVE  LogInv'
<1>1. PICK stored \in BOOLEAN :
        /\ Insert(s, stored)
        /\ audits' = IF stored THEN audits \cup {AuditRow(s)} ELSE audits
  BY DEF LogAudit
<1>2. /\ UNCHANGED <<columns, requests, phase, pc, hit, begun, starts>>
      /\ handler[s] # None
      /\ handler' = [handler EXCEPT ![s] = None]
  BY DEF LogAudit
<1>3. LogTypeOK'
  <2>1. faults' \in 0..MaxFaults
    BY <1>1, BoundAssumption DEF LogInv, LogTypeOK, Insert, Fault
  <2>2. QED
    BY <1>2, <2>1 DEF LogInv, LogTypeOK, Rows
<1>4. HandlersOK'
  BY <1>2 DEF LogInv, HandlersOK, Rows
<1>5. AuditLinksOwnRequest' /\ (\A a \in audits : a.call \in 1..begun)'
  <2>1. SUFFICES ASSUME NEW a \in audits'
                 PROVE  /\ a.call \in 1..begun
                        /\ a.request # None =>
                             /\ a.links /\ a.request \in DOMAIN requests
                             /\ requests[a.request] = a.call
                        /\ a.links /\ a.request = None => a.call \notin Rows
    BY <1>2 DEF AuditLinksOwnRequest, Rows
  <2>2. CASE a \in audits
    BY <2>2 DEF LogInv, AuditLinksOwnRequest
  <2>3. CASE a = AuditRow(s)
    BY <1>2, <2>3 DEF LogInv, HandlersOK, AuditRow, LinkedId
  <2>4. QED
    BY <1>1, <2>1, <2>2, <2>3
<1>6. OpeningsOK' /\ OpeningEnables'
  BY <1>2 DEF LogInv, OpeningsOK, OpeningEnables, Version
<1>7. QED
  BY <1>3, <1>4, <1>5, <1>6 DEF LogInv

\* Starting, closing and crashing touch neither the database nor the rows.
LEMMA LifeInv ==
  ASSUME LogInv, NEW s \in Servers, Start(s) \/ Close(s) \/ Crash(s)
  PROVE  LogInv'
<1>1. UNCHANGED <<columns, requests, audits, begun, faults>>
  BY DEF Start, Close, Crash
<1>2. LogTypeOK'
  <2>1. phase' \in [Servers -> Phases]
    <3>1. \/ phase' = [phase EXCEPT ![s] = "opening"]
          \/ phase' = [phase EXCEPT ![s] = "closed"]
          \/ phase' = [phase EXCEPT ![s] = "down"]
      BY DEF Start, Close, Crash
    <3>2. QED
      BY <3>1 DEF LogInv, LogTypeOK, Phases
  <2>2. pc' \in [Servers -> 1..LastStatement] /\ hit' \in [Servers -> BOOLEAN]
    <3>1. 1 \in 1..LastStatement
      BY MigrationTypes DEF LastStatement
    <3>2. /\ pc' \in {pc, [pc EXCEPT ![s] = 1]}
          /\ hit' \in {hit, [hit EXCEPT ![s] = FALSE]}
      BY DEF Start, Close, Crash
    <3>3. QED
      BY <3>1, <3>2 DEF LogInv, LogTypeOK
  <2>3. starts' \in [Servers -> 0..MaxStarts]
    <3>1. \/ starts' = starts
          \/ starts[s] < MaxStarts /\ starts' = [starts EXCEPT ![s] = @ + 1]
      BY DEF Start, Close, Crash
    <3>2. starts \in [Servers -> 0..MaxStarts] /\ starts[s] \in 0..MaxStarts
      BY DEF LogInv, LogTypeOK
    <3>3. starts[s] < MaxStarts => starts[s] + 1 \in 0..MaxStarts
      BY <3>2, BoundAssumption
    <3>4. QED
      BY <3>1, <3>2, <3>3
  <2>4. QED
    BY <1>1, <2>1, <2>2, <2>3 DEF LogInv, LogTypeOK, Rows
<1>3. HandlersOK'
  BY <1>1 DEF LogInv, HandlersOK, Start, Close, Crash, Rows
<1>4. AuditLinksOwnRequest' /\ (\A a \in audits : a.call \in 1..begun)'
  BY <1>1 DEF LogInv, AuditLinksOwnRequest, Rows
<1>5. OpeningsOK' /\ OpeningEnables'
  <2>1. (\A t \in Tables : columns[t] = {} \/ Version(0)[t] \subseteq columns[t])'
    BY <1>1 DEF LogInv, OpeningsOK, Version
  <2>2. ASSUME NEW o \in Servers, phase'[o] = "opening", ~hit'[o]
        PROVE  /\ pc'[o] > 2 => columns'["requests"] # {}
               /\ pc'[o] > 3 => columns'["write_audit"] # {}
               /\ \A i \in DOMAIN Migrations :
                    pc'[o] > 3 + i => Migrations[i].column \in columns'[Migrations[i].table]
    <3>1. CASE phase[o] = "opening"
      BY <1>1, <2>2, <3>1 DEF LogInv, LogTypeOK, OpeningsOK, Start, Close, Crash
    <3>2. CASE phase[o] # "opening"
      <4>1. o = s /\ pc'[o] = 1
        BY <2>2, <3>2 DEF LogInv, LogTypeOK, OpeningsOK, Start, Close, Crash
      <4>2. QED
        BY <4>1, MigrationTypes
    <3>3. QED
      BY <3>1, <3>2
  <2>3. OpeningEnables'
    BY DEF LogInv, LogTypeOK, OpeningEnables, Start, Close, Crash
  <2>4. (\A o \in Servers : phase[o] = "down" => pc[o] = 1)'
    BY DEF LogInv, LogTypeOK, OpeningsOK, Start, Close, Crash
  <2>5. QED
    BY <2>1, <2>2, <2>3, <2>4 DEF OpeningsOK
<1>6. QED
  BY <1>2, <1>3, <1>4, <1>5 DEF LogInv

-----------------------------------------------------------------------------

\* The invariant is inductive.
THEOREM LogInvariant == Spec => []LogInv
<1>1. LogInv /\ [Next]_vars => LogInv'
  <2> SUFFICES ASSUME LogInv, [Next]_vars
               PROVE  LogInv'
    OBVIOUS
  <2>1. CASE UNCHANGED vars
    <3>1. LogTypeOK' /\ OpeningsOK' /\ OpeningEnables'
      BY <2>1 DEF vars, LogInv, LogTypeOK, OpeningsOK, OpeningEnables, Rows, Version
    <3>2. HandlersOK' /\ AuditLinksOwnRequest' /\ (\A a \in audits : a.call \in 1..begun)'
      BY <2>1 DEF vars, LogInv, HandlersOK, AuditLinksOwnRequest, Rows
    <3>3. QED
      BY <3>1, <3>2 DEF LogInv
  <2>2. CASE Next
    BY <2>2, ExecuteInv, LogRequestInv, LogAuditInv, LifeInv DEF Next
  <2>3. QED
    BY <2>1, <2>2
<1>2. QED
  BY InitInv, <1>1, PTL DEF Spec

\* The audit row of a linked write names its own call's request row, however many servers
\* insert, fail and crash in between.
THEOREM AuditsLinked == Spec => []AuditLinksOwnRequest
<1>1. LogInv => AuditLinksOwnRequest
  BY DEF LogInv
<1>2. QED
  BY LogInvariant, <1>1, PTL

\* Whatever version of the database it meets, and whoever migrates it meanwhile, the log is
\* disabled only by a statement that failed for another reason.
THEOREM UpgradeSafe == Spec => []OpeningEnables
<1>1. LogInv => OpeningEnables
  BY DEF LogInv
<1>2. QED
  BY LogInvariant, <1>1, PTL
=============================================================================
