----------------------------- MODULE MCLogStore -----------------------------
(* Two of the six migrations: a column of an audit row and one of a request. *)
EXTENDS LogStore

MCColumns ==
  [t \in Tables |-> IF t = "requests" THEN {"id", "send_at"}
                                      ELSE {"id", "commit_status"}]

MCMigrations ==
  <<[table |-> "write_audit", column |-> "commit_status"],
    [table |-> "requests", column |-> "send_at"]>>
=============================================================================
