\* Three reads and three writes over up to three sessions, failures of every kind
\* and a disconnect: authorization, abandoned sessions, recovery, timing, one command at
\* a time.  A client with no calls left may stop.
CONSTANTS
  Reads = {r1, r2, rx}
  Writes = {w1, w2, wx}
  ShowStatus = ShowStatus
  SetName = SetName
  Halt = Halt
  Unlisted = Unlisted
  BadRead = rx
  BadWrite = wx
  Commands <- MCCommands
  Command <- MCCommand
  Registered <- MCRegistered
  Forbidden <- MCForbidden
  ReadOnly = FALSE
  MaxSessions = 3
  MaxGrants = 2
  None = None

SPECIFICATION Spec
CHECK_DEADLOCK FALSE
SYMMETRY Symmetry
INVARIANTS
  SessionTypeOK
  WriteOncePerAuthorization
  AbandonedClosed
  DeadNotUsed
  CommandsSerialized
PROPERTY NothingTakenAfterDisconnect
