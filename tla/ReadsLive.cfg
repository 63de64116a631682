\* Four reads, one of them refused, over up to three sessions, and two termination
\* signals.  The process may end.
CONSTANTS
  Reads = {r1, r2, r3, rx}
  Writes = {}
  ShowStatus = ShowStatus
  SetName = SetName
  Halt = Halt
  Unlisted = Unlisted
  BadRead = rx
  BadWrite = wx
  Commands <- MCCommands
  Command <- MCCommand
  Registered <- MCRegistered
  Forbidden <- MCForbidden
  ReadOnly = FALSE
  MaxSessions = 3
  MaxGrants = 0
  MaxSignals = 2
  None = None

SPECIFICATION ServerFairSpec
CHECK_DEADLOCK FALSE
INVARIANTS
  AnswerIsLogged
  RowTimingIsOwn
PROPERTY
  EveryReadAnswered
