\* Two servers on one file, two calls and two starts each, two failing statements.
\* The system stops when the calls and the starts are used up.
CONSTANTS
  Servers = {s1, s2}
  Columns <- MCColumns
  Migrations <- MCMigrations
  None = None
  MaxCalls = 2
  MaxStarts = 2
  MaxFaults = 2

SPECIFICATION FairSpec
CHECK_DEADLOCK FALSE
INVARIANTS
  LogInv
  AuditLinksOwnRequest
  OpeningEnables
PROPERTY
  LoggingNeverBlocks
