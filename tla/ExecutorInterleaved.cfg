\* Two slots and two approvals: the interleavings of two confirmed writes with reads,
\* cancellations, a crash and each other.  The clock stands still: nothing expires.
CONSTANTS
  Servers = {s1}
  Self = s1
  Ids = {id1, id2}
  Nonces = {n1, n2}
  Commands = {c1}
  Digests <- MCDigests
  Digest <- MCDigest
  Ttl = 1
  MaxPending = 2
  PendingFile = FALSE
  FileMayFail = FALSE
  ClockMayStepBack = FALSE
  MaxClock = 0
  MaxRestarts = 1
  Calls = {w1, w2}
  Dual = {}
  Snapshotted = {c1}
  SkipCommit = {}
  AutoCommit = TRUE
  None = None

SPECIFICATION Spec
SYMMETRY Symmetry
INVARIANTS
  ExecTypeOK
  AppliedAsReleased
  SnapshotsBracketWrite
  AnswerTruthful
  ReleasedIsAudited
  ExecutedTimingIsOwn
