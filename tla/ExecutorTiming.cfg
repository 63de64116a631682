\* send_at is "when the CLI command was written to the shell": a row of a write that
\* was never sent carries the timing of its snapshot read.
CONSTANTS
  Servers = {s1}
  Self = s1
  Ids = {id1, id2}
  Nonces = {n1, n2}
  Commands = {c1, c2}
  Digests <- MCDigests
  Digest <- MCDigest
  Ttl = 1
  MaxPending = 1
  PendingFile = FALSE
  FileMayFail = FALSE
  ClockMayStepBack = FALSE
  MaxClock = 2
  MaxRestarts = 0
  Calls = {w1}
  Dual = {c1}
  Snapshotted = {c1}
  SkipCommit = {c2}
  AutoCommit = TRUE
  None = None

SPECIFICATION Spec
INVARIANT LoggedTimingIsOwn
