\* Every path of a call: a dual command with snapshots and commit and a plain one
\* without, expiry, replay, mismatch, a bad signature, cancellation; and the pending file they leave.
CONSTANTS
  Servers = {s1}
  Self = s1
  Ids = {id1, id2}
  Nonces = {n1, n2}
  Commands = {c1, c2}
  Digests <- MCDigests
  Digest <- MCDigest
  Ttl = 1
  MaxPending = 1
  PendingFile = TRUE
  FileMayFail = FALSE
  ClockMayStepBack = FALSE
  MaxClock = 2
  MaxRestarts = 0
  Calls = {w1}
  Dual = {c1}
  Snapshotted = {c1}
  SkipCommit = {c2}
  AutoCommit = TRUE
  None = None

SPECIFICATION Spec
SYMMETRY Symmetry
INVARIANTS
  AnswerTruthful
  PendingListed
