\* "Every request is logged locally": a call that is answered without a row.
CONSTANTS
  Servers = {s1}
  Self = s1
  Ids = {id1, id2}
  Nonces = {n1, n2}
  Commands = {c1, c2}
  Digests <- MCDigests
  Digest <- MCDigest
  Ttl = 1
  MaxPending = 1
  PendingFile = FALSE
  FileMayFail = FALSE
  ClockMayStepBack = FALSE
  MaxClock = 2
  MaxRestarts = 0
  Calls = {w1}
  Dual = {c1}
  Snapshotted = {c1}
  SkipCommit = {c2}
  AutoCommit = TRUE
  None = None

SPECIFICATION Spec
INVARIANT EveryCallLogged
