\* Liveness: two slots, calls that throw or are denied in front of others.
CONSTANTS
  Servers = {s1}
  Self = s1
  Ids = {id1}
  Nonces = {n1}
  Commands = {c1}
  Digests <- MCDigests
  Digest <- MCDigest
  Ttl = 1
  MaxPending = 1
  PendingFile = FALSE
  FileMayFail = FALSE
  ClockMayStepBack = FALSE
  MaxClock = 2
  MaxRestarts = 1
  Calls = {w1, w2}
  Dual = {}
  Snapshotted = {c1}
  SkipCommit = {}
  AutoCommit = TRUE
  None = None

SPECIFICATION FairSpec
PROPERTY EveryCallAnswered
