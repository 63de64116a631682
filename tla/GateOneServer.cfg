\* One server process, a pending file whose writes may fail, a clock that only
\* advances, one restart.
CONSTANTS
  Servers = {s1}
  Ids = {id1, id2, id3}
  Nonces = {n1, n2, n3}
  Commands = {c1, c2}
  Digests <- MCDigests
  Digest <- MCDigest
  Ttl = 1
  MaxPending = 2
  PendingFile = TRUE
  FileMayFail = TRUE
  ClockMayStepBack = FALSE
  MaxClock = 2
  MaxRestarts = 1

SPECIFICATION GateSpec
SYMMETRY Symmetry
INVARIANTS
  GateTypeOK
  SingleUse
  ReleasedAsSigned
  IdsUnambiguous
  PendingBounded
  ReplayDetected
PROPERTY LiveIntentKept
