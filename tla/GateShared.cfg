\* Two server processes that share the pending file, and a clock that may step
\* back; the gate as an implementation of Approval.
CONSTANTS
  Servers = {s1, s2}
  Ids = {id1}
  Nonces = {n1, n2}
  Commands = {c1}
  Digests <- MCDigests
  Digest <- MCDigest
  Ttl = 1
  MaxPending = 1
  PendingFile = TRUE
  FileMayFail = TRUE
  ClockMayStepBack = TRUE
  MaxClock = 2
  MaxRestarts = 1

SPECIFICATION GateSpec
SYMMETRY Symmetry
INVARIANT GateInv
PROPERTY ImplementsApproval
