---------------------------- MODULE ConfirmGate ----------------------------
(***************************************************************************)
(* The signature gate in front of every router write                       *)
(* (src/src/tools/confirm-gate.ts) with the command line tool the human    *)
(* signs with (src/tools/approve.mjs).                                     *)
(*                                                                         *)
(* A preview puts an intent in a map of the server process and writes the  *)
(* map to a file; approve.mjs reads the file and prints a signature over   *)
(* the intent; a second call brings confirmation id, command and signature *)
(* back and consumes the intent.  Consumed ids stay in a second map until  *)
(* they expire, so that a replay is told apart from an unknown id.         *)
(*                                                                         *)
(* Several server processes may share the pending file: it lies beside the *)
(* log database by default and every MCP host starts a server of its own.  *)
(* The maps die with the process; the file and the signatures survive.     *)
(*                                                                         *)
(* Abstractions.  A JavaScript call runs to completion, so each operation  *)
(* is one step and reads one clock.  Random ids and nonces are arbitrary   *)
(* members of Ids and of the unused Nonces.  The tool id and the preview   *)
(* text of an intent are left out: nothing compares them.  The "used" flag *)
(* of an intent is left out too: only an intent that has just left the map *)
(* carries it.  The public key is always configured: loadConfig refuses a  *)
(* write-enabled server without one.                                       *)
(***************************************************************************)
EXTENDS Naturals, Sequences, FiniteSets

CONSTANTS
  Servers,             \* server processes that share the pending file
  Ids,                 \* confirmation ids (8 random bytes)
  Nonces,              \* nonces (16 random bytes, never repeated)
  Commands,            \* rendered CLI commands
  Digests,             \* SHA-256 digests
  Digest,              \* digestCommand: the digest of each command
  Ttl,                 \* ttlMs, in ticks
  MaxPending,          \* pending intents a process keeps at most
  PendingFile,         \* is a pending file configured?
  FileMayFail,         \* may a write of the pending file fail?
  ClockMayStepBack,    \* may Date.now() go back?
  MaxClock,            \* bound on the clock
  MaxRestarts          \* bound on the restarts of a process

ASSUME DigestAssumption ==
  /\ Digest \in [Commands -> Digests]
  /\ \A c, d \in Commands : Digest[c] = Digest[d] => c = d

ASSUME NumbersAssumption ==
  /\ Ttl \in Nat
  /\ MaxPending \in Nat
  /\ MaxClock \in Nat
  /\ MaxRestarts \in Nat

ASSUME FlagsAssumption == {PendingFile, FileMayFail, ClockMayStepBack} \subseteq BOOLEAN

VARIABLES
  clock,      \* Date.now()
  life,       \* life[s]: how often process s was restarted
  intents,    \* intents[s]: pending intents of process s, at most one per id
  used,       \* used[s]: consumed confirmation ids of s, each with its expiry
  file,       \* the intents the pending file lists
  offered,    \* every intent ever returned by a preview
  signed,     \* the intents the human has signed
  consumed    \* the successful consumptions so far, in order

gateVars == <<clock, life, intents, used, file, offered, signed, consumed>>

(***************************************************************************)
(* An intent has exactly the fields of the payload the human signs         *)
(* (buildSignPayload), so a signature is modelled by the intent it is over.*)
(***************************************************************************)
Intent == [id : Ids, nonce : Nonces, digest : Digests, expiresAt : Nat]
UsedEntry == [id : Ids, expiry : Nat]
Consumption ==
  [server : Servers, life : Nat, intent : Intent, command : Commands, at : Nat]

GateTypeOK ==
  /\ clock \in Nat
  /\ life \in [Servers -> Nat]
  /\ intents \in [Servers -> SUBSET Intent]
  /\ used \in [Servers -> SUBSET UsedEntry]
  /\ file \subseteq Intent
  /\ offered \subseteq Intent
  /\ signed \subseteq Intent
  /\ consumed \in Seq(Consumption)

GateInit ==
  /\ clock = 0
  /\ life = [s \in Servers |-> 0]
  /\ intents = [s \in Servers |-> {}]
  /\ used = [s \in Servers |-> {}]
  /\ file = {}
  /\ offered = {}
  /\ signed = {}
  /\ consumed = <<>>

-----------------------------------------------------------------------------
(* Map helpers.  Expiry is strict: a deadline equal to the clock still holds. *)
(* A definition that stands right before the one it could be mistaken for and *)
(* is not used otherwise is a mutant, which some property must tell apart.    *)

Live(ints) == {i \in ints : clock <= i.expiresAt}
LiveUsedStrictly(entries) == {u \in entries : clock < u.expiry}
LiveUsed(entries) == {u \in entries : clock <= u.expiry}
WithId(recs, cid) == {r \in recs : r.id = cid}
Put(recs, r) == (recs \ WithId(recs, r.id)) \cup {r}

\* The contents a write of ints may leave in the file; those of old stay if it fails.
SavedNothing(ints, old) == old
Saved(ints, old) == {ints} \cup (IF FileMayFail THEN old ELSE {})

(***************************************************************************)
(* persist(): the maps become ints and entries.  With a pending file they  *)
(* are pruned on the way (pendingViews) and the file is replaced.  Every   *)
(* error is swallowed: the directory may be missing, in which case nothing *)
(* is pruned, or the write may fail after the pruning; the file then keeps *)
(* one of the contents in old.                                             *)
(***************************************************************************)
Persist(s, ints, entries, old) ==
  \/ /\ ~PendingFile \/ FileMayFail
     /\ intents' = [intents EXCEPT ![s] = ints]
     /\ used' = [used EXCEPT ![s] = entries]
     /\ file' \in old
  \/ /\ PendingFile
     /\ intents' = [intents EXCEPT ![s] = Live(ints)]
     /\ used' = [used EXCEPT ![s] = LiveUsed(entries)]
     /\ file' \in Saved(Live(ints), old)

\* prune(): persists only when an intent was dropped.
Expired(s) == intents[s] \ Live(intents[s])

Prune(s) ==
  IF Expired(s) # {}
  THEN Persist(s, Live(intents[s]), LiveUsed(used[s]), {file})
  ELSE /\ used' = [used EXCEPT ![s] = LiveUsed(@)]
       /\ UNCHANGED <<intents, file>>

-----------------------------------------------------------------------------
(* The server process *)

\* The intent create() makes now.
NewUndigested(cid, n, cmd) ==
  [id |-> cid, nonce |-> n, digest |-> cmd, expiresAt |-> clock + Ttl]
NewIntent(cid, n, cmd) ==
  [id |-> cid, nonce |-> n, digest |-> Digest[cmd], expiresAt |-> clock + Ttl]

RoomForOneMore(s) == Cardinality(Live(intents[s])) <= MaxPending
Room(s) == Cardinality(Live(intents[s])) < MaxPending

\* The id create() draws is known to neither map.
FreshAmongPending(s, cid) == WithId(Live(intents[s]), cid) = {}
FreshId(s, cid) ==
  /\ WithId(Live(intents[s]), cid) = {}
  /\ WithId(LiveUsed(used[s]), cid) = {}

\* create() on a full map: it prunes, then throws.
CreateRefused(s) ==
  /\ ~Room(s)
  /\ Prune(s)
  /\ UNCHANGED <<clock, life, offered, signed, consumed>>

\* create(): prunes, draws an id and a nonce, and persists.
Create(s, cmd, cid, n) ==
  /\ Room(s)
  /\ FreshId(s, cid)
  /\ n \notin {i.nonce : i \in offered}
  /\ LET new == NewIntent(cid, n, cmd)
         \* the prune before may have saved, even if the save after fails
         old == {file} \cup IF PendingFile /\ Expired(s) # {} THEN {Live(intents[s])} ELSE {}
     IN  /\ Persist(s, Put(Live(intents[s]), new), LiveUsed(used[s]), old)
         /\ offered' = offered \cup {new}
  /\ UNCHANGED <<clock, life, signed, consumed>>

(***************************************************************************)
(* consumeSigned(cid, cmd, sig), by its early returns.  Replayed is the    *)
(* answer token_used; otherwise an expired entry of used is dropped first. *)
(***************************************************************************)
Replayed(s, cid) == WithId(LiveUsed(used[s]), cid) # {}
UsedWithout(s, cid) == used[s] \ WithId(used[s], cid)
VerifiedCommand(i, sig) == sig \in signed /\ sig.id = i.id /\ sig.digest = i.digest
Verified(i, sig) == sig = i /\ sig \in signed

\* token_used
ConsumeReplayed(s, cid) ==
  /\ Replayed(s, cid)
  /\ UNCHANGED gateVars

\* invalid_token
ConsumeUnknown(s, cid) ==
  /\ ~Replayed(s, cid)
  /\ WithId(intents[s], cid) = {}
  /\ used' = [used EXCEPT ![s] = UsedWithout(s, cid)]
  /\ UNCHANGED <<clock, life, intents, file, offered, signed, consumed>>

\* token_expired: the intent is dropped
ConsumeExpired(s, cid) ==
  /\ ~Replayed(s, cid)
  /\ \E i \in WithId(intents[s], cid) :
       /\ clock > i.expiresAt
       /\ Persist(s, intents[s] \ {i}, UsedWithout(s, cid), {file})
  /\ UNCHANGED <<clock, life, offered, signed, consumed>>

\* mismatch: the intent is kept
ConsumeMismatch(s, cid, cmd) ==
  /\ ~Replayed(s, cid)
  /\ \E i \in WithId(intents[s], cid) : clock <= i.expiresAt /\ Digest[cmd] # i.digest
  /\ used' = [used EXCEPT ![s] = UsedWithout(s, cid)]
  /\ UNCHANGED <<clock, life, intents, file, offered, signed, consumed>>

\* bad_signature: the intent is kept
ConsumeBadSignatureDrops(s, cid, cmd, sig) ==
  /\ ~Replayed(s, cid)
  /\ \E i \in WithId(intents[s], cid) :
       /\ clock <= i.expiresAt /\ Digest[cmd] = i.digest /\ ~Verified(i, sig)
       /\ Persist(s, intents[s] \ {i}, UsedWithout(s, cid), {file})
  /\ UNCHANGED <<clock, life, offered, signed, consumed>>
ConsumeBadSignature(s, cid, cmd, sig) ==
  /\ ~Replayed(s, cid)
  /\ \E i \in WithId(intents[s], cid) :
       clock <= i.expiresAt /\ Digest[cmd] = i.digest /\ ~Verified(i, sig)
  /\ used' = [used EXCEPT ![s] = UsedWithout(s, cid)]
  /\ UNCHANGED <<clock, life, intents, file, offered, signed, consumed>>

\* The intent leaves the map and its id is remembered for another ttl.
Remembered(s, i) == Put(used[s], [id |-> i.id, expiry |-> clock + Ttl])
SpendKeepingIntent(s, i) == Persist(s, intents[s], Remembered(s, i), {file})
Spend(s, i) == Persist(s, intents[s] \ {i}, Remembered(s, i), {file})

\* the approval is good
Consume(s, cid, cmd, sig) ==
  /\ ~Replayed(s, cid)
  /\ \E i \in WithId(intents[s], cid) :
       /\ clock <= i.expiresAt
       /\ Digest[cmd] = i.digest
       /\ Verified(i, sig)
       /\ Spend(s, i)
       /\ consumed' = Append(consumed,
            [server |-> s, life |-> life[s], intent |-> i, command |-> cmd, at |-> clock])
  /\ UNCHANGED <<clock, life, offered, signed>>

\* The process dies and a new one starts with empty maps (buildServer).
RestartFromFile(s) ==
  /\ life[s] < MaxRestarts
  /\ life' = [life EXCEPT ![s] = @ + 1]
  /\ intents' = [intents EXCEPT ![s] = file]
  /\ used' = [used EXCEPT ![s] = {}]
  /\ UNCHANGED <<clock, file, offered, signed, consumed>>
Restart(s) ==
  /\ life[s] < MaxRestarts
  /\ life' = [life EXCEPT ![s] = @ + 1]
  /\ intents' = [intents EXCEPT ![s] = {}]
  /\ used' = [used EXCEPT ![s] = {}]
  /\ UNCHANGED <<clock, file, offered, signed, consumed>>

-----------------------------------------------------------------------------
(* The human and the clock *)

\* node tools/approve.mjs <id>: sign what the pending file lists under the id.
ApproveListed(cid) ==
  /\ \E i \in WithId(file, cid) : signed' = signed \cup {i}
  /\ UNCHANGED <<clock, life, intents, used, file, offered, consumed>>

\* node tools/approve.mjs --payload ... --blind: sign a payload a preview returned.
ApproveBlind(i) ==
  /\ signed' = signed \cup {i}
  /\ UNCHANGED <<clock, life, intents, used, file, offered, consumed>>

Tick ==
  /\ \/ clock < MaxClock /\ clock' = clock + 1
     \/ ClockMayStepBack /\ clock > 0 /\ clock' = clock - 1
  /\ UNCHANGED <<life, intents, used, file, offered, signed, consumed>>

-----------------------------------------------------------------------------

ConsumeSigned(s, cid, cmd, sig) ==
  \/ ConsumeReplayed(s, cid)
  \/ ConsumeUnknown(s, cid)
  \/ ConsumeExpired(s, cid)
  \/ ConsumeMismatch(s, cid, cmd)
  \/ ConsumeBadSignature(s, cid, cmd, sig)
  \/ Consume(s, cid, cmd, sig)

ServerStep(s) ==
  \/ CreateRefused(s)
  \/ \E cmd \in Commands, cid \in Ids, n \in Nonces : Create(s, cmd, cid, n)
  \/ \E cmd \in Commands, cid \in Ids, sig \in offered : ConsumeSigned(s, cid, cmd, sig)
  \/ Restart(s)

HumanStep ==
  \/ \E cid \in Ids : ApproveListed(cid)
  \/ \E i \in offered : ApproveBlind(i)

GateNext ==
  \/ \E s \in Servers : ServerStep(s)
  \/ HumanStep
  \/ Tick

GateSpec == GateInit /\ [][GateNext]_gateVars

-----------------------------------------------------------------------------
(* Safety *)

\* No approval releases two writes: not by a replay, not after its id was
\* handed out again, not after a restart, and whatever the clock does.
SingleUse ==
  \A j, k \in DOMAIN consumed :
    consumed[j].intent.nonce = consumed[k].intent.nonce => j = k

\* Whatever was released is the command the human signed: the signed intent was
\* offered by a preview of that very command and had not expired.
ReleasedAsSigned ==
  \A k \in DOMAIN consumed :
    /\ consumed[k].intent \in signed \cap offered
    /\ consumed[k].intent.digest = Digest[consumed[k].command]
    /\ consumed[k].at <= consumed[k].intent.expiresAt

\* A confirmation id means one thing at a time: two pending intents of a process
\* have different ids, and none has the id of an approval remembered as used.
IdsUnambiguous ==
  \A s \in Servers :
    /\ \A i, j \in intents[s] : i.id = j.id => i = j
    /\ \A i \in intents[s] : WithId(used[s], i.id) = {}

\* The pending map never holds more than maxPending intents, expired ones included.
PendingBounded == \A s \in Servers : Cardinality(intents[s]) <= MaxPending

\* "Consumed confirmation ids kept until expiry for replay detection": while the
\* process lives and the clock only advances, the id of a consumed approval is
\* answered token_used, and not handed out again, until ttl after its use.
ReplayDetected ==
  \A k \in DOMAIN consumed :
    LET c == consumed[k]
    IN  c.life = life[c.server] /\ clock <= c.at + Ttl =>
          Replayed(c.server, c.intent.id)

\* While nobody else writes the pending file and its writes succeed, the human
\* finds every pending intent in it.
PendingListed == \A s \in Servers : intents[s] \subseteq file

(***************************************************************************)
(* An intent that has not expired leaves the map of its process only by    *)
(* being consumed or with the process: not by a refused, mismatched or     *)
(* badly signed attempt, not by pruning, not to make room.                 *)
(***************************************************************************)
LiveIntentKept ==
  [][\A s \in Servers : \A i \in Live(intents[s]) :
       \/ i \in intents'[s]
       \/ Len(consumed') > Len(consumed) /\ consumed'[Len(consumed')].intent = i
       \/ life'[s] # life[s]]_gateVars

-----------------------------------------------------------------------------
(* Why an approval is used once: the inductive invariant *)

\* Whatever is pending, listed or signed was offered, and a nonce names one offer.
IntentsOffered ==
  /\ \A s \in Servers : intents[s] \subseteq offered
  /\ file \subseteq offered
  /\ signed \subseteq offered
  /\ \A i, j \in offered : i.nonce = j.nonce => i = j

\* An intent is pending in one process at most, and in none once it is consumed.
PendingOnce ==
  /\ \A s, t \in Servers : \A i \in intents[s] \cap intents[t] : s = t
  /\ \A k \in DOMAIN consumed : \A s \in Servers : consumed[k].intent \notin intents[s]

\* With the type invariant, these parts are inductive.
GateInv ==
  /\ GateTypeOK
  /\ IntentsOffered
  /\ PendingOnce
  /\ SingleUse
  /\ ReleasedAsSigned
  /\ IdsUnambiguous

-----------------------------------------------------------------------------
(* The gate implements Approval: a nonce is released once it is in consumed, *)
(* pending while some process has it, and closed when neither holds.         *)

ReleasedNonces == {consumed[k].intent.nonce : k \in DOMAIN consumed}
PendingNonces == {i.nonce : i \in UNION {intents[s] : s \in Servers}}
OfferedNonces == {i.nonce : i \in offered}

StatusOf(n) ==
  IF n \in ReleasedNonces THEN "released"
  ELSE IF n \in PendingNonces THEN "pending"
  ELSE IF n \in OfferedNonces THEN "closed" ELSE "free"

Abstract == INSTANCE Approval WITH
  status <- [n \in Nonces |-> StatusOf(n)],
  signed <- {i.nonce : i \in signed},
  released <- [k \in DOMAIN consumed |-> consumed[k].intent.nonce]

ImplementsApproval == Abstract!Spec
=============================================================================
