------------------------- MODULE ConfirmGateProofs -------------------------
(***************************************************************************)
(* Proofs about ConfirmGate, for every set of servers, ids, nonces and     *)
(* commands, every ttl and capacity, every behaviour of the file and of    *)
(* the clock.                                                              *)
(***************************************************************************)
EXTENDS ConfirmGate, FiniteSetTheorems, TLAPS

-----------------------------------------------------------------------------
(* What a step does to the maps, action by action *)

\* Nothing goes wrong when the process writes the pending file.
FileIsReliable == PendingFile /\ ~FileMayFail

\* Persisting keeps what has not expired of what it is given and lists nothing else in
\* the file, and exactly that in a reliable one.
Persists(s, ints, entries, old) ==
  \E kept \in SUBSET ints, ents \in SUBSET entries :
    /\ kept \in {ints, Live(ints)}
    /\ ents \in {entries, LiveUsed(entries)}
    /\ intents' = [intents EXCEPT ![s] = kept]
    /\ used' = [used EXCEPT ![s] = ents]
    /\ file' \in old \cup {kept}
    /\ FileIsReliable => file' = kept

LEMMA PersistShape ==
  ASSUME GateTypeOK, NEW s \in Servers, NEW ints \in SUBSET Intent,
         NEW entries \in SUBSET UsedEntry, NEW old, Persist(s, ints, entries, old)
  PROVE  Persists(s, ints, entries, old)
<1>1. /\ Live(ints) \in SUBSET ints
      /\ LiveUsed(entries) \in SUBSET entries
  BY DEF Live, LiveUsed
<1>2. CASE /\ ~PendingFile \/ FileMayFail
           /\ intents' = [intents EXCEPT ![s] = ints]
           /\ used' = [used EXCEPT ![s] = entries]
           /\ file' \in old
  BY <1>2 DEF FileIsReliable, Persists
<1>3. CASE /\ intents' = [intents EXCEPT ![s] = Live(ints)]
           /\ used' = [used EXCEPT ![s] = LiveUsed(entries)]
           /\ file' \in Saved(Live(ints), old)
  <2>1. file' \in old \cup {Live(ints)}
    BY <1>3 DEF Saved
  <2>2. FileIsReliable => file' = Live(ints)
    BY <1>3 DEF Saved, FileIsReliable
  <2> QED
    BY <1>1, <1>3, <2>1, <2>2 DEF Persists
<1> QED
  BY <1>2, <1>3 DEF Persist

\* A step of process s that only drops intents and used ids, live ones only with the process.
Drops(s) ==
  /\ \E kept \in SUBSET intents[s], ents \in SUBSET used[s] :
       /\ intents' = [intents EXCEPT ![s] = kept]
       /\ used' = [used EXCEPT ![s] = ents]
       /\ file' \in {file, kept}
       /\ \/ Live(intents[s]) \subseteq kept /\ LiveUsed(used[s]) \subseteq ents /\ life' = life
          \/ life' = [life EXCEPT ![s] = @ + 1]
  /\ UNCHANGED <<clock, offered, signed, consumed>>

LEMMA PruneDrops ==
  ASSUME GateTypeOK, NEW s \in Servers, Prune(s),
         UNCHANGED <<clock, life, offered, signed, consumed>>
  PROVE  Drops(s)
<1>1. /\ Live(intents[s]) \in SUBSET intents[s] /\ LiveUsed(used[s]) \in SUBSET used[s]
      /\ intents[s] \in SUBSET Intent /\ used[s] \in SUBSET UsedEntry
  BY DEF Live, LiveUsed, GateTypeOK
<1>a. Live(intents[s]) \in SUBSET Intent /\ LiveUsed(used[s]) \in SUBSET UsedEntry
  BY <1>1
<1>2. CASE Persist(s, Live(intents[s]), LiveUsed(used[s]), {file})
  <2>a. Persists(s, Live(intents[s]), LiveUsed(used[s]), {file})
    BY <1>a, <1>2, PersistShape
  <2>1. PICK kept \in SUBSET Live(intents[s]), ents \in SUBSET LiveUsed(used[s]) :
          /\ kept \in {Live(intents[s]), Live(Live(intents[s]))}
          /\ ents \in {LiveUsed(used[s]), LiveUsed(LiveUsed(used[s]))}
          /\ intents' = [intents EXCEPT ![s] = kept]
          /\ used' = [used EXCEPT ![s] = ents]
          /\ file' \in {file} \cup {kept}
    BY <2>a DEF Persists
  <2>2. /\ Live(Live(intents[s])) = Live(intents[s])
        /\ LiveUsed(LiveUsed(used[s])) = LiveUsed(used[s])
    BY DEF Live, LiveUsed
  <2> QED
    BY <1>1, <2>1, <2>2 DEF Drops
<1>3. CASE /\ used' = [used EXCEPT ![s] = LiveUsed(@)]
           /\ UNCHANGED <<intents, file>>
  <2>1. intents' = [intents EXCEPT ![s] = intents[s]]
    BY <1>3 DEF GateTypeOK
  <2> QED
    BY <1>1, <1>3, <2>1 DEF Drops
<1> QED
  BY <1>2, <1>3 DEF Prune

\* What is dropped before an attempt that is no replay had expired.
LEMMA UsedWithoutKeepsLive ==
  ASSUME NEW s \in Servers, NEW cid, ~Replayed(s, cid)
  PROVE  /\ LiveUsed(used[s]) \subseteq UsedWithout(s, cid)
         /\ LiveUsed(used[s]) \subseteq LiveUsed(UsedWithout(s, cid))
BY DEF Replayed, UsedWithout, WithId, LiveUsed

LEMMA ConsumeFailureDrops ==
  ASSUME GateTypeOK, NEW s \in Servers, NEW cid \in Ids, NEW cmd, NEW sig,
         \/ ConsumeUnknown(s, cid)
         \/ ConsumeExpired(s, cid)
         \/ ConsumeMismatch(s, cid, cmd)
         \/ ConsumeBadSignature(s, cid, cmd, sig)
  PROVE  Drops(s)
<1>1. /\ UsedWithout(s, cid) \in SUBSET used[s]
      /\ Live(intents[s]) \subseteq intents[s]
      /\ intents[s] \in SUBSET Intent /\ used[s] \in SUBSET UsedEntry
      /\ intents[s] \in SUBSET intents[s]
  BY DEF UsedWithout, Live, GateTypeOK
<1>a. /\ LiveUsed(used[s]) \subseteq UsedWithout(s, cid)
      /\ LiveUsed(used[s]) \subseteq LiveUsed(UsedWithout(s, cid))
  BY UsedWithoutKeepsLive DEF ConsumeUnknown, ConsumeExpired, ConsumeMismatch,
     ConsumeBadSignature
<1>2. CASE ConsumeExpired(s, cid)
  <2>1. PICK i \in WithId(intents[s], cid) :
          /\ clock > i.expiresAt
          /\ Persist(s, intents[s] \ {i}, UsedWithout(s, cid), {file})
    BY <1>2 DEF ConsumeExpired
  <2>2. /\ (intents[s] \ {i}) \in SUBSET Intent
        /\ UsedWithout(s, cid) \in SUBSET UsedEntry
    BY <1>1
  <2>a. Persists(s, intents[s] \ {i}, UsedWithout(s, cid), {file})
    BY <2>1, <2>2, PersistShape
  <2>3. PICK kept \in SUBSET (intents[s] \ {i}), ents \in SUBSET UsedWithout(s, cid) :
          /\ kept \in {intents[s] \ {i}, Live(intents[s] \ {i})}
          /\ ents \in {UsedWithout(s, cid), LiveUsed(UsedWithout(s, cid))}
          /\ intents' = [intents EXCEPT ![s] = kept]
          /\ used' = [used EXCEPT ![s] = ents]
          /\ file' \in {file} \cup {kept}
    BY <2>a DEF Persists
  <2>4. Live(intents[s]) \subseteq kept
    BY <1>1, <2>1, <2>3 DEF Live, GateTypeOK, Intent
  <2>5. UNCHANGED <<clock, life, offered, signed, consumed>>
    BY <1>2 DEF ConsumeExpired
  <2> QED
    BY <1>1, <1>a, <2>3, <2>4, <2>5 DEF Drops
<1>3. CASE \/ ConsumeUnknown(s, cid) \/ ConsumeMismatch(s, cid, cmd)
           \/ ConsumeBadSignature(s, cid, cmd, sig)
  <2>1. /\ used' = [used EXCEPT ![s] = UsedWithout(s, cid)]
        /\ UNCHANGED <<clock, life, intents, file, offered, signed, consumed>>
    BY <1>3 DEF ConsumeUnknown, ConsumeMismatch, ConsumeBadSignature
  <2>2. intents' = [intents EXCEPT ![s] = intents[s]]
    BY <2>1 DEF GateTypeOK
  <2> QED
    BY <1>1, <1>a, <2>1, <2>2 DEF Drops
<1> QED
  BY <1>2, <1>3

LEMMA RestartDrops ==
  ASSUME GateTypeOK, NEW s \in Servers, Restart(s)
  PROVE  Drops(s)
BY DEF Restart, Drops

\* A step of process s that offers intent new, whose nonce nobody has seen.
Offers(s, new) ==
  /\ Room(s)
  /\ new \in Intent
  /\ new.nonce \notin OfferedNonces
  /\ WithId(Live(intents[s]), new.id) = {}
  /\ WithId(LiveUsed(used[s]), new.id) = {}
  /\ offered' = offered \cup {new}
  /\ intents' = [intents EXCEPT ![s] = Live(intents[s]) \cup {new}]
  /\ used' = [used EXCEPT ![s] = LiveUsed(used[s])]
  /\ file' \in {file, Live(intents[s]), Live(intents[s]) \cup {new}}
  /\ FileIsReliable => file' = Live(intents[s]) \cup {new}
  /\ UNCHANGED <<clock, life, signed, consumed>>

LEMMA CreateOffers ==
  ASSUME GateTypeOK, NEW s \in Servers, NEW cmd \in Commands, NEW cid \in Ids,
         NEW n \in Nonces, Create(s, cmd, cid, n)
  PROVE  Offers(s, NewIntent(cid, n, cmd))
<1> DEFINE new == NewIntent(cid, n, cmd)
           ints == Put(Live(intents[s]), new)
           old == {file} \cup IF PendingFile /\ Expired(s) # {} THEN {Live(intents[s])} ELSE {}
<1>1. new \in Intent /\ new.id = cid /\ new.nonce = n
  BY DigestAssumption, NumbersAssumption DEF GateTypeOK, Intent, NewIntent
<1>2. /\ Live(intents[s]) \in SUBSET Intent
      /\ LiveUsed(used[s]) \in SUBSET UsedEntry
  BY DEF Live, LiveUsed, GateTypeOK
<1>3. /\ Room(s) /\ FreshId(s, cid) /\ n \notin OfferedNonces
      /\ offered' = offered \cup {new}
      /\ Persist(s, ints, LiveUsed(used[s]), old)
      /\ UNCHANGED <<clock, life, signed, consumed>>
  BY DEF Create, OfferedNonces
<1>4. ints = Live(intents[s]) \cup {new}
  BY <1>1, <1>3 DEF Put, FreshId
<1>5. ints \in SUBSET Intent /\ Live(ints) = ints
  <2>1. clock <= new.expiresAt
    BY NumbersAssumption DEF GateTypeOK, NewIntent
  <2> QED
    BY <1>1, <1>2, <1>4, <2>1 DEF Live
<1>b. LiveUsed(LiveUsed(used[s])) = LiveUsed(used[s])
  BY DEF LiveUsed
<1> HIDE DEF ints, old
<1>c. Persists(s, ints, LiveUsed(used[s]), old)
  BY <1>2, <1>3, <1>5, PersistShape
<1>6. PICK kept \in SUBSET ints, ents \in SUBSET LiveUsed(used[s]) :
        /\ kept \in {ints, Live(ints)}
        /\ ents \in {LiveUsed(used[s]), LiveUsed(LiveUsed(used[s]))}
        /\ intents' = [intents EXCEPT ![s] = kept]
        /\ used' = [used EXCEPT ![s] = ents]
        /\ file' \in old \cup {kept}
        /\ FileIsReliable => file' = kept
  BY <1>c DEF Persists
<1>7. file' \in {file, Live(intents[s]), ints}
  BY <1>5, <1>6 DEF old
<1> QED
  BY <1>1, <1>3, <1>4, <1>5, <1>b, <1>6, <1>7 DEF Offers, FreshId

\* A step of process s that consumes its pending intent i for command cmd.
Consumes(s, i, cmd) ==
  /\ i \in intents[s]
  /\ i \in signed
  /\ clock <= i.expiresAt
  /\ Digest[cmd] = i.digest
  /\ consumed' = Append(consumed,
       [server |-> s, life |-> life[s], intent |-> i, command |-> cmd, at |-> clock])
  /\ \E kept \in SUBSET (intents[s] \ {i}), ents \in SUBSET Remembered(s, i) :
       /\ kept \in {intents[s] \ {i}, Live(intents[s] \ {i})}
       /\ ents \in {Remembered(s, i), LiveUsed(Remembered(s, i))}
       /\ intents' = [intents EXCEPT ![s] = kept]
       /\ used' = [used EXCEPT ![s] = ents]
       /\ file' \in {file, kept}
  /\ UNCHANGED <<clock, life, offered, signed>>

LEMMA ConsumeConsumes ==
  ASSUME GateTypeOK, NEW s \in Servers, NEW cid \in Ids, NEW cmd \in Commands, NEW sig,
         Consume(s, cid, cmd, sig)
  PROVE  \E i \in Intent : Consumes(s, i, cmd)
<1>1. PICK i \in WithId(intents[s], cid) :
        /\ clock <= i.expiresAt
        /\ Digest[cmd] = i.digest
        /\ Verified(i, sig)
        /\ Spend(s, i)
        /\ consumed' = Append(consumed,
             [server |-> s, life |-> life[s], intent |-> i, command |-> cmd, at |-> clock])
  BY DEF Consume
<1>2. i \in intents[s] /\ i \in Intent /\ i.id \in Ids /\ i \in signed
  BY <1>1 DEF WithId, GateTypeOK, Intent, Verified
<1>3. /\ (intents[s] \ {i}) \in SUBSET Intent
      /\ Remembered(s, i) \in SUBSET UsedEntry
  BY <1>2, NumbersAssumption DEF GateTypeOK, Remembered, Put, UsedEntry
<1>a. Persists(s, intents[s] \ {i}, Remembered(s, i), {file})
  BY <1>1, <1>3, PersistShape DEF Spend
<1>4. PICK kept \in SUBSET (intents[s] \ {i}), ents \in SUBSET Remembered(s, i) :
        /\ kept \in {intents[s] \ {i}, Live(intents[s] \ {i})}
        /\ ents \in {Remembered(s, i), LiveUsed(Remembered(s, i))}
        /\ intents' = [intents EXCEPT ![s] = kept]
        /\ used' = [used EXCEPT ![s] = ents]
        /\ file' \in {file} \cup {kept}
  BY <1>a DEF Persists
<1>5. UNCHANGED <<clock, life, offered, signed>>
  BY DEF Consume
<1> QED
  BY <1>1, <1>2, <1>4, <1>5 DEF Consumes

\* The human signs an intent that was offered.
Signs(i) ==
  /\ i \in file \cup offered
  /\ signed' = signed \cup {i}
  /\ UNCHANGED <<clock, life, intents, used, file, offered, consumed>>

\* Every step of the gate has one of these shapes.
LEMMA StepShapes ==
  ASSUME GateTypeOK, [GateNext]_gateVars
  PROVE  \/ \E s \in Servers : Drops(s)
         \/ \E s \in Servers, new \in Intent : Offers(s, new)
         \/ \E s \in Servers, i \in Intent, cmd \in Commands : Consumes(s, i, cmd)
         \/ \E i \in Intent : Signs(i)
         \/ Tick
         \/ UNCHANGED gateVars
<1>1. CASE \E s \in Servers : CreateRefused(s)
  BY <1>1, PruneDrops DEF CreateRefused
<1>2. CASE \E s \in Servers, cmd \in Commands, cid \in Ids, n \in Nonces : Create(s, cmd, cid, n)
  BY <1>2, CreateOffers DEF Offers
<1>3. CASE \E s \in Servers, cid \in Ids, cmd \in Commands, sig \in offered :
             ConsumeSigned(s, cid, cmd, sig)
  <2>1. PICK s \in Servers, cid \in Ids, cmd \in Commands, sig \in offered :
          ConsumeSigned(s, cid, cmd, sig)
    BY <1>3
  <2>2. CASE ConsumeReplayed(s, cid)
    BY <2>2 DEF ConsumeReplayed
  <2>3. CASE \/ ConsumeUnknown(s, cid) \/ ConsumeExpired(s, cid)
             \/ ConsumeMismatch(s, cid, cmd) \/ ConsumeBadSignature(s, cid, cmd, sig)
    BY <2>3, ConsumeFailureDrops
  <2>4. CASE Consume(s, cid, cmd, sig)
    BY <2>4, ConsumeConsumes
  <2> QED
    BY <2>1, <2>2, <2>3, <2>4 DEF ConsumeSigned
<1>4. CASE \E s \in Servers : Restart(s)
  BY <1>4, RestartDrops
<1>5. CASE HumanStep
  <2>1. CASE \E cid \in Ids : ApproveListed(cid)
    BY <2>1 DEF ApproveListed, Signs, WithId, GateTypeOK
  <2>2. CASE \E i \in offered : ApproveBlind(i)
    BY <2>2 DEF ApproveBlind, Signs, GateTypeOK
  <2> QED
    BY <1>5, <2>1, <2>2 DEF HumanStep
<1> QED
  BY <1>1, <1>2, <1>3, <1>4, <1>5 DEF GateNext, ServerStep

-----------------------------------------------------------------------------
(* The invariant holds initially and is preserved *)

LEMMA InitInv == GateInit => GateInv
BY NumbersAssumption DEF GateInit, GateInv, GateTypeOK, IntentsOffered, PendingOnce,
   SingleUse, ReleasedAsSigned, IdsUnambiguous

\* Types are preserved.
LEMMA TypeStep ==
  ASSUME GateTypeOK, [GateNext]_gateVars
  PROVE  GateTypeOK'
<1>1. CASE \E s \in Servers : Drops(s)
  <2>1. PICK s \in Servers : Drops(s)
    BY <1>1
  <2>2. life' \in [Servers -> Nat]
    BY <2>1 DEF Drops, GateTypeOK
  <2> QED
    BY <2>1, <2>2 DEF Drops, GateTypeOK
<1>2. CASE \E s \in Servers, new \in Intent : Offers(s, new)
  BY <1>2 DEF Offers, GateTypeOK, Live, LiveUsed
<1>3. CASE \E s \in Servers, i \in Intent, cmd \in Commands : Consumes(s, i, cmd)
  <2>1. PICK s \in Servers, i \in Intent, cmd \in Commands : Consumes(s, i, cmd)
    BY <1>3
  <2>2. Remembered(s, i) \in SUBSET UsedEntry
    BY NumbersAssumption DEF GateTypeOK, Remembered, Put, UsedEntry, Intent
  <2>3. [server |-> s, life |-> life[s], intent |-> i, command |-> cmd, at |-> clock]
          \in Consumption
    BY DEF GateTypeOK, Consumption
  <2>4. consumed' \in Seq(Consumption)
    BY <2>1, <2>3 DEF Consumes, GateTypeOK
  <2> QED
    BY <2>1, <2>2, <2>4 DEF Consumes, GateTypeOK
<1>4. CASE \E i \in Intent : Signs(i)
  BY <1>4 DEF Signs, GateTypeOK
<1>5. CASE Tick
  BY <1>5 DEF Tick, GateTypeOK
<1>6. CASE UNCHANGED gateVars
  BY <1>6 DEF gateVars, GateTypeOK
<1> QED
  BY <1>1, <1>2, <1>3, <1>4, <1>5, <1>6, StepShapes

\* The step appends to consumed, at index m, the consumption of i for cmd.
EntryAt(m, i, cmd) ==
  /\ m \notin DOMAIN consumed /\ DOMAIN consumed' = DOMAIN consumed \cup {m}
  /\ m = Len(consumed') /\ m > Len(consumed)
  /\ \A k \in DOMAIN consumed : consumed'[k] = consumed[k]
  /\ consumed'[m].intent = i /\ consumed'[m].command = cmd /\ consumed'[m].at = clock

\* Consuming appends one entry.
LEMMA ConsumedEntries ==
  ASSUME GateTypeOK, NEW s \in Servers, NEW i \in Intent, NEW cmd \in Commands,
         Consumes(s, i, cmd)
  PROVE  \E m \in Nat : EntryAt(m, i, cmd)
<1> DEFINE new == [server |-> s, life |-> life[s], intent |-> i, command |-> cmd, at |-> clock]
<1>1. consumed' = Append(consumed, new) /\ consumed \in Seq(Consumption)
  BY DEF Consumes, GateTypeOK
<1>2. new.intent = i /\ new.command = cmd /\ new.at = clock
  OBVIOUS
<1> HIDE DEF new
<1> QED
  BY <1>1, <1>2 DEF EntryAt

LEMMA OfferedStep ==
  ASSUME GateInv, [GateNext]_gateVars
  PROVE  IntentsOffered'
<1> USE DEF GateInv
<1>1. CASE \E s \in Servers : Drops(s)
  BY <1>1 DEF Drops, IntentsOffered, GateTypeOK
<1>2. CASE \E s \in Servers, new \in Intent : Offers(s, new)
  BY <1>2 DEF Offers, IntentsOffered, GateTypeOK, Live, OfferedNonces
<1>3. CASE \E s \in Servers, i \in Intent, cmd \in Commands : Consumes(s, i, cmd)
  BY <1>3 DEF Consumes, IntentsOffered, GateTypeOK
<1>4. CASE \E i \in Intent : Signs(i)
  BY <1>4 DEF Signs, IntentsOffered
<1>5. CASE Tick
  BY <1>5 DEF Tick, IntentsOffered
<1>6. CASE UNCHANGED gateVars
  BY <1>6 DEF gateVars, IntentsOffered
<1> QED
  BY <1>1, <1>2, <1>3, <1>4, <1>5, <1>6, StepShapes

LEMMA PendingOnceStep ==
  ASSUME GateInv, [GateNext]_gateVars
  PROVE  PendingOnce'
<1>0. GateTypeOK
  BY DEF GateInv
<1> USE DEF GateInv
<1>1. CASE \E s \in Servers : Drops(s)
  BY <1>1 DEF Drops, PendingOnce, GateTypeOK
<1>2. CASE \E s \in Servers, new \in Intent : Offers(s, new)
  <2>1. PICK s \in Servers, new \in Intent : Offers(s, new)
    BY <1>2
  <2>2. new \notin offered
    BY <2>1 DEF Offers, OfferedNonces
  <2>3. \A t \in Servers : new \notin intents[t]
    BY <2>2 DEF IntentsOffered
  <2>4. \A k \in DOMAIN consumed : consumed[k].intent # new
    BY <2>2 DEF ReleasedAsSigned
  <2> QED
    BY <2>1, <2>3, <2>4 DEF Offers, PendingOnce, GateTypeOK, Live
<1>3. CASE \E s \in Servers, i \in Intent, cmd \in Commands : Consumes(s, i, cmd)
  <2>1. PICK s \in Servers, i \in Intent, cmd \in Commands : Consumes(s, i, cmd)
    BY <1>3
  <2>0. PICK m \in Nat : EntryAt(m, i, cmd)
    BY <1>0, <2>1, ConsumedEntries
  <2>2. /\ intents' \in [Servers -> SUBSET Intent]
        /\ \A t \in Servers : intents'[t] \subseteq intents[t]
        /\ i \in intents[s] /\ i \notin intents'[s]
    BY <2>1 DEF Consumes, GateTypeOK
  <2>3. \A t \in Servers : i \notin intents'[t]
    BY <2>2 DEF PendingOnce
  <2>4. \A k \in DOMAIN consumed' :
          consumed'[k].intent = i \/ (k \in DOMAIN consumed /\ consumed'[k] = consumed[k])
    BY <2>0 DEF EntryAt
  <2> QED
    BY <2>2, <2>3, <2>4 DEF PendingOnce
<1>4. CASE (\E i \in Intent : Signs(i)) \/ Tick \/ UNCHANGED gateVars
  <2>1. UNCHANGED <<intents, consumed>>
    BY <1>4 DEF Signs, Tick, gateVars
  <2> QED
    BY <2>1 DEF PendingOnce
<1> QED
  BY <1>1, <1>2, <1>3, <1>4, StepShapes

\* A second consumption under a nonce would need its intent to be pending still.
LEMMA SingleUseStep ==
  ASSUME GateInv, [GateNext]_gateVars
  PROVE  SingleUse'
<1>0. GateTypeOK
  BY DEF GateInv
<1> USE DEF GateInv
<1>1. CASE consumed' = consumed
  BY <1>1 DEF SingleUse
<1>2. CASE \E s \in Servers, i \in Intent, cmd \in Commands : Consumes(s, i, cmd)
  <2>1. PICK s \in Servers, i \in Intent, cmd \in Commands : Consumes(s, i, cmd)
    BY <1>2
  <2>0. PICK m \in Nat : EntryAt(m, i, cmd)
    BY <1>0, <2>1, ConsumedEntries
  <2>2. i \in intents[s] /\ i \in offered
    BY <2>1 DEF Consumes, IntentsOffered
  <2>3. \A k \in DOMAIN consumed : consumed[k].intent.nonce # i.nonce
    <3> SUFFICES ASSUME NEW k \in DOMAIN consumed, consumed[k].intent.nonce = i.nonce
                 PROVE  FALSE
      OBVIOUS
    <3>1. consumed[k].intent \in offered
      BY DEF ReleasedAsSigned
    <3>2. consumed[k].intent = i
      BY <2>2, <3>1 DEF IntentsOffered
    <3> QED
      BY <2>2, <3>2 DEF PendingOnce
  <2> QED
    BY <2>0, <2>3 DEF SingleUse, EntryAt
<1> QED
  BY <1>1, <1>2, StepShapes DEF Drops, Offers, Signs, Tick, gateVars

LEMMA ReleasedAsSignedStep ==
  ASSUME GateInv, [GateNext]_gateVars
  PROVE  ReleasedAsSigned'
<1>0. GateTypeOK
  BY DEF GateInv
<1> USE DEF GateInv
<1>1. CASE \E s \in Servers, i \in Intent, cmd \in Commands : Consumes(s, i, cmd)
  <2>1. PICK s \in Servers, i \in Intent, cmd \in Commands : Consumes(s, i, cmd)
    BY <1>1
  <2>0. PICK m \in Nat : EntryAt(m, i, cmd)
    BY <1>0, <2>1, ConsumedEntries
  <2>2. /\ i \in signed \cap offered
        /\ i.digest = Digest[cmd] /\ clock <= i.expiresAt
        /\ UNCHANGED <<signed, offered>>
    BY <2>1 DEF Consumes, IntentsOffered
  <2> QED
    BY <2>0, <2>2 DEF ReleasedAsSigned, EntryAt
<1>2. CASE consumed' = consumed /\ signed \subseteq signed' /\ offered \subseteq offered'
  BY <1>2 DEF ReleasedAsSigned
<1> QED
  BY <1>1, <1>2, StepShapes DEF Drops, Offers, Signs, Tick, gateVars

LEMMA IdsStep ==
  ASSUME GateInv, [GateNext]_gateVars
  PROVE  IdsUnambiguous'
<1> USE DEF GateInv
<1>1. CASE \E s \in Servers : Drops(s)
  BY <1>1 DEF Drops, IdsUnambiguous, WithId, GateTypeOK
<1>2. CASE \E s \in Servers, new \in Intent : Offers(s, new)
  BY <1>2 DEF Offers, IdsUnambiguous, WithId, Live, LiveUsed, GateTypeOK
<1>3. CASE \E s \in Servers, i \in Intent, cmd \in Commands : Consumes(s, i, cmd)
  <2>1. PICK s \in Servers, i \in Intent, cmd \in Commands : Consumes(s, i, cmd)
    BY <1>3
  <2>2. PICK kept \in SUBSET (intents[s] \ {i}), ents \in SUBSET Remembered(s, i) :
          /\ intents' = [intents EXCEPT ![s] = kept]
          /\ used' = [used EXCEPT ![s] = ents]
    BY <2>1 DEF Consumes
  <2>3. \A u \in ents : u \in used[s] \/ u.id = i.id
    BY <2>2 DEF Remembered, Put
  <2>4. i \in intents[s] /\ \A j \in kept : j.id # i.id
    BY <2>1, <2>2 DEF IdsUnambiguous, Consumes
  <2> QED
    BY <2>2, <2>3, <2>4 DEF IdsUnambiguous, WithId, GateTypeOK
<1>4. CASE (\E i \in Intent : Signs(i)) \/ Tick \/ UNCHANGED gateVars
  <2>1. UNCHANGED <<intents, used>>
    BY <1>4 DEF Signs, Tick, gateVars
  <2> QED
    BY <2>1 DEF IdsUnambiguous, WithId
<1> QED
  BY <1>1, <1>2, <1>3, <1>4, StepShapes

LEMMA StepInv == GateInv /\ [GateNext]_gateVars => GateInv'
<1> SUFFICES ASSUME GateInv, [GateNext]_gateVars PROVE GateInv'
  OBVIOUS
<1>1. GateTypeOK'
  BY TypeStep DEF GateInv
<1> QED
  BY <1>1, OfferedStep, PendingOnceStep, SingleUseStep, ReleasedAsSignedStep, IdsStep
     DEF GateInv

-----------------------------------------------------------------------------
(* Theorems *)

\* In every behaviour of the gate the inductive invariant holds: every pending,
\* listed or signed intent was offered, and is pending nowhere once consumed.
THEOREM GateCorrect == GateSpec => []GateInv
<1>1. GateInit => GateInv
  BY InitInv
<1>2. GateInv /\ [GateNext]_gateVars => GateInv'
  BY StepInv
<1> QED
  BY <1>1, <1>2, PTL DEF GateSpec

\* The maps, the file and the signatures always hold records of their types.
THEOREM GateTypeCorrect == GateSpec => []GateTypeOK
BY GateCorrect, PTL DEF GateInv

\* No approval is ever consumed twice (consumeSigned), whatever replays, reissued
\* ids, failed file writes, restarts and clock changes come in between.
THEOREM ApprovalsSingleUse == GateSpec => []SingleUse
BY GateCorrect, PTL DEF GateInv

\* Every consumption is of an intent the human signed, for the very command that
\* was previewed, and no later than its expiry.
THEOREM ReleasesSigned == GateSpec => []ReleasedAsSigned
BY GateCorrect, PTL DEF GateInv

\* A confirmation id never names two pending intents of a process, nor one that
\* is pending and one that is used.
THEOREM IdsNeverAmbiguous == GateSpec => []IdsUnambiguous
BY GateCorrect, PTL DEF GateInv

\* What makes the bound on the pending map inductive: the map is finite.
Bounded ==
  \A s \in Servers : IsFiniteSet(intents[s]) /\ Cardinality(intents[s]) <= MaxPending

LEMMA BoundedStep ==
  ASSUME GateTypeOK, Bounded, [GateNext]_gateVars
  PROVE  Bounded'
<1>1. CASE \E s \in Servers : Drops(s)
  <2>1. \A t \in Servers : intents'[t] \subseteq intents[t]
    BY <1>1 DEF Drops, GateTypeOK
  <2> QED
    BY <2>1, FS_Subset, FS_CardinalityType, NumbersAssumption DEF Bounded
<1>2. CASE \E s \in Servers, new \in Intent : Offers(s, new)
  <2>1. PICK s \in Servers, new \in Intent : Offers(s, new)
    BY <1>2
  <2>2. Live(intents[s]) \subseteq intents[s]
    BY DEF Live
  <2>3. /\ IsFiniteSet(Live(intents[s])) /\ Cardinality(Live(intents[s])) \in Nat
        /\ Cardinality(Live(intents[s])) < MaxPending
    BY <2>1, <2>2, FS_Subset, FS_CardinalityType DEF Bounded, Offers, Room
  <2>4. /\ IsFiniteSet(Live(intents[s]) \cup {new})
        /\ Cardinality(Live(intents[s]) \cup {new}) <= Cardinality(Live(intents[s])) + 1
    BY <2>3, FS_AddElement
  <2>5. Cardinality(Live(intents[s]) \cup {new}) <= MaxPending
    BY <2>3, <2>4, FS_CardinalityType, NumbersAssumption
  <2> QED
    BY <2>1, <2>4, <2>5 DEF Bounded, Offers, GateTypeOK
<1>3. CASE \E s \in Servers, i \in Intent, cmd \in Commands : Consumes(s, i, cmd)
  <2>1. \A t \in Servers : intents'[t] \subseteq intents[t]
    BY <1>3 DEF Consumes, GateTypeOK
  <2> QED
    BY <2>1, FS_Subset, FS_CardinalityType, NumbersAssumption DEF Bounded
<1>4. CASE (\E i \in Intent : Signs(i)) \/ Tick \/ UNCHANGED gateVars
  <2>1. UNCHANGED intents
    BY <1>4 DEF Signs, Tick, gateVars
  <2> QED
    BY <2>1 DEF Bounded
<1> QED
  BY <1>1, <1>2, <1>3, <1>4, StepShapes

\* The pending map of a process never outgrows maxPending.
THEOREM PendingNeverOverflows == GateSpec => []PendingBounded
<1>1. GateInit => Bounded
  BY FS_EmptySet, NumbersAssumption DEF GateInit, Bounded
<1>2. GateTypeOK /\ Bounded /\ [GateNext]_gateVars => Bounded'
  BY BoundedStep
<1>3. Bounded => PendingBounded
  BY DEF Bounded, PendingBounded
<1> QED
  BY <1>1, <1>2, <1>3, GateTypeCorrect, PTL DEF GateSpec

\* A refused, mismatched or badly signed attempt, the pruning and a full map leave
\* every unexpired intent in place: only its consumption or the end of the process
\* removes it.
THEOREM LiveIntentsKept == GateSpec => LiveIntentKept
<1> DEFINE Kept(s, i) ==
      \/ i \in intents'[s]
      \/ Len(consumed') > Len(consumed) /\ consumed'[Len(consumed')].intent = i
      \/ life'[s] # life[s]
<1>1. ASSUME GateTypeOK, [GateNext]_gateVars, NEW s \in Servers, NEW i \in Live(intents[s])
      PROVE  Kept(s, i)
  <2>1. CASE \E t \in Servers : Drops(t)
    BY <1>1, <2>1 DEF Drops, GateTypeOK, Live
  <2>2. CASE \E t \in Servers, new \in Intent : Offers(t, new)
    BY <1>1, <2>2 DEF Offers, GateTypeOK, Live
  <2>3. CASE \E t \in Servers, j \in Intent, cmd \in Commands : Consumes(t, j, cmd)
    <3>1. PICK t \in Servers, j \in Intent, cmd \in Commands : Consumes(t, j, cmd)
      BY <2>3
    <3>2. Len(consumed') > Len(consumed) /\ consumed'[Len(consumed')].intent = j
      BY <1>1, <3>1, ConsumedEntries DEF EntryAt
    <3>3. i # j => i \in intents'[s]
      BY <1>1, <3>1 DEF Consumes, GateTypeOK, Live
    <3> QED
      BY <3>2, <3>3
  <2>4. CASE (\E j \in Intent : Signs(j)) \/ Tick \/ UNCHANGED gateVars
    BY <1>1, <2>4 DEF Signs, Tick, gateVars, Live
  <2> QED
    BY <1>1, <2>1, <2>2, <2>3, <2>4, StepShapes
<1>2. GateTypeOK /\ [GateNext]_gateVars
        => [\A s \in Servers : \A i \in Live(intents[s]) : Kept(s, i)]_gateVars
  BY <1>1
<1> QED
  BY <1>2, GateTypeCorrect, PTL DEF GateSpec, LiveIntentKept

-----------------------------------------------------------------------------
(* Theorems that hold under a clock, or a file, that behaves *)

\* The process that made a consumption has not ended since, or it has and the
\* process in its place has lived longer.
LivesInOrder == \A k \in DOMAIN consumed : consumed[k].life <= life[consumed[k].server]

\* The map of used ids holds the entry of every recent consumption of the process.
Remembers ==
  \A k \in DOMAIN consumed :
    consumed[k].life = life[consumed[k].server] /\ clock <= consumed[k].at + Ttl =>
      [id |-> consumed[k].intent.id, expiry |-> consumed[k].at + Ttl]
        \in used[consumed[k].server]

ReplayInv == GateInv /\ LivesInOrder /\ Remembers

\* What a step must do to entry c of consumed for ReplayInv to go on holding of it.
StaysRemembered(c) ==
  /\ c.life <= life'[c.server]
  /\ c.life = life'[c.server] /\ clock' <= c.at + Ttl =>
       [id |-> c.intent.id, expiry |-> c.at + Ttl] \in used'[c.server]

LEMMA DropsRemembers ==
  ASSUME ReplayInv, NEW s \in Servers, Drops(s)
  PROVE  \A k \in DOMAIN consumed : StaysRemembered(consumed[k])
<1> SUFFICES ASSUME NEW k \in DOMAIN consumed PROVE StaysRemembered(consumed[k])
  OBVIOUS
<1> USE DEF ReplayInv, GateInv
<1>1. PICK c \in Consumption : c = consumed[k]
  BY DEF GateTypeOK
<1>2. c.server \in Servers /\ c.life \in Nat /\ c.at \in Nat /\ c.intent.id \in Ids
  BY DEF Consumption, Intent
<1>3. PICK e : e = [id |-> c.intent.id, expiry |-> c.at + Ttl]
  OBVIOUS
<1>4. /\ c.life <= life[c.server]
      /\ c.life = life[c.server] /\ clock <= c.at + Ttl => e \in LiveUsed(used[c.server])
  BY <1>1, <1>3 DEF LivesInOrder, Remembers, LiveUsed
<1>5. PICK ents \in SUBSET used[s] :
        /\ used' = [used EXCEPT ![s] = ents]
        /\ \/ LiveUsed(used[s]) \subseteq ents /\ life' = life
           \/ life' = [life EXCEPT ![s] = @ + 1]
  BY DEF Drops
<1>6. used \in [Servers -> SUBSET UsedEntry] /\ life \in [Servers -> Nat] /\ clock' = clock
  BY DEF Drops, GateTypeOK
<1>7. c.life <= life'[c.server]
  BY <1>2, <1>4, <1>5, <1>6
<1>8. c.life = life'[c.server] /\ clock' <= c.at + Ttl => e \in used'[c.server]
  <2>1. CASE c.server # s
    BY <1>2, <1>4, <1>5, <1>6, <2>1 DEF LiveUsed
  <2>2. CASE c.server = s
    BY <1>2, <1>4, <1>5, <1>6, <2>2
  <2> QED
    BY <2>1, <2>2
<1> QED
  BY <1>1, <1>3, <1>7, <1>8 DEF StaysRemembered

\* An id that is consumed has no entry that its new one could take the place of.
LEMMA ConsumesRemembers ==
  ASSUME ReplayInv, NEW s \in Servers, NEW i \in Intent, NEW cmd, Consumes(s, i, cmd)
  PROVE  /\ \A k \in DOMAIN consumed : StaysRemembered(consumed[k])
         /\ [id |-> i.id, expiry |-> clock + Ttl] \in used'[s]
<1> USE DEF ReplayInv, GateInv
<1>1. /\ used \in [Servers -> SUBSET UsedEntry] /\ clock \in Nat
      /\ UNCHANGED <<clock, life>> /\ i \in intents[s]
  BY DEF Consumes, GateTypeOK
<1>2. WithId(used[s], i.id) = {}
  BY <1>1 DEF IdsUnambiguous
<1>3. Remembered(s, i) = used[s] \cup {[id |-> i.id, expiry |-> clock + Ttl]}
  BY <1>2 DEF Remembered, Put
<1>4. PICK ents : /\ ents \in {Remembered(s, i), LiveUsed(Remembered(s, i))}
                  /\ used' = [used EXCEPT ![s] = ents]
  BY DEF Consumes
<1>5. LiveUsed(used[s]) \subseteq ents /\ [id |-> i.id, expiry |-> clock + Ttl] \in ents
  BY <1>1, <1>3, <1>4, NumbersAssumption DEF LiveUsed
<1>6. ASSUME NEW k \in DOMAIN consumed PROVE StaysRemembered(consumed[k])
  <2>1. PICK c \in Consumption : c = consumed[k]
    BY DEF GateTypeOK
  <2>2. PICK e : e = [id |-> c.intent.id, expiry |-> c.at + Ttl]
    OBVIOUS
  <2>3. c.server \in Servers
    BY DEF Consumption
  <2>4. /\ c.life <= life[c.server]
        /\ c.life = life[c.server] /\ clock <= c.at + Ttl => e \in LiveUsed(used[c.server])
    BY <2>1, <2>2 DEF LivesInOrder, Remembers, LiveUsed
  <2>5. LiveUsed(used[c.server]) \subseteq used'[c.server]
    BY <1>1, <1>4, <1>5, <2>3 DEF LiveUsed
  <2> QED
    BY <1>1, <2>1, <2>2, <2>4, <2>5 DEF StaysRemembered
<1> QED
  BY <1>1, <1>4, <1>5, <1>6

LEMMA ReplayStep ==
  ASSUME ~ClockMayStepBack, ReplayInv, [GateNext]_gateVars
  PROVE  ReplayInv'
<1>0. GateTypeOK /\ GateInv'
  BY StepInv DEF ReplayInv, GateInv
<1>1. CASE /\ consumed' = consumed
           /\ \A k \in DOMAIN consumed : StaysRemembered(consumed[k])
  BY <1>0, <1>1 DEF ReplayInv, LivesInOrder, Remembers, StaysRemembered
<1>2. CASE \E s \in Servers : Drops(s)
  <2>1. consumed' = consumed
    BY <1>2 DEF Drops
  <2> QED
    BY <1>1, <1>2, <2>1, DropsRemembers
<1>3. CASE \E s \in Servers, new \in Intent : Offers(s, new)
  <2>1. PICK s \in Servers, new \in Intent : Offers(s, new)
    BY <1>3
  <2>2. /\ UNCHANGED <<clock, life, consumed>>
        /\ \A t \in Servers : LiveUsed(used[t]) \subseteq used'[t]
    BY <1>0, <2>1 DEF Offers, GateTypeOK, LiveUsed
  <2>3. \A k \in DOMAIN consumed : StaysRemembered(consumed[k])
    <3> SUFFICES ASSUME NEW k \in DOMAIN consumed PROVE StaysRemembered(consumed[k])
      OBVIOUS
    <3>1. PICK c \in Consumption : c = consumed[k]
      BY <1>0 DEF GateTypeOK
    <3>2. PICK e : e = [id |-> c.intent.id, expiry |-> c.at + Ttl]
      OBVIOUS
    <3>3. /\ c.life <= life[c.server]
          /\ c.life = life[c.server] /\ clock <= c.at + Ttl => e \in LiveUsed(used[c.server])
      BY <3>1, <3>2 DEF ReplayInv, LivesInOrder, Remembers, LiveUsed
    <3>4. c.server \in Servers
      BY DEF Consumption
    <3> QED
      BY <2>2, <3>1, <3>2, <3>3, <3>4 DEF StaysRemembered
  <2> QED
    BY <1>1, <2>2, <2>3
<1>4. CASE \E s \in Servers, i \in Intent, cmd \in Commands : Consumes(s, i, cmd)
  <2>1. PICK s \in Servers, i \in Intent, cmd \in Commands : Consumes(s, i, cmd)
    BY <1>4
  <2>2. PICK m \in Nat : EntryAt(m, i, cmd)
    BY <1>0, <2>1, ConsumedEntries
  <2>3. PICK new : new = [server |-> s, life |-> life[s], intent |-> i, command |-> cmd,
                          at |-> clock]
    OBVIOUS
  <2>4. consumed'[m] = new
    <3>1. new \in Consumption
      BY <1>0, <2>3 DEF Consumption, GateTypeOK
    <3>2. consumed' = Append(consumed, new) /\ consumed \in Seq(Consumption)
      BY <1>0, <2>1, <2>3 DEF Consumes, GateTypeOK
    <3> QED
      BY <2>2, <3>1, <3>2 DEF EntryAt
  <2>5. /\ \A k \in DOMAIN consumed : StaysRemembered(consumed[k])
        /\ [id |-> i.id, expiry |-> clock + Ttl] \in used'[s]
    BY <2>1, ConsumesRemembers
  <2>6. clock' = clock /\ life' = life /\ life[s] \in Nat
    BY <1>0, <2>1 DEF Consumes, GateTypeOK
  <2>7. StaysRemembered(new)
    BY <2>3, <2>5, <2>6 DEF StaysRemembered
  <2>8. \A k \in DOMAIN consumed' : StaysRemembered(consumed'[k])
    BY <2>2, <2>4, <2>5, <2>7 DEF EntryAt
  <2> QED
    BY <1>0, <2>8 DEF ReplayInv, LivesInOrder, Remembers, StaysRemembered
<1>5. CASE \E i \in Intent : Signs(i)
  BY <1>0, <1>5 DEF Signs, ReplayInv, LivesInOrder, Remembers
<1>6. CASE Tick
  <2>1. clock' = clock + 1 /\ clock \in Nat /\ UNCHANGED <<life, used, consumed>>
    BY <1>0, <1>6 DEF Tick, GateTypeOK
  <2>2. \A k \in DOMAIN consumed : consumed[k].at \in Nat
    <3>1. \A k \in DOMAIN consumed : consumed[k] \in Consumption
      BY <1>0 DEF GateTypeOK
    <3> QED
      BY <3>1 DEF Consumption
  <2> QED
    BY <1>0, <2>1, <2>2, NumbersAssumption DEF ReplayInv, LivesInOrder, Remembers
<1>7. CASE UNCHANGED gateVars
  BY <1>0, <1>7 DEF gateVars, ReplayInv, LivesInOrder, Remembers
<1> QED
  BY <1>0, <1>2, <1>3, <1>4, <1>5, <1>6, <1>7, StepShapes

\* While the clock only advances, every consumed approval is still answered token_used
\* (consumeSigned) until ttl after its use, unless its process ended: neither pruning,
\* nor other calls, nor an id handed out again removes its entry.
THEOREM ReplaysDetected ==
  ASSUME ~ClockMayStepBack
  PROVE  GateSpec => []ReplayDetected
<1>1. GateInit => ReplayInv
  BY InitInv DEF GateInit, ReplayInv, LivesInOrder, Remembers
<1>2. ReplayInv /\ [GateNext]_gateVars => ReplayInv'
  BY ReplayStep
<1>3. ReplayInv => ReplayDetected
  <2> SUFFICES ASSUME ReplayInv, NEW k \in DOMAIN consumed,
                      consumed[k].life = life[consumed[k].server],
                      clock <= consumed[k].at + Ttl
               PROVE  Replayed(consumed[k].server, consumed[k].intent.id)
    BY DEF ReplayDetected
  <2>1. PICK e : /\ e = [id |-> consumed[k].intent.id, expiry |-> consumed[k].at + Ttl]
                 /\ e \in used[consumed[k].server]
    BY DEF ReplayInv, Remembers
  <2> QED
    BY <2>1 DEF Replayed, LiveUsed, WithId
<1> QED
  BY <1>1, <1>2, <1>3, PTL DEF GateSpec

\* A process that is alone with a reliable file keeps in it what is pending.
LEMMA ListedStep ==
  ASSUME FileIsReliable, NEW s0, Servers = {s0},
         GateTypeOK, PendingListed, [GateNext]_gateVars
  PROVE  PendingListed'
<1>1. CASE \E s \in Servers : Drops(s)
  BY <1>1 DEF Drops, PendingListed, GateTypeOK
<1>2. CASE \E s \in Servers, new \in Intent : Offers(s, new)
  BY <1>2 DEF Offers, PendingListed, GateTypeOK
<1>3. CASE \E s \in Servers, i \in Intent, cmd \in Commands : Consumes(s, i, cmd)
  BY <1>3 DEF Consumes, PendingListed, GateTypeOK
<1>4. CASE (\E i \in Intent : Signs(i)) \/ Tick \/ UNCHANGED gateVars
  <2>1. UNCHANGED <<intents, file>>
    BY <1>4 DEF Signs, Tick, gateVars
  <2> QED
    BY <2>1 DEF PendingListed
<1> QED
  BY <1>1, <1>2, <1>3, <1>4, StepShapes

\* When one process writes the pending file and every write succeeds, each pending
\* intent is in the file, where approve.mjs looks it up, after every operation.
THEOREM PendingAlwaysListed ==
  ASSUME FileIsReliable, NEW s0, Servers = {s0}
  PROVE  GateSpec => []PendingListed
<1>1. GateInit => PendingListed
  BY DEF GateInit, PendingListed
<1>2. GateTypeOK /\ PendingListed /\ [GateNext]_gateVars => PendingListed'
  BY ListedStep
<1> QED
  BY <1>1, <1>2, GateTypeCorrect, PTL DEF GateSpec
=============================================================================
