--------------------------- MODULE ApprovalProofs ---------------------------
(***************************************************************************)
(* The gate implements Approval, for every set of servers, ids, nonces and *)
(* commands, every behaviour of the pending file and of the clock.         *)
(***************************************************************************)
EXTENDS ConfirmGateProofs

-----------------------------------------------------------------------------
(* The mapping, nonce by nonce *)

\* What is pending or released was offered, and no nonce is both.
LEMMA NonceSets ==
  ASSUME GateInv
  PROVE  /\ OfferedNonces \subseteq Nonces
         /\ PendingNonces \subseteq OfferedNonces
         /\ ReleasedNonces \subseteq OfferedNonces
         /\ PendingNonces \cap ReleasedNonces = {}
<1> USE DEF GateInv
<1>1. OfferedNonces \subseteq Nonces
  BY DEF GateTypeOK, Intent, OfferedNonces
<1>2. PendingNonces \subseteq OfferedNonces
  BY DEF IntentsOffered, PendingNonces, OfferedNonces
<1>3. ReleasedNonces \subseteq OfferedNonces
  BY DEF ReleasedAsSigned, ReleasedNonces, OfferedNonces
<1>4. ASSUME NEW n \in PendingNonces, n \in ReleasedNonces
      PROVE  FALSE
  <2>0. PICK s \in Servers : \E i \in intents[s] : i.nonce = n
    BY <1>4 DEF PendingNonces
  <2>1. PICK i \in intents[s] : i.nonce = n
    BY <2>0
  <2>2. PICK k \in DOMAIN consumed : consumed[k].intent.nonce = n
    BY <1>4 DEF ReleasedNonces
  <2>3. i = consumed[k].intent
    BY <2>1, <2>2 DEF IntentsOffered, ReleasedAsSigned
  <2> QED
    BY <2>1, <2>3 DEF PendingOnce
<1> QED
  BY <1>1, <1>2, <1>3, <1>4

\* The nonces of a step that drops intents: some are pending no more.
LEMMA DropsNonces ==
  ASSUME GateTypeOK, NEW s \in Servers, Drops(s)
  PROVE  /\ PendingNonces' \subseteq PendingNonces
         /\ UNCHANGED <<OfferedNonces, ReleasedNonces, signed, consumed>>
BY DEF Drops, GateTypeOK, PendingNonces, OfferedNonces, ReleasedNonces

LEMMA OffersNonces ==
  ASSUME GateTypeOK, NEW s \in Servers, NEW new \in Intent, Offers(s, new)
  PROVE  /\ PendingNonces' \subseteq PendingNonces \cup {new.nonce}
         /\ new.nonce \in PendingNonces'
         /\ OfferedNonces' = OfferedNonces \cup {new.nonce}
         /\ UNCHANGED <<ReleasedNonces, signed, consumed>>
<1>1. \A t \in Servers : intents'[t] \subseteq intents[t] \cup {new}
  BY DEF Offers, GateTypeOK, Live
<1>2. new \in intents'[s]
  BY DEF Offers, GateTypeOK
<1> QED
  BY <1>1, <1>2 DEF Offers, PendingNonces, OfferedNonces, ReleasedNonces

LEMMA ConsumesNonces ==
  ASSUME GateTypeOK, NEW s \in Servers, NEW i \in Intent, NEW cmd \in Commands,
         Consumes(s, i, cmd)
  PROVE  /\ PendingNonces' \subseteq PendingNonces
         /\ i.nonce \in PendingNonces
         /\ ReleasedNonces' = ReleasedNonces \cup {i.nonce}
         /\ UNCHANGED <<OfferedNonces, signed>>
<1>1. \A t \in Servers : intents'[t] \subseteq intents[t]
  BY DEF Consumes, GateTypeOK
<1>2. i \in intents[s]
  BY DEF Consumes
<1>3. PICK m \in Nat : EntryAt(m, i, cmd)
  BY ConsumedEntries
<1>4. ReleasedNonces' = ReleasedNonces \cup {i.nonce}
  <2>1. DOMAIN consumed' = DOMAIN consumed \cup {m} /\ m \notin DOMAIN consumed
    BY <1>3 DEF EntryAt
  <2>2. \A k \in DOMAIN consumed : consumed'[k] = consumed[k]
    BY <1>3 DEF EntryAt
  <2>3. consumed'[m].intent = i
    BY <1>3 DEF EntryAt
  <2> QED
    BY <2>1, <2>2, <2>3 DEF ReleasedNonces
<1> QED
  BY <1>1, <1>2, <1>4 DEF Consumes, PendingNonces, OfferedNonces

-----------------------------------------------------------------------------
(* The steps *)

StatusMap == [n \in Nonces |-> StatusOf(n)]
SignedNonces == {i.nonce : i \in signed}
Releases == [k \in DOMAIN consumed |-> consumed[k].intent.nonce]

LEMMA InitImplements == GateInit => Abstract!Init
<1> SUFFICES ASSUME GateInit PROVE Abstract!Init
  OBVIOUS
<1>1. ReleasedNonces = {} /\ PendingNonces = {} /\ OfferedNonces = {}
  BY DEF GateInit, ReleasedNonces, PendingNonces, OfferedNonces
<1>2. StatusMap = [n \in Nonces |-> "free"]
  BY <1>1 DEF StatusMap, StatusOf
<1>3. SignedNonces = {}
  BY DEF GateInit, SignedNonces
<1>4. Releases = <<>>
  BY DEF GateInit, Releases
<1> QED
  BY <1>2, <1>3, <1>4 DEF Abstract!Init, StatusMap, SignedNonces, Releases

LEMMA DropsImplements ==
  ASSUME GateInv, NEW s \in Servers, Drops(s)
  PROVE  \E C \in SUBSET Abstract!Pending : Abstract!Close(C)
<1> DEFINE C == {n \in Nonces : StatusOf(n) = "pending" /\ n \notin PendingNonces'}
<1>1. C \in SUBSET Abstract!Pending
  BY DEF Abstract!Pending
<1>2. \A n \in Nonces : StatusOf(n)' = IF n \in C THEN "closed" ELSE StatusOf(n)
  BY NonceSets, DropsNonces DEF StatusOf, GateInv
<1>3. UNCHANGED <<SignedNonces, Releases>>
  BY DropsNonces DEF SignedNonces, Releases, GateInv
<1> QED
  BY <1>1, <1>2, <1>3 DEF Abstract!Close, SignedNonces, Releases

LEMMA OffersImplements ==
  ASSUME GateInv, NEW s \in Servers, NEW new \in Intent, Offers(s, new)
  PROVE  \E n \in Nonces, C \in SUBSET Abstract!Pending : Abstract!Offer(n, C)
<1> DEFINE n == new.nonce
           C == {m \in Nonces : StatusOf(m) = "pending" /\ m \notin PendingNonces'}
<1>1. C \in SUBSET Abstract!Pending
  BY DEF Abstract!Pending
<1>2. n \in Nonces /\ n \notin OfferedNonces
  BY DEF Intent, Offers
<1>3. StatusOf(n) = "free"
  BY <1>2, NonceSets DEF StatusOf
<1>4. \A m \in Nonces : StatusOf(m)' = IF m = n THEN "pending"
                                      ELSE IF m \in C THEN "closed" ELSE StatusOf(m)
  BY <1>2, NonceSets, OffersNonces DEF StatusOf, GateInv
<1>5. UNCHANGED <<SignedNonces, Releases>>
  BY OffersNonces DEF SignedNonces, Releases, GateInv
<1>6. C \in SUBSET Abstract!Pending /\ Abstract!Offer(n, C)
  BY <1>1, <1>2, <1>3, <1>4, <1>5 DEF Abstract!Offer, Abstract!Settle, SignedNonces, Releases
<1> QED
  BY <1>2, <1>6

LEMMA ConsumesImplements ==
  ASSUME GateInv, NEW s \in Servers, NEW i \in Intent, NEW cmd \in Commands,
         Consumes(s, i, cmd)
  PROVE  \E n \in Nonces, C \in SUBSET Abstract!Pending : Abstract!Release(n, C)
<1> DEFINE n == i.nonce
           C == {m \in Nonces : StatusOf(m) = "pending" /\ m \notin PendingNonces'}
<1>1. C \in SUBSET Abstract!Pending
  BY DEF Abstract!Pending
<1>2. n \in Nonces /\ n \in PendingNonces /\ n \notin ReleasedNonces
  BY NonceSets, ConsumesNonces DEF Intent, GateInv
<1>3. StatusOf(n) = "pending"
  BY <1>2 DEF StatusOf
<1>4. n \in SignedNonces
  BY DEF Consumes, SignedNonces
<1>5. \A m \in Nonces : StatusOf(m)' = IF m = n THEN "released"
                                      ELSE IF m \in C THEN "closed" ELSE StatusOf(m)
  BY <1>2, NonceSets, ConsumesNonces DEF StatusOf, GateInv
<1>6. Releases' = Append(Releases, n)
  <2>1. PICK m \in Nat : EntryAt(m, i, cmd)
    BY ConsumedEntries DEF GateInv
  <2>2. /\ consumed \in Seq(Consumption) /\ consumed' \in Seq(Consumption)
        /\ Len(consumed') = Len(consumed) + 1
    BY DEF Consumes, GateInv, GateTypeOK, Consumption, Intent
  <2> QED
    BY <2>1, <2>2 DEF Releases, EntryAt
<1>7. UNCHANGED SignedNonces
  BY ConsumesNonces DEF SignedNonces, GateInv
<1> QED
  BY <1>1, <1>2, <1>3, <1>4, <1>5, <1>6, <1>7
     DEF Abstract!Release, Abstract!Settle, SignedNonces, Releases

LEMMA SignsImplements ==
  ASSUME GateInv, NEW i \in Intent, Signs(i)
  PROVE  \E n \in Nonces : Abstract!Sign(n)
<1>1. i.nonce \in Nonces /\ i.nonce \in OfferedNonces
  BY DEF Signs, GateInv, IntentsOffered, Intent, OfferedNonces
<1>2. StatusOf(i.nonce) # "free"
  BY <1>1 DEF StatusOf
<1>3. SignedNonces' = SignedNonces \cup {i.nonce}
  BY DEF Signs, SignedNonces
<1>4. UNCHANGED <<StatusMap, Releases>>
  BY DEF Signs, StatusMap, StatusOf, ReleasedNonces, PendingNonces, OfferedNonces, Releases
<1> QED
  BY <1>1, <1>2, <1>3, <1>4 DEF Abstract!Sign, StatusMap, SignedNonces, Releases

LEMMA StutterImplements ==
  ASSUME UNCHANGED <<intents, offered, signed, consumed>>
  PROVE  UNCHANGED Abstract!vars
BY DEF Abstract!vars, StatusOf, ReleasedNonces, PendingNonces, OfferedNonces

LEMMA StepImplements ==
  ASSUME GateInv, [GateNext]_gateVars
  PROVE  [Abstract!Next]_(Abstract!vars)
<1>0. GateTypeOK
  BY DEF GateInv
<1>1. CASE \E s \in Servers : Drops(s)
  BY <1>1, DropsImplements DEF Abstract!Next
<1>2. CASE \E s \in Servers, new \in Intent : Offers(s, new)
  BY <1>2, OffersImplements DEF Abstract!Next
<1>3. CASE \E s \in Servers, i \in Intent, cmd \in Commands : Consumes(s, i, cmd)
  BY <1>3, ConsumesImplements DEF Abstract!Next
<1>4. CASE \E i \in Intent : Signs(i)
  BY <1>4, SignsImplements DEF Abstract!Next
<1>5. CASE Tick \/ UNCHANGED gateVars
  BY <1>5, StutterImplements DEF Tick, gateVars
<1> QED
  BY <1>0, <1>1, <1>2, <1>3, <1>4, <1>5, StepShapes

-----------------------------------------------------------------------------

\* The gate implements Approval: whatever its maps, file, clock and processes do, a write is
\* released once, for a nonce that is pending and signed, and a nonce that has left every
\* map never comes back (ConfirmGate.create, consumeSigned, prune, persist; buildServer).
THEOREM GateImplementsApproval == GateSpec => ImplementsApproval
<1>1. GateInit => Abstract!Init
  BY InitImplements
<1>2. GateInv /\ [GateNext]_gateVars => [Abstract!Next]_(Abstract!vars)
  BY StepImplements
<1> QED
  BY <1>1, <1>2, GateCorrect, PTL DEF GateSpec, ImplementsApproval, Abstract!Spec
=============================================================================
