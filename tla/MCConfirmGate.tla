--------------------------- MODULE MCConfirmGate ---------------------------
(***************************************************************************)
(* Small instances of ConfirmGate for TLC.  The digest of a command is the *)
(* set that holds it: any injective function does.                         *)
(***************************************************************************)
EXTENDS ConfirmGate, TLC

MCDigests == {{c} : c \in Commands}
MCDigest == [c \in Commands |-> {c}]

\* Ids, nonces, commands and servers are interchangeable.
Symmetry ==
  Permutations(Ids) \cup Permutations(Nonces) \cup Permutations(Servers)
=============================================================================
