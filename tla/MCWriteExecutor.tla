-------------------------- MODULE MCWriteExecutor --------------------------
(***************************************************************************)
(* Small instances of WriteExecutor for TLC.                               *)
(***************************************************************************)
EXTENDS WriteExecutor, TLC

MCDigests == {{c} : c \in Commands}
MCDigest == [c \in Commands |-> {c}]

\* Ids, nonces and slots are interchangeable.
Symmetry == Permutations(Ids) \cup Permutations(Nonces) \cup Permutations(Calls)
=============================================================================
