--------------------------- MODULE MCVigorSession ---------------------------
(***************************************************************************)
(* Small instances of VigorSession for TLC: reads of one registered        *)
(* command, writes of another and of a forbidden one.                      *)
(***************************************************************************)
EXTENDS VigorSession, TLC

CONSTANTS ShowStatus, SetName, Halt, Unlisted, BadRead, BadWrite

MCCommands == {ShowStatus, SetName, Halt, Unlisted}
MCCommand ==
  [c \in Calls |-> IF c = BadRead THEN Unlisted
                   ELSE IF c = BadWrite THEN Halt
                   ELSE IF c \in Reads THEN ShowStatus ELSE SetName]
MCRegistered == {ShowStatus}
MCForbidden == {Halt}

Symmetry == Permutations(Reads \ {BadRead}) \cup Permutations(Writes \ {BadWrite})
=============================================================================
