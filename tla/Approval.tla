------------------------------ MODULE Approval ------------------------------
(***************************************************************************)
(* What a confirmation gate promises, whatever its timers, files, maps and *)
(* processes: a preview offers an approval under a nonce nobody has used,  *)
(* the human may sign it, and a write is released at most once, for an     *)
(* approval that is still pending and that the human did sign.  Pending    *)
(* approvals may be closed at any time (expiry, restart), several at once  *)
(* and in the same step as another operation, and a closed one never comes *)
(* back.                                                                   *)
(*                                                                         *)
(* ConfirmGate implements this specification.                              *)
(***************************************************************************)
EXTENDS Sequences

CONSTANT Nonces

VARIABLES
  status,     \* the life of each nonce
  signed,     \* the nonces the human has signed
  released    \* the nonces whose write was released, in order

vars == <<status, signed, released>>

Pending == {n \in Nonces : status[n] = "pending"}

TypeOK ==
  /\ status \in [Nonces -> {"free", "pending", "released", "closed"}]
  /\ signed \subseteq Nonces
  /\ released \in Seq(Nonces)

Init ==
  /\ status = [n \in Nonces |-> "free"]
  /\ signed = {}
  /\ released = <<>>

(***************************************************************************)
(* The status after the nonces of C are closed and n, if it is a nonce,    *)
(* moves to st.                                                            *)
(***************************************************************************)
Settle(C, n, st) ==
  [m \in Nonces |-> IF m = n THEN st ELSE IF m \in C THEN "closed" ELSE status[m]]

Offer(n, C) ==
  /\ status[n] = "free"
  /\ status' = Settle(C, n, "pending")
  /\ UNCHANGED <<signed, released>>

Sign(n) ==
  /\ status[n] # "free"
  /\ signed' = signed \cup {n}
  /\ UNCHANGED <<status, released>>

Release(n, C) ==
  /\ status[n] = "pending"
  /\ n \in signed
  /\ status' = Settle(C, n, "released")
  /\ released' = Append(released, n)
  /\ UNCHANGED signed

Close(C) ==
  /\ status' = [m \in Nonces |-> IF m \in C THEN "closed" ELSE status[m]]
  /\ UNCHANGED <<signed, released>>

Next ==
  \/ \E C \in SUBSET Pending : Close(C)
  \/ \E n \in Nonces :
       \/ Sign(n)
       \/ \E C \in SUBSET Pending : Offer(n, C) \/ Release(n, C)

Spec == Init /\ [][Next]_vars
=============================================================================
