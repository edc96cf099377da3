--------------------------- MODULE CommandLedger ---------------------------
(***************************************************************************)
(* What LoxoneConnection promises the entities about a command: once the   *)
(* call is made it is pending; it reaches the Miniserver at most once, or  *)
(* it is gone; neither is ever undone.  A refused call is gone at once.    *)
(***************************************************************************)
CONSTANT Commands

VARIABLE ledger

Init == ledger = [c \in Commands |-> "new"]

Call(c) ==
  /\ ledger[c] = "new"
  /\ \E s \in {"pending", "gone"} : ledger' = [ledger EXCEPT ![c] = s]

Deliver(c) ==
  ledger[c] = "pending" /\ ledger' = [ledger EXCEPT ![c] = "sent"]

\* A full queue, a lost socket, a timeout or a close may lose several at once.
Lose(S) ==
  /\ S # {} /\ \A c \in S : ledger[c] = "pending"
  /\ ledger' = [c \in Commands |-> IF c \in S THEN "gone" ELSE ledger[c]]

Next ==
  \/ \E c \in Commands : Call(c) \/ Deliver(c)
  \/ \E S \in SUBSET Commands : Lose(S)

Spec == Init /\ [][Next]_ledger

=============================================================================
