-------------------------- MODULE EscrowLifecycle --------------------------
(***************************************************************************)
(* What the escrow contract promises to whoever reads it between two       *)
(* transactions: the terms of a payment context are fixed once it is       *)
(* funded, a funded context ends delivered or refunded and stays so, and   *)
(* exactly the refunded contexts have had their value sent back, once.     *)
(* One transaction may move several contexts, some of them through several *)
(* states, because the payer of a refund may call the contract again.      *)
(***************************************************************************)
EXTENDS Naturals

CONSTANTS
  Contexts,   \* payment context hashes other than zero
  Addresses,  \* accounts other than the zero address
  Amounts     \* values a transaction may carry

State == {"Empty", "Funded", "Delivered", "Refunded"}
NoEscrow == [state |-> "Empty"]
Escrow == {NoEscrow}
  \cup [state : State \ {"Empty"}, payer : Addresses, provider : Addresses, amount : Amounts]

VARIABLES
  escrows,    \* the mapping of the contract
  returned    \* value sent back to the payer of each context

(* Where one escrow may be at the end of a transaction. *)
Reaches(from, to) ==
  \/ from = to
  \/ from.state = "Empty"
  \/ /\ from.state = "Funded" /\ to.state \in {"Delivered", "Refunded"}
     /\ to.payer = from.payer /\ to.provider = from.provider /\ to.amount = from.amount

(* What the contract owes to have sent back. *)
Owed(e) == IF e.state = "Refunded" THEN e.amount ELSE 0

Init ==
  /\ escrows = [h \in Contexts |-> NoEscrow]
  /\ returned = [h \in Contexts |-> 0]

Transaction ==
  /\ escrows' \in [Contexts -> Escrow]
  /\ \A h \in Contexts : Reaches(escrows[h], escrows'[h])
  /\ returned' = [h \in Contexts |-> Owed(escrows'[h])]

Spec == Init /\ [][Transaction]_<<escrows, returned>>
=============================================================================
