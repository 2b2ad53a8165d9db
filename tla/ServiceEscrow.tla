--------------------------- MODULE ServiceEscrow ---------------------------
(***************************************************************************)
(* The escrow contract (contracts/ServiceEscrow.sol) as the EVM runs it.   *)
(*                                                                         *)
(* refund sends the value with an external call, so that the payer may     *)
(* call fund, deliver and refund again before the call returns, and may    *)
(* make its own refund fail afterwards.  A frame of the stack is a refund  *)
(* whose external call is running; it keeps what the storage was when the  *)
(* refund was called, which is what a revert restores.  A call that        *)
(* reverts at once changes nothing and is no step.                         *)
(***************************************************************************)
EXTENDS Naturals, Sequences, Functions

CONSTANTS
  Contexts,   \* payment context hashes other than zero
  Addresses,  \* accounts other than the zero address
  Amounts     \* values a transaction may carry

ASSUME EscrowAssumption == Amounts \subseteq Nat \ {0}

VARIABLES
  escrows,   \* mapping(bytes32 => Escrow)
  balance,   \* value held by the contract
  returned,  \* value sent back to the payer of each context (history)
  stack      \* refunds whose external call is running, outermost first

vars == <<escrows, balance, returned, stack>>

(* What a reader outside the running transaction sees. *)
Committed ==
  IF stack = <<>> THEN [escrows |-> escrows, returned |-> returned]
  ELSE [escrows |-> stack[1].escrows, returned |-> stack[1].returned]

Lifecycle == INSTANCE EscrowLifecycle
  WITH escrows <- Committed.escrows, returned <- Committed.returned

Frame == [context : Contexts, escrows : [Contexts -> Lifecycle!Escrow],
          balance : Nat, returned : [Contexts -> Nat]]

TypeOK ==
  /\ escrows \in [Contexts -> Lifecycle!Escrow]
  /\ balance \in Nat
  /\ returned \in [Contexts -> Nat]
  /\ stack \in Seq(Frame)

Init ==
  /\ escrows = [h \in Contexts |-> Lifecycle!NoEscrow]
  /\ balance = 0
  /\ returned = [h \in Contexts |-> 0]
  /\ stack = <<>>

(* fund: the context is free, the value sent is the amount named and not   *)
(* zero (amounts, contexts and addresses of the model are never zero).     *)
(* The faulty forms forget the provider, or the state check.               *)
Fund_NoProvider(sender, h, provider, amount) ==
  /\ escrows[h].state = "Empty"
  /\ escrows' = [escrows EXCEPT ![h] = [state |-> "Funded", payer |-> sender,
                                        amount |-> amount]]
  /\ balance' = balance + amount
  /\ UNCHANGED <<returned, stack>>
Fund_Again(sender, h, provider, amount) ==
  /\ escrows[h].state # "Refunded"
  /\ escrows' = [escrows EXCEPT ![h] = [state |-> "Funded", payer |-> sender,
                                        provider |-> provider, amount |-> amount]]
  /\ balance' = balance + amount
  /\ UNCHANGED <<returned, stack>>
Fund(sender, h, provider, amount) ==
  /\ escrows[h].state = "Empty"
  /\ escrows' = [escrows EXCEPT ![h] = [state |-> "Funded", payer |-> sender,
                                        provider |-> provider, amount |-> amount]]
  /\ balance' = balance + amount
  /\ UNCHANGED <<returned, stack>>

(* deliver: called by the provider; the value stays in the contract.  The  *)
(* faulty form only checks that there is something not yet delivered.      *)
Deliver_NotRefundable(sender, h) ==
  /\ escrows[h].state \notin {"Empty", "Delivered"}
  /\ sender = escrows[h].provider
  /\ escrows' = [escrows EXCEPT ![h].state = "Delivered"]
  /\ UNCHANGED <<balance, returned, stack>>
Deliver(sender, h) ==
  /\ escrows[h].state = "Funded"
  /\ sender = escrows[h].provider
  /\ escrows' = [escrows EXCEPT ![h].state = "Delivered"]
  /\ UNCHANGED <<balance, returned, stack>>

(* refund up to its external call: called by the payer, the state is set   *)
(* first, then the value leaves; with too little value the call fails and  *)
(* everything reverts.  The faulty form sends before it sets the state.    *)
Push(h) ==
  stack' = Append(stack, [context |-> h, escrows |-> escrows,
                          balance |-> balance, returned |-> returned])
Refund_SendsFirst(sender, h) ==
  /\ escrows[h].state = "Funded"
  /\ sender = escrows[h].payer
  /\ escrows[h].amount <= balance
  /\ balance' = balance - escrows[h].amount
  /\ returned' = [returned EXCEPT ![h] = @ + escrows[h].amount]
  /\ Push(h)
  /\ UNCHANGED escrows
Refund(sender, h) ==
  /\ escrows[h].state = "Funded"
  /\ sender = escrows[h].payer
  /\ escrows[h].amount <= balance
  /\ escrows' = [escrows EXCEPT ![h].state = "Refunded"]
  /\ balance' = balance - escrows[h].amount
  /\ returned' = [returned EXCEPT ![h] = @ + escrows[h].amount]
  /\ Push(h)

(* The external call of the innermost refund returns, or it fails and the  *)
(* refund reverts to where it was called; the faulty form restores the     *)
(* storage but not the value.                                              *)
Top == stack[Len(stack)]
Pop == stack' = SubSeq(stack, 1, Len(stack) - 1)

CallReturns == stack # <<>> /\ Pop /\ UNCHANGED <<escrows, balance, returned>>

CallFails_KeepsState ==
  /\ stack # <<>> /\ Pop
  /\ balance' = Top.balance /\ returned' = Top.returned
  /\ UNCHANGED escrows
CallFails ==
  /\ stack # <<>> /\ Pop
  /\ escrows' = Top.escrows /\ balance' = Top.balance /\ returned' = Top.returned

Next ==
  \/ \E sender \in Addresses, h \in Contexts :
       \/ \E provider \in Addresses, amount \in Amounts : Fund(sender, h, provider, amount)
       \/ Deliver(sender, h)
       \/ Refund(sender, h)
  \/ CallReturns
  \/ CallFails

Spec == Init /\ [][Next]_vars

-----------------------------------------------------------------------------
(* Properties                                                              *)

(* The contract holds the value of every funded or delivered context and   *)
(* nothing else, also while the payer of a refund runs its own code: no    *)
(* refund can fail for want of value, none is paid from another context's. *)
Holding(e) == {h \in Contexts : e[h].state \in {"Funded", "Delivered"}}
Held(e) == SumFunction([h \in Holding(e) |-> e[h].amount])
Solvent == balance = Held(escrows)

(* A payer that calls back gets its value once, and a refund that reverts  *)
(* takes it back: what was sent is what the refunded contexts hold.        *)
ReturnedOnce == \A h \in Contexts : returned[h] = Lifecycle!Owed(escrows[h])

(* While a refund's external call runs, its context is refunded for every  *)
(* call made from it, and no context has two refunds running.              *)
RefundsDoNotNest ==
  \A i \in 1..Len(stack) :
    /\ escrows[stack[i].context].state = "Refunded"
    /\ \A j \in 1..Len(stack) : i # j => stack[i].context # stack[j].context

(* Between transactions the contract implements the lifecycle it promises, *)
(* whatever the payers' code does inside one.                              *)
ImplementsLifecycle == Lifecycle!Spec
=============================================================================
