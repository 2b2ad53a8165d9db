--------------------------- MODULE ReceiptChecks ---------------------------
(***************************************************************************)
(* A receipt from the provider's answer to a dual receipt on record: the   *)
(* end of the guard pipeline builds a service receipt of status paid and   *)
(* checks it, which overwrites its status; a caller that has a service     *)
(* receipt makes a dual receipt of it and checks that against the records  *)
(* (services/runtime/src/guard/pipeline.ts, receipt/, mission_flow.ts).    *)
(***************************************************************************)
EXTENDS Receipts

CONSTANTS
  Contexts,   \* payment context hashes
  Resources,  \* paid resources
  Audits,     \* audit log ids of a payment
  Keys,       \* provider keys, the registered one among them
  Registered, \* the key in the provider registry
  MaxTime,    \* bound: delivery timestamps
  MaxDuals,   \* bound: dual receipts checked
  None

ASSUME ReceiptAssumption ==
  /\ Registered \in Keys /\ None \notin Keys
  /\ MaxTime \in Nat /\ MaxDuals \in Nat

VARIABLES
  receipt,   \* the service receipt at hand
  answer,    \* how it was obtained: key and status signed over, the key it was
             \* checked with, body (history)
  dual,      \* the dual receipt made of it
  verdict,   \* what its check said
  records,   \* replay records of the dual receipts so far
  duals      \* how many were checked (bound)

vars == <<receipt, answer, dual, verdict, records, duals>>

(* A body that denies delivery has one of the fields a known shape has.    *)
Served == [hash |-> "served", shaped |-> TRUE, denies |-> FALSE]
Bodies == {Served,
           [hash |-> "unknown", shaped |-> FALSE, denies |-> FALSE],
           [hash |-> "denied", shaped |-> TRUE, denies |-> TRUE]}

(* The key the pipeline checks with: the challenge's own, if it names one. *)
ProviderKey(named) == IF named # None THEN named ELSE Registered

(* What is expected of a receipt.  Its terms are other than agreed where   *)
(* the provider's address in the challenge is not the merchant's.          *)
Expected(r, key) == [context |-> r.context, terms |-> "agreed", resource |-> r.resource,
                     key |-> key, schema |-> r.schema]

Init ==
  /\ receipt = None /\ answer = None /\ dual = None /\ verdict = None
  /\ records = {} /\ duals = 0

-----------------------------------------------------------------------------
Drafts(status, response) ==
  [context : Contexts, terms : {"agreed", "other"}, resource : Resources, at : 0..MaxTime,
   status : {status}, response : {response}, audit : Audits, clean : BOOLEAN, schema : BOOLEAN]

Take(r, how) ==
  /\ receipt # None => verdict # None
  /\ duals < MaxDuals
  /\ receipt' = r /\ answer' = how
  /\ dual' = None /\ verdict' = None
  /\ UNCHANGED <<records, duals>>

(* The tail of runGuardPipeline after the wallet's allow: the provider's   *)
(* signature is over the receipt as paid; the check writes its outcome     *)
(* into the receipt.                                                       *)
Settle(key, named, draft, body) ==
  LET r == Signed(key, draft)
      outcome == ServiceOutcome(r, body, Expected(r, ProviderKey(named)))
  IN  Take([r EXCEPT !.status = outcome],
           [key |-> key, over |-> draft.status, with |-> ProviderKey(named), body |-> body])

(* A service receipt that carries the status it was signed over.           *)
Issue(key, draft) ==
  Take(Signed(key, draft),
       [key |-> key, over |-> draft.status, with |-> Registered, body |-> Served])

(* createDualReceipt and verifyDualReceipt, and the row the replay records *)
(* are read from.                                                          *)
Check ==
  /\ receipt # None /\ dual = None /\ duals < MaxDuals
  /\ dual' = Dual(receipt, Registered)
  /\ verdict' = VerifyDual(dual', Expected(receipt, Registered), records)
  /\ records' = records \cup {ReplayRecord(dual')}
  /\ duals' = duals + 1
  /\ UNCHANGED <<receipt, answer>>

Next ==
  \/ \E key \in Keys, named \in Keys \cup {None}, body \in Bodies :
       \E draft \in Drafts("paid", body.hash) : Settle(key, named, draft, body)
  \/ \E key \in Keys, status \in Statuses : \E draft \in Drafts(status, "served") : Issue(key, draft)
  \/ Check

Spec == Init /\ [][Next]_vars

-----------------------------------------------------------------------------
(* Properties                                                              *)

(* The check of a dual receipt recomputes the provider's signature from    *)
(* the delivery half alone: it accepts exactly the receipts that the       *)
(* registered key signed over the status they carry, on the terms that     *)
(* were agreed, for the three statuses the delivery half can say; a key    *)
(* that only the challenge named counts for nothing.                       *)
AcceptsExactly ==
  verdict # None =>
    ( verdict.decision = "allow" <=>
        /\ answer.key = Registered /\ answer.over = receipt.status
        /\ receipt.terms = "agreed"
        /\ receipt.status \in {"delivered", "paid_but_not_delivered", "failed"} )

(* What an accepted dual receipt says of the money and of the outcome is   *)
(* what the service receipt said.                                          *)
AcceptedTellsAll ==
  verdict # None /\ verdict.decision = "allow" =>
    /\ verdict.final = receipt.status
    /\ dual.payment.status = "failed" <=> receipt.status = "failed"

(* An answer that refuses delivery after payment is recorded as paid and   *)
(* not delivered, the status that a refund starts from, whatever its       *)
(* shape and however personal the receipt's data, if and only if the       *)
(* checks that come before hold: the provider's address is the merchant's  *)
(* and the signature that of the key the pipeline takes.  Otherwise these  *)
(* fail first and the refusal is recorded as a failure.                    *)
DenialIsRefundable ==
  receipt # None /\ answer.body.denies =>
    receipt.status = IF receipt.terms = "agreed" /\ answer.key = answer.with
                     THEN "paid_but_not_delivered" ELSE "failed"

(* However often and in whatever order receipts are checked, one delivery  *)
(* of one payment has one dual receipt.                                    *)
OneDualPerDelivery ==
  \A a, b \in records : a.context = b.context /\ a.delivery = b.delivery => a.dual = b.dual

=============================================================================
