---------------------------- MODULE ReceiptProofs ----------------------------
(***************************************************************************)
(* Proofs about ReceiptChecks for every set of contexts, resources and     *)
(* keys and every bound.                                                   *)
(*                                                                         *)
(* What is said of a verdict needs to know how the receipt at hand was     *)
(* made (Made), that the records are of dual receipts of one key           *)
(* (RecordsOf), and what the check of this receipt said (Judged).          *)
(***************************************************************************)
EXTENDS ReceiptChecks, OperatorLemmas

Made ==
  receipt # None =>
    /\ SignedOver(receipt, answer.key, answer.over)
    /\ DenialIsRefundable

Judged ==
  verdict # None =>
    /\ receipt # None
    /\ dual = Dual(receipt, Registered)
    /\ verdict.decision = "allow"
         <=> /\ answer.key = Registered /\ answer.over = receipt.status
             /\ receipt.terms = "agreed" /\ receipt.status \in Sayable
    /\ verdict.final = dual.final

IInv == Made /\ Judged /\ RecordsOf(records, Registered)

-----------------------------------------------------------------------------
(* What the pipeline stores is signed over paid, and says so of a denial   *)
(* that no earlier check hides.                                            *)
LEMMA SettleMakes ==
  ASSUME NEW key, NEW named, NEW body \in Bodies, NEW draft \in Drafts("paid", body.hash),
         Settle(key, named, draft, body)
  PROVE  Made'
<1> DEFINE r == Signed(key, draft)
           with == ProviderKey(named)
           expected == Expected(r, with)
           s == [r EXCEPT !.status = ServiceOutcome(r, body, expected)]
<1>1. receipt' = s /\ answer' = [key |-> key, over |-> "paid", with |-> with, body |-> body]
  BY DEF Settle, Take, Drafts
<1>2. SignedOver(r, key, "paid") /\ r.status = "paid"
  BY SigningSigns DEF Drafts
<1>3. /\ s.context = r.context /\ s.response = r.response /\ s.resource = r.resource
      /\ s.at = r.at /\ s.result = r.result /\ s.signature = r.signature /\ s.terms = r.terms
      /\ s.status = ServiceOutcome(r, body, expected)
  BY DEF Signed
<1>4. SignedOver(s, key, "paid")
  BY <1>2, <1>3 DEF SignedOver, ServiceResult, Signature
<1>5. /\ expected.context = r.context /\ expected.terms = "agreed"
      /\ expected.resource = r.resource /\ expected.key = with
      /\ expected.schema = r.schema
  BY DEF Expected
<1>6. r.response = body.hash
  BY DEF Signed, Drafts
<1> HIDE DEF with, expected
<1>7. ASSUME body.denies, r.terms = "agreed", key = with PROVE s.status = "paid_but_not_delivered"
  BY <1>2, <1>3, <1>5, <1>6, <1>7, DenialFound
<1>8. ASSUME ~(r.terms = "agreed" /\ key = with) PROVE s.status = "failed"
  <2>1. CASE r.terms # "agreed"
    BY <1>3, <1>5, <2>1, DenialHidden
  <2>2. CASE key # with
    <3>1. r.signature # Signature(expected.key, r, r.result, r.status)
      BY <1>2, <1>5, <2>2 DEF SignedOver, Signature
    <3> QED BY <1>3, <3>1, DenialHidden
  <2> QED BY <1>8, <2>1, <2>2
<1> HIDE DEF r, s
<1> QED BY <1>1, <1>3, <1>4, <1>7, <1>8 DEF Made, DenialIsRefundable

LEMMA IssueMakes ==
  ASSUME NEW key, NEW status, NEW draft \in Drafts(status, "served"), Issue(key, draft)
  PROVE  Made'
<1>1. /\ receipt' = Signed(key, draft)
      /\ answer' = [key |-> key, over |-> draft.status, with |-> Registered, body |-> Served]
  BY DEF Issue, Take
<1>2. SignedOver(Signed(key, draft), key, draft.status)
  BY SigningSigns DEF Drafts
<1>3. ~Served.denies
  BY DEF Served
<1> QED BY <1>1, <1>2, <1>3 DEF Made, DenialIsRefundable

(* A check judges the receipt at hand and records one more dual receipt.   *)
LEMMA CheckJudges ==
  ASSUME IInv, Check
  PROVE  IInv'
<1>1. /\ receipt # None /\ dual' = Dual(receipt, Registered) /\ UNCHANGED <<receipt, answer>>
      /\ verdict' = VerifyDual(dual', Expected(receipt, Registered), records)
      /\ records' = records \cup {ReplayRecord(Dual(receipt, Registered))}
  BY DEF Check
<1>2. Made'
  BY <1>1 DEF IInv, Made, DenialIsRefundable
<1>3. RecordsOf(records', Registered)
  BY <1>1 DEF IInv, RecordsOf
<1>4. DualHolds(Dual(receipt, Registered), Expected(receipt, Registered), records)
        <=> /\ answer.key = Registered /\ answer.over = receipt.status
            /\ receipt.terms = "agreed" /\ receipt.status \in Sayable
  <2>1. /\ Expected(receipt, Registered).context = receipt.context
        /\ Expected(receipt, Registered).terms = "agreed"
        /\ Expected(receipt, Registered).resource = receipt.resource
        /\ Expected(receipt, Registered).key = Registered
    BY DEF Expected
  <2>2. SignedOver(receipt, answer.key, answer.over) /\ RecordsOf(records, Registered)
    BY <1>1 DEF IInv, Made
  <2> QED BY <2>1, <2>2, AcceptedIff
<1>5. /\ verdict'.decision = "allow"
           <=> DualHolds(Dual(receipt, Registered), Expected(receipt, Registered), records)
      /\ verdict'.final = dual'.final
  BY <1>1 DEF VerifyDual
<1>6. Judged'
  BY <1>1, <1>4, <1>5 DEF Judged
<1> QED BY <1>2, <1>3, <1>6 DEF IInv

LEMMA Inductive == Spec => []IInv
<1>1. Init => IInv
  BY DEF Init, IInv, Made, Judged, RecordsOf
<1>2. IInv /\ [Next]_vars => IInv'
  <2> SUFFICES ASSUME IInv, [Next]_vars PROVE IInv'
    OBVIOUS
  <2>1. CASE \E key \in Keys, named \in Keys \cup {None}, body \in Bodies :
               \E draft \in Drafts("paid", body.hash) : Settle(key, named, draft, body)
    <3>1. PICK key \in Keys, named \in Keys \cup {None}, body \in Bodies :
                 \E draft \in Drafts("paid", body.hash) : Settle(key, named, draft, body)
      BY <2>1
    <3>2. PICK draft \in Drafts("paid", body.hash) : Settle(key, named, draft, body)
      BY <3>1
    <3>3. Made'
      BY <3>2, SettleMakes
    <3>4. verdict' = None /\ records' = records
      BY <3>2 DEF Settle, Take
    <3> QED BY <3>3, <3>4 DEF IInv, Judged
  <2>2. CASE \E key \in Keys, status \in Statuses : \E draft \in Drafts(status, "served") :
               Issue(key, draft)
    <3>1. PICK key \in Keys, status \in Statuses : \E draft \in Drafts(status, "served") :
                 Issue(key, draft)
      BY <2>2
    <3>2. PICK draft \in Drafts(status, "served") : Issue(key, draft)
      BY <3>1
    <3>3. Made'
      BY <3>2, IssueMakes
    <3>4. verdict' = None /\ records' = records
      BY <3>2 DEF Issue, Take
    <3> QED BY <3>3, <3>4 DEF IInv, Judged
  <2>3. CASE Check
    BY <2>3, CheckJudges
  <2>4. CASE UNCHANGED vars
    BY <2>4 DEF vars, IInv, Made, Judged, DenialIsRefundable
  <2> QED BY <2>1, <2>2, <2>3, <2>4 DEF Next
<1> QED BY <1>1, <1>2, PTL DEF Spec

-----------------------------------------------------------------------------
(* The check accepts exactly what the registered key signed over the       *)
(* status the receipt carries, on the agreed terms.                        *)
THEOREM AcceptedExactly == Spec => []AcceptsExactly
<1>1. IInv => AcceptsExactly
  BY DEF IInv, Judged, AcceptsExactly, Sayable
<1> QED BY <1>1, Inductive, PTL

(* An accepted dual receipt says of money and outcome what the receipt     *)
(* said.                                                                   *)
THEOREM AcceptedTells == Spec => []AcceptedTellsAll
<1>1. ASSUME IInv, verdict # None, verdict.decision = "allow"
      PROVE  /\ verdict.final = receipt.status
             /\ dual.payment.status = "failed" <=> receipt.status = "failed"
  <2>1. dual = Dual(receipt, Registered) /\ receipt.status \in Sayable /\ verdict.final = dual.final
    BY <1>1 DEF IInv, Judged
  <2> QED BY <2>1, AllIsTold
<1>2. IInv => AcceptedTellsAll
  BY <1>1 DEF AcceptedTellsAll
<1> QED BY <1>2, Inductive, PTL

(* A denial after payment is on record as one exactly where no check of    *)
(* address or signature fails before, and as a failure otherwise.          *)
THEOREM DenialsAreRefundable == Spec => []DenialIsRefundable
<1>1. IInv => DenialIsRefundable
  BY DEF IInv, Made, DenialIsRefundable
<1> QED BY <1>1, Inductive, PTL

(* One delivery of one payment has one dual receipt.                       *)
THEOREM OneDual == Spec => []OneDualPerDelivery
<1>1. IInv => OneDualPerDelivery
  BY OneRecord DEF IInv, OneDualPerDelivery
<1> QED BY <1>1, Inductive, PTL
=============================================================================
