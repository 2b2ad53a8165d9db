------------------------------ MODULE Receipts ------------------------------
(***************************************************************************)
(* The receipts of a paid service (services/runtime/src/receipt/): the     *)
(* check of a service receipt, the dual receipt built from it, and the     *)
(* check of a dual receipt against what the payment context expects and    *)
(* against the records of earlier ones.                                    *)
(*                                                                         *)
(* A hash or a signature is the value it is made of, tagged where two of   *)
(* them could be the same value: equal hashes are equal contents.  The     *)
(* fields that are only ever compared one by one with an expected value    *)
(* (request, pact, provider, merchant, amount, asset, chain, token) are    *)
(* one value, terms.                                                       *)
(***************************************************************************)
EXTENDS Naturals

Statuses == {"paid", "delivered", "refundable", "paid_but_not_delivered", "refunded", "failed"}

(* buildServiceResultHash and signReceiptForDemo.                          *)
ServiceResult(r, status) == <<r.response, r.resource, r.at, status>>
Signature(key, r, result, status) == <<key, r.context, r.response, r.resource, result, r.at, status>>

(* What a provider with this key signs over a receipt of its own status.   *)
Signed(key, r) ==
  LET result == ServiceResult(r, r.status)
  IN  [context |-> r.context, terms |-> r.terms, audit |-> r.audit, response |-> r.response,
       resource |-> r.resource, at |-> r.at, status |-> r.status, clean |-> r.clean,
       schema |-> r.schema, result |-> result,
       signature |-> Signature(key, r, result, r.status)]

(* paymentStatusFor, and one that forgets the failures. *)
PaymentStatus_FailedIsPaid(status) ==
  CASE status = "refunded" -> "refunded"
    [] status \in {"refundable", "paid_but_not_delivered"} -> "refundable"
    [] OTHER -> "paid"
PaymentStatus(status) ==
  CASE status = "refunded" -> "refunded"
    [] status \in {"refundable", "paid_but_not_delivered"} -> "refundable"
    [] status = "failed" -> "failed"
    [] OTHER -> "paid"

(* deliveryStatusFor *)
DeliveryStatus(status) ==
  CASE status = "delivered" -> "delivered"
    [] status \in {"refundable", "paid_but_not_delivered"} -> "paid_but_not_delivered"
    [] OTHER -> "failed"

(* finalStatusFor *)
FinalStatus(payment, delivery) ==
  CASE payment.status = "refunded" -> "refunded"
    [] delivery.status = "delivered" /\ payment.status = "paid" -> "delivered"
    [] payment.status = "refundable" \/ delivery.status = "paid_but_not_delivered"
         -> "paid_but_not_delivered"
    [] OTHER -> "failed"

-----------------------------------------------------------------------------
(* createDualReceipt: the payment half, *)
Payment(r) ==
  [context |-> r.context, terms |-> r.terms, audit |-> r.audit,
   status |-> PaymentStatus(r.status)]

(* the delivery half, which carries the hash of the payment half (the      *)
(* faulty form leaves it out of what is hashed),                           *)
Delivery_Unlinked(r) ==
  [context |-> r.context, response |-> r.response, resource |-> r.resource, at |-> r.at,
   signature |-> r.signature, status |-> DeliveryStatus(r.status),
   result |-> ServiceResult(r, r.status), payment |-> "unlinked"]
Delivery(r) ==
  [context |-> r.context, response |-> r.response, resource |-> r.resource, at |-> r.at,
   signature |-> r.signature, status |-> DeliveryStatus(r.status),
   result |-> ServiceResult(r, r.status), payment |-> Payment(r)]

(* and the whole, with whether the signature is the one key makes.         *)
Dual(r, key) ==
  [payment |-> Payment(r), delivery |-> Delivery(r), key |-> key,
   verified |-> r.signature = Signature(key, r, ServiceResult(r, r.status), r.status),
   final |-> FinalStatus(Payment(r), Delivery(r))]

(* What is kept of a dual receipt: DualReceiptReplayRecord.                *)
ReplayRecord(dual) == [context |-> dual.payment.context, delivery |-> dual.delivery, dual |-> dual]

(* verifyDualReceipt recomputes what the provider signed from the delivery *)
(* half, and with its status.                                              *)
ResultHolds(d) == d.result = ServiceResult(d, d.status)
SignatureHolds(dual, key) ==
  dual.delivery.signature = Signature(key, dual.delivery, dual.delivery.result, dual.delivery.status)

Replays(dual, records) ==
  {old \in records : old.context = dual.payment.context /\ old.delivery = dual.delivery}

Conflicts(dual, records) == \E old \in Replays(dual, records) : old.dual # dual

(* expected: context, terms, resource and key.  The faulty form leaves the *)
(* signature out.                                                          *)
DualHolds_Unsigned(dual, expected, records) ==
  /\ dual.payment.context = expected.context /\ dual.delivery.context = expected.context
  /\ dual.payment.terms = expected.terms
  /\ dual.delivery.resource = expected.resource
  /\ ResultHolds(dual.delivery)
  /\ dual.key = expected.key
  /\ dual.final = FinalStatus(dual.payment, dual.delivery)
  /\ ~Conflicts(dual, records)
DualHolds(dual, expected, records) ==
  /\ dual.payment.context = expected.context /\ dual.delivery.context = expected.context
  /\ dual.payment.terms = expected.terms
  /\ dual.delivery.resource = expected.resource
  /\ ResultHolds(dual.delivery)
  /\ SignatureHolds(dual, expected.key)
  /\ dual.key = expected.key
  /\ dual.verified = SignatureHolds(dual, expected.key)
  /\ dual.final = FinalStatus(dual.payment, dual.delivery)
  /\ ~Conflicts(dual, records)

VerifyDual(dual, expected, records) ==
  [decision |-> IF DualHolds(dual, expected, records) THEN "allow" ELSE "block",
   final |-> dual.final,
   idempotent |-> Replays(dual, records) # {} /\ ~Conflicts(dual, records)]

-----------------------------------------------------------------------------
(* verifyServiceReceipt: the checks that decide, in the order they are     *)
(* made.  body: its hash, whether it has a known shape and denies          *)
(* delivery.  schema: whether a response schema is named.  The faulty form  *)
(* looks for personal data first.                                          *)
ServiceChecks_PiiFirst(r, body, expected) ==
  << <<"terms", r.context = expected.context /\ r.terms = expected.terms>>,
     <<"resource", r.resource = expected.resource>>,
     <<"responseHash", r.response = body.hash>>,
     <<"providerSignature", r.signature = Signature(expected.key, r, r.result, r.status)>>,
     <<"responseSchema", ~expected.schema \/ r.schema>>,
     <<"responseBodyShape", ~expected.schema \/ body.shaped>>,
     <<"noRawPii", r.clean>>,
     <<"deliveryNotDenied", ~body.denies>>,
     <<"serviceResultHash", r.result = ServiceResult(r, r.status)>> >>
ServiceChecks(r, body, expected) ==
  << <<"terms", r.context = expected.context /\ r.terms = expected.terms>>,
     <<"resource", r.resource = expected.resource>>,
     <<"responseHash", r.response = body.hash>>,
     <<"providerSignature", r.signature = Signature(expected.key, r, r.result, r.status)>>,
     <<"responseSchema", ~expected.schema \/ r.schema>>,
     <<"responseBodyShape", ~expected.schema \/ body.shaped>>,
     <<"deliveryNotDenied", ~body.denies>>,
     <<"noRawPii", r.clean>>,
     <<"serviceResultHash", r.result = ServiceResult(r, r.status)>> >>

(* The first check to fail names the outcome. *)
ServiceOutcome(r, body, expected) ==
  LET checks == ServiceChecks(r, body, expected)
      failed == {i \in 1..9 : ~checks[i][2]}
      first == checks[CHOOSE i \in failed : \A j \in failed : i <= j][1]
  IN  IF failed = {} THEN "delivered"
      ELSE IF \/ first = "deliveryNotDenied"
              \/ first \in {"responseBodyShape", "responseSchema"} /\ body.denies
      THEN "paid_but_not_delivered"
      ELSE "failed"
=============================================================================
