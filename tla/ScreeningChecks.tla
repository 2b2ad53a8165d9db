---------------------------- MODULE ScreeningChecks ----------------------------
(***************************************************************************)
(* Requests of one mission and provider, one after the other, each an      *)
(* otherwise clean request that deviates in a few respects: what refuses   *)
(* it, what is left reserved, and what the wallet is asked for.            *)
(*                                                                         *)
(* A run is one step up to the wallet's answer: the pipeline awaits        *)
(* nothing before.  What runs do to each other while they wait is the      *)
(* module GuardPipeline.                                                   *)
(***************************************************************************)
EXTENDS Screening

CONSTANT Requests

ASSUME RequestsAssumption ==
  /\ None # "other" /\ None \notin Requests
  /\ \A q \in Requests : q.operation \in {"transfer", "contract_call", "message_sign"}

VARIABLES
  request,   \* the request of the run in progress
  outcome,   \* what the checks made of it
  call,      \* what the wallet was asked for
  taken,     \* has the quote been reserved
  budget     \* the money reserved for it, and what was to be converted for that

vars == <<request, outcome, call, taken, budget>>

-----------------------------------------------------------------------------
Free(status) == [status |-> status, of |-> None]

(* What the review of the reserving request converts.                      *)
Terms(q) == [escrowed |-> Escrowed(q), amount |-> q.amount, decimals |-> q.decimals,
             evm |-> q.entry.evm,
             function |-> IF Calldata(q) = None THEN None ELSE Calldata(q).function]

Init ==
  /\ request = None /\ outcome = None /\ call = None
  /\ taken = FALSE /\ budget = Free("none")

(* What a run does to the reservation before it returns or awaits: a       *)
(* refusal after the lock releases it, an exception does not.  The faulty  *)
(* form forgets to.                                                        *)
Reservation_KeptByRefusal(q, o) ==
  IF o.place # 0 /\ o.place <= LockPlace THEN budget
  ELSE [status |-> "held", of |-> Terms(q)]
Reservation(q, o) ==
  CASE o.place # 0 /\ o.place <= LockPlace -> budget
    [] o.place > LockPlace /\ o.decision # "throws" -> Free("released")
    [] OTHER -> [status |-> "held", of |-> Terms(q)]

Screen(q) ==
  LET o == Screened(q, taken) IN
  /\ request = None
  /\ request' = q /\ outcome' = o
  /\ call' = IF o = Passed /\ ~Declined(q) THEN WalletCall(q) ELSE None
  /\ taken' = (taken \/ o.place = 0 \/ o.place > LockPlace)
  /\ budget' = Reservation(q, o)

(* The run returns what it refused, or threw. *)
Return ==
  /\ request # None /\ outcome # Passed
  /\ request' = None /\ outcome' = None
  /\ UNCHANGED <<call, taken, budget>>

(* The wallet, or executeCawOperation itself, answers that nothing was     *)
(* paid; or the payment executed, which settles the reservation.           *)
Answer ==
  /\ request # None /\ outcome = Passed
  /\ request' = None /\ outcome' = None /\ call' = None
  /\ budget' = Free("released")
  /\ UNCHANGED taken

Next == (\E q \in Requests : Screen(q)) \/ Return \/ Answer

Spec == Init /\ [][Next]_vars

-----------------------------------------------------------------------------
(* Properties                                                              *)

(* What a call carries: nothing, or calldata that pays or approves the     *)
(* registered merchant, the amount that was quoted where it says one, and  *)
(* never all there is; in the escrow under this context only.  Of the      *)
(* functions the adapter knows a call of calls carries those alone that    *)
(* are allowed by themselves; what they carry, and functions it does not   *)
(* know, are not read.                                                     *)
CarriesOnly(data, q) ==
  \/ data = None
  \/ /\ data.function \in {"transfer", "transferFrom", "fund"}
     /\ data.to = "merchant" /\ data.amount = q.amount
     /\ data.function = "fund" => data.context = "this"
  \/ data.function = "approve" /\ data.to = "merchant" /\ data.amount # Unlimited
  \/ /\ data.function = "multicall"
     /\ data.inner \cap KnownFunctions \subseteq {"transfer", "approve", "transferFrom", "multicall"}

(* Eighteen checks, each of one pair of facts, add up: whatever the wallet *)
(* is asked for is for the resource that was requested, at the provider    *)
(* registered for it, whom the challenge, the registry and the trust       *)
(* record all name, under a quote, if there is one, that this provider     *)
(* signed for this payment, with nothing secret in its metadata.  A        *)
(* transfer goes to the merchant; a contract call goes where the challenge *)
(* says its contract is, which no check looks at, and only what it carries *)
(* is bound to the merchant.                                               *)
CallIsBound ==
  call # None =>
    LET q == request IN
    /\ Canonical(q.url) = Canonical(q.resource) /\ Canonical(q.metadata) = Canonical(q.url)
    /\ q.payTo = "merchant" /\ TrustRecord(q).payTo = "merchant"
    /\ Endpoint(TrustRecord(q).endpoint) = Endpoint(q.resource)
    /\ q.quote # None => q.quote.key = q.entry.publicKey /\ q.quote.context # "other"
    /\ "block" \notin q.found
    /\ \/ call.signs
       \/ /\ call.amount = q.amount /\ CarriesOnly(call.data, q)
          /\ call.to = "merchant" \/ (q.operation = "contract_call" /\ call.to = q.address)

(* Money stays reserved for a payment that was never made only where       *)
(* something does not convert: the decimals, the amount or the merchant's  *)
(* address of a fund call (service_escrow_onchain.ts:93, 107, 115), the    *)
(* words of truncated calldata (adapter.ts:73), or an amount that calldata *)
(* is compared with (amount.ts:5).  Every other way out of the checks      *)
(* frees the budget or never took it.                                      *)
HeldOnlyByThrows ==
  request = None /\ budget.status = "held" =>
    LET terms == budget.of
    IN  IF terms.escrowed THEN ~terms.decimals \/ ~Whole(terms.amount) \/ ~terms.evm
        ELSE \/ terms.function = "truncated"
             \/ terms.function \in {"transfer", "transferFrom"} /\ terms.amount = Garbled
=============================================================================
