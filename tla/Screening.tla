------------------------------- MODULE Screening -------------------------------
(***************************************************************************)
(* The checks that runGuardPipeline (services/runtime/src/guard/           *)
(* pipeline.ts) makes of one request before the wallet is called, in its   *)
(* order, and what it then asks the wallet for.                            *)
(*                                                                         *)
(* A request is a record of what the checks can tell apart.  Urls are      *)
(* names (Canonical says which are spelled differently and are the same    *)
(* resource), addresses are "merchant" or "stranger", and an amount is     *)
(* counted in halves of a unit, so that 2 is the text "1" and 1 is "0.5";  *)
(* Garbled is a text that is no number.  A context is "this", the one the  *)
(* pipeline is about to bind, or "other".                                  *)
(***************************************************************************)
EXTENDS Integers, Sequences

CONSTANT None

Garbled == -1
Unlimited == 1000  \* 2^256 - 1

-----------------------------------------------------------------------------
(* Urls                                                                    *)

Readable(url) == url \notin {None, "unreadable"}

(* canonicalizeUrl: lower case, no fragment, unreserved characters         *)
(* decoded, query sorted; "report%" is the report's url with one of them   *)
(* encoded.                                                                *)
Canonical(url) == IF url = "report%" THEN "report" ELSE url
Origin(url) == IF url = "elsewhere" THEN "other" ELSE "provider"

-----------------------------------------------------------------------------
(* validateProviderRegistry.  The chain and the token it compares are the  *)
(* entry's own; the path is compared as it is spelled.                     *)
RegistryHolds(q) ==
  /\ q.resource \in q.entry.allowed
  /\ q.payTo = "merchant"
  /\ q.facilitator = q.entry.facilitator
  /\ q.entry.status = "allowed"
  /\ q.entry.publicKey # None

(* chooseRecord: the live source's record when it is verified, else the    *)
(* demo record of the entry's agent.                                       *)
TrustRecord(q) == IF q.live # None THEN q.live ELSE q.demo

(* The endpoint is compared without its query. *)
Endpoint(url) == IF url = "report?" THEN "report" ELSE url

(* validateERC8004Trust; below half the threshold, or below 20, is a block. *)
Identified(record, q) ==
  /\ Endpoint(record.endpoint) = Endpoint(q.resource)
  /\ record.payTo = q.payTo
  /\ record.denied <= 2
TooLow(record, q) ==
  /\ record.reputation < q.entry.threshold
  /\ record.reputation < 20 \/ 2 * record.reputation < q.entry.threshold

TrustDecision(q) ==
  LET record == TrustRecord(q)
  IN  IF record = None THEN "fallback_required"
      ELSE IF ~Identified(record, q) \/ TooLow(record, q) THEN "block"
      ELSE IF q.live # None /\ record.reputation >= q.entry.threshold THEN "allow"
      ELSE "require_approval"

-----------------------------------------------------------------------------
(* The metadata firewall: what its detectors found, as the actions they    *)
(* ask for.  scanMetadata decides by the worst; what it sanitises is       *)
(* found no more by another scan (the faulty form removes secrets too).    *)
Severity == << "redact", "hash_only", "require_approval", "block" >>
FirewallDecision(found) ==
  LET worst == {i \in DOMAIN Severity : Severity[i] \in found
                                       /\ \A j \in i + 1 .. 4 : Severity[j] \notin found}
  IN  IF worst = {} THEN "allow" ELSE Severity[CHOOSE i \in worst : TRUE]

Sanitised_All(found) == {}
Sanitised(found) == found \ {"redact", "hash_only"}

-----------------------------------------------------------------------------
(* verifySignedProviderQuote: signed with the entry's key over the terms   *)
(* of this challenge.                                                      *)
QuoteHolds(q) == q.quote.key = q.entry.publicKey /\ q.quote.terms = "this"

-----------------------------------------------------------------------------
(* ClearSign                                                               *)

Escrowed(q) == q.operation = "contract_call" /\ q.service = "escrowed-delivery"

(* normalizeUint256: a whole number of wei.                                *)
Whole(amount) == amount # Garbled /\ amount % 2 = 0

(* buildServiceEscrowFundCalldata of the context being bound, once its     *)
(* decimals, its amount and the merchant's address convert.                *)
FundConverts(q) == q.decimals /\ Whole(q.amount) /\ q.entry.evm
Fund(q) == [function |-> "fund", to |-> "merchant", amount |-> q.amount,
            context |-> "this", inner |-> {}]

(* The calldata that is reviewed and handed to executeCawOperation: the    *)
(* provider's, or else what it sent as signature, whose first bytes select *)
(* no known function.                                                      *)
SignatureText == [function |-> "unknown", to |-> None, amount |-> 0, context |-> None, inner |-> {}]
Calldata(q) ==
  CASE Escrowed(q) -> Fund(q)
    [] ~Escrowed(q) /\ q.calldata = None /\ q.signed -> SignatureText
    [] OTHER -> q.calldata

(* The selectors the adapter knows; it looks for no other in what a        *)
(* multicall carries.                                                      *)
KnownFunctions == {"transfer", "approve", "transferFrom", "multicall", "mint", "withdraw",
                   "fund", "refund", "deliver"}
AllowedFunctions(q) ==
  IF Escrowed(q) THEN {"fund"} ELSE {"transfer", "approve", "transferFrom", "multicall"}

(* The address in calldata is an EVM address, and is compared with the     *)
(* entry's.                                                                *)
Names(data, q) == data.to = "merchant" /\ q.entry.evm

(* applyParamsMatchPolicy is used with the calldata made above, which      *)
(* holds it.  The amount is compared as a number with the challenge's.     *)
(* The faulty form compares whom a transfer pays and not how much.         *)
CalldataHolds_AnyAmount(q, data) ==
  /\ data.function \in AllowedFunctions(q)
  /\ data.function = "approve" => data.amount # Unlimited /\ Names(data, q)
  /\ data.function \in {"transfer", "transferFrom"} => Names(data, q)
  /\ data.function = "multicall" => data.inner \cap KnownFunctions \subseteq AllowedFunctions(q)
  /\ data.function = "fund" => data.context = "this"
CalldataHolds(q, data) ==
  /\ data.function \in AllowedFunctions(q)
  /\ data.function = "approve" => data.amount # Unlimited /\ Names(data, q)
  /\ data.function \in {"transfer", "transferFrom"} => Names(data, q) /\ data.amount = q.amount
  /\ data.function = "multicall" => data.inner \cap KnownFunctions \subseteq AllowedFunctions(q)
  /\ data.function = "fund" => data.context = "this"

(* The review throws at a known selector whose words are missing           *)
(* (readWord), and where it compares an amount that is no number           *)
(* (compareDecimalStrings).                                                *)
DecodeThrows(q) == Calldata(q) # None /\ Calldata(q).function = "truncated"
CompareThrows(q) ==
  /\ q.amount = Garbled
  /\ Calldata(q) # None
  /\ Calldata(q).function \in {"transfer", "transferFrom"}

(* The provider's body is reviewed as typed data: it has to name the       *)
(* context.  Without body and calldata the review is unavailable, which    *)
(* asks for an approval and stops nothing.                                 *)
ClearSigned(q) ==
  /\ q.body # None => q.body = "this"
  /\ Calldata(q) # None => CalldataHolds(q, Calldata(q))

-----------------------------------------------------------------------------
(* The checks in their order: the layer that records the refusal, the      *)
(* decision, and whether the request passes.  "throws" leaves no event.    *)
(* listed: the registry has an entry of the origin.  taken: the quote and  *)
(* the nonce of this mission and provider are.                             *)
Screens(q, taken) ==
  << <<"resource_binding", "block", Readable(q.resource) /\ Readable(q.url)>>,
     <<"http_headers", "block", q.paymentHeaders <= 1>>,
     <<"resource_binding", "block", Canonical(q.url) = Canonical(q.resource)>>,
     <<"provider_registry", "block", q.listed /\ Origin(q.url) = "provider">>,
     <<"challenge", "throws", q.complete /\ ~q.expired>>,
     <<"provider_registry", "throws", q.facilitator # "unreadable" \/ q.entry.facilitator = None>>,
     <<"provider_registry", "block", RegistryHolds(q)>>,
     <<"erc8004", "block", TrustDecision(q) # "block">>,
     <<"erc8004", "fallback_required", TrustDecision(q) # "fallback_required">>,
     <<"metadata_firewall", "block", FirewallDecision(q.found) # "block">>,
     <<"resource_binding", "block",
       Readable(q.metadata) /\ Canonical(q.metadata) = Canonical(q.url)>>,
     <<"provider_quote", "block", q.quote = None \/ QuoteHolds(q)>>,
     <<"provider_quote", "block", q.quote = None \/ q.quote.context \in {None, "this"}>>,
     <<"quote_lock", "block", ~taken>>,
     <<"service_escrow", "block", Escrowed(q) => q.address # None>>,
     <<"service_escrow", "throws", Escrowed(q) => FundConverts(q)>>,
     <<"clearsig", "throws", ~DecodeThrows(q) /\ ~CompareThrows(q)>>,
     <<"clearsig", "block", ClearSigned(q)>> >>

Refusals(q, taken) ==
  LET screens == Screens(q, taken) IN {i \in DOMAIN screens : ~screens[i][3]}

(* The first one refuses; "wallet" is past them all.                       *)
Passed == [layer |-> "wallet", decision |-> "allow", place |-> 0]
Screened(q, taken) ==
  LET refusals == Refusals(q, taken)
      first == CHOOSE i \in refusals : \A j \in refusals : i <= j
  IN  IF refusals = {} THEN Passed
      ELSE [layer |-> Screens(q, taken)[first][1], decision |-> Screens(q, taken)[first][2],
            place |-> first]

(* The quote lock is the first that leaves something behind. *)
LockPlace == 14

-----------------------------------------------------------------------------
(* executeCawOperation: whom the wallet is asked to pay or to call, how    *)
(* much, and with what; or the answer it gives itself.                     *)
Declined(q) ==
  \/ q.operation = "contract_call" /\ Calldata(q) = None
  \/ q.operation = "message_sign" /\ ~q.message

WalletCall(q) ==
  CASE q.operation = "transfer" ->
         [to |-> "merchant", amount |-> q.amount, data |-> None, signs |-> FALSE]
    [] q.operation = "contract_call" ->
         [to |-> IF q.address # None THEN q.address ELSE "merchant", amount |-> q.amount,
          data |-> Calldata(q), signs |-> FALSE]
    [] q.operation = "message_sign" ->
         [to |-> None, amount |-> 0, data |-> None, signs |-> TRUE]

(* responseHeadersLookCacheSafe *)
CacheSafe(headers) == headers = None \/ (headers.private /\ headers.varies)

-----------------------------------------------------------------------------
(* A clean request: of the demo provider, paid by a transfer.              *)

Entry == [allowed |-> {"report"}, facilitator |-> "fac", status |-> "allowed",
          publicKey |-> "provider", threshold |-> 60, evm |-> TRUE]
Record == [endpoint |-> "report", payTo |-> "merchant", denied |-> 0, reputation |-> 95]
Transfer == [function |-> "transfer", to |-> "merchant", amount |-> 2, context |-> None, inner |-> {}]

Base == [resource |-> "report", url |-> "report", paymentHeaders |-> 1, listed |-> TRUE,
         complete |-> TRUE, expired |-> FALSE, payTo |-> "merchant", facilitator |-> "fac",
         entry |-> Entry, live |-> None, demo |-> Record, found |-> {}, metadata |-> "report",
         quote |-> None, operation |-> "transfer", service |-> "caw-fetch", address |-> None,
         calldata |-> Transfer, signed |-> TRUE, body |-> "this", amount |-> 2, decimals |-> TRUE,
         message |-> FALSE]
=============================================================================
