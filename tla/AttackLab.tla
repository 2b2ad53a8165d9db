------------------------------ MODULE AttackLab ------------------------------
(***************************************************************************)
(* The attack lab (services/runtime/src/attack_lab/): POST                 *)
(* /api/attacks/<name>/run makes one or several runs of the guard pipeline *)
(* over a database of its own, with a request that is clean but for the    *)
(* attack and a wallet that is scripted, and replies with one run's        *)
(* refusal.                                                                *)
(*                                                                         *)
(* The checks are those of Screening and the receipts' those of Receipts.  *)
(***************************************************************************)
EXTENDS Screening, Receipts, FiniteSets

CONSTANT Many   \* parallel attempts; the lab makes 20

Attempt == 1 .. Many

VARIABLES
  attack,    \* the attack in progress, or None
  pc,        \* where each attempt stands
  reserved,     \* has the quote been reserved
  result,    \* the layer and the decision each attempt came to
  timeline,  \* the attempts of which a timeline event tells, and what
  reply      \* the HTTP reply, or None

labVars == <<attack, pc, reserved, result, timeline, reply>>

-----------------------------------------------------------------------------
(* Scenarios: the request, the most the wallet pays, whether the response  *)
(* may be cached, the body delivered for the payment, and the attempts.    *)

Clean == [Base EXCEPT !.paymentHeaders = 0]
Plain == [request |-> Clean,
          cap |-> Unlimited, headers |-> [private |-> TRUE, varies |-> TRUE],
          body |-> [hash |-> "body", shaped |-> TRUE, denies |-> FALSE],
          attempts |-> 1, parallel |-> FALSE]
Asking(q) == [Plain EXCEPT !.request = q]

Replay == [Plain EXCEPT !.attempts = 2]

CrossResource == Asking([Clean EXCEPT !.url = "ledger", !.metadata = "ledger"])

(* The lab scans the metadata itself and hands the pipeline what is left. *)
Pii == Asking([Clean EXCEPT !.found = Sanitised({"block"})])

DynamicPrice ==
  [Plain EXCEPT !.request = [Clean EXCEPT !.amount = 500, !.calldata = [Transfer EXCEPT !.amount = 500]],
                !.cap = 200]

MaliciousApprove ==
  Asking([Clean EXCEPT !.calldata =
    [function |-> "approve", to |-> "stranger", amount |-> Unlimited, context |-> None, inner |-> {}]])

DiscoveryPoisoning ==
  Asking([Clean EXCEPT !.resource = "elsewhere", !.url = "elsewhere", !.metadata = "elsewhere",
                       !.listed = FALSE, !.demo = None, !.payTo = "stranger"])

PaidButDenied == [Plain EXCEPT !.body = [@ EXCEPT !.denies = TRUE]]

Erc8004IdentityMismatch ==
  Asking([Clean EXCEPT !.demo = [Record EXCEPT !.endpoint = "elsewhere", !.payTo = "stranger",
                                               !.reputation = 92]])

LowReputationProvider ==
  Asking([Clean EXCEPT !.demo = [Record EXCEPT !.reputation = 12, !.denied = 5]])

HeaderConfusion == Asking([Clean EXCEPT !.paymentHeaders = 2])

CacheConfusion == [Plain EXCEPT !.headers = [private |-> FALSE, varies |-> FALSE]]

ConcurrentFreeRiding == [Plain EXCEPT !.attempts = Many, !.parallel = TRUE]

SettlementPath == Asking([Clean EXCEPT !.facilitator = "otherfac"])

PartialPayment ==
  Asking([Clean EXCEPT !.amount = 2000, !.calldata = [Transfer EXCEPT !.amount = 1800]])

MalformedDelivery == [Plain EXCEPT !.body = [@ EXCEPT !.shaped = FALSE]]

MulticallHiddenOperation ==
  Asking([Clean EXCEPT !.calldata =
    [function |-> "multicall", to |-> None, amount |-> 0, context |-> None,
     inner |-> {"approve", "mint"}]])

Scenarios ==
  [replay_same_proof |-> Replay,
   cross_resource_substitution |-> CrossResource,
   pii_leakage |-> Pii,
   dynamic_price_overspend |-> DynamicPrice,
   malicious_approve |-> MaliciousApprove,
   discovery_poisoning |-> DiscoveryPoisoning,
   paid_but_denied |-> PaidButDenied,
   erc8004_identity_mismatch |-> Erc8004IdentityMismatch,
   low_reputation_provider |-> LowReputationProvider,
   header_confusion_duplicate_x_payment |-> HeaderConfusion,
   cache_confusion |-> CacheConfusion,
   concurrent_free_riding_20_requests |-> ConcurrentFreeRiding,
   settlement_path_substitution |-> SettlementPath,
   partial_payment_decimals_confusion |-> PartialPayment,
   malformed_delivery |-> MalformedDelivery,
   multicall_hidden_operation |-> MulticallHiddenOperation]

(* What each scenario says of itself, blockedBy, as the layer of the guard *)
(* event that the defense of this name records.                            *)
BlockedBy ==
  [replay_same_proof |-> "quote_lock",
   cross_resource_substitution |-> "resource_binding",
   pii_leakage |-> "metadata_firewall",
   dynamic_price_overspend |-> "caw",
   malicious_approve |-> "clearsig",
   discovery_poisoning |-> "provider_registry",
   paid_but_denied |-> "receipt",
   erc8004_identity_mismatch |-> "erc8004",
   low_reputation_provider |-> "erc8004",
   header_confusion_duplicate_x_payment |-> "http_headers",
   cache_confusion |-> "cache_policy",
   concurrent_free_riding_20_requests |-> "quote_lock",
   settlement_path_substitution |-> "provider_registry",
   partial_payment_decimals_confusion |-> "clearsig",
   malformed_delivery |-> "receipt",
   multicall_hidden_operation |-> "clearsig"]

(* None is none of the values it stands beside. *)
ASSUME LabAssumption ==
  /\ Many \in Nat /\ Many > 1
  /\ None \notin DOMAIN Scenarios \cup {"report", "ledger", "elsewhere", "provider"}
  /\ \A name \in DOMAIN Scenarios \ {"discovery_poisoning"} :
       LET s == Scenarios[name]
       IN  None \notin {s.headers, s.request.demo, s.request.calldata}

-----------------------------------------------------------------------------
(* makeSafeProviderChallengeArtifacts: the receipt the lab signs with the  *)
(* provider's key, and what the pipeline expects of it.                    *)
ScenarioReceipt ==
  Signed("provider", [context |-> "this", terms |-> "these", audit |-> "local",
                      response |-> "body", resource |-> "report", at |-> 0, status |-> "paid",
                      clean |-> TRUE, schema |-> TRUE])
Expected == [context |-> "this", terms |-> "these", resource |-> "report", key |-> "provider",
             schema |-> TRUE]

(* What the pipeline makes of the answer of the scripted wallet, and of    *)
(* what was delivered.                                                     *)
Block(layer) == [layer |-> layer, decision |-> "block"]
Delivered(s) == ServiceOutcome(ScenarioReceipt, s.body, Expected) = "delivered"
Settled(s) ==
  IF s.request.amount > s.cap THEN Block("caw")
  ELSE IF ~CacheSafe(s.headers) THEN Block("cache_policy")
  ELSE IF ~Delivered(s) THEN Block("receipt")
  ELSE [layer |-> "guard_pipeline", decision |-> "allow"]

(* toAttackDecision *)
AttackDecision(decision) ==
  CASE decision = "block" -> "blocked"
    [] decision = "allow" -> "allowed"
    [] OTHER -> "require_approval"

-----------------------------------------------------------------------------
LabInit ==
  /\ attack = None /\ pc = [i \in Attempt |-> "idle"] /\ reserved = FALSE
  /\ result = [i \in Attempt |-> None] /\ timeline = [i \in Attempt |-> "none"]
  /\ reply = None

S == Scenarios[attack]
Attempts == 1 .. S.attempts
Busy == attack # None /\ reply = None

(* All parallel attempts start before any of them goes on. *)
Starting == S.parallel /\ \E i \in Attempts : pc[i] = "idle"

(* 400: a body that is no JSON.  405: another method.  404: no such attack, *)
(* or a now past the expiry of the scenario's challenge, at which           *)
(* normalizeX402Challenge throws.                                           *)
TurnAway(status) ==
  /\ attack = None /\ reply = None
  /\ reply' = [status |-> status]
  /\ UNCHANGED <<attack, pc, reserved, result, timeline>>

Run(name) ==
  /\ attack = None /\ reply = None
  /\ attack' = name
  /\ UNCHANGED <<pc, reserved, result, timeline, reply>>

(* runOnce up to the wallet.  A second attempt of a replay waits for the   *)
(* first one.  The faulty form reserves once the wallet has answered.      *)
InTurn(i) ==
  /\ Busy /\ i \in Attempts /\ pc[i] = "idle"
  /\ \A j \in 1 .. i - 1 : IF S.parallel THEN pc[j] # "idle" ELSE pc[j] = "recorded"

Start_ReservesLater(i) ==
  LET o == Screened(S.request, reserved) IN
  /\ InTurn(i)
  /\ pc' = [pc EXCEPT ![i] = IF o = Passed THEN "wallet" ELSE "returned"]
  /\ result' = [result EXCEPT ![i] =
                  IF o = Passed THEN None ELSE [layer |-> o.layer, decision |-> o.decision]]
  /\ UNCHANGED <<attack, reserved, timeline, reply>>
Start(i) ==
  LET o == Screened(S.request, reserved) IN
  /\ InTurn(i)
  /\ pc' = [pc EXCEPT ![i] = IF o = Passed THEN "wallet" ELSE "returned"]
  /\ reserved' = (reserved \/ o.place = 0 \/ o.place > LockPlace)
  /\ result' = [result EXCEPT ![i] =
                  IF o = Passed THEN None ELSE [layer |-> o.layer, decision |-> o.decision]]
  /\ UNCHANGED <<attack, timeline, reply>>

(* The wallet answers and the pipeline returns. *)
Resume(i) ==
  /\ Busy /\ ~Starting /\ pc[i] = "wallet"
  /\ pc' = [pc EXCEPT ![i] = "returned"] /\ reserved' = TRUE
  /\ result' = [result EXCEPT ![i] = Settled(S)]
  /\ UNCHANGED <<attack, timeline, reply>>

(* The timeline event of the attempt.                                     *)
Told(i) == IF result[i].decision = "allow" THEN "success" ELSE "blocked"
Note(i) ==
  /\ Busy /\ ~Starting /\ pc[i] = "returned"
  /\ pc' = [pc EXCEPT ![i] = "recorded"]
  /\ timeline' = [timeline EXCEPT ![i] = Told(i)]
  /\ UNCHANGED <<attack, reserved, result, reply>>

(* The attempt the reply tells of: of parallel ones the first that was     *)
(* blocked, else the first; of a replay the last.                          *)
Primary ==
  LET blocked == {i \in Attempts : result[i].decision = "block"}
  IN  IF ~S.parallel THEN S.attempts
      ELSE IF blocked = {} THEN 1
      ELSE CHOOSE i \in blocked : \A j \in blocked : i <= j

Report ==
  /\ Busy /\ \A i \in Attempts : pc[i] = "recorded"
  /\ reply' = [status |-> 200, decision |-> AttackDecision(result[Primary].decision),
               layer |-> result[Primary].layer]
  /\ UNCHANGED <<attack, pc, reserved, result, timeline>>

(* The client has its reply; the next run has a database of its own. *)
Close ==
  /\ reply # None
  /\ attack' = None /\ reply' = None
  /\ pc' = [i \in Attempt |-> "idle"] /\ reserved' = FALSE
  /\ result' = [i \in Attempt |-> None] /\ timeline' = [i \in Attempt |-> "none"]

LabNext ==
  \/ \E status \in {400, 404, 405} : TurnAway(status)
  \/ \E name \in DOMAIN Scenarios : Run(name)
  \/ (\E i \in Attempt : Start(i) \/ Resume(i) \/ Note(i)) \/ Report
  \/ Close

LabSpec == LabInit /\ [][LabNext]_labVars

-----------------------------------------------------------------------------
(* Properties                                                              *)

(* Each scenario's run is blocked, and by the defense that it is shown to  *)
(* test (blockedBy, scenarios.ts:48-250) and not by one before or after    *)
(* it, whatever order parallel attempts come back in.                      *)
BlockedWhereClaimed ==
  reply # None /\ reply.status = 200 =>
    reply.decision = "blocked" /\ reply.layer = BlockedBy[attack]

(* Of several attempts with one proof the wallet is asked for one, and one *)
(* is told as a success at most (summary.allowed, scenarios.ts:1173).      *)
NoFreeRide ==
  /\ Cardinality({i \in Attempt : pc[i] = "wallet"} \cup {i \in Attempt : timeline[i] = "success"}) <= 1
  /\ reply # None /\ reply.status = 200 /\ S.attempts > 1 =>
       Cardinality({i \in Attempts : timeline[i] = "blocked"}) = S.attempts - 1

=============================================================================
