--------------------------- MODULE EvidenceExport ---------------------------
(***************************************************************************)
(* The evidence export of a mission                                        *)
(* (services/runtime/src/evidence_export.ts): what it says was recorded,   *)
(* and the mode (live, fallback or mock) it labels each fact with, at      *)
(* every point of the mission's life, while the runtime is restarted with  *)
(* any environment.                                                        *)
(*                                                                         *)
(* An export only reads: its parts are operators on the state.             *)
(***************************************************************************)
EXTENDS MissionFlow

VARIABLE
  env  \* which of the settlement's variables the environment sets: the
       \* contract's address, the transaction of an interaction

allVars == <<vars, env>>

-----------------------------------------------------------------------------
Rank == [live |-> 0, fallback |-> 1, mock |-> 2]

IsCheck(e) == e.kind # "mission_resource"
HasTrust(e) == e.kind = "dry_run" \/ (e.kind = "guard" /\ e.resource \in Listed)

(* providerChallengeFromRows: no record of a challenge is called live. *)
ChallengeMode == IF \E e \in Range(events) : IsCheck(e) THEN "fallback" ELSE "live"

(* erc8004TrustFromEvents, latestNestedRecord: the newest event that has   *)
(* some trust, which is demo trust and mock.  The faulty form looks at the *)
(* newest event alone.                                                     *)
TrustMode_Latest ==
  IF events # <<>> /\ HasTrust(Last(events)) THEN "mock" ELSE "fallback"
TrustMode == IF \E e \in Range(events) : HasTrust(e) THEN "mock" ELSE "fallback"

(* paymentContextFromRow, else paymentContextFromEvents: the newest event  *)
(* that has one.                                                           *)
ContextShown ==
  LET bound == {i \in DOMAIN events : events[i].bound} IN
  IF context # None THEN [status |-> "recorded", hash |-> context, mode |-> "live"]
  ELSE IF bound = {} THEN [status |-> "not_recorded", hash |-> None, mode |-> "fallback"]
  ELSE [status |-> "recorded", mode |-> "fallback",
        hash |-> [resource |-> events[Max(bound)].resource, issued |-> events[Max(bound)].at]]

(* guardFactsFromEvents: the worst mode within the latest event. *)
GuardShown ==
  IF events = <<>> THEN [decision |-> "not_recorded", mode |-> "fallback"]
  ELSE [decision |-> Last(events).decision,
        mode |-> IF HasTrust(Last(events)) THEN "mock" ELSE "fallback"]

(* buildBotChainSettlementFacts of a mission's receipts, none of which has *)
(* a transaction hash: the environment alone decides, whatever the text in *)
(* it and whichever payment context that transaction was about.            *)
Settlement ==
  LET status == CASE env.tx -> "recorded"
                  [] ~env.tx /\ env.contract -> "deployed"
                  [] OTHER -> "not_recorded"
  IN  [status |-> status, mode |-> IF status = "recorded" THEN "live" ELSE "fallback"]

(* The mission row is live; capabilities, receipts and dual receipts, and  *)
(* that one of these is missing, are fallback.                             *)
Components ==
  {"live", ChallengeMode, TrustMode, ContextShown.mode, GuardShown.mode,
   Settlement.mode, "fallback"}

(* summarizeEvidenceModes: the worst, modeMax of all. *)
Overall == CHOOSE worst \in Components : \A mode \in Components : Rank[mode] <= Rank[worst]

-----------------------------------------------------------------------------
ExportInit == Init /\ env = [contract |-> FALSE, tx |-> FALSE]

(* The runtime is started again: its export takes both variables as they   *)
(* are, and neither needs the other.                                       *)
Restart(contract, tx) ==
  /\ env' = [contract |-> contract, tx |-> tx]
  /\ UNCHANGED vars

ExportNext ==
  \/ Next /\ UNCHANGED env
  \/ \E contract, tx \in BOOLEAN : Restart(contract, tx)

ExportSpec == ExportInit /\ [][ExportNext]_allVars

-----------------------------------------------------------------------------
(* Properties                                                              *)

ExportTypeOK ==
  /\ TypeOK
  /\ env \in [contract : BOOLEAN, tx : BOOLEAN]
  /\ Overall \in DOMAIN Rank

(* "evidenceMode not live", at the level of a whole life: once an export   *)
(* was labelled mock, because demo trust took part in a decision, nothing  *)
(* that happens to the mission or to its environment gives it a better     *)
(* label again.                                                            *)
LabelNeverImproves ==
  [][mission # None => Rank[Overall'] >= Rank[Overall]]_allVars
=============================================================================
