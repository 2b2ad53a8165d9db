---------------------------- MODULE MissionFlow ----------------------------
(***************************************************************************)
(* The HTTP life of one mission (services/runtime/src/mission_flow.ts):    *)
(* create, dry-run, guard, verify, and what a get shows, over the tables   *)
(* missions, guard_events, payment_contexts, receipts and dual_receipts.   *)
(*                                                                         *)
(* A handler runs to its end before another starts: it awaits nothing but  *)
(* promises that are settled already.  Its statements commit one by one,   *)
(* so the process may die between two of them.  Ids are made of            *)
(* millisecond timestamps, and the clock may stand still between calls.    *)
(*                                                                         *)
(* The guard pipeline is the module GuardPipeline; here it is what the     *)
(* mission flow's own adapter and provider make of it.                     *)
(***************************************************************************)
EXTENDS Receipts, FiniteSets, Sequences, SequencesExt

CONSTANTS
  Resources,   \* resource urls
  Listed,      \* those its registry entry allows
  Trusted,     \* those its trust record is about
  IdRank,      \* the order of the hashed ids of the resource events
  Prompts,     \* user prompts
  Pii,         \* those with what the metadata firewall blocks
  Named,       \* the first https url in each of them, if there is one
  Enough, Short, \* budgets: above and below the price
  MaxTime,     \* bound: milliseconds
  MaxChecks,   \* bound: events of dry runs and guards
  MaxDuals,    \* bound: dual receipts
  MaxCrashes,  \* bound: deaths of the process
  None

ASSUME MissionAssumption ==
  /\ Listed \subseteq Resources /\ Trusted \subseteq Resources
  /\ Listed \cap Trusted # {} /\ IsFiniteSet(Resources)
  /\ IdRank \in [Resources -> Nat]
  /\ \A r, s \in Resources : IdRank[r] = IdRank[s] => r = s
  /\ Pii \subseteq Prompts /\ Named \in [Prompts -> Resources \cup {None}]
  /\ None \notin Resources /\ None \notin [resource : Resources, issued : 0..MaxTime]
  /\ MaxTime \in Nat /\ MaxChecks \in Nat /\ MaxDuals \in Nat /\ MaxCrashes \in Nat

VARIABLES
  clock,    \* Date.now()
  mission,  \* the row of missions: prompt, budget, status
  events,   \* guard_events, in the order listGuardEvents returns them
  context,  \* the row of payment_contexts: its resource and when issued
  receipt,  \* the row of receipts: a service receipt
  duals,    \* dual_receipts: the dual receipt, the decision, created_at
  crashes   \* deaths so far (bound)

vars == <<clock, mission, events, context, receipt, duals, crashes>>

-----------------------------------------------------------------------------
(* A guard event: kind, its time, the resource its evidence is about, its  *)
(* decision, whether its evidence has a context, and its place in the      *)
(* order of recording (history).                                           *)
Kinds == {"dry_run", "guard", "mission_resource"}
Event == [kind : Kinds, at : 0..MaxTime, resource : Resources,
          decision : {"block", "fallback_required"}, bound : BOOLEAN, n : 1..MaxChecks + Cardinality(Resources)]

Missions == [prompt : Prompts, budget : {Enough, Short}, status : {"active", "blocked"}]

TypeOK ==
  /\ clock \in 0..MaxTime /\ crashes \in 0..MaxCrashes
  /\ mission = None \/ mission \in Missions
  /\ events \in Seq(Event)
  /\ context = None \/ context \in [resource : Resources, issued : 0..MaxTime]
  /\ receipt = None \/ (context # None /\ receipt.context = context /\ receipt.status = "failed")
  /\ \A row \in duals : row.created \in 0..MaxTime /\ row.decision \in {"allow", "block"}

Init ==
  /\ clock = 0 /\ crashes = 0
  /\ mission = None /\ events = <<>> /\ context = None
  /\ receipt = None /\ duals = {}

-----------------------------------------------------------------------------
(* Ids start with dry_, evt_ (random) and mission_resource_ (hashed).      *)
IdBefore(e, f) ==
  LET prefix == [dry_run |-> 1, guard |-> 2, mission_resource |-> 3]
  IN  \/ prefix[e.kind] < prefix[f.kind]
      \/ e.kind = "mission_resource" /\ f.kind = e.kind /\ IdRank[e.resource] < IdRank[f.resource]

(* listGuardEvents: order by created_at, id. *)
Before(e, f) == e.at < f.at \/ (e.at = f.at /\ IdBefore(e, f))

(* recordGuardEvent; of two random ids either may be first. *)
Record(kind, resource, decision, bound) ==
  LET e == [kind |-> kind, at |-> clock, resource |-> resource, decision |-> decision,
            bound |-> bound, n |-> Len(events) + 1]
  IN  \E i \in 1 .. Len(events) + 1 :
        /\ \A j \in 1 .. i - 1 : ~Before(e, events[j])
        /\ \A j \in i .. Len(events) : ~Before(events[j], e)
        /\ events' = InsertAt(events, i, e)

Checks == {e \in Range(events) : e.kind # "mission_resource"}
ResourceEvents == {e \in Range(events) : e.kind = "mission_resource"}
MoreChecks == Cardinality(Checks) < MaxChecks

(* missionResourceUrl: the last resource event; without one, as after a    *)
(* death in a create, the url in the prompt, or the default.  The faulty   *)
(* form reads the list from its start.                                     *)
DefaultResource ==
  LET named == Named[mission.prompt] IN
  IF named # None THEN named ELSE CHOOSE r \in Listed \cap Trusted : TRUE
ResourcePlaces == {i \in DOMAIN events : events[i].kind = "mission_resource"}
MissionResource_First ==
  IF ResourcePlaces = {} THEN DefaultResource ELSE events[Min(ResourcePlaces)].resource
MissionResource ==
  IF ResourcePlaces = {} THEN DefaultResource ELSE events[Max(ResourcePlaces)].resource

SetStatus(status) == mission' = [mission EXCEPT !.status = status]

-----------------------------------------------------------------------------
Tick ==
  /\ clock < MaxTime
  /\ clock' = clock + 1
  /\ UNCHANGED <<mission, events, context, receipt, duals, crashes>>

(* ensureMission: the row, of which a second create changes the budget     *)
(* alone.                                                                  *)
EnsureMission(prompt, budget) ==
  mission' = IF mission = None
             THEN [prompt |-> prompt, budget |-> budget, status |-> "active"]
             ELSE [mission EXCEPT !.budget = budget]

(* createMission.  The id of a resource event is the hash of the mission   *)
(* and the resource: the second event of a resource is refused, after the  *)
(* row was written.                                                        *)
ResourceTaken(resource) == \E e \in ResourceEvents : e.resource = resource

CreateMission(resource, prompt, budget) ==
  /\ EnsureMission(prompt, budget)
  /\ IF ResourceTaken(resource)
     THEN UNCHANGED events
     ELSE Record("mission_resource", resource, "fallback_required", FALSE)
  /\ UNCHANGED <<clock, context, receipt, duals, crashes>>

(* dryRunMission.  The id of its event is the hash of the mission and the  *)
(* time: the second one in a millisecond is refused.                       *)
DryRun ==
  /\ mission # None /\ MoreChecks
  /\ ~\E e \in Range(events) : e.kind = "dry_run" /\ e.at = clock
  /\ Record("dry_run", MissionResource, "fallback_required", FALSE)
  /\ UNCHANGED <<clock, mission, context, receipt, duals, crashes>>

(* runGuardPipeline with the mission flow's input: refused by the registry *)
(* or the trust check, by the metadata firewall, by the quote lock (the    *)
(* quote is named after the mission and its provider, and the evidence     *)
(* has the context that was refused), or left to the fallback.             *)
Refused == MissionResource \notin Listed \cap Trusted \/ mission.prompt \in Pii
Locked_BudgetOnly == mission.budget = Short
Locked == context # None \/ mission.budget = Short

GuardMission ==
  /\ mission # None /\ MoreChecks
  /\ \/ /\ Refused
        /\ Record("guard", MissionResource, "block", FALSE)
        /\ SetStatus("active")
        /\ UNCHANGED context
     \/ /\ ~Refused /\ Locked
        /\ Record("guard", MissionResource, "block", TRUE)
        /\ SetStatus("active")
        /\ UNCHANGED context
     \/ /\ ~Refused /\ ~Locked
        /\ context' = [resource |-> MissionResource, issued |-> clock]
        /\ Record("guard", MissionResource, "fallback_required", TRUE)
        /\ SetStatus("blocked")
  /\ UNCHANGED <<clock, receipt, duals, crashes>>

(* insertFallbackReceipt: signed by the provider's demo key over status    *)
(* failed, for the mission's resource of now.                              *)
FallbackReceipt ==
  Signed("demo", [context |-> context, terms |-> "demo", response |-> "fallback",
                  resource |-> MissionResource, at |-> clock, status |-> "failed",
                  clean |-> TRUE, schema |-> TRUE,
                  audit |-> IF events = <<>> THEN 0 ELSE Last(events).n])

(* createDualReceipt and verifyDualReceipt of the stored receipt: what is  *)
(* expected is read from the dual receipt itself where the context does    *)
(* not say it, and the resource from the mission.                          *)
ReplayRecords == {ReplayRecord(row.dual) : row \in duals}
Verdict(dual) ==
  VerifyDual(dual, [context |-> context, terms |-> dual.payment.terms,
                    resource |-> MissionResource, key |-> "demo"], ReplayRecords).decision

(* upsertDualReceipt: unique in context and delivery. *)
Upserted(dual) ==
  {row \in duals : row.dual.delivery # dual.delivery}
    \cup {[dual |-> dual, decision |-> Verdict(dual), created |-> clock]}

StoreDual_FirstKept(dual) == IF duals = {} THEN Upserted(dual) ELSE duals
StoreDual(dual) == Upserted(dual)

VerifyMission ==
  /\ mission # None /\ context # None
  /\ receipt' = FallbackReceipt
  /\ duals' = StoreDual(Dual(FallbackReceipt, "demo"))
  /\ Cardinality(duals') <= MaxDuals
  /\ SetStatus("blocked")
  /\ UNCHANGED <<clock, events, context, crashes>>

-----------------------------------------------------------------------------
(* The process dies within a handler, after some of its statements.        *)
Dies == crashes < MaxCrashes /\ crashes' = crashes + 1 /\ UNCHANGED clock

DieInCreate(prompt, budget) ==
  /\ Dies
  /\ EnsureMission(prompt, budget)
  /\ UNCHANGED <<events, context, receipt, duals>>

(* After the reservation's transaction, or after the event.  The faulty    *)
(* form writes the event first.                                            *)
DieInGuard_EventFirst ==
  /\ mission # None /\ ~Refused /\ ~Locked /\ MoreChecks
  /\ Dies
  /\ Record("guard", MissionResource, "fallback_required", TRUE)
  /\ \/ UNCHANGED context
     \/ context' = [resource |-> MissionResource, issued |-> clock]
  /\ UNCHANGED <<mission, receipt, duals>>
DieInGuard ==
  /\ mission # None /\ ~Refused /\ ~Locked /\ MoreChecks
  /\ Dies
  /\ context' = [resource |-> MissionResource, issued |-> clock]
  /\ \/ UNCHANGED events
     \/ Record("guard", MissionResource, "fallback_required", TRUE)
  /\ UNCHANGED <<mission, receipt, duals>>

(* After the receipt, or after the dual receipt. *)
DieInVerify ==
  /\ mission # None /\ context # None
  /\ Dies
  /\ receipt' = FallbackReceipt
  /\ \/ UNCHANGED duals
     \/ /\ duals' = StoreDual(Dual(FallbackReceipt, "demo"))
        /\ Cardinality(duals') <= MaxDuals
  /\ UNCHANGED <<mission, events, context>>

Next ==
  \/ Tick
  \/ \E r \in Resources, p \in Prompts, b \in {Enough, Short} : CreateMission(r, p, b)
  \/ DryRun \/ GuardMission \/ VerifyMission
  \/ \E p \in Prompts, b \in {Enough, Short} : DieInCreate(p, b)
  \/ DieInGuard \/ DieInVerify

Spec == Init /\ [][Next]_vars

-----------------------------------------------------------------------------
(* getMission: the dual receipt it shows is one of the latest, by time and *)
(* then by hash.                                                           *)
LatestDuals == {row \in duals : \A other \in duals : other.created <= row.created}

-----------------------------------------------------------------------------
(* Properties                                                              *)

(* Verifying is repeatable: whenever and however often it is called, a     *)
(* dual receipt is accepted, and never taken for a conflicting replay of   *)
(* one on record; not even when the second call comes within the same      *)
(* millisecond and a guard event was recorded between the two.             *)
VerifyAccepts == \A row \in duals : row.decision = "allow"

(* The resource a mission is for is the one of the create that recorded    *)
(* its resource last, although it is found by sorting event times and      *)
(* hashed ids: unless that time was another create's too.                  *)
ResourceIsLast ==
  \A e \in ResourceEvents :
    (\A f \in ResourceEvents : f # e => f.n < e.n /\ f.at # e.at) =>
      MissionResource = e.resource

(* What a get shows of the delivery is of the last verify's millisecond:   *)
(* however the ids and hashes sort, each dual receipt it may pick is of    *)
(* the stored receipt's time, and one of them is made of that receipt,     *)
(* unless the process died within a verify.  (Of several verifies of one   *)
(* millisecond it picks by hash, and may show another than the last.)      *)
LatestShown ==
  receipt # None /\ crashes = 0 =>
    /\ \A row \in LatestDuals : row.dual.delivery.at = receipt.at
    /\ \E row \in LatestDuals : row.dual = Dual(receipt, "demo")

(* A guard that the log says let the payment through has its payment       *)
(* context in the tables, of its own resource and time: also when the      *)
(* process died between the two writes, and whatever other resource the    *)
(* mission was created for or guarded with since.                          *)
ContextAsGuarded ==
  \A e \in Checks :
    e.kind = "guard" /\ e.decision = "fallback_required" =>
      context = [resource |-> e.resource, issued |-> e.at]

(* "binds the paid resource/provider/amount/nonce into a PaymentContext":  *)
(* an accepted dual receipt is about the resource its payment context is   *)
(* bound to.                                                               *)
ReceiptForBoundResource ==
  \A row \in duals :
    row.decision = "allow" => row.dual.delivery.resource = row.dual.payment.context.resource
=============================================================================
