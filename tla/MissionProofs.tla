---------------------------- MODULE MissionProofs ----------------------------
(***************************************************************************)
(* Proofs about MissionFlow and EvidenceExport for every set of resources, *)
(* every order of ids and every bound.                                     *)
(***************************************************************************)
EXTENDS EvidenceExport, OperatorLemmas, SequenceTheorems

-----------------------------------------------------------------------------
(* What a step does to the receipts: nothing, or what a verify does, whole *)
(* or as far as it got before the process died.                            *)
Verified ==
  /\ context # None /\ clock' = clock
  /\ receipt' = FallbackReceipt
  /\ \/ duals' = Upserted(Dual(FallbackReceipt, "demo")) /\ crashes' = crashes
     \/ /\ duals' \in {duals, Upserted(Dual(FallbackReceipt, "demo"))}
        /\ crashes' = crashes + 1

Unverified ==
  /\ UNCHANGED <<receipt, duals>>
  /\ crashes' \in {crashes, crashes + 1}
  /\ clock' \in {clock, clock + 1}

LEMMA Steps ==
  ASSUME [ExportNext]_allVars
  PROVE  Verified \/ Unverified
<1>1. CASE Next
  <2>1. CASE VerifyMission
    BY <2>1 DEF VerifyMission, Verified, StoreDual
  <2>2. CASE DieInVerify
    BY <2>2 DEF DieInVerify, Dies, Verified, StoreDual
  <2>3. CASE GuardMission
    BY <2>3 DEF GuardMission, Unverified
  <2>4. CASE Tick \/ DryRun \/ DieInGuard
    BY <2>4 DEF Tick, DryRun, DieInGuard, Dies, Unverified
  <2>5. CASE \E r \in Resources, p \in Prompts, b \in {Enough, Short} : CreateMission(r, p, b)
    BY <2>5 DEF CreateMission, Unverified
  <2>6. CASE \E p \in Prompts, b \in {Enough, Short} : DieInCreate(p, b)
    BY <2>6 DEF DieInCreate, Dies, Unverified
  <2> QED BY <1>1, <2>1, <2>2, <2>3, <2>4, <2>5, <2>6 DEF Next
<1>2. CASE \E contract, tx \in BOOLEAN : Restart(contract, tx)
  BY <1>2 DEF Restart, vars, Unverified
<1>3. CASE UNCHANGED allVars
  BY <1>3 DEF allVars, vars, Unverified
<1> QED BY <1>1, <1>2, <1>3 DEF ExportNext

LEMMA Fallback ==
  /\ SignedOver(FallbackReceipt, "demo", "failed") /\ FallbackReceipt.status = "failed"
  /\ FallbackReceipt.context = context /\ FallbackReceipt.resource = MissionResource
  /\ FallbackReceipt.at = clock
  /\ Dual(FallbackReceipt, "demo").delivery.at = clock
<1>1. /\ SignedOver(FallbackReceipt, "demo", "failed") /\ FallbackReceipt.status = "failed"
      /\ FallbackReceipt.context = context /\ FallbackReceipt.resource = MissionResource
  BY SigningSigns DEF FallbackReceipt
<1>2. FallbackReceipt.at = clock
  BY DEF FallbackReceipt, Signed
<1>3. Dual(FallbackReceipt, "demo").delivery.at = FallbackReceipt.at
  BY DEF Dual, Delivery
<1> QED BY <1>1, <1>2, <1>3

-----------------------------------------------------------------------------
(* Verifying accepts                                                       *)

(* Every dual receipt on record is one the demo key made, and accepted.    *)
Accepted == RecordsOf(ReplayRecords, "demo") /\ VerifyAccepts

LEMMA UpsertAccepts ==
  ASSUME Accepted, NEW row \in Upserted(Dual(FallbackReceipt, "demo"))
  PROVE  row.decision = "allow" /\ \E s : ReplayRecord(row.dual) = ReplayRecord(Dual(s, "demo"))
<1> DEFINE dual == Dual(FallbackReceipt, "demo")
           expected == [context |-> context, terms |-> dual.payment.terms,
                        resource |-> MissionResource, key |-> "demo"]
<1>1. Verdict(dual) = "allow"
  <2>1. /\ expected.context = FallbackReceipt.context /\ expected.resource = FallbackReceipt.resource
        /\ expected.key = "demo"
    BY Fallback
  <2>2. expected.terms = FallbackReceipt.terms
    BY DEF Dual, Payment
  <2>3. DualHolds(Dual(FallbackReceipt, expected.key), expected, ReplayRecords)
    BY <2>1, <2>2, Fallback, AcceptedIff DEF Accepted, Sayable
  <2>4. DualHolds(dual, expected, ReplayRecords)
    BY <2>1, <2>3
  <2> QED BY <2>4 DEF Verdict, VerifyDual
<1>2. CASE row \in duals
  BY <1>2 DEF Accepted, VerifyAccepts, RecordsOf, ReplayRecords
<1>3. CASE row = [dual |-> dual, decision |-> Verdict(dual), created |-> clock]
  BY <1>1, <1>3
<1> QED BY <1>2, <1>3 DEF Upserted

(* Whenever and however often a mission is verified, its dual receipt is   *)
(* accepted.                                                               *)
THEOREM VerifyingAccepts == ExportSpec => []VerifyAccepts
<1>1. ExportInit => Accepted
  BY DEF ExportInit, Init, Accepted, VerifyAccepts, RecordsOf, ReplayRecords
<1>2. Accepted /\ [ExportNext]_allVars => Accepted'
  <2> SUFFICES ASSUME Accepted, [ExportNext]_allVars PROVE Accepted'
    OBVIOUS
  <2>1. CASE UNCHANGED duals
    BY <2>1 DEF Accepted, VerifyAccepts, RecordsOf, ReplayRecords
  <2>2. CASE duals' = Upserted(Dual(FallbackReceipt, "demo"))
    BY <2>2, UpsertAccepts DEF Accepted, VerifyAccepts, RecordsOf, ReplayRecords
  <2> QED BY <2>1, <2>2, Steps DEF Verified, Unverified
<1>3. Accepted => VerifyAccepts
  BY DEF Accepted
<1> QED BY <1>1, <1>2, <1>3, PTL DEF ExportSpec

-----------------------------------------------------------------------------
(* The receipt shown is of the latest verify's time                        *)

(* A row is of the time it was stored at, and no row is newer than the     *)
(* stored receipt's own.                                                   *)
Dated ==
  /\ clock \in Nat /\ crashes \in Nat
  /\ \A row \in duals :
       row.created \in Nat /\ row.created <= clock /\ row.dual.delivery.at = row.created
  /\ receipt # None /\ crashes = 0 =>
       /\ receipt.at \in Nat
       /\ \A row \in duals : row.created <= receipt.at
       /\ \E row \in duals : row.dual = Dual(receipt, "demo") /\ row.created = receipt.at

LEMMA UpsertDates ==
  ASSUME Dated
  PROVE  /\ \A row \in Upserted(Dual(FallbackReceipt, "demo")) :
              row.created \in Nat /\ row.created <= clock /\ row.dual.delivery.at = row.created
         /\ \E row \in Upserted(Dual(FallbackReceipt, "demo")) :
              row.dual = Dual(FallbackReceipt, "demo") /\ row.created = clock
<1> DEFINE dual == Dual(FallbackReceipt, "demo")
           new == [dual |-> dual, decision |-> Verdict(dual), created |-> clock]
<1>1. new \in Upserted(dual) /\ new.dual = dual /\ new.created = clock
  BY DEF Upserted
<1>2. dual.delivery.at = clock
  BY Fallback
<1>3. \A row \in Upserted(dual) : row \in duals \/ row = new
  BY DEF Upserted
<1> QED BY <1>1, <1>2, <1>3 DEF Dated

(* Each dual receipt a get may show is of the last verify's time, and one  *)
(* of them is made of its receipt: with the clock standing still there may *)
(* be others, with the clock moving there is no other.                     *)
THEOREM ShownIsLatest == ExportSpec => []LatestShown
<1>1. ExportInit => Dated
  BY DEF ExportInit, Init, Dated
<1>2. Dated /\ [ExportNext]_allVars => Dated'
  <2> SUFFICES ASSUME Dated, [ExportNext]_allVars PROVE Dated'
    OBVIOUS
  <2>1. CASE Unverified
    <3>1. clock' \in Nat /\ clock <= clock' /\ crashes' \in Nat /\ (crashes' = 0 => crashes = 0)
      BY <2>1 DEF Unverified, Dated
    <3>2. \A row \in duals : row.created <= clock'
      BY <3>1 DEF Dated
    <3> QED BY <2>1, <3>1, <3>2 DEF Unverified, Dated
  <2>2. CASE Verified /\ duals' = Upserted(Dual(FallbackReceipt, "demo"))
    <3>1. receipt' = FallbackReceipt /\ receipt'.at = clock /\ clock' = clock /\ crashes' \in Nat
      BY <2>2, Fallback DEF Verified, Dated
    <3> QED BY <2>2, <3>1, UpsertDates DEF Dated
  <2>3. CASE Verified /\ duals' = duals /\ crashes' = crashes + 1
    <3>1. clock' = clock /\ crashes' \in Nat /\ crashes' # 0
      BY <2>3 DEF Verified, Dated
    <3> QED BY <2>3, <3>1 DEF Dated
  <2> QED BY <2>1, <2>2, <2>3, Steps DEF Verified
<1>3. Dated => LatestShown
  <2> SUFFICES ASSUME Dated, receipt # None, crashes = 0
               PROVE  /\ \A row \in LatestDuals : row.dual.delivery.at = receipt.at
                      /\ \E row \in LatestDuals : row.dual = Dual(receipt, "demo")
    BY DEF LatestShown
  <2>1. PICK own \in duals : own.dual = Dual(receipt, "demo") /\ own.created = receipt.at
    BY DEF Dated
  <2>2. own \in LatestDuals
    BY <2>1 DEF Dated, LatestDuals
  <2>3. ASSUME NEW row \in LatestDuals PROVE row.dual.delivery.at = receipt.at
    BY <2>1 DEF Dated, LatestDuals
  <2> QED BY <2>1, <2>2, <2>3
<1> QED BY <1>1, <1>2, <1>3, PTL DEF ExportSpec

-----------------------------------------------------------------------------
(* The guard events: their number and their order                          *)

LEMMA MaxIsGreatest ==
  ASSUME NEW n \in Nat, NEW T \in SUBSET (1..n), T # {}
  PROVE  Max(T) \in T /\ \A j \in T : j <= Max(T)
<1>1. \E i \in T : \A j \in T : i >= j
  BY GreatestOf
<1>2. Max(T) \in T /\ \A j \in T : Max(T) >= j
  BY <1>1 DEF Max
<1> QED BY <1>2

(* What a sequence is with an entry put in between,                        *)
LEMMA Inserted ==
  ASSUME NEW E, NEW s \in Seq(E), NEW e \in E, NEW i \in 1 .. Len(s) + 1
  PROVE  /\ InsertAt(s, i, e) \in Seq(E) /\ Len(InsertAt(s, i, e)) = Len(s) + 1
         /\ \A j \in 1 .. i - 1 : InsertAt(s, i, e)[j] = s[j]
         /\ InsertAt(s, i, e)[i] = e
         /\ \A j \in i + 1 .. Len(s) + 1 : InsertAt(s, i, e)[j] = s[j - 1]
<1> DEFINE a == SubSeq(s, 1, i - 1)
           c == SubSeq(s, i, Len(s))
<1>1. a \in Seq(E) /\ Len(a) = i - 1 /\ \A j \in 1 .. i - 1 : a[j] = s[j]
  OBVIOUS
<1>2. c \in Seq(E) /\ Len(c) = Len(s) + 1 - i /\ \A j \in 1 .. Len(s) + 1 - i : c[j] = s[j + i - 1]
  OBVIOUS
<1> DEFINE m == a \o <<e>>
<1>3. InsertAt(s, i, e) = m \o c
  BY DEF InsertAt
<1> HIDE DEF a, c
<1>4. m \in Seq(E) /\ Len(m) = i /\ m[i] = e /\ \A j \in 1 .. i - 1 : m[j] = s[j]
  BY <1>1
<1> HIDE DEF m
<1>5. m \o c \in Seq(E) /\ Len(m \o c) = Len(m) + Len(c)
  BY <1>2, <1>4, ConcatProperties
<1>6. \A j \in 1 .. i : (m \o c)[j] = m[j]
  BY <1>2, <1>4
<1>7. ASSUME NEW j \in i + 1 .. Len(s) + 1 PROVE (m \o c)[j] = s[j - 1]
  <2>1. (m \o c)[j] = c[j - i]
    BY <1>2, <1>4
  <2>2. j - i \in 1 .. Len(s) + 1 - i /\ (j - i) + i - 1 = j - 1
    OBVIOUS
  <2> QED BY <1>2, <2>1, <2>2
<1> QED BY <1>2, <1>3, <1>4, <1>5, <1>6, <1>7

LEMMA InsertedAt ==
  ASSUME NEW E, NEW s \in Seq(E), NEW e \in E, NEW i \in 1 .. Len(s) + 1
  PROVE  /\ \A j \in 1 .. i - 1 : InsertAt(s, i, e)[j] = s[j]
         /\ InsertAt(s, i, e)[i] = e
         /\ \A j \in i + 1 .. Len(s) + 1 : InsertAt(s, i, e)[j] = s[j - 1]
BY Inserted

(* and that nothing else comes into it or is lost.                         *)
LEMMA InsertedRange ==
  ASSUME NEW E, NEW s \in Seq(E), NEW e \in E, NEW i \in 1 .. Len(s) + 1
  PROVE  Range(InsertAt(s, i, e)) = Range(s) \cup {e}
<1> DEFINE w == InsertAt(s, i, e)
<1>1. /\ DOMAIN w = 1 .. Len(s) + 1 /\ DOMAIN s = 1 .. Len(s) /\ Len(s) \in Nat
      /\ \A j \in 1 .. i - 1 : w[j] = s[j]
      /\ w[i] = e
      /\ \A j \in i + 1 .. Len(s) + 1 : w[j] = s[j - 1]
  <2>1. w \in Seq(E) /\ Len(w) = Len(s) + 1
    BY Inserted
  <2> HIDE DEF w
  <2>2. DOMAIN w = 1 .. Len(s) + 1
    BY <2>1
  <2> QED BY <2>2, Inserted DEF w
<1> HIDE DEF w
<1>2. ASSUME NEW j \in DOMAIN w PROVE w[j] \in Range(s) \cup {e}
  <2>1. CASE j < i
    BY <1>1, <2>1 DEF Range
  <2>2. CASE j > i
    BY <1>1, <2>2 DEF Range
  <2> QED BY <1>1, <2>1, <2>2
<1>3. ASSUME NEW j \in DOMAIN s PROVE s[j] \in Range(w)
  <2>1. CASE j < i
    BY <1>1, <2>1 DEF Range
  <2>2. CASE j >= i
    <3>1. j + 1 \in DOMAIN w /\ w[j + 1] = s[j]
      BY <1>1, <2>2
    <3> QED BY <3>1 DEF Range
  <2> QED BY <1>1, <2>1, <2>2
<1>4. e \in Range(w)
  BY <1>1 DEF Range
<1>5. Range(w) = Range(s) \cup {e}
  BY <1>2, <1>3, <1>4 DEF Range
<1> QED BY <1>5 DEF w

(* The guard events: one to a place, no more checks than the bound, and no *)
(* two events of one resource.                                             *)
AnyEvent == [kind : Kinds, at : Nat, resource : Resources,
             decision : {"block", "fallback_required"}, bound : BOOLEAN, n : Nat \ {0}]
EventLog ==
  /\ events \in Seq(AnyEvent)
  /\ IsFiniteSet(Range(events)) /\ Cardinality(Range(events)) = Len(events)
  /\ Cardinality(Checks) <= MaxChecks
  /\ \A e, f \in ResourceEvents : e.resource = f.resource => e = f

(* They are listed by time, in which they were recorded. *)
InTime ==
  /\ clock \in 0..MaxTime
  /\ \A e \in Range(events) : e.n <= Len(events) /\ e.at <= clock
  /\ \A e, f \in Range(events) : e.n < f.n => e.at <= f.at
  /\ \A i, j \in DOMAIN events : i < j => events[i].at <= events[j].at

(* An event recorded: of a check or of a resource not recorded yet, at the *)
(* present time, and listed before no earlier one.                         *)
Adding(e) ==
  /\ e \in AnyEvent /\ e.at = clock /\ e.n = Len(events) + 1
  /\ IF e.kind = "mission_resource" THEN ~ResourceTaken(e.resource) ELSE MoreChecks
  /\ \E i \in 1 .. Len(events) + 1 :
       /\ \A j \in i .. Len(events) : ~Before(events[j], e)
       /\ events' = InsertAt(events, i, e)

(* The row of the mission, whose prompt is the one it was created with.    *)
MissionTyped == mission = None \/ mission \in Missions

LEMMA MissionInvariant == ExportSpec => []MissionTyped
<1>1. ExportInit => MissionTyped
  BY DEF ExportInit, Init, MissionTyped
<1>2. MissionTyped /\ [ExportNext]_allVars => MissionTyped'
  <2> SUFFICES ASSUME MissionTyped, [ExportNext]_allVars PROVE MissionTyped'
    OBVIOUS
  <2>1. ASSUME NEW p \in Prompts, NEW b \in {Enough, Short}, EnsureMission(p, b)
        PROVE  mission' \in Missions
    BY <2>1 DEF EnsureMission, MissionTyped, Missions
  <2>2. ASSUME mission # None, NEW status \in {"active", "blocked"}, SetStatus(status)
        PROVE  mission' \in Missions
    BY <2>2 DEF SetStatus, MissionTyped, Missions
  <2>3. CASE \E r \in Resources, p \in Prompts, b \in {Enough, Short} : CreateMission(r, p, b)
    BY <2>1, <2>3 DEF CreateMission, MissionTyped
  <2>4. CASE \E p \in Prompts, b \in {Enough, Short} : DieInCreate(p, b)
    BY <2>1, <2>4 DEF DieInCreate, MissionTyped
  <2>5. CASE GuardMission
    BY <2>2, <2>5 DEF GuardMission, MissionTyped
  <2>6. CASE VerifyMission
    BY <2>2, <2>6 DEF VerifyMission, MissionTyped
  <2>7. CASE Tick \/ DryRun \/ DieInGuard \/ DieInVerify
    BY <2>7 DEF Tick, DryRun, DieInGuard, DieInVerify, MissionTyped
  <2>8. CASE UNCHANGED vars
    BY <2>8 DEF vars, MissionTyped
  <2> QED BY <2>3, <2>4, <2>5, <2>6, <2>7, <2>8 DEF ExportNext, Next, Restart, allVars
<1> QED BY <1>1, <1>2, PTL DEF ExportSpec

(* The resource a mission is for is one of the resources: recorded, or     *)
(* named by the prompt, or the default.                                    *)
LEMMA ResourceKnown ==
  ASSUME events \in Seq(AnyEvent), mission # None, MissionTyped
  PROVE  MissionResource \in Resources
<1>1. DefaultResource \in Resources
  <2>1. mission.prompt \in Prompts
    BY DEF MissionTyped, Missions
  <2>2. Named[mission.prompt] \in Resources \cup {None}
    BY <2>1, MissionAssumption
  <2>3. (CHOOSE r \in Listed \cap Trusted : TRUE) \in Resources
    BY MissionAssumption
  <2> QED BY <2>2, <2>3 DEF DefaultResource
<1>2. CASE ResourcePlaces # {}
  <2>1. ResourcePlaces \in SUBSET (1..Len(events)) /\ Len(events) \in Nat
    BY DEF ResourcePlaces
  <2>2. Max(ResourcePlaces) \in 1..Len(events)
    BY <1>2, <2>1, MaxIsGreatest
  <2>3. events[Max(ResourcePlaces)] \in AnyEvent
    BY <2>2
  <2> QED BY <1>2, <2>3 DEF MissionResource, AnyEvent
<1> QED BY <1>1, <1>2 DEF MissionResource

LEMMA RecordAdds ==
  ASSUME events \in Seq(AnyEvent), clock \in Nat,
         NEW kind \in Kinds, NEW r \in Resources, NEW d \in {"block", "fallback_required"},
         NEW b \in BOOLEAN, Record(kind, r, d, b),
         IF kind = "mission_resource" THEN ~ResourceTaken(r) ELSE MoreChecks
  PROVE  \E e : Adding(e)
<1> DEFINE e == [kind |-> kind, at |-> clock, resource |-> r, decision |-> d,
                 bound |-> b, n |-> Len(events) + 1]
<1>1. e \in AnyEvent /\ e.at = clock /\ e.n = Len(events) + 1 /\ e.kind = kind /\ e.resource = r
  BY DEF AnyEvent
<1>2. \E i \in 1 .. Len(events) + 1 :
        /\ \A j \in i .. Len(events) : ~Before(events[j], e)
        /\ events' = InsertAt(events, i, e)
  BY DEF Record
<1> HIDE DEF e
<1> QED BY <1>1, <1>2 DEF Adding

(* A step adds one event or none.                                          *)
LEMMA EventSteps ==
  ASSUME EventLog, MissionTyped, clock \in Nat, [ExportNext]_allVars
  PROVE  \/ events' = events
         \/ clock' = clock /\ \E e : Adding(e)
<1>1. events \in Seq(AnyEvent) /\ (mission # None => MissionResource \in Resources)
  BY ResourceKnown DEF EventLog
<1>2. /\ "dry_run" \in Kinds /\ "guard" \in Kinds /\ "mission_resource" \in Kinds
      /\ "guard" # "mission_resource" /\ "dry_run" # "mission_resource"
  BY DEF Kinds
<1>3. ASSUME Next PROVE events' = events \/ (clock' = clock /\ \E e : Adding(e))
  <2>1. CASE \E r \in Resources, p \in Prompts, b \in {Enough, Short} : CreateMission(r, p, b)
    <3>1. PICK r \in Resources, p \in Prompts, b \in {Enough, Short} : CreateMission(r, p, b)
      BY <2>1
    <3>2. CASE ResourceTaken(r)
      BY <3>1, <3>2 DEF CreateMission
    <3>3. CASE ~ResourceTaken(r)
      <4>1. Record("mission_resource", r, "fallback_required", FALSE) /\ clock' = clock
        BY <3>1, <3>3 DEF CreateMission
      <4> QED BY <1>1, <1>2, <3>3, <4>1, RecordAdds
    <3> QED BY <3>2, <3>3
  <2>2. CASE DryRun
    <3>1. /\ Record("dry_run", MissionResource, "fallback_required", FALSE)
          /\ MoreChecks /\ clock' = clock /\ mission # None
      BY <2>2 DEF DryRun
    <3> QED BY <1>1, <1>2, <3>1, RecordAdds
  <2>3. CASE GuardMission
    <3>1. MoreChecks /\ clock' = clock /\ mission # None
      BY <2>3 DEF GuardMission
    <3>2. \/ Record("guard", MissionResource, "block", FALSE)
          \/ Record("guard", MissionResource, "block", TRUE)
          \/ Record("guard", MissionResource, "fallback_required", TRUE)
      BY <2>3 DEF GuardMission
    <3>3. CASE Record("guard", MissionResource, "block", FALSE)
      BY <1>1, <1>2, <3>1, <3>3, RecordAdds
    <3>4. CASE Record("guard", MissionResource, "block", TRUE)
      BY <1>1, <1>2, <3>1, <3>4, RecordAdds
    <3>5. CASE Record("guard", MissionResource, "fallback_required", TRUE)
      BY <1>1, <1>2, <3>1, <3>5, RecordAdds
    <3> QED BY <3>2, <3>3, <3>4, <3>5
  <2>4. CASE DieInGuard
    <3>1. MoreChecks /\ clock' = clock /\ mission # None
      BY <2>4 DEF DieInGuard, Dies
    <3>2. events' = events \/ Record("guard", MissionResource, "fallback_required", TRUE)
      BY <2>4 DEF DieInGuard
    <3> QED BY <1>1, <1>2, <3>1, <3>2, RecordAdds
  <2>5. CASE Tick \/ VerifyMission \/ DieInVerify
    BY <2>5 DEF Tick, VerifyMission, DieInVerify
  <2>6. CASE \E p \in Prompts, b \in {Enough, Short} : DieInCreate(p, b)
    BY <2>6 DEF DieInCreate
  <2> QED BY <1>3, <2>1, <2>2, <2>3, <2>4, <2>5, <2>6 DEF Next
<1>4. CASE UNCHANGED vars
  BY <1>4 DEF vars
<1> QED BY <1>3, <1>4 DEF ExportNext, Restart, allVars

(* An event added keeps the log,                                           *)
LEMMA EventLogKept ==
  ASSUME EventLog, InTime, NEW e, Adding(e)
  PROVE  EventLog'
<1>1. PICK i \in 1 .. Len(events) + 1 : events' = InsertAt(events, i, e)
  BY DEF Adding
<1>2. e \in AnyEvent /\ e.n = Len(events) + 1 /\ events \in Seq(AnyEvent) /\ Len(events) \in Nat
  BY DEF Adding, EventLog
<1>3. events' \in Seq(AnyEvent) /\ Len(events') = Len(events) + 1
  BY <1>1, <1>2, Inserted
<1>4. Range(events') = Range(events) \cup {e}
  BY <1>1, <1>2, InsertedRange
<1>5. e \notin Range(events)
  BY <1>2 DEF InTime
<1>6. IsFiniteSet(Range(events')) /\ Cardinality(Range(events')) = Len(events')
  BY <1>3, <1>4, <1>5, FS_AddElement DEF EventLog
<1>7. Cardinality(Checks') <= MaxChecks
  <2>1. CASE e.kind = "mission_resource"
    <3>1. Checks' = Checks
      BY <1>4, <2>1 DEF Checks
    <3> QED BY <3>1 DEF EventLog
  <2>2. CASE e.kind # "mission_resource"
    <3>1. Checks' = Checks \cup {e} /\ e \notin Checks
      BY <1>4, <1>5, <2>2 DEF Checks
    <3>2. IsFiniteSet(Checks)
      BY FS_Subset DEF EventLog, Checks
    <3>3. Cardinality(Checks') = Cardinality(Checks) + 1 /\ Cardinality(Checks) \in Nat
      BY <3>1, <3>2, FS_AddElement, FS_CardinalityType
    <3>4. Cardinality(Checks) < MaxChecks
      BY <2>2 DEF Adding, MoreChecks
    <3> QED BY <3>3, <3>4, MissionAssumption
  <2> QED BY <2>1, <2>2
<1>8. \A f, g \in ResourceEvents' : f.resource = g.resource => f = g
  <2>1. CASE e.kind = "mission_resource"
    <3>1. ResourceEvents' = ResourceEvents \cup {e}
      BY <1>4, <2>1 DEF ResourceEvents
    <3>2. \A f \in ResourceEvents : f.resource # e.resource
      BY <2>1 DEF Adding, ResourceTaken
    <3> QED BY <3>1, <3>2 DEF EventLog
  <2>2. CASE e.kind # "mission_resource"
    <3>1. ResourceEvents' = ResourceEvents
      BY <1>4, <2>2 DEF ResourceEvents
    <3> QED BY <3>1 DEF EventLog
  <2> QED BY <2>1, <2>2
<1> QED BY <1>3, <1>6, <1>7, <1>8 DEF EventLog

(* and its order: what is listed behind it is of this very time.           *)
LEMMA InTimeKept ==
  ASSUME EventLog, InTime, NEW e, Adding(e), clock' = clock
  PROVE  InTime'
<1>1. PICK i \in 1 .. Len(events) + 1 :
        /\ \A j \in i .. Len(events) : ~Before(events[j], e)
        /\ events' = InsertAt(events, i, e)
  BY DEF Adding
<1>2. /\ e \in AnyEvent /\ e.n = Len(events) + 1 /\ e.at = clock
      /\ events \in Seq(AnyEvent) /\ Len(events) \in Nat /\ clock \in Nat
  BY MissionAssumption DEF Adding, EventLog, InTime
<1>3. events' \in Seq(AnyEvent) /\ Len(events') = Len(events) + 1
  BY <1>1, <1>2, Inserted
<1>4. Range(events') = Range(events) \cup {e}
  BY <1>1, <1>2, InsertedRange
<1>5. \A f \in Range(events) : f.n \in Nat /\ f.at \in Nat /\ f.n <= Len(events) /\ f.at <= clock
  <2>1. \A f \in Range(events) : f \in AnyEvent
    BY <1>2 DEF Range
  <2> QED BY <2>1 DEF AnyEvent, InTime
<1>6. \A f \in Range(events)' : f.n <= Len(events') /\ f.at <= clock
  BY <1>2, <1>3, <1>4, <1>5
<1>7. \A f, g \in Range(events)' : f.n < g.n => f.at <= g.at
  <2> SUFFICES ASSUME NEW f \in Range(events)', NEW g \in Range(events)', f.n < g.n
               PROVE  f.at <= g.at
    OBVIOUS
  <2>1. CASE f \in Range(events) /\ g \in Range(events)
    BY <2>1 DEF InTime
  <2>2. CASE f \in Range(events) /\ g = e
    BY <1>2, <1>5, <2>2
  <2>3. CASE f = e
    BY <1>2, <1>4, <1>5, <2>3
  <2> QED BY <1>4, <2>1, <2>2, <2>3
<1>8. /\ \A l \in 1 .. i - 1 : events'[l] = events[l]
      /\ events'[i] = e
      /\ \A l \in i + 1 .. Len(events) + 1 : events'[l] = events[l - 1]
  BY <1>1, <1>2, InsertedAt
<1>9. \A k, j \in DOMAIN events' : k < j => events'[k].at <= events'[j].at
  <2> SUFFICES ASSUME NEW k \in DOMAIN events', NEW j \in DOMAIN events', k < j
               PROVE  events'[k].at <= events'[j].at
    OBVIOUS
  <2>1. DOMAIN events = 1 .. Len(events) /\ DOMAIN events' = 1 .. Len(events) + 1
    BY <1>2, <1>3
  <2>2. \A l \in 1 .. Len(events) : events[l].at \in Nat /\ events[l].at <= clock
    BY <1>5, <2>1 DEF Range
  <2>3. \A l \in i .. Len(events) : events[l].at = clock
    <3> SUFFICES ASSUME NEW l \in i .. Len(events) PROVE events[l].at = clock
      OBVIOUS
    <3>1. ~(events[l].at < e.at)
      BY <1>1 DEF Before
    <3>2. l \in 1 .. Len(events)
      OBVIOUS
    <3> QED BY <1>2, <2>2, <3>1, <3>2
  <2>4. CASE j < i
    BY <1>8, <2>1, <2>4 DEF InTime
  <2>5. CASE j >= i
    <3>1. events'[j].at = clock
      <4>1. CASE j = i
        BY <1>2, <1>8, <4>1
      <4>2. CASE j > i
        <5>1. j \in i + 1 .. Len(events) + 1 /\ j - 1 \in i .. Len(events)
          BY <1>2, <2>1, <4>2
        <5>2. events'[j] = events[j - 1]
          BY <1>8, <5>1
        <5> QED BY <2>3, <5>1, <5>2
      <4> QED BY <2>1, <2>5, <4>1, <4>2
    <3>2. events'[k].at <= clock
      <4>1. CASE k < i
        BY <1>8, <2>1, <2>2, <4>1
      <4>2. CASE k = i
        BY <1>2, <1>8, <4>2
      <4>3. CASE k > i
        <5>1. k \in i + 1 .. Len(events) + 1 /\ k - 1 \in 1 .. Len(events)
          BY <1>2, <2>1, <4>3
        <5>2. events'[k] = events[k - 1]
          BY <1>8, <5>1
        <5> QED BY <2>2, <5>1, <5>2
      <4> QED BY <2>1, <4>1, <4>2, <4>3
    <3> QED BY <3>1, <3>2
  <2> QED BY <2>1, <2>4, <2>5
<1> QED BY <1>6, <1>7, <1>9 DEF InTime

LEMMA LogInductive ==
  ASSUME EventLog /\ InTime, MissionTyped, [ExportNext]_allVars
  PROVE  (EventLog /\ InTime)'
<1>1. clock \in Nat /\ MaxTime \in Nat
  BY MissionAssumption DEF InTime
<1>2. CASE clock' = clock /\ \E e : Adding(e)
  BY <1>2, EventLogKept, InTimeKept
<1>3. CASE events' = events
  <2>1. EventLog'
    BY <1>3 DEF EventLog, Checks, ResourceEvents
  <2>2. clock' \in 0..MaxTime /\ clock <= clock'
    <3>1. clock' = clock \/ (clock < MaxTime /\ clock' = clock + 1)
      <4>1. CASE Next
        BY <4>1 DEF Next, Tick, CreateMission, DryRun, GuardMission, VerifyMission,
                    DieInCreate, DieInGuard, DieInVerify, Dies
      <4>2. CASE UNCHANGED vars
        BY <4>2 DEF vars
      <4> QED BY <4>1, <4>2 DEF ExportNext, Restart, allVars
    <3> QED BY <1>1, <3>1 DEF InTime
  <2>3. \A e \in Range(events) : e.at \in Nat
    <3>1. \A e \in Range(events) : e \in AnyEvent
      BY DEF EventLog, Range
    <3> QED BY <3>1 DEF AnyEvent
  <2>4. \A e \in Range(events) : e.at <= clock'
    BY <1>1, <2>2, <2>3 DEF InTime
  <2>5. InTime'
    BY <1>3, <2>2, <2>4 DEF InTime
  <2> QED BY <2>1, <2>5
<1>4. events' = events \/ (clock' = clock /\ \E e : Adding(e))
  BY <1>1, EventSteps
<1> QED BY <1>2, <1>3, <1>4

(* The invariant of the guard events.                                      *)
LEMMA LogInvariant == ExportSpec => [](EventLog /\ InTime)
<1>1. ExportInit => EventLog /\ InTime
  <2> SUFFICES ASSUME ExportInit PROVE EventLog /\ InTime
    OBVIOUS
  <2>1. clock = 0 /\ events = <<>> /\ Range(events) = {} /\ Len(events) = 0
    BY DEF ExportInit, Init, Range
  <2>2. IsFiniteSet({}) /\ Cardinality({}) = 0
    BY FS_EmptySet, Zenon
  <2>3. Checks = {} /\ ResourceEvents = {}
    BY <2>1 DEF Checks, ResourceEvents
  <2>4. EventLog
    <3>1. events \in Seq(AnyEvent)
      BY <2>1
    <3>2. IsFiniteSet(Range(events)) /\ Cardinality(Range(events)) = Len(events)
      BY <2>1, <2>2
    <3>3. Cardinality(Checks) <= MaxChecks
      BY <2>2, <2>3, MissionAssumption
    <3> QED BY <2>3, <3>1, <3>2, <3>3 DEF EventLog
  <2>5. InTime
    BY <2>1, MissionAssumption DEF InTime
  <2> QED BY <2>4, <2>5
<1>2. EventLog /\ InTime /\ MissionTyped /\ [ExportNext]_allVars => (EventLog /\ InTime)'
  BY LogInductive
<1> QED BY <1>1, <1>2, MissionInvariant, PTL DEF ExportSpec

(* The last resource event listed is no earlier than the one recorded last,*)
(* which is at a time of its own: it is that one.                          *)
LEMMA LastIsFound ==
  ASSUME EventLog, InTime
  PROVE  ResourceIsLast
<1> SUFFICES ASSUME NEW e \in ResourceEvents,
                    \A f \in ResourceEvents : f # e => f.n < e.n /\ f.at # e.at
             PROVE  MissionResource = e.resource
  BY DEF ResourceIsLast
<1>1. DOMAIN events = 1..Len(events) /\ Len(events) \in Nat
  BY DEF EventLog
<1>2. PICK i \in DOMAIN events : events[i] = e
  BY DEF ResourceEvents, Range
<1>3. ResourcePlaces \in SUBSET (1..Len(events)) /\ i \in ResourcePlaces
  BY <1>1, <1>2 DEF ResourcePlaces, ResourceEvents
<1> DEFINE top == Max(ResourcePlaces)
           l == events[top]
<1>4. top \in ResourcePlaces /\ i <= top
  BY <1>1, <1>3, MaxIsGreatest
<1>5. top \in DOMAIN events /\ l \in ResourceEvents
  BY <1>1, <1>4 DEF ResourcePlaces, ResourceEvents, Range
<1>6. e.at \in Nat /\ l.at \in Nat
  <2>1. e \in AnyEvent /\ l \in AnyEvent
    BY <1>1, <1>2, <1>5 DEF EventLog
  <2> QED BY <2>1 DEF AnyEvent
<1>7. MissionResource = l.resource
  BY <1>3 DEF MissionResource
<1> HIDE DEF top
<1>8. ASSUME l # e PROVE FALSE
  <2>1. l.n < e.n /\ l.at # e.at
    BY <1>5, <1>8
  <2>2. l.at <= e.at
    BY <1>5, <2>1 DEF InTime, ResourceEvents
  <2>3. i < top
    BY <1>1, <1>2, <1>4, <1>5, <1>8
  <2>4. e.at <= l.at
    BY <1>2, <1>5, <2>3 DEF InTime
  <2> QED BY <1>6, <2>1, <2>2, <2>4
<1> QED BY <1>7, <1>8

(* Whatever the ids and however many creates, checks and deaths: a mission is*)
(* for the resource that was recorded last, if at a time of its own.       *)
THEOREM ResourceOfLastCreate == ExportSpec => []ResourceIsLast
<1>1. EventLog /\ InTime => ResourceIsLast
  BY LastIsFound
<1> QED BY <1>1, LogInvariant, PTL

-----------------------------------------------------------------------------
(* Contexts and guards                                                     *)

LEMMA RecordedOne ==
  ASSUME events \in Seq(AnyEvent), clock \in Nat,
         NEW kind \in Kinds, NEW r \in Resources, NEW d \in {"block", "fallback_required"},
         NEW b \in BOOLEAN, Record(kind, r, d, b)
  PROVE  \E e : /\ e.kind = kind /\ e.at = clock /\ e.resource = r /\ e.decision = d
                /\ Range(events') = Range(events) \cup {e}
<1> DEFINE e == [kind |-> kind, at |-> clock, resource |-> r, decision |-> d,
                 bound |-> b, n |-> Len(events) + 1]
<1>1. e \in AnyEvent /\ e.kind = kind /\ e.at = clock /\ e.resource = r /\ e.decision = d
  BY DEF AnyEvent
<1>2. PICK i \in 1 .. Len(events) + 1 : events' = InsertAt(events, i, e)
  BY DEF Record
<1> HIDE DEF e
<1>3. Range(events') = Range(events) \cup {e}
  BY <1>1, <1>2, InsertedRange
<1> QED BY <1>1, <1>3

(* An event says that a guard let the payment through.                     *)
Passed(e) == e.kind = "guard" /\ e.decision = "fallback_required"

(* The first guard that passes writes the context before its event, and    *)
(* none passes after it: so no event speaks of another.                    *)
LEMMA PassingIsRecorded ==
  ASSUME ContextAsGuarded, EventLog, InTime, MissionTyped, Next
  PROVE  ContextAsGuarded'
<1> DEFINE Bound == [resource |-> MissionResource, issued |-> clock]
<1>1. /\ events \in Seq(AnyEvent) /\ clock \in Nat /\ clock \in 0..MaxTime
      /\ mission # None => MissionResource \in Resources
  BY ResourceKnown, MissionAssumption DEF EventLog, InTime
<1>2. Kinds = {"dry_run", "guard", "mission_resource"}
  BY DEF Kinds
<1>3. \A e \in Range(events) : Passed(e) => context = [resource |-> e.resource, issued |-> e.at]
  BY DEF ContextAsGuarded, Checks, Passed
<1>4. context = None => \A e \in Range(events) : ~Passed(e)
  <2> SUFFICES ASSUME context = None, NEW e \in Range(events), Passed(e) PROVE FALSE
    OBVIOUS
  <2>1. e \in AnyEvent /\ e.at <= clock
    BY <1>1 DEF Range, InTime
  <2>2. e.resource \in Resources /\ e.at \in 0..MaxTime
    BY <1>1, <2>1, MissionAssumption DEF AnyEvent
  <2> QED BY <1>3, <2>2, MissionAssumption
<1>5. SUFFICES \A e \in Range(events)' : Passed(e) => context' = [resource |-> e.resource, issued |-> e.at]
  BY DEF ContextAsGuarded, Checks, Passed
<1>6. CASE UNCHANGED <<events, context>>
  BY <1>3, <1>6
<1>7. ASSUME NEW kind \in Kinds, NEW r \in Resources, NEW d \in {"block", "fallback_required"},
             NEW b \in BOOLEAN, Record(kind, r, d, b), ~(kind = "guard" /\ d = "fallback_required"),
             UNCHANGED context
      PROVE  \A e \in Range(events)' : Passed(e) => context' = [resource |-> e.resource, issued |-> e.at]
  BY <1>1, <1>3, <1>7, RecordedOne DEF Passed
<1>8. ASSUME mission # None, ~Locked, context' = Bound,
             events' = events \/ Record("guard", MissionResource, "fallback_required", TRUE)
      PROVE  \A e \in Range(events)' : Passed(e) => context' = [resource |-> e.resource, issued |-> e.at]
  <2>1. \A e \in Range(events) : ~Passed(e)
    BY <1>4, <1>8 DEF Locked
  <2>2. CASE events' = events
    BY <2>1, <2>2
  <2>3. CASE Record("guard", MissionResource, "fallback_required", TRUE)
    <3>1. /\ events \in Seq(AnyEvent) /\ clock \in Nat
          /\ "guard" \in Kinds /\ MissionResource \in Resources
      BY <1>1, <1>2, <1>8
    <3>2. PICK bound \in BOOLEAN : Record("guard", MissionResource, "fallback_required", bound)
      BY <2>3, Zenon
    <3>3. \E e : /\ e.kind = "guard" /\ e.at = clock
                 /\ e.resource = MissionResource /\ e.decision = "fallback_required"
                 /\ Range(events') = Range(events) \cup {e}
      BY <3>1, <3>2, RecordedOne
    <3> QED BY <1>8, <2>1, <3>3
  <2> QED BY <1>8, <2>2, <2>3
<1>9. CASE \E r \in Resources, p \in Prompts, b \in {Enough, Short} : CreateMission(r, p, b)
  BY <1>2, <1>6, <1>7, <1>9 DEF CreateMission
<1>10. CASE DryRun
  BY <1>1, <1>2, <1>7, <1>10 DEF DryRun
<1>11. CASE GuardMission
  <2>1. mission # None /\ MissionResource \in Resources
    BY <1>1, <1>11 DEF GuardMission
  <2>2. \/ \E b \in BOOLEAN : Record("guard", MissionResource, "block", b) /\ UNCHANGED context
        \/ ~Locked /\ context' = Bound /\ Record("guard", MissionResource, "fallback_required", TRUE)
    BY <1>11 DEF GuardMission
  <2> QED BY <1>2, <1>7, <1>8, <2>1, <2>2
<1>12. CASE DieInGuard
  BY <1>8, <1>12 DEF DieInGuard
<1> QED BY <1>6, <1>9, <1>10, <1>11, <1>12
        DEF Next, Tick, VerifyMission, DieInCreate, DieInVerify

(* Whatever a mission is created for, guarded and restarted with: a guard  *)
(* its log says passed has its own payment context in the tables.          *)
THEOREM GuardedIsRecorded == ExportSpec => []ContextAsGuarded
<1>1. ExportInit => ContextAsGuarded
  BY DEF ExportInit, Init, ContextAsGuarded, Checks, Range
<1>2. ContextAsGuarded /\ EventLog /\ InTime /\ MissionTyped /\ [ExportNext]_allVars => ContextAsGuarded'
  <2> SUFFICES ASSUME ContextAsGuarded, EventLog, InTime, MissionTyped, [ExportNext]_allVars
               PROVE  ContextAsGuarded'
    OBVIOUS
  <2>1. CASE Next
    BY <2>1, PassingIsRecorded
  <2>2. CASE UNCHANGED vars
    BY <2>2 DEF vars, ContextAsGuarded, Checks
  <2> QED BY <2>1, <2>2 DEF ExportNext, Restart, allVars
<1> QED BY <1>1, <1>2, LogInvariant, MissionInvariant, PTL DEF ExportSpec

-----------------------------------------------------------------------------
(* There are no more events than checks and resources. *)
LEMMA LogBounded ==
  ASSUME EventLog
  PROVE  Len(events) <= MaxChecks + Cardinality(Resources)
<1>1. Range(events) = Checks \cup ResourceEvents /\ Checks \cap ResourceEvents = {}
  BY DEF Checks, ResourceEvents
<1>2. IsFiniteSet(Checks) /\ IsFiniteSet(ResourceEvents)
  BY FS_Subset, <1>1 DEF EventLog
<1>3. Cardinality(Range(events)) = Cardinality(Checks) + Cardinality(ResourceEvents)
                                      - Cardinality(Checks \cap ResourceEvents)
  BY <1>1, <1>2, FS_Union
<1>4. Cardinality(Checks \cap ResourceEvents) = 0
  BY <1>1, FS_EmptySet
<1>5. Cardinality(ResourceEvents) <= Cardinality(Resources)
  <2> DEFINE place == [e \in ResourceEvents |-> e.resource]
  <2>1. \A e \in ResourceEvents : e.resource \in Resources
    <3>1. \A e \in Range(events) : e \in AnyEvent
      BY DEF EventLog, Range
    <3> QED BY <3>1 DEF AnyEvent, ResourceEvents
  <2>2. place \in Injection(ResourceEvents, Resources)
    BY <2>1 DEF EventLog, Injection, IsInjective
  <2> QED BY <2>2, FS_Injection, MissionAssumption
<1>6. Cardinality(Checks) \in Nat /\ Cardinality(ResourceEvents) \in Nat /\ Cardinality(Resources) \in Nat
  BY <1>2, FS_CardinalityType, MissionAssumption
<1>7. Cardinality(Range(events)) = Len(events) /\ Cardinality(Checks) <= MaxChecks /\ MaxChecks \in Nat
  BY MissionAssumption DEF EventLog
<1> QED BY <1>3, <1>4, <1>5, <1>6, <1>7

(* An event is what the type says.                                         *)
LEMMA LogTyped ==
  ASSUME EventLog, InTime
  PROVE  events \in Seq(Event)
<1>1. /\ Len(events) <= MaxChecks + Cardinality(Resources) /\ Cardinality(Resources) \in Nat
      /\ MaxChecks \in Nat /\ MaxTime \in Nat /\ clock \in 0..MaxTime /\ Len(events) \in Nat
  BY LogBounded, FS_CardinalityType, MissionAssumption DEF InTime, EventLog
<1>2. ASSUME NEW i \in 1..Len(events) PROVE events[i] \in Event
  <2>1. events[i] \in AnyEvent /\ events[i].n <= Len(events) /\ events[i].at <= clock
    BY DEF EventLog, InTime, Range
  <2>2. events[i].n \in Nat \ {0} /\ events[i].at \in Nat
    BY <2>1 DEF AnyEvent
  <2>3. events[i].n \in 1..MaxChecks + Cardinality(Resources) /\ events[i].at \in 0..MaxTime
    BY <1>1, <2>1, <2>2
  <2> QED BY <2>1, <2>3 DEF AnyEvent, Event
<1> QED BY <1>2, SeqDef DEF EventLog

-----------------------------------------------------------------------------
(* Types                                                                   *)

(* The other tables. *)
Tables ==
  /\ crashes \in 0..MaxCrashes
  /\ context = None \/ context \in [resource : Resources, issued : 0..MaxTime]
  /\ receipt = None \/ (context # None /\ receipt.context = context /\ receipt.status = "failed")
  /\ \A row \in duals : row.created \in 0..MaxTime /\ row.decision \in {"allow", "block"}

(* What a step writes to the payment context.                              *)
LEMMA ContextWritten ==
  ASSUME Tables, EventLog, InTime, MissionTyped, Next
  PROVE  /\ context' = None \/ context' \in [resource : Resources, issued : 0..MaxTime]
         /\ context # None => context' = context
<1> DEFINE Contexts == [resource : Resources, issued : 0..MaxTime]
<1>1. mission # None => [resource |-> MissionResource, issued |-> clock] \in Contexts
  BY ResourceKnown DEF EventLog, InTime
<1>2. context = None \/ context \in Contexts
  BY DEF Tables
<1>3. CASE GuardMission
  BY <1>1, <1>2, <1>3 DEF GuardMission, Locked
<1>4. CASE DieInGuard
  BY <1>1, <1>4 DEF DieInGuard, Locked
<1>5. CASE context' = context
  BY <1>2, <1>5
<1>6. GuardMission \/ DieInGuard \/ context' = context
  BY DEF Next, Tick, CreateMission, DryRun, VerifyMission, DieInCreate, DieInVerify
<1> QED BY <1>3, <1>4, <1>5, <1>6

LEMMA TablesKept ==
  ASSUME Tables, EventLog, InTime, MissionTyped, [ExportNext]_allVars
  PROVE  Tables'
<1>1. CASE UNCHANGED vars
  BY <1>1 DEF vars, Tables
<1>2. CASE Next
  <2>2. /\ context' = None \/ context' \in [resource : Resources, issued : 0..MaxTime]
        /\ context # None => context' = context
    BY <1>2, ContextWritten
  <2>3. crashes' \in 0..MaxCrashes
    <3>1. crashes' = crashes \/ (crashes < MaxCrashes /\ crashes' = crashes + 1)
      BY <1>2 DEF Next, Tick, CreateMission, DryRun, GuardMission, VerifyMission,
                  DieInCreate, DieInGuard, DieInVerify, Dies
    <3> QED BY <3>1, MissionAssumption DEF Tables
  <2>4. receipt' = None \/ (context' # None /\ receipt'.context = context' /\ receipt'.status = "failed")
    <3>1. CASE Verified
      <4>1. receipt'.context = context /\ receipt'.status = "failed" /\ context # None
        BY <3>1, Fallback DEF Verified
      <4> QED BY <2>2, <4>1
    <3>2. CASE Unverified
      BY <2>2, <3>2 DEF Unverified, Tables
    <3> QED BY <3>1, <3>2, Steps
  <2>5. \A row \in duals' : row.created \in 0..MaxTime /\ row.decision \in {"allow", "block"}
    <3>1. CASE duals' = Upserted(Dual(FallbackReceipt, "demo"))
      <4> DEFINE dual == Dual(FallbackReceipt, "demo")
      <4>1. ASSUME NEW row \in Upserted(dual)
            PROVE  row.created \in 0..MaxTime /\ row.decision \in {"allow", "block"}
        <5>1. Verdict(dual) \in {"allow", "block"}
          BY DEF Verdict, VerifyDual
        <5>2. row \in duals \/ row = [dual |-> dual, decision |-> Verdict(dual), created |-> clock]
          BY DEF Upserted
        <5> QED BY <5>1, <5>2 DEF Tables, InTime
      <4> QED BY <3>1, <4>1
    <3>2. CASE duals' = duals
      BY <3>2 DEF Tables
    <3> QED BY <3>1, <3>2, Steps DEF Verified, Unverified
  <2> QED BY <2>2, <2>3, <2>4, <2>5 DEF Tables
<1> QED BY <1>1, <1>2 DEF ExportNext, Restart, allVars

(* What the parts of an export are labelled, and the worst of the labels. *)
LEMMA Labelled == EventLog => Overall = IF TrustMode = "mock" THEN "mock" ELSE "fallback"
<1> SUFFICES ASSUME EventLog PROVE Overall = IF TrustMode = "mock" THEN "mock" ELSE "fallback"
  OBVIOUS
<1>1. "live" \in Components /\ "fallback" \in Components
  BY DEF Components
<1>2. /\ ChallengeMode \in {"live", "fallback"} /\ TrustMode \in {"mock", "fallback"}
      /\ ContextShown.mode \in {"live", "fallback"}
      /\ Settlement.mode \in {"live", "fallback"}
  <2>1. ChallengeMode \in {"live", "fallback"} /\ TrustMode \in {"mock", "fallback"}
    BY DEF ChallengeMode, TrustMode
  <2>2. ContextShown.mode \in {"live", "fallback"}
    BY DEF ContextShown
  <2>3. Settlement.mode \in {"live", "fallback"}
    BY DEF Settlement
  <2> QED BY <2>1, <2>2, <2>3
<1>3. GuardShown.mode \in {"mock", "fallback"} /\ (GuardShown.mode = "mock" => TrustMode = "mock")
  <2>1. CASE events # <<>> /\ HasTrust(Last(events))
    <3>1. Len(events) \in DOMAIN events
      BY <2>1 DEF EventLog
    <3>2. Last(events) \in Range(events)
      BY <3>1 DEF Last, Range
    <3>3. TrustMode = "mock"
      BY <2>1, <3>2 DEF TrustMode
    <3> QED BY <2>1, <3>3 DEF GuardShown
  <2>2. CASE ~(events # <<>> /\ HasTrust(Last(events)))
    BY <2>2 DEF GuardShown
  <2> QED BY <2>1, <2>2
<1>4. /\ \A mode \in Components : mode \in {"live", "fallback", "mock"}
      /\ "mock" \in Components <=> TrustMode = "mock"
  BY <1>2, <1>3 DEF Components
<1>5. Rank["live"] = 0 /\ Rank["fallback"] = 1 /\ Rank["mock"] = 2
  BY DEF Rank
<1> DEFINE Worst(m) == m \in Components /\ \A mode \in Components : Rank[mode] <= Rank[m]
<1>6. CASE TrustMode = "mock"
  <2>1. Worst("mock")
    BY <1>4, <1>5, <1>6
  <2>2. \A m \in Components : Worst(m) => m = "mock"
    BY <1>4, <1>5, <2>1
  <2>3. Overall = "mock"
    BY <2>1, <2>2 DEF Overall
  <2> QED BY <1>6, <2>3
<1>7. CASE TrustMode # "mock"
  <2>1. Worst("fallback")
    BY <1>1, <1>4, <1>5, <1>7
  <2>2. \A m \in Components : Worst(m) => m = "fallback"
    BY <1>4, <1>5, <1>7, <2>1
  <2>3. Overall = "fallback"
    BY <2>1, <2>2 DEF Overall
  <2> QED BY <1>7, <2>3
<1> QED BY <1>6, <1>7

(* Whatever the mission goes through, its export is never labelled better  *)
(* than before: an event whose decision had demo trust stays on record.    *)
THEOREM LabelsOnlyWorsen == ExportSpec => LabelNeverImproves
<1>0. (EventLog => Overall = IF TrustMode = "mock" THEN "mock" ELSE "fallback")'
  BY Labelled, PTL
<1>1. ASSUME EventLog, InTime, MissionTyped, EventLog', [ExportNext]_allVars PROVE Rank[Overall'] >= Rank[Overall]
  <2>1. Range(events) \subseteq Range(events')
    <3>1. CASE events' = events
      BY <3>1
    <3>2. CASE \E e : Adding(e)
      <4>1. PICK e : Adding(e)
        BY <3>2
      <4>2. PICK i \in 1 .. Len(events) + 1 : events' = InsertAt(events, i, e)
        BY <4>1 DEF Adding
      <4>3. e \in AnyEvent /\ events \in Seq(AnyEvent)
        BY <1>1, <4>1 DEF Adding, EventLog
      <4>4. Range(InsertAt(events, i, e)) = Range(events) \cup {e}
        BY <4>3, InsertedRange
      <4> QED BY <4>2, <4>4
    <3> QED BY <1>1, <3>1, <3>2, EventSteps, MissionAssumption DEF InTime
  <2>2. TrustMode = "mock" => TrustMode' = "mock"
    BY <2>1 DEF TrustMode, HasTrust
  <2>3. Overall = IF TrustMode = "mock" THEN "mock" ELSE "fallback"
    BY <1>1, Labelled
  <2>4. Overall' = IF TrustMode' = "mock" THEN "mock" ELSE "fallback"
    BY <1>0, <1>1
  <2> QED BY <2>2, <2>3, <2>4 DEF Rank
<1>2. EventLog /\ InTime /\ MissionTyped /\ (EventLog /\ InTime)' /\ [ExportNext]_allVars
        => [mission # None => Rank[Overall'] >= Rank[Overall]]_allVars
  BY <1>1
<1> QED BY <1>2, LogInvariant, MissionInvariant, PTL DEF ExportSpec, LabelNeverImproves

(* The state of a mission and of its export stays of its type; its events are*)
(* no more than the checks and the resources.                              *)
THEOREM ExportTyped == ExportSpec => []ExportTypeOK
<1> DEFINE EnvOK == env \in [contract : BOOLEAN, tx : BOOLEAN]
<1>1. ExportInit => Tables /\ EnvOK
  BY MissionAssumption DEF ExportInit, Init, Tables
<1>2. EventLog /\ InTime /\ MissionTyped /\ Tables /\ EnvOK /\ [ExportNext]_allVars => (Tables /\ EnvOK)'
  <2>1. EnvOK /\ [ExportNext]_allVars => EnvOK'
    BY DEF ExportNext, Restart, allVars
  <2> QED BY <2>1, TablesKept
<1>3. EventLog /\ InTime /\ MissionTyped /\ Tables /\ EnvOK => ExportTypeOK
  <2> SUFFICES ASSUME EventLog, InTime, MissionTyped, Tables, EnvOK PROVE ExportTypeOK
    OBVIOUS
  <2>1. TypeOK
    BY LogTyped DEF TypeOK, Tables, InTime, MissionTyped
  <2>2. Overall \in DOMAIN Rank
    BY Labelled DEF Rank
  <2> QED BY <2>1, <2>2 DEF ExportTypeOK
<1> QED BY <1>1, <1>2, <1>3, LogInvariant, MissionInvariant, PTL DEF ExportSpec
=============================================================================
