--------------------------- MODULE GuardPipeline ---------------------------
(***************************************************************************)
(* Concurrent executions ("runs") of runGuardPipeline                      *)
(* (services/runtime/src/guard/pipeline.ts) over the tables of QuoteLock,  *)
(* with the adapter of the CAW wallet as environment.                      *)
(*                                                                         *)
(* A run is synchronous except for one await, the call of the adapter.     *)
(* While a run is between two awaits it holds the event loop: only it may  *)
(* take a step.  Every autocommitted statement is a step of its own, so    *)
(* that the process may die between two of them; it restarts over the same *)
(* database and its runs are gone.                                         *)
(***************************************************************************)
EXTENDS QuoteLock

CONSTANTS
  Runs,        \* calls of runGuardPipeline, each made at most once
  NoHash       \* stands for "this run reserved nothing"

ASSUME PipelineAssumption == NoHash \notin Hash

VARIABLES
  pc,          \* where each run stands
  verdict,     \* the decision a run reports and records
  settle,      \* what a run does once its guard event is recorded
  holds,       \* the hash a run has reserved, or NoHash
  guardEvents, \* guard_events: the runs that have a row
  timeline,    \* mission_timeline_events: the runs whose event has a row
  sent,        \* runs that have called the adapter
  paid         \* runs whose adapter answered with executed payment evidence

pipe == <<pc, verdict, settle, holds, guardEvents, timeline, sent, paid>>
vars == <<tables, pipe>>

Decision == {"none", "allow", "block", "require_approval", "fallback_required"}
Settlement == {"end", "release", "dispute"}

(* Points inside a synchronous section. *)
Running == {"reserved", "record", "timeline", "release", "void", "dispute",
            "spend", "spendQuote", "post", "receipt"}
(* A run that has returned, thrown or died with the process. *)
Stopped == {"done", "threw", "crashed"}
Points == {"idle", "awaiting", "declined"} \cup Running \cup Stopped

TypeOK ==
  /\ QuoteLockTypeOK
  /\ pc \in [Runs -> Points]
  /\ verdict \in [Runs -> Decision]
  /\ settle \in [Runs -> Settlement]
  /\ holds \in [Runs -> Hash \cup {NoHash}]
  /\ guardEvents \subseteq Runs
  /\ timeline \subseteq Runs
  /\ sent \subseteq Runs
  /\ paid \subseteq Runs

Init ==
  /\ QuoteLockInit
  /\ pc = [r \in Runs |-> "idle"]
  /\ verdict = [r \in Runs |-> "none"]
  /\ settle = [r \in Runs |-> "end"]
  /\ holds = [r \in Runs |-> NoHash]
  /\ guardEvents = {}
  /\ timeline = {}
  /\ sent = {}
  /\ paid = {}

-----------------------------------------------------------------------------
(* The event loop is free: no run is between two awaits. *)
LoopFree == \A r \in Runs : pc[r] \notin Running

Goto(r, point) == pc' = [pc EXCEPT ![r] = point]

(* Every refusal records its guard event first and settles afterwards; the *)
(* faulty form settles first.                                              *)
Conclude_SettleFirst(r, decision, settlement) ==
  /\ Goto(r, IF settlement = "end" THEN "record" ELSE settlement)
  /\ verdict' = [verdict EXCEPT ![r] = decision]
  /\ settle' = [settle EXCEPT ![r] = "end"]
Conclude(r, decision, settlement) ==
  /\ Goto(r, "record")
  /\ verdict' = [verdict EXCEPT ![r] = decision]
  /\ settle' = [settle EXCEPT ![r] = settlement]

-----------------------------------------------------------------------------
(* From the call up to the reservation                                     *)

(* A check refuses before anything is reserved.  Recording the guard event *)
(* of a mission that has no row yet violates a foreign key and throws.     *)
RefuseWith(r, m, decision) ==
  /\ pc[r] = "idle" /\ LoopFree
  /\ IF budget[m] = NoMission
       THEN Goto(r, "threw") /\ UNCHANGED <<verdict, settle>>
       ELSE Conclude(r, decision, "end")
  /\ UNCHANGED <<tables, holds, guardEvents, timeline, sent, paid>>

(* Resource missing, URL unparsable, duplicate payment header, resource    *)
(* of another request, origin without a registry entry.                    *)
RefuseRequest(r, m) == RefuseWith(r, m, "block")

(* The registry or the ERC-8004 records refuse; a trust source that must   *)
(* be live and is not makes it a fallback.                                 *)
RefuseProvider(r, m) ==
  \E decision \in {"block", "fallback_required"} : RefuseWith(r, m, decision)

(* The metadata firewall, or metadata about another resource. *)
RefuseMetadata(r, m) == RefuseWith(r, m, "block")

(* A signed quote that does not verify, or binds another context hash. *)
RefuseQuote(r, m) == RefuseWith(r, m, "block")

(* An expired or malformed challenge makes normalizeX402Challenge throw:   *)
(* the caller gets the exception and no guard event is recorded.           *)
ChallengeThrows(r) ==
  /\ pc[r] = "idle" /\ LoopFree
  /\ Goto(r, "threw")
  /\ UNCHANGED <<tables, verdict, settle, holds, guardEvents, timeline, sent, paid>>

(* The reservation transaction commits.  A grant leaves the run in its     *)
(* synchronous section holding the hash; a block is concluded at once.     *)
(* The faulty form lets a blocked run release what it asked for.           *)
Reserve_BlockReleases(r, h, amount, limit) ==
  /\ pc[r] = "idle" /\ LoopFree
  /\ ~OriginTaken(h.provider)
  /\ ReserveQuoteAndBudget(h, amount, limit)
  /\ holds' = [holds EXCEPT ![r] = h]
  /\ IF Granted(h, amount, limit)
       THEN Goto(r, "reserved") /\ UNCHANGED <<verdict, settle>>
       ELSE Conclude(r, "block", "release")
  /\ UNCHANGED <<guardEvents, timeline, sent, paid>>
Reserve(r, h, amount, limit) ==
  /\ pc[r] = "idle" /\ LoopFree
  /\ ~OriginTaken(h.provider)
  /\ ReserveQuoteAndBudget(h, amount, limit)
  /\ IF Granted(h, amount, limit)
       THEN /\ Goto(r, "reserved")
            /\ holds' = [holds EXCEPT ![r] = h]
            /\ UNCHANGED <<verdict, settle>>
       ELSE Conclude(r, "block", "end") /\ UNCHANGED holds
  /\ UNCHANGED <<guardEvents, timeline, sent, paid>>

(* ensureProvider throws: the transaction is rolled back and the error     *)
(* leaves the pipeline.                                                    *)
ReserveThrows(r, h) ==
  /\ pc[r] = "idle" /\ LoopFree
  /\ OriginTaken(h.provider)
  /\ Goto(r, "threw")
  /\ UNCHANGED <<tables, verdict, settle, holds, guardEvents, timeline, sent, paid>>

-----------------------------------------------------------------------------
(* From the reservation to the adapter                                     *)

(* No escrow address for an escrowed contract call, or clearSign refuses.  *)
RefuseCalldata(r) ==
  /\ pc[r] = "reserved"
  /\ Conclude(r, "block", "release")
  /\ UNCHANGED <<tables, holds, guardEvents, timeline, sent, paid>>

(* The escrow calldata of a context whose hash, address or amount does not *)
(* encode: the builder throws and the reservation stays.                   *)
CalldataThrows(r) ==
  /\ pc[r] = "reserved"
  /\ Goto(r, "threw")
  /\ UNCHANGED <<tables, verdict, settle, holds, guardEvents, timeline, sent, paid>>

(* executeCawOperation calls the adapter and the pipeline awaits it. *)
Submit(r) ==
  /\ pc[r] = "reserved"
  /\ Goto(r, "awaiting")
  /\ sent' = sent \cup {r}
  /\ UNCHANGED <<tables, verdict, settle, holds, guardEvents, timeline, paid>>

(* executeCawOperation finds calldata, address, digest or executor missing *)
(* and answers itself; the pipeline still goes through its await.          *)
DeclineLocally(r) ==
  /\ pc[r] = "reserved"
  /\ Goto(r, "declined")
  /\ UNCHANGED <<tables, verdict, settle, holds, guardEvents, timeline, sent, paid>>

-----------------------------------------------------------------------------
(* The answer of the adapter                                               *)

AnswerThrows(r) ==
  /\ pc[r] = "awaiting" /\ LoopFree
  /\ Goto(r, "threw")
  /\ UNCHANGED <<tables, verdict, settle, holds, guardEvents, timeline, sent, paid>>

ResumeDeclined(r) ==
  /\ pc[r] = "declined" /\ LoopFree
  /\ \E decision \in {"block", "fallback_required"} : Conclude(r, decision, "release")
  /\ UNCHANGED <<tables, holds, guardEvents, timeline, sent, paid>>

(* require_approval, fallback_required, or block and denials: the payment  *)
(* did not execute, the budget is released.  The faulty form leaves a      *)
(* payment that waits for its owner reserved.                              *)
AnswerNotExecuted_KeepsApproval(r, decision) ==
  /\ pc[r] = "awaiting" /\ LoopFree
  /\ Conclude(r, decision, IF decision = "require_approval" THEN "end" ELSE "release")
  /\ UNCHANGED <<tables, holds, guardEvents, timeline, sent, paid>>
AnswerNotExecuted(r, decision) ==
  /\ pc[r] = "awaiting" /\ LoopFree
  /\ Conclude(r, decision, "release")
  /\ UNCHANGED <<tables, holds, guardEvents, timeline, sent, paid>>

(* Executed, but live evidence is incomplete or the response headers may   *)
(* be cached: disputed, the budget stays counted.  The faulty form         *)
(* releases it.                                                            *)
AnswerDoubtful_Releases(r) ==
  /\ pc[r] = "awaiting" /\ LoopFree
  /\ \E decision \in {"block", "fallback_required"} : Conclude(r, decision, "release")
  /\ paid' = paid \cup {r}
  /\ UNCHANGED <<tables, holds, guardEvents, timeline, sent>>
AnswerDoubtful(r) ==
  /\ pc[r] = "awaiting" /\ LoopFree
  /\ \E decision \in {"block", "fallback_required"} : Conclude(r, decision, "dispute")
  /\ paid' = paid \cup {r}
  /\ UNCHANGED <<tables, holds, guardEvents, timeline, sent>>

AnswerExecuted(r) ==
  /\ pc[r] = "awaiting" /\ LoopFree
  /\ Goto(r, "spend")
  /\ paid' = paid \cup {r}
  /\ UNCHANGED <<tables, verdict, settle, holds, guardEvents, timeline, sent>>

-----------------------------------------------------------------------------
(* Statements, one step each                                               *)

(* recordGuardEvent: the row of guard_events, then the timeline row. *)
RecordEvent(r) ==
  /\ pc[r] = "record"
  /\ guardEvents' = guardEvents \cup {r}
  /\ Goto(r, "timeline")
  /\ UNCHANGED <<tables, verdict, settle, holds, timeline, sent, paid>>

RecordTimeline(r) ==
  /\ pc[r] = "timeline"
  /\ timeline' = timeline \cup {r}
  /\ Goto(r, IF settle[r] = "end" THEN "done" ELSE settle[r])
  /\ UNCHANGED <<tables, verdict, settle, holds, guardEvents, sent, paid>>

(* releaseReservationBudget; the faulty form voids the ledger row first. *)
Release_VoidFirst(r) ==
  /\ pc[r] = "release"
  /\ VoidLedger(holds[r])
  /\ Goto(r, "void")
  /\ UNCHANGED <<budget, registered, quotes, contexts, reservations,
                 verdict, settle, holds, guardEvents, timeline, sent, paid>>
Release(r) ==
  /\ pc[r] = "release"
  /\ ReleaseReservation(holds[r])
  /\ Goto(r, "void")
  /\ UNCHANGED <<budget, registered, ledger, verdict, settle, holds,
                 guardEvents, timeline, sent, paid>>

Void(r) ==
  /\ pc[r] = "void"
  /\ VoidLedger(holds[r])
  /\ Goto(r, "done")
  /\ UNCHANGED <<budget, registered, quotes, contexts, reservations,
                 verdict, settle, holds, guardEvents, timeline, sent, paid>>

Dispute(r) ==
  /\ pc[r] = "dispute"
  /\ DisputeReservation(holds[r])
  /\ Goto(r, "done")
  /\ UNCHANGED <<budget, registered, quotes, contexts, ledger,
                 verdict, settle, holds, guardEvents, timeline, sent, paid>>

Spend(r) ==
  /\ pc[r] = "spend"
  /\ SpendReservation(holds[r])
  /\ Goto(r, "spendQuote")
  /\ UNCHANGED <<budget, registered, quotes, contexts, ledger,
                 verdict, settle, holds, guardEvents, timeline, sent, paid>>

SpendQuoteRow(r) ==
  /\ pc[r] = "spendQuote"
  /\ SpendQuote(holds[r])
  /\ Goto(r, "post")
  /\ UNCHANGED <<budget, registered, contexts, reservations, ledger,
                 verdict, settle, holds, guardEvents, timeline, sent, paid>>

Post(r) ==
  /\ pc[r] = "post"
  /\ PostLedger(holds[r])
  /\ Goto(r, "receipt")
  /\ UNCHANGED <<budget, registered, quotes, contexts, reservations,
                 verdict, settle, holds, guardEvents, timeline, sent, paid>>

(* The receipt of a payment already marked spent: ensureReceiptBody throws *)
(* when the provider returned none, verifyServiceReceipt blocks or allows. *)
ReceiptThrows(r) ==
  /\ pc[r] = "receipt"
  /\ Goto(r, "threw")
  /\ UNCHANGED <<tables, verdict, settle, holds, guardEvents, timeline, sent, paid>>

RejectReceipt(r) ==
  /\ pc[r] = "receipt"
  /\ Conclude(r, "block", "dispute")
  /\ UNCHANGED <<tables, holds, guardEvents, timeline, sent, paid>>

AcceptReceipt(r) ==
  /\ pc[r] = "receipt"
  /\ Conclude(r, "allow", "end")
  /\ UNCHANGED <<tables, holds, guardEvents, timeline, sent, paid>>

-----------------------------------------------------------------------------
(* Around the runs                                                         *)

(* createMission of the Mission Flow API sets the budget of a mission      *)
(* between two callbacks; its dry run registers the provider.              *)
SetBudget(m, limit) ==
  /\ LoopFree
  /\ budget[m] # limit
  /\ EnsureMission(m, limit)
  /\ UNCHANGED <<registered, quotes, contexts, reservations, ledger, pipe>>

RegisterProvider(p) ==
  /\ LoopFree
  /\ p \notin registered /\ ~OriginTaken(p)
  /\ EnsureProvider(p)
  /\ UNCHANGED <<budget, quotes, contexts, reservations, ledger, pipe>>

(* The process dies; the tables survive, the runs in flight do not. *)
Crash ==
  /\ \E r \in Runs : pc[r] \notin Stopped \cup {"idle"}
  /\ pc' = [r \in Runs |-> IF pc[r] \in Stopped \cup {"idle"} THEN pc[r] ELSE "crashed"]
  /\ UNCHANGED <<tables, verdict, settle, holds, guardEvents, timeline, sent, paid>>

Request(r) ==
  \/ \E m \in Missions :
       RefuseRequest(r, m) \/ RefuseProvider(r, m) \/ RefuseMetadata(r, m) \/ RefuseQuote(r, m)
  \/ ChallengeThrows(r)
  \/ \E h \in Hash :
       \/ ReserveThrows(r, h)
       \/ \E amount \in Amounts, limit \in Limits : Reserve(r, h, amount, limit)

Answer(r) ==
  \/ AnswerThrows(r)
  \/ ResumeDeclined(r)
  \/ \E decision \in {"require_approval", "fallback_required", "block"} :
       AnswerNotExecuted(r, decision)
  \/ AnswerDoubtful(r)
  \/ AnswerExecuted(r)

Statement(r) ==
  \/ RefuseCalldata(r) \/ CalldataThrows(r) \/ Submit(r) \/ DeclineLocally(r)
  \/ RecordEvent(r) \/ RecordTimeline(r)
  \/ Release(r) \/ Void(r) \/ Dispute(r)
  \/ Spend(r) \/ SpendQuoteRow(r) \/ Post(r)
  \/ ReceiptThrows(r) \/ RejectReceipt(r) \/ AcceptReceipt(r)

Next ==
  \/ \E r \in Runs : Request(r) \/ Answer(r) \/ Statement(r)
  \/ \E m \in Missions, limit \in Limits : SetBudget(m, limit)
  \/ \E p \in Providers : RegisterProvider(p)
  \/ Crash

Spec == Init /\ [][Next]_vars

(* The event loop runs a callback to its end, and the adapter settles its  *)
(* promise: every loop of the live executor is bounded by a deadline.      *)
FairSpec == Spec /\ \A r \in Runs : WF_vars(Statement(r)) /\ WF_vars(Answer(r))

-----------------------------------------------------------------------------
(* Properties                                                              *)

(* One payment per mission and provider: two different runs never both     *)
(* reach the CAW adapter for the same quote, whatever is retried, released,*)
(* refused or lost in a crash.  (Unique keys of quote_lock.ts:242-305.)    *)
AtMostOneSubmission ==
  \A r, s \in sent :
    r # s => QuoteOf(holds[r]) # QuoteOf(holds[s])

(* The error a unique key raises inside the reservation transaction is     *)
(* caught and the transaction commits (quote_lock.ts:372-381): still no    *)
(* quote row is ever left without its reservation and ledger row.          *)
NoOrphanQuote ==
  \A q \in QuoteIds :
    quotes[q] # "absent" =>
      \E h \in contexts : QuoteOf(h) = q /\ reservations[h] # "absent" /\ ledger[h] # NoEntry

(* The tables agree in every state, also between two autocommitted         *)
(* statements and after a crash there: budget is given back only for a     *)
(* released reservation, and posted only for one whose quote is spent.     *)
TablesAgree ==
  \A h \in Hash :
    /\ ledger[h].status = "void" => reservations[h] = "released"
    /\ ledger[h].status = "posted" =>
         reservations[h] \in {"spent", "disputed"} /\ quotes[QuoteOf(h)] = "spent"
    /\ reservations[h] = "released" => ledger[h].status \in {"pending", "void"}
    /\ reservations[h] # "absent" => ledger[h].entry # "absent"

(* A run that returned has settled all three tables as it reported: spent  *)
(* and posted exactly when it allowed, otherwise released and void, or     *)
(* disputed and still counted.                                             *)
DoneIsSettled ==
  \A r \in Runs :
    (pc[r] = "done" /\ holds[r] # NoHash) =>
      LET h == holds[r] IN
      \/ /\ verdict[r] = "allow"
         /\ reservations[h] = "spent" /\ quotes[QuoteOf(h)] = "spent"
         /\ ledger[h].entry = "spend" /\ ledger[h].status = "posted"
      \/ /\ verdict[r] # "allow"
         /\ \/ reservations[h] = "released" /\ ledger[h].status = "void"
            \/ reservations[h] = "disputed" /\ Counted(h)

(* Money the adapter reported as executed is counted against the budget    *)
(* for ever after: disputes, crashes and later requests never give it back.*)
PaidStaysCounted == \A r \in paid : Counted(holds[r])

(* No budget is released and no payment disputed without the guard event   *)
(* that explains it, even if the process dies in between.                  *)
EventBeforeSettlement ==
  \A h \in Hash :
    reservations[h] \in {"released", "disputed"} =>
      \E r \in guardEvents : holds[r] = h /\ verdict[r] \notin {"none", "allow"}

(* Money a mission is committed to: what its unreleased reservations set   *)
(* aside.  Unlike Exposure it reads the reservations, not the ledger's     *)
(* entry types and statuses.                                               *)
Unreleased(m) ==
  {h \in Hash : h.mission = m /\ reservations[h] \in {"reserved", "spent", "disputed"}}
Committed(m) == SumFunctionOnSet(AmountOf, Unreleased(m))

(* Whenever a mission commits more money, the total stays within the       *)
(* budget stored for it (quote_lock.ts:229-237), although every request    *)
(* brings its own limit, createMission rewrites the stored one at any time *)
(* and payments are spent, disputed, released or lost in a crash.          *)
BudgetHeld ==
  [][\A m \in Missions : Committed(m)' > Committed(m) => Committed(m)' <= budget'[m]]_vars

(* A row never goes back: a released reservation is not spent, a void      *)
(* ledger entry is not counted again, and a refused replay does not touch  *)
(* the rows of the run it replays.                                         *)
RowsNeverRevived ==
  [][\A h \in Hash :
       /\ <<reservations[h], reservations'[h]>> \in
            {<<"absent", "reserved">>, <<"reserved", "spent">>, <<"reserved", "released">>,
             <<"reserved", "disputed">>, <<"spent", "disputed">>}
            \cup {<<s, s>> : s \in ReservationStatus}
       /\ ledger[h].status = "void" => ledger'[h] = ledger[h]
       /\ ledger[h].status = "posted" => ledger'[h] = ledger[h]]_vars

(* Every reservation is settled, unless its run threw or died: budget is   *)
(* not held for ever by a payment that waits for an approval.              *)
ReservationsSettle ==
  \A r \in Runs, h \in Hash :
    (holds[r] = h /\ reservations[h] = "reserved")
      ~> (pc[r] \in {"threw", "crashed"} \/ reservations[h] # "reserved")
=============================================================================
