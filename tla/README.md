# A specification of the Clear402 runtime

TLA+ modules, TLC instances and machine-checked proofs for Clear402 (the
repository beside this directory; its root is `src/`). Section 1 is the inventory of the
system, 2 says how each module corresponds to the code, 3 the runs, 4 the proofs,
5 what is abstracted or left out, 6 what is left to do.

Run `tlc -config <X>.cfg <Module>.tla` and `tlapm <Module>.tla` in this directory.
`PROJECT.json` lists the runs, the lines every definition models, and for every property a
faulty form of the code that breaks it; the faulty forms stand in the modules just before the
definition they would replace.

## 1. The system

An agent wants to pay for an HTTP resource that answers 402. The runtime
(`services/runtime`) screens the payment, reserves quote and budget in SQLite, asks
the Cobo Agentic Wallet (CAW) to pay, verifies the receipt and keeps an audit trail
that a dashboard streams. The runtime is one Node process: everything between two
`await`s is atomic for other requests, but not for a crash, because most statements
autocommit.

| Part | State | Operations | Talks to |
|---|---|---|---|
| Quote lock, `guard/quote_lock.ts` | tables `missions`, `provider_registry`, `x402_quotes`, `payment_contexts`, `quote_reservations`, `budget_ledger` | reserve (one transaction), mark spent, release, mark disputed (several statements each), exposure | pipeline, mission flow |
| Guard pipeline, `guard/pipeline.ts` | none of its own; one call is one run | eighteen checks, reserve, await the adapter, settle, record events | quote lock, CAW adapter, receipt verifier, guard events |
| Guard events, `guard/events.ts` | `guard_events` | record (two statements), list | timeline |
| Screening checks: challenge normalizer, registry, trust adapter, signed quote, metadata firewall, clear-sign, receipt verifier | none | pure decisions; the normalizer throws | pipeline |
| CAW adapter and live executor, `caw-adapter.mjs`, `caw-live-executor.mjs` | a cache by request id | submit, look up, poll until settled, normalise | wallet API (external) |
| Mission flow, `mission_flow.ts` | `missions.status`, `receipts`, `dual_receipts` | create, dry run, guard, verify, get | pipeline, receipts, timeline |
| Receipts, `receipt/*.ts` | none | verify a service receipt, make and verify a dual receipt with replay records | mission flow |
| Timeline, `mission_timeline.ts`, `server.ts` | `mission_timeline_events`; one cursor per connection | record, read after a cursor, stream with heartbeats | dashboard's EventSource |
| Escrow contract, `contracts/ServiceEscrow.sol` | `escrows`, its balance | fund, deliver, refund | payers, providers; their code runs inside refund |
| x402 provider, `services/provider-x402` | issued challenges, in memory | challenge, verify a payment, report, fixtures | agent, runtime |
| Attack lab, `attack_lab/*.ts` | a database for each run | sixteen scenarios | pipeline, with a scripted wallet |
| Evidence export, `evidence_export.ts` | none; reads the tables and the environment | export a mission or the demo | mission flow |
| Escrow mirror `escrow/service_escrow.ts`, HTTP routing, dashboard, shared packages, `contracts/scripts` | none that the others depend on | | |

What is hard, and what makes each part correct:

- **Quote lock and pipeline.** Runs overlap at the await; a request is retried, replayed
  or lost in a crash between any two statements; the unique-key error is caught inside
  a transaction that then commits; the mission's budget is overwritten by every
  caller. Correct means: one submission per quote; the tables agree at every statement;
  no commitment over the budget; money that left is never given back; no
  settlement without the event that explains it; every reservation settles in the end.
- **Escrow contract.** `refund` hands control to the payer before it returns, and may
  revert afterwards. Correct means: the contract always holds what it owes, pays
  each refund once, and looks to everyone else as if transactions were atomic.
- **Timeline.** Connections break with events in flight; the browser resumes from the
  last id of the last *message*. Correct means: no gap, no repeat, and every event
  reaches the page.
- **Live executor.** A cache read before and written after awaits, errors after the
  wallet took a request, settlement that arrives late. Correct means: one submission
  per request id unless calls overlap, and a released budget means no money moved, but for
  four causes that leave open what the wallet does and for a failure that was read from the
  record of an overlapping submission.
- **Mission flow.** Several statements per operation, ids made of milliseconds, a
  status no operation checks. Correct means: what the log says was let through is what the
  tables bind, the resource is the last one asked for, and verifying can be repeated.
- **Receipts.** Correct means: payment, delivery and final status agree for every
  pair, a denial of delivery becomes refundable unless an earlier check fails, and one
  delivery has one dual receipt.
- **Provider.** Correct means: a report is served only for a proof of the hash and the amount
  it was issued for, in time by the challenge it is verified against, and a proof it handed out
  is not unknown to it before it restarts.
- **Screening.** Eighteen checks each compare one pair of facts. Correct means: together they
  bind what the wallet is asked for to what was requested, and no way out of them leaves
  budget behind but an exception: decimals, an amount, an address or calldata that does not
  convert.
- **Attack lab.** Correct means: a scenario is blocked by the defense it is there to show, and
  of several uses of one proof one at most gets through.
- **Evidence export.** Correct means: a label, once it had to be lowered, is never raised
  again, at any point of a mission's life and in whatever environment the runtime restarts.

`PROJECT.json` lists the hazards at their lines, the ones no property covers yet
included.

## 2. Modules and the code

### QuoteLock
One variable per table, keyed as SQLite keys it, and one operator per unit of
commit. `reserveQuoteAndBudget` is one operator since it runs inside
`BEGIN IMMEDIATE ... COMMIT`; its four INSERTs are spelled out (`QuoteInserted`,
`ContextInserted`, `ReservationInserted`, `LedgerInserted`) because the first that
fails is swallowed and the ones before it stay. `markReservationSpent` and
`releaseReservationBudget` are one operator per UPDATE. A payment context hash is the
triple of mission, provider and "issue" (instants and contents that tell two contexts
of a pair apart); quote id and nonce are built from mission and provider only, as in
`pipeline.ts:966-986`.

### GuardPipeline
Each element of `Runs` is one call of `runGuardPipeline`. `pc` says where it stands;
the values of `Running` are points between two statements of one synchronous section,
during which `LoopFree` keeps every other run from moving, while `Crash` may still
come. Refusals before the reservation are grouped by what they do (`RefuseRequest`,
`RefuseProvider`, `RefuseMetadata`, `RefuseQuote`, `ChallengeThrows`); after it, each
outcome is an action: calldata refused or thrown, the adapter not callable
(`DeclineLocally`), its answers (`AnswerNotExecuted`, `AnswerDoubtful`,
`AnswerExecuted`, `AnswerThrows`), the statements that settle, and the receipt.
`settle` holds what remains to do once the guard event and its timeline row are
written. `sent` and `paid` are history variables. `SetBudget` and `RegisterProvider`
are the writes of the Mission Flow API to the same tables. `Crash` kills every run in
flight; a restart keeps the tables and does nothing else, as `initializeRuntimeDatabase`
only applies the schema.

### ServiceEscrow and EscrowLifecycle
`ServiceEscrow` is the contract under the EVM: one action per function, where `refund`
ends at its external call and pushes a frame on `stack` with the storage a revert has
to restore. While frames are on the stack the payer's code runs, so that any of the
functions may be called; `CallReturns` and `CallFails` end the innermost call. A call
that reverts at once, or a caller that reverts together with the calls it made,
changes nothing and is no step. `EscrowLifecycle` is what others may rely on: one
`Transaction` moves any number of contexts forward (Empty, Funded, Delivered or
Refunded; terms fixed by funding) and exactly the refunded contexts have been paid
back. The refinement maps the abstract storage to what is committed, which is the bottom
frame's storage while a transaction runs. `Solvent` counts a delivered escrow as held,
because the contract has no operation that pays the provider.

### Timeline
`log` is `mission_timeline_events` by `timeline_id`. Each page has a server side
(`cursor`, `quiet`), a wire and an EventSource (`gathered`, `lastId`). An event on the
wire is its `id`, `event` and `data` lines; `Blank` is the blank line that ends a
comment, and events have none of their own (`serializeMissionTimelineEvent` ends in one
newline). `ReadBlank` dispatches what was gathered as one message, as the EventSource
standard says, and the page shows it only if it is a single JSON value. `Drop` loses what
is in flight; `Connect` resumes from `lastId`. One tick is one poll of the interval
timer; `HeartbeatTicks` is the ratio of the two intervals (15 in the code, 2 in the run).

### LiveExecutor
One call of the adapter each, with the wallet as its environment. A call is checked by the
adapter (`AdapterRefuses`), by the executor (`ExecutorRefuses`), answered from the cache by
request id (`ReturnCached`), or loads the SDK (an await), submits (an await), and polls for
record and audit log until both are found or the deadline passes (`LookUpRecord`,
`LookUpAudit`). The record is asked for by request id (`caw-live-executor.mjs:337`), so that it
may be the one of any submission under that id (`RecordedUnder`). `WalletMoves` takes, refuses,
parks, settles or fails a submission whenever it likes, also after the caller was told
something; `ReplyLost` may happen in any of these states. An answer is a cause with the
decision the code gives for that cause, and `by`, the call it was found by, which the cache
keeps. `Uncertain` are the four causes after which the wallet may still pay: owner asked, reply
lost, no confirmation, no evidence. The pipeline releases the budget for these as for every
refusal; `RefusalIsFinal` says that for all other causes it may, but for a failure read from
another submission's record: it asks then that some submission of the id did fail.

### Provider
One request is one step. Config and host are fixed, so that the hash of a challenge that was
issued is its kind and the instant of issue; `AsIssued` has the terms that belong to it. A
challenge itself is a hash with a resource, an amount and an expiry. `remembered` is
`issuedChallenges`; `held` are the proofs the agent was handed, and in which process life.
`Resolve` finds the challenge of a proof in memory or, for the debug challenge, derives it anew;
`ResolveWithBody` takes the client's own: a raw one is hashed again (`RawBodies`), a normalised
one is believed, the hash it names included (`OwnBodies`), and either replaces what was
remembered. `claimed` is a history variable, the hashes a client sent terms of its own for.
`Restart` empties the memory.

### Receipts and ReceiptChecks
`Receipts` has the statuses, the service receipt with its check (`ServiceOutcome`: the first
failed check decides, `CHOOSE` of the least), the dual receipt made of it and the check of that
against expectations and replay records, as operators. A hash or signature is the value it is
made of. `ReceiptChecks` lets the pipeline's tail and other issuers produce receipts
(`Settle`, `Issue`) and checks dual receipts one after the other against the records so far.
The pipeline's key is the one the challenge names, if it names one (`ProviderKey`), else the
registered one; its terms are other than agreed where the challenge gives the provider another
address than the registry; the dual receipt is always checked with the registered key.

### MissionFlow
The handlers of one mission over its rows. A handler is one step, since it awaits nothing but
settled promises; `DieIn...` are the points between its statements. `events` is the list as
`listGuardEvents` returns it, by time and then by id, where a random id may go to either side of
another. `clock` may stand still between calls, which is when the ids made of milliseconds
collide. A prompt is a name, with what the firewall would block (`Pii`) and the first url in it
(`Named`), which is the mission's resource as long as no resource event says another: after a
death in a create. The pipeline appears as what it makes of the mission flow's own adapter: refused,
locked, or left to the fallback. `FallbackReceipt`, `Verdict` and `StoreDual` use `Receipts`.

### EvidenceExport
An export only reads, so its parts are operators on the state of MissionFlow (`ContextShown`,
`TrustMode`, `GuardShown`, `Settlement`, `Overall`). Its one step of its own is a restart of the
runtime, in which each of the settlement's variables (contract, transaction) may be set or not,
with any text: the code compares them with nothing.

### Screening, ScreeningChecks, MCScreening
`Screening` has the eighteen checks of `runGuardPipeline` before the wallet in their order
(`Screens`), the first that refuses (`Screened`) and what the wallet is asked for
(`WalletCall`). A request is a record of what the checks tell apart; urls, addresses and
amounts are names and small numbers. Four of the eighteen throw instead of refusing, two of
them after the lock: `FundConverts`, `DecodeThrows` and `CompareThrows` say when these do. A call
of calls is searched for the selectors the adapter knows (`KnownFunctions`); others in it are not
seen. `ScreeningChecks` runs requests one after the other with
the reservation each leaves; `MCScreening` has the requests of the run: four kinds of payment
(transfer, contract call, escrowed delivery, message to sign), each with up to two fields
different.

### AttackLab
The sixteen scenarios as deviations of one clean request, run over the operators of
`Screening` and `Receipts`, with the scripted wallet, repeated and parallel attempts, the
timeline events and the reply of the route.

### Instances
`MCGuardPipeline`, `MCTimeline`, `MCLiveExecutor`, `MCMissionFlow`, `MCEvidenceExport` and
`MCScreening` give the constants that a `.cfg` cannot write; the other modules need none.
`OperatorLemmas` and the modules named after what they prove hold the theorems of section 4.

## 3. Runs

| Run | Instance | Question |
|---|---|---|
| guard_safety | 3 runs, 1 mission, 2 providers, 2 issues, amounts 1-2, limits 2-3 | `AtMostOneSubmission`, `NoOrphanQuote`, `TablesAgree`, `DoneIsSettled`, `PaidStaysCounted`, `EventBeforeSettlement`, `BudgetHeld`, `RowsNeverRevived` under overlap, replay and crashes |
| guard_liveness | 2 runs, two providers on one origin | `ReservationsSettle`; the reservation transaction that rolls back |
| escrow | 3 contexts, 2 addresses, amounts 1-2 | `Solvent`, `ReturnedOnce`, `RefundsDoNotNest`, and `ImplementsLifecycle` |
| timeline | 2 missions with a page each, 3 events, 2 lost connections | `ReadInOrder` across reconnections; `EventuallyRead` |
| timeline_frames | the same | `NothingSkipped`, which the code violates |
| live_executor | 2 calls of one request id, at most 4 polls | `RefusalIsFinal`, `AllowIsTaken`: what an answer says of the wallet stays true; `NoSecondSubmission`; `CallsReturn` |
| provider | time to live 1, clock to 2, 2 proofs, 1 restart; a client's own challenge with another resource, amount or expiry | `DeliveryIsBound`, `KnownUntilRestart` |
| receipt_checks | 2 keys to sign with, either or none named by the challenge, terms agreed or not, 2 audit logs, 2 instants, 2 dual receipts | `AcceptsExactly`, `AcceptedTellsAll`, `DenialIsRefundable`, `OneDualPerDelivery` |
| mission_resource | 3 resources, 2 instants, 1 death | `ReceiptForBoundResource`, which the code violates |
| evidence_export | the mission flow with 2 resources, 3 prompts, 2 instants, 3 checks, 2 dual receipts, 1 death; any environment | `VerifyAccepts`, `ResourceIsLast`, `LatestShown`, `ContextAsGuarded` of the mission; `LabelNeverImproves` of its export |
| screening_checks | requests with up to two fields different | `CallIsBound`, `HeldOnlyByThrows` |
| attack_lab | 9 parallel attempts for the code's 20 | `BlockedWhereClaimed`, `NoFreeRide` |

**Bounds.** Three runs give an owner of the rows, a replay and a bystander, two hashes
per provider give a replay that differs from the original; with two providers the
budget can be exceeded by a second payment (1 + 2 > 2). Each run is called once,
which is the same as any number of calls of which three matter. Three contexts allow two
nested refunds and a third context touched between them. Three events make one batch
of two and one later. `MaxEvents`, `MaxDrops` and `MaxWire` are guards of `Record`,
`Drop` and `Tick`; the last only stops heartbeats from piling up unread. Runs are
interchangeable, and `RunSymmetry` is used only where no liveness is checked.

Calls of different request ids share nothing, so two of one id are all there is to see of the
cache; `MaxPolls` counts the polls up to the deadline (`LookUpAudit`), and with a few of them
the record changes between polls in every way. A proof in `Provider` meets its own challenge,
another one and an expired one within two instants and a time to live of one; of a client's own
challenge one term differs, since one is enough to replace the issued challenge. Receipts that
differ in one audit log, key, instant or status are the pairs the replay rules tell apart. Of a
mission, two events at one instant and one later, and two verifies on either side of a guard
event, are the shortest lives in which ids collide; `MaxChecks`, `MaxDuals`, `MaxTime` and
`MaxCrashes` bound them, each in the guard of the action that counts. With three checks a
guard, which may have died, is followed by a dry run and another guard. The three prompts are a
plain one, one the firewall blocks, and one that names the resource registry and trust do not
allow. `mission_resource` has a third resource so that registry and trust allow two. Any two
deviating fields of a request meet in some run, so that a check that hides another, or a pair
that only together slip through, is seen. Nine attempts behave like twenty: one takes the quote
and the others are alike.

**Stopping.** Guard runs, calls of the executor and checks of receipts stop once each has
returned or the bound of dual receipts is reached; the escrow stops when every context is
delivered. These configurations switch deadlock checking off; the others never stop, and check
it.

**Fairness.** `FairSpec` of the pipeline: Node runs a callback to its end, and the adapter
settles its promise. That the live executor does is `CallsReturn`, for which `LiveExecutor`
assumes weak fairness of each call's own steps: Node resumes a call whose promise has settled,
and a request to the wallet gets a reply or an error; of the wallet and its owner nothing is
assumed. `Crash` needs no fairness, and `ReservationsSettle` exempts runs that died or threw,
for which nothing in the code recovers. Of the timeline: the interval timer fires while the
connection is open, and the browser reads what arrives and reconnects by itself.
`EventuallyRead` needs that connections are not lost for ever, which `MaxDrops` states,
and that recording pauses: the heartbeat that flushes the last event is only sent after
a quiet period, so that with an unbroken flow of events nothing would be dispatched.

**Findings.** `timeline_frames`: two events written in a row reach the browser as one message
whose data is two JSON values on two lines. The page's parser throws and the handler
drops it, but the browser has taken the last id and will never ask for them
again. The test "mission timeline replays existing events on first SSE connection"
(`services/runtime/src/server.test.ts:332`) looks for the id lines in the raw text
and so passes. `ReadInOrder` and `EventuallyRead` still hold: the lines are all sent,
in order, and dispatched; what is wrong is where a message ends.

`mission_resource`: after a guard has bound a payment context, a create with another resource
of the provider changes what `missionResourceUrl` reads; a verify then makes, and accepts, a
dual receipt about the new resource for the context of the old one, which
`submission/botchain/form-answers.md:46` says the context binds.

Other points where code and documents part, met while modelling and stated in the
definitions instead of in a run:

- Two calls of one request id that overlap both submit: the cache is read before and written
  after awaits (`caw-live-executor.mjs:63`). `NoSecondSubmission` therefore speaks of calls
  that start after another came back.
- Such calls are also told of each other's record, since it is looked up by request id
  (`caw-live-executor.mjs:337`): one may be refused for good, as failed, because the other's
  submission failed, while its own pays. `RefusalIsFinal` names the case.
- The provider derives the debug challenge anew with the instant of the request
  (`provider-x402/src/http.mjs:301`), so that after a restart an earlier debug proof is
  unknown, although `provider-x402/src/http.mjs:51` calls the challenge deterministic.
  `KnownUntilRestart` stops at the restart.
- The provider's tests speak of the issued challenge
  (`provider-x402/test/provider.test.mjs:43`, `:101`), but a client may send a normalised
  challenge of its own under an issued hash, with another resource or a later expiry, which the
  provider believes and remembers in the issued one's place (`provider-x402/src/http.mjs:347`,
  `:319`). `DeliveryIsBound` says what holds all the same: hash and amount.
- The pipeline checks a receipt with the key its challenge names (`pipeline.ts:1551`) and takes
  the provider's address from the challenge too (`:1515`). Where the address is not the
  registry's, or the signature not that of the key taken, a denial of delivery fails an earlier
  check and is recorded as a failure, which is not refundable. `DenialIsRefundable` is stated
  as an equivalence.
- A contract call goes to the address the challenge names for its escrow (`pipeline.ts:1243`,
  `:543`), which no check compares with anything, and a function that the clear-sign adapter
  does not know is not seen within a call of calls (`clearsig/adapter.ts:191`). `CallIsBound`
  says what the call carries and leaves both open.
- Bad decimals, an amount or an address that does not convert, and truncated calldata throw
  after the reservation (`service_escrow_onchain.ts:93`, `:107`, `:115`,
  `clearsig/adapter.ts:73`), which nobody then releases: `HeldOnlyByThrows`.
- After a death between the statements of a create, the mission's resource is the first url in
  its prompt (`mission_flow.ts:1283`), not the one it was created with, until a create with a
  resource succeeds.
- The pipeline's check overwrites a receipt's status after it was signed
  (`receipt_verifier.ts:196`), so that a dual receipt made of a receipt it accepted does not
  verify. `AcceptsExactly` asks that the status is the one signed over.
- The settlement of an export comes from the environment alone, is live as soon as a
  transaction hash is set, and is not compared with the mission's payment context
  (`evidence_export.ts:1397`, `:1425`), although the note it comes with speaks of a
  "PaymentContext binding" (`:1428`). `Settlement` says so; no property is stated of it.

## 4. Proofs

Every theorem is for all values of the constants. The runs check the same properties on the
instances above, with the assumptions evaluated there. Every invariant and every action property
of a passing run is the statement of a theorem.

| Module | About | From |
|---|---|---|
| `OperatorLemmas` | induction over finite sets and numbers, sums, the operators of Receipts | nothing |
| `GuardPipelineProofs` | QuoteLock, GuardPipeline | `QuoteLockAssumption`, `PipelineAssumption` |
| `ServiceEscrowProofs` | ServiceEscrow, EscrowLifecycle | `EscrowAssumption` |
| `TimelineProofs` | Timeline | `TimelineAssumption` |
| `PaymentProofs` | LiveExecutor, Provider | `ExecutorAssumption`, `ProviderAssumption` |
| `ScreeningProofs` | ScreeningChecks, AttackLab | `RequestsAssumption`, `LabAssumption` |
| `ReceiptProofs` | ReceiptChecks | `ReceiptAssumption` |
| `MissionProofs` | MissionFlow, EvidenceExport | `MissionAssumption` |

The assumptions say that bounds and amounts are naturals, which maps go from where to where,
and that a value that stands for "absent" is none of the others. Those that say more say what
the code has: an amount of an escrow is positive (`fund` refuses zero), requests have one of
the three operations, a resource that registry and trust both allow exists, the resources are
finitely many and each has a place of its own in the order of ids, and the concurrent attack of
the lab makes more than one attempt.

**Operators.** The library's induction theorems take an operator, which the provers cannot
instantiate. `SubsetInduction` and `NatSetInduction` take a set instead, of the subsets or
numbers that have what is to be shown, and follow from well-foundedness. With them,
`SumRemove` and `SumMonotone` give what a member adds to a sum and that a smaller
set or smaller summands have no larger one. The fold behind a sum is defined with a CHOOSE of a
recursive function; `IterExists` and `IterUnique` say that there is one and only one.
The receipt lemmas are what the operators of Receipts compute: `DeliveryDetermines` (a delivery
half has one dual receipt), `NoConflict` (so an honest receipt never conflicts with the
records), `AcceptedIff` (when a dual receipt is accepted), `DenialFound` (a denial is found
among several failures).

**Guard pipeline.** Proved: the type invariant, every invariant of guard_safety,
`RowsNeverRevived` and `BudgetHeld`, for every set of runs, missions, providers, issues,
amounts and limits. None of the invariants is inductive. `IInv` adds two facts to the types:

- `Owned`: each hash with rows is held by the run that reserved it, two runs never hold
  hashes of the same quote, and a hash nobody holds has no rows. `Reserve` preserves it because
  `ContextInserted` fails when the quote or nonce exists (`NoOrphanInsert`: if the quote is
  free, no later INSERT can fail, so that nothing is swallowed half way).
- `RowsFollowRun`: at every point of a run, the three rows it owns are exactly what the
  statements executed so far have left (`RowsAt`), and a run without a hash is at a point that
  touches no rows (`Control`). A crash only forgets `pc`, so that the rows stay in the set
  allowed for any point.

The proof has one lemma per group of actions (`RequestStep`, `AnswerStep`,
`StatementStep`) and one (`OwnRowStep`) that says a step confined to a run's own rows keeps
everyone else's part; each invariant then follows from `IInv` alone. `RowsNeverRevived`
compares two states: `RowsMoveForward` takes from `RowsAt` what the statement at hand finds, and
from `Owned` that a refused replay holds no rows it could touch. `BudgetHeld` compares two sums:
what a mission has committed is part of what the exposure query counts (`CommittedIsExposed`);
only a reservation that was granted adds to it (`RowsAreGranted`, `CommitmentsGranted`), and it was
granted because exposure and amount together were within the budget of that moment. The sums
are over finitely many rows because contexts are (`Finite`).

**Escrow.** Proved: the type invariant, `Solvent`, `ReturnedOnce`, `RefundsDoNotNest` and the
refinement, for every set of contexts and addresses, all positive amounts and every depth of
re-entrant calls; and that a refund never lacks the value it sends (`RefundsAreCovered`). A revert
restores an old storage, so `IInv` says of every
frame what `ReturnedOnce` says of now (`FramesOwe`), that storage only moves forward from a
frame to the frames above it and to now (`FramesReachFrames`, `FramesReachNow`), and that a
frame's context was Funded when it was pushed and is Refunded above it (`FundedBelow`,
`RefundedAbove`, `RefundedNow`). The refinement's only non-stuttering steps are those with
no frame before or after: a call outside a refund, and the end of the outermost refund,
for which `FramesReachNow` is exactly what the abstract transaction asks. `Solvent` is inductive
once it is said of every frame's storage together with that frame's balance (`AllCovered`).

**Timeline.** Proved: the type invariant and `ReadInOrder`, for any missions, pages and events. What a
page has read is the beginning of its mission's history because each event the server has taken
from the log is in one place (`InPlace`): up to the id the page would resume from it has been
dispatched, after that and up to the last line read it is gathered, and
after that and up to the server's cursor it is on the wire, each part in ascending order and
without a gap. A lost connection leaves only the first part, and a reconnection starts there.
`AscendingCarries` is what makes the `CHOOSE` in `EventsAfter` the query's answer, and
`CarriesPrefix` turns "these events, ascending" into a prefix.

**Executor and provider.** Proved: the type invariant of the executor, `RefusalIsFinal`,
`AllowIsTaken` and `NoSecondSubmission` for any number of overlapping calls. What an answer
says of the wallet has to stay true while the wallet goes on: `Tells` lists, cause by cause,
what the wallet had done by then, and each entry is a fact it never takes back. `Sound` says it
of a call's own answer and of a cached one, `Submitted` ties each point of a call to the
states its submission may be in, and a call that came back from the wallet left an answer in
the cache, which is never emptied. A cached
failure comes with some submission of its id that failed. Of the provider: `DeliveryIsBound` and
`KnownUntilRestart`. Something is remembered under the hash of every proof handed out, unless it
was issued before a restart, and what is remembered is what was issued or under a hash that was
claimed (`Kept`, `Explained`).

**Screening and attack lab.** Proved: `CallIsBound` and `HeldOnlyByThrows` for
every set of requests. A request that passed was refused by no check, so each of the eighteen
gives one conjunct. What remains reserved was left by a check after the lock that throws, and
`ThrowsUnconverted` says that only what does not convert
makes one throw. Of the lab, `BlockedWhereClaimed` and
`NoFreeRide`, for every number of parallel attempts and any order in which they
come back. The sixteen requests are one clean request with a deviation: those that keep to it pass
the checks up to the one the scenario names (`PassesTo`), which refuses them (`Refused`). The
inductive invariant `LabIInv` says what each attempt came to: only the first is ever at
the wallet (`OneAsked`), whatever has come back came back as `Came` gives it (`Come`),
and the shared quote is reserved from the first start on (`Locked`).

**Receipts.** `ReceiptProofs` proves the four properties of receipt_checks: `Made` says how the
receipt at hand was signed, `Judged` what its verdict said, and the records are all of dual receipts
made with the registered key.

**Mission and export.** Proved, of `ExportSpec` and for any finite set of resources and any
order of ids: `ExportTypeOK`, `ContextAsGuarded`, `VerifyAccepts`, `LatestShown`,
`ResourceIsLast` and `LabelNeverImproves`. Every stored dual receipt was accepted when it was
made (`Accepted`) and has its delivery's instant; unless a process died, none is newer than the
stored receipt and one is made of it (`Dated`). A passing guard event is recorded together with
its context or, after a death, not at all, and once a context is there no guard passes again
(`RecordedOne`, `PassingIsRecorded`). Of several verifies of one instant a get picks by hash
among those of that instant, so that `LatestShown` says of what it may pick that one is the
last verify's. Two invariants are about the list of guard events. `EventLog`: no two events are
the same, and there is at most one per resource. `InTime`: listed by time is listed as
recorded, but for events of one instant, so that the last resource event by time is the last
one created unless another has its instant. The list is bounded because it has as many members
as it is long, and those are checks, which are bounded, and resource events, of which a
resource has one (`LogBounded`). An export is labelled mock exactly when an event with demo
trust is on record (`Labelled`), and events stay on record.

**Only model-checked.** The liveness properties (`ReservationsSettle`, `EventuallyRead`,
`CallsReturn`), since the prover does neither fairness nor ENABLED, and the two violations,
which are counterexamples. `ReceiptForBoundResource` and `NothingSkipped` are false, so nothing
about them can be proved.

## 5. Abstractions and what is left out

- Hashing is injective, on the whole hash and on the prefixes used as ledger and request ids.
  Quote ids are strings joined with separators; collisions of such strings are left out.
- Amounts are naturals in minor units; in Screening, halves of a unit and one text that is no
  number. `addForLedger` pads decimals to the longer fraction and loses nothing.
- `GuardPipeline` models its checks by their outcomes; what they compute is `Screening`. The
  patterns of the firewall are the kinds of finding they produce, ABI words are fields, the
  asset and the network of a challenge are compared with nothing but themselves, and policy
  bindings have their default values.
- The wallet is the environment. `GuardPipeline` takes its answer as given and `LiveExecutor`
  says what an answer is worth. The capability report of the adapter is one boolean, a missing
  executor is an executor without environment, and the environment variables and command lines
  are left out.
- In the attack lab, parallel attempts may come back in any order, and a scenario whose
  challenge has expired throws and is answered like an unknown one (404).
- A url in a prompt that does not parse, which a check would then refuse as unreadable, is not
  among the resources of the mission flow.
- One process and one connection to SQLite, statements are durable in order.
- Value forced into the contract outside `fund` is left out; it would only add to the balance.
- Streams of missions without a row (404), and TCP chunk borders within an event, which the
  line parser of the browser hides, are left out.

### Not modelled
- HTTP routing and JSON shapes (`server.ts` apart from its stream): each route calls one handler
  that is modelled.
- The dashboard, apart from its EventSource. Its mission flow replaces the whole workspace
  with a result computed from the workspace at the click
  (`apps/dashboard/app/dashboard-shell.tsx:508`), so that events shown meanwhile may vanish; the
  hazard is listed, and no document promises otherwise.
- The escrow mirror `escrow/service_escrow.ts`: pure functions of an account value that no code
  of the program calls. The calldata builder `service_escrow_onchain.ts` is in Screening.
- Rendering, redaction and the capability section of an export; shared types and canonical JSON.
- The contract scripts (`contracts/scripts`): an operator compiles, deploys and calls the
  contract with them and copies their output into the environment, which `Restart` lets be
  anything.

## 6. Left to do

1. Composition: `LiveExecutor` in place of the environment of `GuardPipeline`, to state the
   budget and the wallet's payments in one property. What is proved of each half
   (`AllowIsTaken` and `RefusalIsFinal` of an answer, `PaidStaysCounted` and `BudgetHeld` of
   what is done with it) are the lemmas it would need.
2. An abstract specification of the budget, reserve then spend or give back, that the pipeline
   implements as the contract implements its lifecycle; `Forward` is its step relation.
3. The workspace of the dashboard, if its stale result is to be excluded.
