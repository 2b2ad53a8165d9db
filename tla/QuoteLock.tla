----------------------------- MODULE QuoteLock -----------------------------
(***************************************************************************)
(* The quote, nonce and budget lock of the runtime                         *)
(* (services/runtime/src/guard/quote_lock.ts over the tables of            *)
(* services/runtime/src/db/schema.ts).                                     *)
(*                                                                         *)
(* The module keeps one variable per SQLite table and one operator per     *)
(* statement, or per group of statements that commits as one transaction.  *)
(* reserveQuoteAndBudget runs inside BEGIN IMMEDIATE ... COMMIT and is one *)
(* operator; the three functions that settle a reservation issue several   *)
(* autocommitted UPDATEs and are one operator per UPDATE, so that a crash  *)
(* can fall between two of them.                                           *)
(***************************************************************************)
EXTENDS Integers, FiniteSets, Functions

CONSTANTS
  Missions,    \* mission ids
  Providers,   \* provider ids of the registry
  Origin,      \* the origin each provider id is registered with
  Issues,      \* instants (issuedAt) and contents that tell two contexts apart
  Amounts,     \* reserved budgets a request may ask for
  Limits,      \* values of missions.budget_usd
  NoMission    \* stands for a missing row of missions

ASSUME QuoteLockAssumption ==
  /\ Amounts \subseteq Nat
  /\ Limits \subseteq Nat
  /\ NoMission \notin Limits

(* paymentContextHash: hashObject over the context, injective on what the  *)
(* properties tell apart.  The ledger id and the CAW request id are        *)
(* prefixes of the same hash.                                              *)
Hash == [mission : Missions, provider : Providers, issue : Issues]

(* Quote ids and nonces are built from the mission and the provider alone. *)
QuoteOf_PerIssue(h) == <<h.mission, h.provider, h.issue>>  \* faulty form
QuoteOf(h) == <<h.mission, h.provider>>
NonceOf(h) == <<h.mission, h.provider>>
QuoteIds == {QuoteOf(h) : h \in Hash}

QuoteStatus == {"absent", "reserved", "spent"}
ReservationStatus == {"absent", "reserved", "spent", "released", "disputed"}
NoEntry == [entry |-> "absent", status |-> "absent", amount |-> 0]
LedgerRow == [entry : {"absent", "reserve", "spend"},
              status : {"absent", "pending", "posted", "void"},
              amount : Amounts \cup {0}]

VARIABLES
  budget,        \* missions.budget_usd by mission id
  registered,    \* provider_registry: the provider ids that have a row
  quotes,        \* x402_quotes.status by quote id
  contexts,      \* payment_contexts: the hashes that have a row
  reservations,  \* quote_reservations.status by payment context hash
  ledger         \* budget_ledger row of the payment context hash

tables == <<budget, registered, quotes, contexts, reservations, ledger>>

QuoteLockTypeOK ==
  /\ budget \in [Missions -> Limits \cup {NoMission}]
  /\ registered \subseteq Providers
  /\ quotes \in [QuoteIds -> QuoteStatus]
  /\ contexts \subseteq Hash
  /\ reservations \in [Hash -> ReservationStatus]
  /\ ledger \in [Hash -> LedgerRow]

QuoteLockInit ==
  /\ budget = [m \in Missions |-> NoMission]
  /\ registered = {}
  /\ quotes = [q \in QuoteIds |-> "absent"]
  /\ contexts = {}
  /\ reservations = [h \in Hash |-> "absent"]
  /\ ledger = [h \in Hash |-> NoEntry]

-----------------------------------------------------------------------------
(* Exposure                                                                *)

(* Rows the exposure query counts; the faulty form forgets spent money. *)
Counted_PendingOnly(h) == ledger[h].entry = "reserve" /\ ledger[h].status = "pending"
Counted(h) ==
  /\ ledger[h].entry \in {"reserve", "spend"}
  /\ ledger[h].status \in {"pending", "posted"}

AmountOf == [h \in Hash |-> ledger[h].amount]

(* getLedgerExposureUsd: the sum of the counted rows of a mission. *)
Exposure(m) ==
  SumFunctionOnSet(AmountOf, {h \in Hash : h.mission = m /\ Counted(h)})

-----------------------------------------------------------------------------
(* Mission and provider rows                                               *)

(* ensureMission: an existing mission keeps its row, its budget is         *)
(* overwritten by the caller's.                                            *)
EnsureMission(m, limit) == budget' = [budget EXCEPT ![m] = limit]

(* ensureProvider: the upsert is on provider_id, so another provider that  *)
(* already owns the origin makes it throw (provider_registry.origin is     *)
(* UNIQUE).                                                                *)
OriginTaken(p) == \E q \in registered : q # p /\ Origin[q] = Origin[p]
EnsureProvider(p) == registered' = registered \cup {p}

-----------------------------------------------------------------------------
(* reserveQuoteAndBudget                                                   *)

BudgetAllows(h, amount, limit) == Exposure(h.mission) + amount <= limit

(* The four INSERTs in the order of the code.  Each one succeeds when the  *)
(* ones before it did and its own keys are free; the first that fails is   *)
(* caught, and what was inserted before it stays in the transaction.       *)
QuoteInserted(h) == quotes[QuoteOf(h)] = "absent"
ContextInserted(h) ==
  QuoteInserted(h) /\ \A c \in contexts : c # h /\ NonceOf(c) # NonceOf(h)
ReservationInserted(h) == ContextInserted(h) /\ reservations[h] = "absent"
LedgerInserted(h) == ReservationInserted(h) /\ ledger[h] = NoEntry

Granted(h, amount, limit) == BudgetAllows(h, amount, limit) /\ LedgerInserted(h)

InsertRows(h, amount) ==
  /\ quotes' = IF QuoteInserted(h)
                 THEN [quotes EXCEPT ![QuoteOf(h)] = "reserved"] ELSE quotes
  /\ contexts' = IF ContextInserted(h) THEN contexts \cup {h} ELSE contexts
  /\ reservations' = IF ReservationInserted(h)
                       THEN [reservations EXCEPT ![h] = "reserved"] ELSE reservations
  /\ ledger' = IF LedgerInserted(h)
                 THEN [ledger EXCEPT ![h] = [entry |-> "reserve", status |-> "pending",
                                             amount |-> amount]]
                 ELSE ledger

(* The transaction: mission and provider rows first (they commit with a    *)
(* block as well), then the budget check, then the INSERTs.                *)
ReserveQuoteAndBudget(h, amount, limit) ==
  /\ EnsureMission(h.mission, limit)
  /\ EnsureProvider(h.provider)
  /\ IF BudgetAllows(h, amount, limit)
       THEN InsertRows(h, amount)
       ELSE UNCHANGED <<quotes, contexts, reservations, ledger>>

-----------------------------------------------------------------------------
(* Settlement: one operator per autocommitted UPDATE                       *)

(* markReservationSpent, first, second and third UPDATE.  The faulty form   *)
(* of the third sets only one of its two columns.                          *)
SpendReservation(h) == reservations' = [reservations EXCEPT ![h] = "spent"]
SpendQuote(h) == quotes' = [quotes EXCEPT ![QuoteOf(h)] = "spent"]
PostLedger_EntryOnly(h) ==
  ledger' = IF ledger[h].entry = "reserve"
              THEN [ledger EXCEPT ![h].entry = "spend"]
              ELSE ledger
PostLedger(h) ==
  ledger' = IF ledger[h].entry = "reserve"
              THEN [ledger EXCEPT ![h].entry = "spend", ![h].status = "posted"]
              ELSE ledger

(* releaseReservationBudget, first and second UPDATE.  The faulty form of  *)
(* the first also frees the quote and its nonce, so that the payment can   *)
(* be retried; that of the second writes the wrong column.                 *)
ReleaseReservation_FreesQuote(h) ==
  /\ reservations' = [reservations EXCEPT ![h] = "released"]
  /\ quotes' = [quotes EXCEPT ![QuoteOf(h)] = "absent"]
  /\ contexts' = contexts \ {h}
ReleaseReservation(h) ==
  /\ reservations' = [reservations EXCEPT ![h] = "released"]
  /\ UNCHANGED <<quotes, contexts>>
VoidLedger_EntryType(h) ==
  ledger' = IF ledger[h].entry = "reserve"
              THEN [ledger EXCEPT ![h].entry = "void"]
              ELSE ledger
VoidLedger(h) ==
  ledger' = IF ledger[h].entry = "reserve"
              THEN [ledger EXCEPT ![h].status = "void"]
              ELSE ledger

(* markReservationDisputed. *)
DisputeReservation(h) == reservations' = [reservations EXCEPT ![h] = "disputed"]
=============================================================================
