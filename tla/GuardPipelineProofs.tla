------------------------ MODULE GuardPipelineProofs ------------------------
(***************************************************************************)
(* Proofs about GuardPipeline for every set of runs, missions, providers,  *)
(* amounts and limits.                                                     *)
(*                                                                         *)
(* The invariants of the pipeline are not inductive: that two runs never   *)
(* pay the same quote holds because every run that holds a hash owns the   *)
(* quote, context, reservation and ledger rows of it alone, and because    *)
(* the rows of a hash are, at every point of the run that holds it, in the *)
(* state the statements executed so far have left.  Owned and RowsFollowRun*)
(* say this; IInv adds them to the type invariant.                         *)
(*                                                                         *)
(* That the budget holds compares two sums over the rows of a mission:     *)
(* what is committed is part of what the exposure query counts, and only a *)
(* granted reservation adds to it.                                         *)
(***************************************************************************)
EXTENDS GuardPipeline, OperatorLemmas

(* The statuses of the three rows a reservation owns. *)
Rows(h) == <<reservations[h], ledger[h].status, quotes[QuoteOf(h)]>>

Fresh == <<"reserved", "pending", "reserved">>
Posted == <<"spent", "posted", "spent">>

(* Rows whose run has called neither the release nor the void. *)
KeptRows == {Fresh, <<"spent", "pending", "reserved">>, <<"spent", "pending", "spent">>,
             Posted, <<"disputed", "pending", "reserved">>, <<"disputed", "posted", "spent">>}
GivenBack == {<<"released", "pending", "reserved">>, <<"released", "void", "reserved">>}

(* The entry type goes with the status. *)
EntryOf(h) ==
  ledger[h].entry = IF ledger[h].status = "posted" THEN "spend" ELSE "reserve"

(* Each hash is held by the run that reserved it, alone with its quote. *)
Owned ==
  /\ \A r \in Runs : holds[r] # NoHash => holds[r] \in contexts
  /\ \A r, s \in Runs :
       (r # s /\ holds[r] # NoHash /\ holds[s] # NoHash)
         => QuoteOf(holds[r]) # QuoteOf(holds[s])
  /\ \A h \in contexts : \E r \in Runs : holds[r] = h
  /\ \A q \in QuoteIds : quotes[q] # "absent" => \E h \in contexts : QuoteOf(h) = q
  /\ \A h \in Hash : h \notin contexts => reservations[h] = "absent" /\ ledger[h] = NoEntry

(* What the rows of a held hash look like at each point of its run. *)
Refused(r) == verdict[r] \notin {"none", "allow"}

RowsAt(r, h) ==
  /\ EntryOf(h)
  /\ Rows(h) \in KeptRows \cup (IF r \in paid THEN {} ELSE GivenBack)
  /\ pc[r] \in {"reserved", "awaiting", "declined", "spend"} => Rows(h) = Fresh
  /\ pc[r] = "spendQuote" => Rows(h) = <<"spent", "pending", "reserved">>
  /\ pc[r] = "post" => Rows(h) = <<"spent", "pending", "spent">>
  /\ pc[r] = "receipt" => Rows(h) = Posted
  /\ pc[r] \in {"record", "timeline", "release", "dispute"} =>
       \/ settle[r] = "end" /\ verdict[r] = "allow" /\ Rows(h) = Posted
       \/ settle[r] = "release" /\ r \notin paid /\ Rows(h) = Fresh /\ Refused(r)
       \/ settle[r] = "dispute" /\ Rows(h) \in {Fresh, Posted} /\ Refused(r)
  /\ pc[r] = "void" => r \notin paid /\ Rows(h) = <<"released", "pending", "reserved">>
  /\ pc[r] = "done" =>
       \/ verdict[r] = "allow" /\ Rows(h) = Posted
       \/ Refused(r) /\ Rows(h) \in {<<"released", "void", "reserved">>,
              <<"disputed", "pending", "reserved">>, <<"disputed", "posted", "spent">>}
  /\ reservations[h] \in {"released", "disputed"} => r \in guardEvents /\ Refused(r)

(* Where a run may stand with and without a reservation. *)
Control(r) ==
  /\ pc[r] = "idle" => holds[r] = NoHash
  /\ pc[r] \in Running \cup {"awaiting", "declined"} =>
       holds[r] # NoHash \/ (pc[r] \in {"record", "timeline"} /\ settle[r] = "end")
  /\ pc[r] \in {"release", "dispute"} => settle[r] = pc[r]
  /\ pc[r] \in {"timeline", "release", "dispute", "void"} => r \in guardEvents
  /\ r \in sent \cup paid => holds[r] # NoHash
  /\ pc[r] \in {"reserved", "awaiting", "declined"} => r \notin paid

RowsFollowRun ==
  \A r \in Runs : Control(r) /\ (holds[r] # NoHash => RowsAt(r, holds[r]))

IInv == TypeOK /\ Owned /\ RowsFollowRun

-----------------------------------------------------------------------------
(* The quote of a hash is a quote id. *)
LEMMA QuoteOfType == \A h \in Hash : QuoteOf(h) \in QuoteIds
  BY DEF QuoteIds

-----------------------------------------------------------------------------
(* Every variable keeps its type in every state of the pipeline.           *)
LEMMA TypeInit == Init => TypeOK
  BY DEF Init, TypeOK, QuoteLockInit, QuoteLockTypeOK, QuoteStatus, ReservationStatus,
         LedgerRow, NoEntry, Points, Decision, Settlement

LEMMA TypeStep == TypeOK /\ [Next]_vars => TypeOK'
<1> SUFFICES ASSUME TypeOK, [Next]_vars PROVE TypeOK'
  OBVIOUS
<1> USE QuoteLockAssumption, PipelineAssumption
    DEF TypeOK, QuoteLockTypeOK, Points, Running, Stopped, Decision, Settlement, Goto, Conclude
<1>1. ASSUME NEW r \in Runs, Request(r) PROVE TypeOK'
  <2>1. ASSUME NEW m \in Missions,
               RefuseRequest(r, m) \/ RefuseProvider(r, m) \/ RefuseMetadata(r, m) \/ RefuseQuote(r, m)
        PROVE  TypeOK'
    BY <2>1 DEF RefuseRequest, RefuseProvider, RefuseMetadata, RefuseQuote, RefuseWith, tables
  <2>2. CASE ChallengeThrows(r)
    BY <2>2 DEF ChallengeThrows, tables
  <2>3. ASSUME NEW h \in Hash, ReserveThrows(r, h) PROVE TypeOK'
    BY <2>3 DEF ReserveThrows, tables
  <2>4. ASSUME NEW h \in Hash, NEW amount \in Amounts, NEW limit \in Limits,
               Reserve(r, h, amount, limit)
        PROVE  TypeOK'
    <3>1. h.provider \in Providers /\ h.mission \in Missions
      BY DEF Hash
    <3>2. budget' \in [Missions -> Limits \cup {NoMission}] /\ registered' \subseteq Providers
      BY <2>4, <3>1 DEF Reserve, ReserveQuoteAndBudget, EnsureMission, EnsureProvider
    <3>3. /\ quotes' \in [QuoteIds -> QuoteStatus] /\ contexts' \subseteq Hash
          /\ reservations' \in [Hash -> ReservationStatus] /\ ledger' \in [Hash -> LedgerRow]
      <4>1. CASE BudgetAllows(h, amount, limit)
        <5> USE <2>4, <4>1 DEF Reserve, ReserveQuoteAndBudget, InsertRows
        <5>1. quotes' \in [QuoteIds -> QuoteStatus]
          BY DEF QuoteStatus
        <5>2. contexts' \subseteq Hash
          OBVIOUS
        <5>3. reservations' \in [Hash -> ReservationStatus]
          BY DEF ReservationStatus
        <5>4. ledger' \in [Hash -> LedgerRow]
          <6>1. [entry |-> "reserve", status |-> "pending", amount |-> amount] \in LedgerRow
            BY DEF LedgerRow
          <6> QED
            BY <6>1
        <5> QED
          BY <5>1, <5>2, <5>3, <5>4
      <4>2. CASE ~BudgetAllows(h, amount, limit)
        BY <2>4, <4>2 DEF Reserve, ReserveQuoteAndBudget
      <4> QED
        BY <4>1, <4>2
    <3>4. /\ pc' \in [Runs -> Points] /\ verdict' \in [Runs -> Decision]
          /\ settle' \in [Runs -> Settlement] /\ holds' \in [Runs -> Hash \cup {NoHash}]
      BY <2>4 DEF Reserve
    <3> QED
      BY <2>4, <3>2, <3>3, <3>4 DEF Reserve
  <2> QED
    BY <1>1, <2>1, <2>2, <2>3, <2>4 DEF Request
<1>2. ASSUME NEW r \in Runs, Answer(r) PROVE TypeOK'
  BY <1>2 DEF Answer, AnswerThrows, ResumeDeclined, AnswerNotExecuted, AnswerDoubtful,
              AnswerExecuted, tables
<1>3. ASSUME NEW r \in Runs, Statement(r) PROVE TypeOK'
  <2>1. CASE RefuseCalldata(r) \/ CalldataThrows(r) \/ Submit(r) \/ DeclineLocally(r)
    BY <2>1 DEF RefuseCalldata, CalldataThrows, Submit, DeclineLocally, tables
  <2>2. CASE RecordEvent(r) \/ RecordTimeline(r)
    BY <2>2 DEF RecordEvent, RecordTimeline, tables
  <2>3. CASE Release(r) \/ Dispute(r) \/ Spend(r)
    BY <2>3 DEF Release, Dispute, Spend, ReleaseReservation, DisputeReservation,
                SpendReservation, ReservationStatus
  <2>4. CASE Void(r) \/ Post(r)
    <3>1. ledger' \in [Hash -> LedgerRow]
      BY <2>4 DEF Void, Post, VoidLedger, PostLedger, LedgerRow
    <3> QED
      BY <2>4, <3>1 DEF Void, Post
  <2>5. CASE SpendQuoteRow(r)
    BY <2>5 DEF SpendQuoteRow, SpendQuote, QuoteStatus
  <2>6. CASE ReceiptThrows(r) \/ RejectReceipt(r) \/ AcceptReceipt(r)
    BY <2>6 DEF ReceiptThrows, RejectReceipt, AcceptReceipt, tables
  <2> QED
    BY <1>3, <2>1, <2>2, <2>3, <2>4, <2>5, <2>6 DEF Statement
<1>4. ASSUME NEW m \in Missions, NEW limit \in Limits, SetBudget(m, limit) PROVE TypeOK'
  BY <1>4 DEF SetBudget, EnsureMission, pipe
<1>5. ASSUME NEW p \in Providers, RegisterProvider(p) PROVE TypeOK'
  BY <1>5 DEF RegisterProvider, EnsureProvider, pipe
<1>6. CASE Crash
  BY <1>6 DEF Crash, tables
<1>7. CASE UNCHANGED vars
  BY <1>7 DEF vars, tables, pipe
<1> QED
  BY <1>1, <1>2, <1>3, <1>4, <1>5, <1>6, <1>7 DEF Next

THEOREM TypeCorrect == Spec => []TypeOK
  BY TypeInit, TypeStep, PTL DEF Spec
-----------------------------------------------------------------------------
(* The strengthened invariant is inductive.                                *)
LEMMA IInvInit == Init => IInv
<1> SUFFICES ASSUME Init PROVE Owned /\ RowsFollowRun
  BY TypeInit DEF IInv
<1>1. Owned
  BY DEF Init, QuoteLockInit, Owned
<1>2. RowsFollowRun
  BY DEF Init, RowsFollowRun, Control, Running
<1> QED
  BY <1>1, <1>2

(* Steps that leave the tables and the holders alone only move one run.    *)
LEMMA QuietStep ==
  ASSUME IInv, TypeOK', UNCHANGED <<quotes, contexts, reservations, ledger, holds>>,
         \A r \in Runs : Control(r)' /\ (holds[r] # NoHash => RowsAt(r, holds[r])')
  PROVE  IInv'
  BY DEF IInv, Owned, RowsFollowRun, QuoteIds, QuoteOf

(* Because a quote id and its nonce determine one another, the first       *)
(* INSERT of a reservation succeeds only when all four do: the error that  *)
(* quote_lock.ts:372-381 swallows never commits part of a reservation.     *)
LEMMA NoOrphanInsert ==
  ASSUME IInv, NEW h \in Hash
  PROVE  QuoteInserted(h) => LedgerInserted(h)
<1> SUFFICES ASSUME QuoteInserted(h) PROVE LedgerInserted(h)
  OBVIOUS
<1>1. ASSUME NEW c \in contexts PROVE QuoteOf(c) # QuoteOf(h)
  <2>1. PICK r \in Runs : holds[r] = c
    BY DEF IInv, Owned
  <2>2. RowsAt(r, c)
    BY <2>1, PipelineAssumption DEF IInv, RowsFollowRun, TypeOK, QuoteLockTypeOK
  <2>3. quotes[QuoteOf(c)] # "absent"
    BY <2>2 DEF RowsAt, Rows, KeptRows, GivenBack, Fresh, Posted
  <2> QED
    BY <2>3 DEF QuoteInserted
<1>2. h \notin contexts
  BY <1>1
<1> QED
  BY <1>1, <1>2 DEF IInv, Owned, LedgerInserted, ReservationInserted, ContextInserted, QuoteOf, NonceOf

LEMMA RequestStep ==
  ASSUME IInv, TypeOK', NEW r \in Runs, Request(r)
  PROVE  IInv'
<1> USE DEF IInv
<1>1. ASSUME NEW m \in Missions,
             RefuseRequest(r, m) \/ RefuseProvider(r, m) \/ RefuseMetadata(r, m) \/ RefuseQuote(r, m)
      PROVE  IInv'
  <2>1. \E decision \in Decision : RefuseWith(r, m, decision)
    BY <1>1 DEF RefuseRequest, RefuseProvider, RefuseMetadata, RefuseQuote, Decision
  <2>2. UNCHANGED <<quotes, contexts, reservations, ledger, holds>>
    BY <2>1 DEF RefuseWith, tables
  <2>3. ASSUME NEW s \in Runs
        PROVE  Control(s)' /\ (holds[s] # NoHash => RowsAt(s, holds[s])')
    BY <2>1, <2>3 DEF RefuseWith, Conclude, Goto, RowsFollowRun, Control, RowsAt, Rows, EntryOf,
         Refused, Running, TypeOK, tables
  <2> QED
    BY <2>2, <2>3, QuietStep
<1>2. CASE ChallengeThrows(r)
  <2>1. UNCHANGED <<quotes, contexts, reservations, ledger, holds>>
    BY <1>2 DEF ChallengeThrows, tables
  <2>2. ASSUME NEW s \in Runs
        PROVE  Control(s)' /\ (holds[s] # NoHash => RowsAt(s, holds[s])')
    BY <1>2, <2>2 DEF ChallengeThrows, Goto, RowsFollowRun, Control, RowsAt, Rows, EntryOf,
         Refused, Running, TypeOK, tables
  <2> QED
    BY <2>1, <2>2, QuietStep
<1>3. ASSUME NEW h \in Hash, ReserveThrows(r, h) PROVE IInv'
  <2>1. UNCHANGED <<quotes, contexts, reservations, ledger, holds>>
    BY <1>3 DEF ReserveThrows, tables
  <2>2. ASSUME NEW s \in Runs
        PROVE  Control(s)' /\ (holds[s] # NoHash => RowsAt(s, holds[s])')
    BY <1>3, <2>2 DEF ReserveThrows, Goto, RowsFollowRun, Control, RowsAt, Rows, EntryOf,
         Refused, Running, TypeOK, tables
  <2> QED
    BY <2>1, <2>2, QuietStep
<1>4. ASSUME NEW h \in Hash, NEW amount \in Amounts, NEW limit \in Limits,
             Reserve(r, h, amount, limit)
      PROVE  IInv'
  <2>1. CASE Granted(h, amount, limit)
    <3>1. /\ quotes[QuoteOf(h)] = "absent" /\ h \notin contexts
          /\ reservations[h] = "absent" /\ ledger[h] = NoEntry
      BY <2>1 DEF Granted, LedgerInserted, ReservationInserted, ContextInserted, QuoteInserted
    <3>2. /\ quotes' = [quotes EXCEPT ![QuoteOf(h)] = "reserved"]
          /\ contexts' = contexts \cup {h}
          /\ reservations' = [reservations EXCEPT ![h] = "reserved"]
          /\ ledger' = [ledger EXCEPT ![h] = [entry |-> "reserve", status |-> "pending",
                                              amount |-> amount]]
      BY <1>4, <2>1 DEF Reserve, ReserveQuoteAndBudget, InsertRows, Granted, LedgerInserted,
                        ReservationInserted, ContextInserted
    <3>3. /\ pc[r] = "idle" /\ pc' = [pc EXCEPT ![r] = "reserved"]
          /\ holds' = [holds EXCEPT ![r] = h]
          /\ UNCHANGED <<verdict, settle, guardEvents, timeline, sent, paid>>
      BY <1>4, <2>1 DEF Reserve, Goto
    <3>4. \A s \in Runs : holds[s] # NoHash => QuoteOf(holds[s]) # QuoteOf(h) /\ holds[s] # h
      BY <3>1 DEF Owned, RowsFollowRun, RowsAt, Rows, KeptRows, GivenBack, Fresh, Posted, TypeOK
    <3>5. holds[r] = NoHash
      BY <3>3 DEF RowsFollowRun, Control
    <3>6. Owned'
      <4>1. \A s \in Runs : holds'[s] # NoHash => holds'[s] \in contexts'
        BY <3>2, <3>3 DEF Owned, TypeOK
      <4>2. \A s, t \in Runs :
              (s # t /\ holds'[s] # NoHash /\ holds'[t] # NoHash)
                => QuoteOf(holds'[s]) # QuoteOf(holds'[t])
        BY <3>3, <3>4 DEF Owned, TypeOK
      <4>3. \A c \in contexts' : \E s \in Runs : holds'[s] = c
        BY <3>2, <3>3, <3>5, PipelineAssumption DEF Owned, TypeOK, QuoteLockTypeOK
      <4>4. \A q \in QuoteIds : quotes'[q] # "absent" => \E c \in contexts' : QuoteOf(c) = q
        BY <3>2 DEF Owned, TypeOK, QuoteLockTypeOK
      <4>5. \A c \in Hash : c \notin contexts' => reservations'[c] = "absent" /\ ledger'[c] = NoEntry
        BY <3>2 DEF Owned, TypeOK, QuoteLockTypeOK
      <4> QED
        BY <4>1, <4>2, <4>3, <4>4, <4>5 DEF Owned, QuoteIds, QuoteOf
    <3>7. ASSUME NEW s \in Runs
          PROVE  Control(s)' /\ (holds'[s] # NoHash => RowsAt(s, holds[s])')
      <4>1. CASE s = r
        <5>1. Rows(h)' = Fresh /\ EntryOf(h)'
          BY <3>2, QuoteOfType DEF Rows, EntryOf, Fresh, TypeOK, QuoteLockTypeOK, QuoteOf, QuoteIds
        <5>2. r \notin sent \cup paid
          BY <3>5 DEF RowsFollowRun, Control
        <5>3. pc'[s] = "reserved" /\ holds'[s] = h
          BY <3>3, <4>1 DEF TypeOK
        <5>4. Control(s)'
          BY <3>3, <4>1, <5>2, <5>3, PipelineAssumption DEF Control
        <5>5. RowsAt(s, h)'
          <6>1. Rows(h)' \in KeptRows
            BY <5>1 DEF KeptRows
          <6>2. reservations'[h] = "reserved"
            BY <5>1 DEF Rows, Fresh
          <6> QED
            BY <5>1, <5>3, <6>1, <6>2 DEF RowsAt
        <5> QED
          BY <5>3, <5>4, <5>5
      <4>2. CASE s # r
        <5>1. holds'[s] = holds[s] /\ pc'[s] = pc[s]
          BY <3>3, <4>2 DEF TypeOK
        <5>2. holds[s] # NoHash => RowsAt(s, holds[s])
          BY DEF RowsFollowRun
        <5>3. holds[s] # NoHash =>
                /\ reservations'[holds[s]] = reservations[holds[s]]
                /\ ledger'[holds[s]] = ledger[holds[s]]
                /\ quotes'[QuoteOf(holds[s])] = quotes[QuoteOf(holds[s])]
          BY <3>2, <3>4, QuoteOfType DEF TypeOK, QuoteLockTypeOK
        <5>4. Control(s)'
          BY <3>3, <5>1 DEF RowsFollowRun, Control
        <5> QED
          BY <3>3, <5>1, <5>2, <5>3, <5>4 DEF RowsAt, Rows, EntryOf, Refused
      <4> QED
        BY <4>1, <4>2
    <3> QED
      BY <3>6, <3>7 DEF RowsFollowRun
  <2>2. CASE ~Granted(h, amount, limit)
    <3>1. QuoteInserted(h) => LedgerInserted(h)
      BY NoOrphanInsert
    <3>2. UNCHANGED <<quotes, contexts, reservations, ledger, holds>>
      BY <1>4, <2>2, <3>1 DEF Reserve, ReserveQuoteAndBudget, InsertRows, Granted, LedgerInserted,
                              ReservationInserted, ContextInserted
    <3>3. ASSUME NEW s \in Runs
          PROVE  Control(s)' /\ (holds[s] # NoHash => RowsAt(s, holds[s])')
      BY <1>4, <2>2, <3>2, <3>3 DEF Reserve, Conclude, Goto, RowsFollowRun, Control, RowsAt, Rows,
           EntryOf, Refused, Running, TypeOK
    <3> QED
      BY <3>2, <3>3, QuietStep
  <2> QED
    BY <2>1, <2>2
<1> QED
  BY <1>1, <1>2, <1>3, <1>4 DEF Request

LEMMA AnswerStep ==
  ASSUME IInv, TypeOK', NEW r \in Runs, Answer(r)
  PROVE  IInv'
<1> USE DEF IInv
<1>1. CASE AnswerThrows(r)
  <2>1. UNCHANGED <<quotes, contexts, reservations, ledger, holds>>
    BY <1>1 DEF AnswerThrows, tables
  <2>2. ASSUME NEW s \in Runs
        PROVE  Control(s)' /\ (holds[s] # NoHash => RowsAt(s, holds[s])')
    BY <1>1, <2>1, <2>2 DEF AnswerThrows, Goto, RowsFollowRun, Control, RowsAt, Rows, EntryOf,
         Refused, Running, TypeOK
  <2> QED
    BY <2>1, <2>2, QuietStep
<1>2. CASE ResumeDeclined(r)
  <2>1. UNCHANGED <<quotes, contexts, reservations, ledger, holds>>
    BY <1>2 DEF ResumeDeclined, tables
  <2>2. ASSUME NEW s \in Runs
        PROVE  Control(s)' /\ (holds[s] # NoHash => RowsAt(s, holds[s])')
    BY <1>2, <2>1, <2>2 DEF ResumeDeclined, Conclude, Goto, RowsFollowRun, Control, RowsAt, Rows, EntryOf,
         Refused, Running, TypeOK
  <2> QED
    BY <2>1, <2>2, QuietStep
<1>3. ASSUME NEW decision \in {"require_approval", "fallback_required", "block"},
             AnswerNotExecuted(r, decision)
      PROVE  IInv'
  <2>1. UNCHANGED <<quotes, contexts, reservations, ledger, holds>>
    BY <1>3 DEF AnswerNotExecuted, tables
  <2>2. ASSUME NEW s \in Runs
        PROVE  Control(s)' /\ (holds[s] # NoHash => RowsAt(s, holds[s])')
    BY <1>3, <2>1, <2>2 DEF AnswerNotExecuted, Conclude, Goto, RowsFollowRun, Control, RowsAt, Rows, EntryOf,
         Refused, Running, TypeOK
  <2> QED
    BY <2>1, <2>2, QuietStep
<1>4. CASE AnswerDoubtful(r)
  <2>1. UNCHANGED <<quotes, contexts, reservations, ledger, holds>>
    BY <1>4 DEF AnswerDoubtful, tables
  <2>2. ASSUME NEW s \in Runs
        PROVE  Control(s)' /\ (holds[s] # NoHash => RowsAt(s, holds[s])')
    BY <1>4, <2>1, <2>2 DEF AnswerDoubtful, Conclude, Goto, RowsFollowRun, Control, RowsAt, Rows, EntryOf,
         Refused, Running, TypeOK, KeptRows, GivenBack, Fresh, Posted
  <2> QED
    BY <2>1, <2>2, QuietStep
<1>5. CASE AnswerExecuted(r)
  <2>1. UNCHANGED <<quotes, contexts, reservations, ledger, holds>>
    BY <1>5 DEF AnswerExecuted, tables
  <2>2. ASSUME NEW s \in Runs
        PROVE  Control(s)' /\ (holds[s] # NoHash => RowsAt(s, holds[s])')
    BY <1>5, <2>1, <2>2 DEF AnswerExecuted, Goto, RowsFollowRun, Control, RowsAt, Rows, EntryOf,
         Refused, Running, TypeOK, KeptRows, GivenBack, Fresh, Posted
  <2> QED
    BY <2>1, <2>2, QuietStep
<1> QED
  BY <1>1, <1>2, <1>3, <1>4, <1>5 DEF Answer

(* A statement that settles a run's own rows leaves the rows of every      *)
(* other run alone: their quotes differ.                                   *)
LEMMA OwnRowStep ==
  ASSUME IInv, TypeOK', NEW r \in Runs, NEW point,
         holds[r] # NoHash, pc' = [pc EXCEPT ![r] = point],
         UNCHANGED <<contexts, holds, verdict, settle, guardEvents, sent, paid>>,
         \A g \in Hash : g # holds[r] => reservations'[g] = reservations[g] /\ ledger'[g] = ledger[g],
         \A q \in QuoteIds : q # QuoteOf(holds[r]) => quotes'[q] = quotes[q],
         Control(r)', RowsAt(r, holds[r])'
  PROVE  IInv'
<1> USE DEF IInv
<1>1. holds[r] \in Hash /\ holds[r] \in contexts
  BY DEF TypeOK, Owned
<1>2. Owned'
  <2>1. \A q \in QuoteIds : quotes'[q] # "absent" => \E c \in contexts : QuoteOf(c) = q
    BY <1>1 DEF Owned
  <2>2. \A c \in Hash : c \notin contexts => reservations'[c] = "absent" /\ ledger'[c] = NoEntry
    BY <1>1 DEF Owned
  <2> QED
    BY <2>1, <2>2 DEF Owned, QuoteIds, QuoteOf
<1>3. ASSUME NEW s \in Runs
      PROVE  Control(s)' /\ (holds'[s] # NoHash => RowsAt(s, holds[s])')
  <2>1. CASE s = r
    BY <2>1
  <2>2. CASE s # r
    <3>1. pc'[s] = pc[s] /\ Control(s)'
      BY <2>2 DEF TypeOK, RowsFollowRun, Control
    <3>2. holds[s] # NoHash =>
            /\ reservations'[holds[s]] = reservations[holds[s]]
            /\ ledger'[holds[s]] = ledger[holds[s]]
            /\ quotes'[QuoteOf(holds[s])] = quotes[QuoteOf(holds[s])]
      BY <2>2, QuoteOfType DEF Owned, TypeOK
    <3> QED
      BY <3>1, <3>2 DEF RowsFollowRun, RowsAt, Rows, EntryOf, Refused
  <2> QED
    BY <2>1, <2>2
<1> QED
  BY <1>2, <1>3 DEF RowsFollowRun

LEMMA StatementStep ==
  ASSUME IInv, TypeOK', NEW r \in Runs, Statement(r)
  PROVE  IInv'
<1> USE DEF IInv
<1>1. CASE RefuseCalldata(r)
  <2>1. UNCHANGED <<quotes, contexts, reservations, ledger, holds>>
    BY <1>1 DEF RefuseCalldata, tables
  <2>2. ASSUME NEW s \in Runs
        PROVE  Control(s)' /\ (holds[s] # NoHash => RowsAt(s, holds[s])')
    BY <1>1, <2>1, <2>2 DEF RefuseCalldata, Conclude, Goto, RowsFollowRun, Control, RowsAt, Rows, EntryOf,
         Refused, Running, TypeOK
  <2> QED
    BY <2>1, <2>2, QuietStep
<1>2. CASE CalldataThrows(r)
  <2>1. UNCHANGED <<quotes, contexts, reservations, ledger, holds>>
    BY <1>2 DEF CalldataThrows, tables
  <2>2. ASSUME NEW s \in Runs
        PROVE  Control(s)' /\ (holds[s] # NoHash => RowsAt(s, holds[s])')
    BY <1>2, <2>1, <2>2 DEF CalldataThrows, Goto, RowsFollowRun, Control, RowsAt, Rows, EntryOf,
         Refused, Running, TypeOK
  <2> QED
    BY <2>1, <2>2, QuietStep
<1>3. CASE Submit(r)
  <2>1. UNCHANGED <<quotes, contexts, reservations, ledger, holds>>
    BY <1>3 DEF Submit, tables
  <2>2. ASSUME NEW s \in Runs
        PROVE  Control(s)' /\ (holds[s] # NoHash => RowsAt(s, holds[s])')
    BY <1>3, <2>1, <2>2 DEF Submit, Goto, RowsFollowRun, Control, RowsAt, Rows, EntryOf,
         Refused, Running, TypeOK
  <2> QED
    BY <2>1, <2>2, QuietStep
<1>4. CASE DeclineLocally(r)
  <2>1. UNCHANGED <<quotes, contexts, reservations, ledger, holds>>
    BY <1>4 DEF DeclineLocally, tables
  <2>2. ASSUME NEW s \in Runs
        PROVE  Control(s)' /\ (holds[s] # NoHash => RowsAt(s, holds[s])')
    BY <1>4, <2>1, <2>2 DEF DeclineLocally, Goto, RowsFollowRun, Control, RowsAt, Rows, EntryOf,
         Refused, Running, TypeOK
  <2> QED
    BY <2>1, <2>2, QuietStep
<1>5. CASE RecordEvent(r)
  <2>1. UNCHANGED <<quotes, contexts, reservations, ledger, holds>>
    BY <1>5 DEF RecordEvent, tables
  <2>2. ASSUME NEW s \in Runs
        PROVE  Control(s)' /\ (holds[s] # NoHash => RowsAt(s, holds[s])')
    BY <1>5, <2>1, <2>2 DEF RecordEvent, Goto, RowsFollowRun, Control, RowsAt, Rows, EntryOf,
         Refused, Running, TypeOK
  <2> QED
    BY <2>1, <2>2, QuietStep
<1>6. CASE RecordTimeline(r)
  <2>1. UNCHANGED <<quotes, contexts, reservations, ledger, holds>>
    BY <1>6 DEF RecordTimeline, tables
  <2>2. ASSUME NEW s \in Runs
        PROVE  Control(s)' /\ (holds[s] # NoHash => RowsAt(s, holds[s])')
    BY <1>6, <2>1, <2>2 DEF RecordTimeline, Goto, RowsFollowRun, Control, RowsAt, Rows, EntryOf,
         Refused, Running, TypeOK
  <2> QED
    BY <2>1, <2>2, QuietStep
<1>7. CASE ReceiptThrows(r)
  <2>1. UNCHANGED <<quotes, contexts, reservations, ledger, holds>>
    BY <1>7 DEF ReceiptThrows, tables
  <2>2. ASSUME NEW s \in Runs
        PROVE  Control(s)' /\ (holds[s] # NoHash => RowsAt(s, holds[s])')
    BY <1>7, <2>1, <2>2 DEF ReceiptThrows, Goto, RowsFollowRun, Control, RowsAt, Rows, EntryOf,
         Refused, Running, TypeOK
  <2> QED
    BY <2>1, <2>2, QuietStep
<1>8. CASE RejectReceipt(r)
  <2>1. UNCHANGED <<quotes, contexts, reservations, ledger, holds>>
    BY <1>8 DEF RejectReceipt, tables
  <2>2. ASSUME NEW s \in Runs
        PROVE  Control(s)' /\ (holds[s] # NoHash => RowsAt(s, holds[s])')
    BY <1>8, <2>1, <2>2 DEF RejectReceipt, Conclude, Goto, RowsFollowRun, Control, RowsAt, Rows, EntryOf,
         Refused, Running, TypeOK
  <2> QED
    BY <2>1, <2>2, QuietStep
<1>9. CASE AcceptReceipt(r)
  <2>1. UNCHANGED <<quotes, contexts, reservations, ledger, holds>>
    BY <1>9 DEF AcceptReceipt, tables
  <2>2. ASSUME NEW s \in Runs
        PROVE  Control(s)' /\ (holds[s] # NoHash => RowsAt(s, holds[s])')
    BY <1>9, <2>1, <2>2 DEF AcceptReceipt, Conclude, Goto, RowsFollowRun, Control, RowsAt, Rows, EntryOf,
         Refused, Running, TypeOK, KeptRows, GivenBack, Fresh, Posted
  <2> QED
    BY <2>1, <2>2, QuietStep
<1>10. CASE Release(r)
  <2>1. /\ holds[r] \in Hash
        /\ Control(r) /\ RowsAt(r, holds[r])
        /\ QuoteOf(holds[r]) \in QuoteIds
    BY <1>10, QuoteOfType DEF Release, RowsFollowRun, Control, Running, TypeOK
  <2>2. /\ pc' = [pc EXCEPT ![r] = "void"]
        /\ UNCHANGED <<contexts, holds, verdict, settle, guardEvents, sent, paid>>
        /\ \A g \in Hash : g # holds[r] => reservations'[g] = reservations[g] /\ ledger'[g] = ledger[g]
        /\ \A q \in QuoteIds : q # QuoteOf(holds[r]) => quotes'[q] = quotes[q]
    BY <1>10 DEF Release, ReleaseReservation, Goto, TypeOK, QuoteLockTypeOK
  <2>3. Control(r)'
    BY <1>10, <2>1, <2>2 DEF Release, Control, Running, TypeOK
  <2>4. RowsAt(r, holds[r])'
    BY <1>10, <2>1, <2>2 DEF Release, ReleaseReservation, Control, RowsAt, Rows, EntryOf, KeptRows, GivenBack, Fresh, Posted,
         Refused, TypeOK, QuoteLockTypeOK, LedgerRow
  <2> QED
    BY <2>1, <2>2, <2>3, <2>4, OwnRowStep, PipelineAssumption
<1>11. CASE Void(r)
  <2>1. /\ holds[r] \in Hash
        /\ Control(r) /\ RowsAt(r, holds[r])
        /\ QuoteOf(holds[r]) \in QuoteIds
    BY <1>11, QuoteOfType DEF Void, RowsFollowRun, Control, Running, TypeOK
  <2>2. /\ pc' = [pc EXCEPT ![r] = "done"]
        /\ UNCHANGED <<contexts, holds, verdict, settle, guardEvents, sent, paid>>
        /\ \A g \in Hash : g # holds[r] => reservations'[g] = reservations[g] /\ ledger'[g] = ledger[g]
        /\ \A q \in QuoteIds : q # QuoteOf(holds[r]) => quotes'[q] = quotes[q]
    BY <1>11 DEF Void, VoidLedger, Goto, TypeOK, QuoteLockTypeOK
  <2>3. Control(r)'
    BY <1>11, <2>1, <2>2 DEF Void, Control, Running, TypeOK
  <2>4. RowsAt(r, holds[r])'
    BY <1>11, <2>1, <2>2 DEF Void, VoidLedger, Control, RowsAt, Rows, EntryOf, KeptRows, GivenBack, Fresh, Posted,
         Refused, TypeOK, QuoteLockTypeOK, LedgerRow
  <2> QED
    BY <2>1, <2>2, <2>3, <2>4, OwnRowStep, PipelineAssumption
<1>12. CASE Dispute(r)
  <2>1. /\ holds[r] \in Hash
        /\ Control(r) /\ RowsAt(r, holds[r])
        /\ QuoteOf(holds[r]) \in QuoteIds
    BY <1>12, QuoteOfType DEF Dispute, RowsFollowRun, Control, Running, TypeOK
  <2>2. /\ pc' = [pc EXCEPT ![r] = "done"]
        /\ UNCHANGED <<contexts, holds, verdict, settle, guardEvents, sent, paid>>
        /\ \A g \in Hash : g # holds[r] => reservations'[g] = reservations[g] /\ ledger'[g] = ledger[g]
        /\ \A q \in QuoteIds : q # QuoteOf(holds[r]) => quotes'[q] = quotes[q]
    BY <1>12 DEF Dispute, DisputeReservation, Goto, TypeOK, QuoteLockTypeOK
  <2>3. Control(r)'
    BY <1>12, <2>1, <2>2 DEF Dispute, Control, Running, TypeOK
  <2>4. RowsAt(r, holds[r])'
    BY <1>12, <2>1, <2>2 DEF Dispute, DisputeReservation, Control, RowsAt, Rows, EntryOf, KeptRows, GivenBack, Fresh, Posted,
         Refused, TypeOK, QuoteLockTypeOK, LedgerRow
  <2> QED
    BY <2>1, <2>2, <2>3, <2>4, OwnRowStep, PipelineAssumption
<1>13. CASE Spend(r)
  <2>1. /\ holds[r] \in Hash
        /\ Control(r) /\ RowsAt(r, holds[r])
        /\ QuoteOf(holds[r]) \in QuoteIds
    BY <1>13, QuoteOfType DEF Spend, RowsFollowRun, Control, Running, TypeOK
  <2>2. /\ pc' = [pc EXCEPT ![r] = "spendQuote"]
        /\ UNCHANGED <<contexts, holds, verdict, settle, guardEvents, sent, paid>>
        /\ \A g \in Hash : g # holds[r] => reservations'[g] = reservations[g] /\ ledger'[g] = ledger[g]
        /\ \A q \in QuoteIds : q # QuoteOf(holds[r]) => quotes'[q] = quotes[q]
    BY <1>13 DEF Spend, SpendReservation, Goto, TypeOK, QuoteLockTypeOK
  <2>3. Control(r)'
    BY <1>13, <2>1, <2>2 DEF Spend, Control, Running, TypeOK
  <2>4. RowsAt(r, holds[r])'
    BY <1>13, <2>1, <2>2 DEF Spend, SpendReservation, Control, RowsAt, Rows, EntryOf, KeptRows, GivenBack, Fresh, Posted,
         Refused, TypeOK, QuoteLockTypeOK, LedgerRow
  <2> QED
    BY <2>1, <2>2, <2>3, <2>4, OwnRowStep, PipelineAssumption
<1>14. CASE SpendQuoteRow(r)
  <2>1. /\ holds[r] \in Hash
        /\ Control(r) /\ RowsAt(r, holds[r])
        /\ QuoteOf(holds[r]) \in QuoteIds
    BY <1>14, QuoteOfType DEF SpendQuoteRow, RowsFollowRun, Control, Running, TypeOK
  <2>2. /\ pc' = [pc EXCEPT ![r] = "post"]
        /\ UNCHANGED <<contexts, holds, verdict, settle, guardEvents, sent, paid>>
        /\ \A g \in Hash : g # holds[r] => reservations'[g] = reservations[g] /\ ledger'[g] = ledger[g]
        /\ \A q \in QuoteIds : q # QuoteOf(holds[r]) => quotes'[q] = quotes[q]
    BY <1>14 DEF SpendQuoteRow, SpendQuote, Goto, TypeOK, QuoteLockTypeOK
  <2>3. Control(r)'
    BY <1>14, <2>1, <2>2 DEF SpendQuoteRow, Control, Running, TypeOK
  <2>4. RowsAt(r, holds[r])'
    BY <1>14, <2>1, <2>2 DEF SpendQuoteRow, SpendQuote, Control, RowsAt, Rows, EntryOf, KeptRows, GivenBack, Fresh, Posted,
         Refused, TypeOK, QuoteLockTypeOK, LedgerRow
  <2> QED
    BY <2>1, <2>2, <2>3, <2>4, OwnRowStep, PipelineAssumption
<1>15. CASE Post(r)
  <2>1. /\ holds[r] \in Hash
        /\ Control(r) /\ RowsAt(r, holds[r])
        /\ QuoteOf(holds[r]) \in QuoteIds
    BY <1>15, QuoteOfType DEF Post, RowsFollowRun, Control, Running, TypeOK
  <2>2. /\ pc' = [pc EXCEPT ![r] = "receipt"]
        /\ UNCHANGED <<contexts, holds, verdict, settle, guardEvents, sent, paid>>
        /\ \A g \in Hash : g # holds[r] => reservations'[g] = reservations[g] /\ ledger'[g] = ledger[g]
        /\ \A q \in QuoteIds : q # QuoteOf(holds[r]) => quotes'[q] = quotes[q]
    BY <1>15 DEF Post, PostLedger, Goto, TypeOK, QuoteLockTypeOK
  <2>3. Control(r)'
    BY <1>15, <2>1, <2>2 DEF Post, Control, Running, TypeOK
  <2>4. RowsAt(r, holds[r])'
    BY <1>15, <2>1, <2>2 DEF Post, PostLedger, Control, RowsAt, Rows, EntryOf, KeptRows, GivenBack, Fresh, Posted,
         Refused, TypeOK, QuoteLockTypeOK, LedgerRow
  <2> QED
    BY <2>1, <2>2, <2>3, <2>4, OwnRowStep, PipelineAssumption
<1> QED
  BY <1>1, <1>2, <1>3, <1>4, <1>5, <1>6, <1>7, <1>8, <1>9, <1>10, <1>11, <1>12, <1>13, <1>14, <1>15 DEF Statement

LEMMA IInvStep == IInv /\ [Next]_vars => IInv'
<1> SUFFICES ASSUME IInv, [Next]_vars PROVE IInv'
  OBVIOUS
<1> USE DEF IInv
<1>0. TypeOK'
  BY TypeStep
<1>1. ASSUME NEW r \in Runs, Request(r) \/ Answer(r) \/ Statement(r) PROVE IInv'
  BY <1>0, <1>1, RequestStep, AnswerStep, StatementStep
<1>2. CASE \E m \in Missions, limit \in Limits : SetBudget(m, limit)
  <2>1. UNCHANGED <<quotes, contexts, reservations, ledger, pipe>>
    BY <1>2 DEF SetBudget
  <2>2. ASSUME NEW s \in Runs
        PROVE  Control(s)' /\ (holds[s] # NoHash => RowsAt(s, holds[s])')
    BY <2>1 DEF pipe, RowsFollowRun, Control, RowsAt, Rows, EntryOf, Refused
  <2> QED
    BY <1>0, <2>1, <2>2, QuietStep DEF pipe
<1>3. CASE \E p \in Providers : RegisterProvider(p)
  <2>1. UNCHANGED <<quotes, contexts, reservations, ledger, pipe>>
    BY <1>3 DEF RegisterProvider
  <2>2. ASSUME NEW s \in Runs
        PROVE  Control(s)' /\ (holds[s] # NoHash => RowsAt(s, holds[s])')
    BY <2>1 DEF pipe, RowsFollowRun, Control, RowsAt, Rows, EntryOf, Refused
  <2> QED
    BY <1>0, <2>1, <2>2, QuietStep DEF pipe
<1>4. CASE Crash
  <2>1. UNCHANGED <<quotes, contexts, reservations, ledger, holds>>
    BY <1>4 DEF Crash, tables
  <2>2. ASSUME NEW s \in Runs
        PROVE  Control(s)' /\ (holds[s] # NoHash => RowsAt(s, holds[s])')
    BY <1>4, <2>1, <2>2 DEF Crash, Stopped, RowsFollowRun, Control, RowsAt, Rows, EntryOf,
         Refused, Running, TypeOK
  <2> QED
    BY <1>0, <2>1, <2>2, QuietStep
<1>5. CASE UNCHANGED vars
  BY <1>5 DEF vars, tables, pipe, TypeOK, QuoteLockTypeOK, Owned, RowsFollowRun, Control, RowsAt,
              Rows, EntryOf, Refused
<1> QED
  BY <1>1, <1>2, <1>3, <1>4, <1>5 DEF Next

LEMMA IInvAlways == Spec => []IInv
  BY IInvInit, IInvStep, PTL DEF Spec

-----------------------------------------------------------------------------
(* What the invariant implies                                              *)

(* Two different runs never submit a payment for the same mission and      *)
(* provider, through any sequence of retries, refusals, releases and       *)
(* crashes.                                                                *)
THEOREM NoDoubleSubmission == Spec => []AtMostOneSubmission
<1>1. IInv => AtMostOneSubmission
  BY DEF IInv, Owned, RowsFollowRun, Control, AtMostOneSubmission, TypeOK
<1> QED
  BY <1>1, IInvAlways, PTL

(* Reservation, ledger and quote rows agree between any two statements.    *)
THEOREM TablesAlwaysAgree == Spec => []TablesAgree
<1>1. ASSUME IInv, NEW h \in Hash
      PROVE  /\ ledger[h].status = "void" => reservations[h] = "released"
             /\ ledger[h].status = "posted" =>
                  reservations[h] \in {"spent", "disputed"} /\ quotes[QuoteOf(h)] = "spent"
             /\ reservations[h] = "released" => ledger[h].status \in {"pending", "void"}
             /\ reservations[h] # "absent" => ledger[h].entry # "absent"
  <2>1. CASE h \in contexts
    <3>1. PICK r \in Runs : holds[r] = h
      BY <1>1, <2>1 DEF IInv, Owned
    <3>2. RowsAt(r, h)
      BY <1>1, <3>1, PipelineAssumption DEF IInv, RowsFollowRun
    <3> QED
      BY <3>2 DEF RowsAt, Rows, EntryOf, KeptRows, GivenBack, Fresh, Posted
  <2>2. CASE h \notin contexts
    BY <1>1, <2>2 DEF IInv, Owned, NoEntry
  <2> QED
    BY <2>1, <2>2
<1>2. IInv => TablesAgree
  BY <1>1 DEF TablesAgree
<1> QED
  BY <1>2, IInvAlways, PTL

(* The reservation transaction never commits a quote without the rest. *)
THEOREM QuotesAreNeverOrphans == Spec => []NoOrphanQuote
<1>1. ASSUME IInv, NEW q \in QuoteIds, quotes[q] # "absent"
      PROVE  \E h \in contexts : QuoteOf(h) = q /\ reservations[h] # "absent" /\ ledger[h] # NoEntry
  <2>1. PICK h \in contexts : QuoteOf(h) = q
    BY <1>1 DEF IInv, Owned
  <2>2. PICK r \in Runs : holds[r] = h
    BY <1>1 DEF IInv, Owned
  <2>3. h \in Hash /\ h # NoHash
    BY <1>1, PipelineAssumption DEF IInv, TypeOK, QuoteLockTypeOK
  <2>4. RowsAt(r, h)
    BY <1>1, <2>2, <2>3 DEF IInv, RowsFollowRun
  <2> QED
    BY <2>1, <2>4 DEF RowsAt, Rows, EntryOf, KeptRows, GivenBack, Fresh, Posted, NoEntry
<1>2. IInv => NoOrphanQuote
  BY <1>1 DEF NoOrphanQuote
<1> QED
  BY <1>2, IInvAlways, PTL

(* Money the adapter reported as executed stays counted. *)
THEOREM PaidIsNeverReleased == Spec => []PaidStaysCounted
<1>1. ASSUME IInv, NEW r \in paid PROVE Counted(holds[r])
  <2>1. r \in Runs /\ holds[r] # NoHash
    BY <1>1 DEF IInv, TypeOK, RowsFollowRun, Control
  <2>2. RowsAt(r, holds[r])
    BY <1>1, <2>1 DEF IInv, RowsFollowRun
  <2> QED
    BY <1>1, <2>2 DEF RowsAt, Rows, EntryOf, KeptRows, Fresh, Posted, Counted
<1>2. IInv => PaidStaysCounted
  BY <1>1 DEF PaidStaysCounted
<1> QED
  BY <1>2, IInvAlways, PTL

(* Nothing is released or disputed without its guard event. *)
THEOREM EventsPrecedeSettlement == Spec => []EventBeforeSettlement
<1>1. ASSUME IInv, NEW h \in Hash, reservations[h] \in {"released", "disputed"}
      PROVE  \E r \in guardEvents : holds[r] = h /\ verdict[r] \notin {"none", "allow"}
  <2>1. PICK r \in Runs : holds[r] = h
    BY <1>1 DEF IInv, Owned
  <2> QED
    BY <1>1, <2>1, PipelineAssumption DEF IInv, RowsFollowRun, RowsAt, Refused
<1>2. IInv => EventBeforeSettlement
  BY <1>1 DEF EventBeforeSettlement
<1> QED
  BY <1>2, IInvAlways, PTL

(* A run that returned has settled its rows as it reported. *)
THEOREM ReturnedRunsAreSettled == Spec => []DoneIsSettled
<1>1. ASSUME IInv, NEW r \in Runs, pc[r] = "done", holds[r] # NoHash
      PROVE  \/ /\ verdict[r] = "allow"
                /\ reservations[holds[r]] = "spent" /\ quotes[QuoteOf(holds[r])] = "spent"
                /\ ledger[holds[r]].entry = "spend" /\ ledger[holds[r]].status = "posted"
             \/ /\ verdict[r] # "allow"
                /\ \/ reservations[holds[r]] = "released" /\ ledger[holds[r]].status = "void"
                   \/ reservations[holds[r]] = "disputed" /\ Counted(holds[r])
  <2>1. RowsAt(r, holds[r])
    BY <1>1 DEF IInv, RowsFollowRun
  <2> QED
    BY <1>1, <2>1 DEF RowsAt, Rows, EntryOf, Refused, Posted, Counted
<1>2. IInv => DoneIsSettled
  BY <1>1 DEF DoneIsSettled
<1> QED
  BY <1>2, IInvAlways, PTL
-----------------------------------------------------------------------------
(* A step changes the reservation and the ledger row of a hash only as the *)
(* statement its own run has come to says, and RowsAt tells what it finds. *)
Forward(h) ==
  /\ <<reservations[h], reservations'[h]>> \in
       {<<"absent", "reserved">>, <<"reserved", "spent">>, <<"reserved", "released">>,
        <<"reserved", "disputed">>, <<"spent", "disputed">>}
       \cup {<<s, s>> : s \in ReservationStatus}
  /\ ledger[h].status = "void" => ledger'[h] = ledger[h]
  /\ ledger[h].status = "posted" => ledger'[h] = ledger[h]

(* What does not move has not gone back. *)
LEMMA Unmoved ==
  ASSUME IInv, NEW h \in Hash, reservations'[h] = reservations[h], ledger'[h] = ledger[h]
  PROVE  Forward(h)
<1>1. reservations[h] \in ReservationStatus
  BY DEF IInv, TypeOK, QuoteLockTypeOK
<1> QED
  BY <1>1 DEF Forward

LEMMA RowsMoveForward ==
  ASSUME IInv, [Next]_vars, NEW h \in Hash
  PROVE  Forward(h)
<1> USE DEF IInv
<1>1. ASSUME NEW r \in Runs, Request(r) PROVE Forward(h)
  <2>1. CASE UNCHANGED <<reservations, ledger>>
    BY <2>1, Unmoved
  <2>2. ASSUME NEW g \in Hash, NEW amount \in Amounts, NEW limit \in Limits,
               Reserve(r, g, amount, limit)
        PROVE  Forward(h)
    <3>1. CASE Granted(g, amount, limit)
      <4>1. /\ reservations[g] = "absent" /\ ledger[g] = NoEntry
            /\ reservations' = [reservations EXCEPT ![g] = "reserved"]
            /\ \A f \in Hash : f # g => ledger'[f] = ledger[f]
        BY <2>2, <3>1 DEF Reserve, ReserveQuoteAndBudget, InsertRows, Granted, LedgerInserted,
                          ReservationInserted, TypeOK, QuoteLockTypeOK
      <4>2. CASE h = g
        BY <4>1, <4>2 DEF Forward, NoEntry, TypeOK, QuoteLockTypeOK
      <4>3. CASE h # g
        BY <4>1, <4>3, Unmoved DEF TypeOK, QuoteLockTypeOK
      <4> QED
        BY <4>2, <4>3
    <3>2. CASE ~Granted(g, amount, limit)
      <4>1. QuoteInserted(g) => LedgerInserted(g)
        BY NoOrphanInsert
      <4>2. UNCHANGED <<reservations, ledger>>
        BY <2>2, <3>2, <4>1 DEF Reserve, ReserveQuoteAndBudget, InsertRows, Granted, LedgerInserted,
                          ReservationInserted, ContextInserted
      <4> QED
        BY <4>2, Unmoved
    <3> QED
      BY <3>1, <3>2
  <2>3. ASSUME NEW m \in Missions,
               RefuseRequest(r, m) \/ RefuseProvider(r, m) \/ RefuseMetadata(r, m) \/ RefuseQuote(r, m)
        PROVE  UNCHANGED <<reservations, ledger>>
    BY <2>3 DEF RefuseRequest, RefuseProvider, RefuseMetadata, RefuseQuote, RefuseWith, tables
  <2>4. ChallengeThrows(r) => UNCHANGED <<reservations, ledger>>
    BY DEF ChallengeThrows, tables
  <2>5. ASSUME NEW g \in Hash, ReserveThrows(r, g) PROVE UNCHANGED <<reservations, ledger>>
    BY <2>5 DEF ReserveThrows, tables
  <2> QED
    BY <1>1, <2>1, <2>2, <2>3, <2>4, <2>5 DEF Request
<1>2. ASSUME NEW r \in Runs, Answer(r) PROVE Forward(h)
  <2>1. UNCHANGED <<reservations, ledger>>
    BY <1>2 DEF Answer, AnswerThrows, ResumeDeclined, AnswerNotExecuted, AnswerDoubtful,
                AnswerExecuted, tables
  <2> QED
    BY <2>1, Unmoved
<1>3. ASSUME NEW r \in Runs, Release(r) \/ Void(r) \/ Dispute(r) \/ Spend(r) \/ Post(r)
      PROVE  Forward(h)
  <2>1. holds[r] \in Hash /\ Control(r) /\ RowsAt(r, holds[r])
    BY <1>3 DEF Release, Void, Dispute, Spend, Post, RowsFollowRun, Control, Running, TypeOK
  <2>2. CASE h # holds[r]
    <3>1. reservations'[h] = reservations[h] /\ ledger'[h] = ledger[h]
      BY <1>3, <2>2 DEF Release, Void, Dispute, Spend, Post, ReleaseReservation, VoidLedger,
                        DisputeReservation, SpendReservation, PostLedger, TypeOK, QuoteLockTypeOK
    <3> QED
      BY <3>1, Unmoved
  <2>3. CASE h = holds[r] /\ Release(r)
    <3>1. reservations[h] = "reserved" /\ reservations'[h] = "released" /\ ledger' = ledger
      BY <2>1, <2>3 DEF Release, ReleaseReservation, Control, RowsAt, Rows, Fresh, TypeOK, QuoteLockTypeOK
    <3> QED
      BY <3>1 DEF Forward
  <2>4. CASE h = holds[r] /\ Void(r)
    <3>1. /\ reservations' = reservations /\ reservations[h] \in ReservationStatus
          /\ ledger[h].status = "pending"
      BY <2>1, <2>4 DEF Void, RowsAt, Rows, TypeOK, QuoteLockTypeOK
    <3> QED
      BY <3>1 DEF Forward
  <2>5. CASE h = holds[r] /\ Dispute(r)
    <3>1. reservations[h] \in {"reserved", "spent"} /\ reservations'[h] = "disputed" /\ ledger' = ledger
      BY <2>1, <2>5 DEF Dispute, DisputeReservation, Control, RowsAt, Rows, Fresh, Posted, TypeOK, QuoteLockTypeOK
    <3> QED
      BY <3>1 DEF Forward
  <2>6. CASE h = holds[r] /\ Spend(r)
    <3>1. reservations[h] = "reserved" /\ reservations'[h] = "spent" /\ ledger' = ledger
      BY <2>1, <2>6 DEF Spend, SpendReservation, RowsAt, Rows, Fresh, TypeOK, QuoteLockTypeOK
    <3> QED
      BY <3>1 DEF Forward
  <2>7. CASE h = holds[r] /\ Post(r)
    <3>1. /\ reservations' = reservations /\ reservations[h] \in ReservationStatus
          /\ ledger[h].status = "pending"
      BY <2>1, <2>7 DEF Post, RowsAt, Rows, TypeOK, QuoteLockTypeOK
    <3> QED
      BY <3>1 DEF Forward
  <2> QED
    BY <1>3, <2>2, <2>3, <2>4, <2>5, <2>6, <2>7
<1>4. ASSUME NEW r \in Runs, Statement(r), ~(Release(r) \/ Void(r) \/ Dispute(r) \/ Spend(r) \/ Post(r))
      PROVE  Forward(h)
  <2>1. UNCHANGED <<reservations, ledger>>
    BY <1>4 DEF Statement, RefuseCalldata, CalldataThrows, Submit, DeclineLocally, RecordEvent,
                RecordTimeline, SpendQuoteRow, ReceiptThrows, RejectReceipt, AcceptReceipt, tables
  <2> QED
    BY <2>1, Unmoved
<1>5. CASE \/ \E m \in Missions, limit \in Limits : SetBudget(m, limit)
           \/ \E p \in Providers : RegisterProvider(p)
           \/ Crash
           \/ UNCHANGED vars
  <2>1. UNCHANGED <<reservations, ledger>>
    BY <1>5 DEF SetBudget, RegisterProvider, Crash, vars, tables
  <2> QED
    BY <2>1, Unmoved
<1> QED
  BY <1>1, <1>2, <1>3, <1>4, <1>5 DEF Next

(* No row of a reservation or of the ledger ever goes back. *)
THEOREM RowsGoForward == Spec => RowsNeverRevived
<1>1. IInv /\ [Next]_vars =>
        [\A h \in Hash :
           /\ <<reservations[h], reservations'[h]>> \in
                {<<"absent", "reserved">>, <<"reserved", "spent">>, <<"reserved", "released">>,
                 <<"reserved", "disputed">>, <<"spent", "disputed">>}
                \cup {<<s, s>> : s \in ReservationStatus}
           /\ ledger[h].status = "void" => ledger'[h] = ledger[h]
           /\ ledger[h].status = "posted" => ledger'[h] = ledger[h]]_vars
  BY RowsMoveForward DEF Forward
<1> QED
  BY <1>1, IInvAlways, PTL DEF Spec, RowsNeverRevived
-----------------------------------------------------------------------------
(* The budget                                                              *)

(* The contexts on record are finitely many, and so are the rows of the    *)
(* other tables: the sums over a mission's rows are sums.                  *)
Finite == IsFiniteSet(contexts)

LEMMA FiniteInit == Init => Finite
  BY FS_EmptySet DEF Init, QuoteLockInit, Finite

(* A step either commits a granted reservation, or it leaves amounts as    *)
(* they are, adds no context and reserves nothing.                         *)
GrantedStep ==
  \E r \in Runs, h \in Hash, amount \in Amounts, limit \in Limits :
    Reserve(r, h, amount, limit) /\ Granted(h, amount, limit)

NoNewRow ==
  /\ contexts' = contexts
  /\ \A h \in Hash :
       /\ reservations[h] = "absent" => reservations'[h] = "absent"
       /\ ledger'[h].amount = ledger[h].amount

LEMMA RowsAreGranted ==
  ASSUME IInv, [Next]_vars
  PROVE  GrantedStep \/ NoNewRow
<1> USE DEF IInv
<1>1. CASE UNCHANGED <<contexts, reservations, ledger>>
  BY <1>1 DEF NoNewRow
<1>2. ASSUME NEW r \in Runs, NEW h \in Hash, NEW amount \in Amounts, NEW limit \in Limits,
             Reserve(r, h, amount, limit), ~Granted(h, amount, limit)
      PROVE  UNCHANGED <<contexts, reservations, ledger>>
  <2>1. QuoteInserted(h) => LedgerInserted(h)
    BY NoOrphanInsert
  <2> QED
    BY <1>2, <2>1 DEF Reserve, ReserveQuoteAndBudget, InsertRows, Granted, LedgerInserted,
                      ReservationInserted, ContextInserted
<1>3. ASSUME NEW r \in Runs, Request(r) PROVE GrantedStep \/ UNCHANGED <<contexts, reservations, ledger>>
  <2>1. ASSUME NEW m \in Missions,
               RefuseRequest(r, m) \/ RefuseProvider(r, m) \/ RefuseMetadata(r, m) \/ RefuseQuote(r, m)
        PROVE  UNCHANGED <<contexts, reservations, ledger>>
    BY <2>1 DEF RefuseRequest, RefuseProvider, RefuseMetadata, RefuseQuote, RefuseWith, tables
  <2>2. ChallengeThrows(r) => UNCHANGED <<contexts, reservations, ledger>>
    BY DEF ChallengeThrows, tables
  <2>3. ASSUME NEW h \in Hash, ReserveThrows(r, h) PROVE UNCHANGED <<contexts, reservations, ledger>>
    BY <2>3 DEF ReserveThrows, tables
  <2> QED
    BY <1>2, <1>3, <2>1, <2>2, <2>3 DEF Request, GrantedStep
<1>4. ASSUME NEW r \in Runs, Answer(r) PROVE UNCHANGED <<contexts, reservations, ledger>>
  BY <1>4 DEF Answer, AnswerThrows, ResumeDeclined, AnswerNotExecuted, AnswerDoubtful,
              AnswerExecuted, tables
<1>5. ASSUME NEW r \in Runs, Release(r) \/ Dispute(r) \/ Spend(r) PROVE NoNewRow
  <2>1. holds[r] \in Hash /\ Control(r) /\ RowsAt(r, holds[r])
    BY <1>5 DEF Release, Dispute, Spend, RowsFollowRun, Control, Running, TypeOK
  <2>2. reservations[holds[r]] # "absent"
    BY <2>1 DEF RowsAt, Rows, KeptRows, GivenBack, Fresh, Posted
  <2>3. \E status : reservations' = [reservations EXCEPT ![holds[r]] = status]
    BY <1>5 DEF Release, Dispute, Spend, ReleaseReservation, DisputeReservation, SpendReservation
  <2> QED
    BY <1>5, <2>2, <2>3 DEF Release, Dispute, Spend, ReleaseReservation, NoNewRow, TypeOK, QuoteLockTypeOK
<1>6. ASSUME NEW r \in Runs, Void(r) \/ Post(r) PROVE NoNewRow
  <2>1. \A h \in Hash : ledger'[h].amount = ledger[h].amount
    BY <1>6 DEF Void, Post, VoidLedger, PostLedger, TypeOK, QuoteLockTypeOK, LedgerRow
  <2> QED
    BY <1>6, <2>1 DEF Void, Post, NoNewRow
<1>7. ASSUME NEW r \in Runs, Statement(r),
             ~(Release(r) \/ Void(r) \/ Dispute(r) \/ Spend(r) \/ Post(r))
      PROVE  UNCHANGED <<contexts, reservations, ledger>>
  BY <1>7 DEF Statement, RefuseCalldata, CalldataThrows, Submit, DeclineLocally, RecordEvent,
              RecordTimeline, SpendQuoteRow, ReceiptThrows, RejectReceipt, AcceptReceipt, tables
<1>8. CASE \/ \E m \in Missions, limit \in Limits : SetBudget(m, limit)
           \/ \E p \in Providers : RegisterProvider(p)
           \/ Crash
           \/ UNCHANGED vars
  <2>1. UNCHANGED <<contexts, reservations, ledger>>
    BY <1>8 DEF SetBudget, RegisterProvider, Crash, vars, tables
  <2> QED
    BY <2>1, <1>1
<1> QED
  BY <1>1, <1>3, <1>4, <1>5, <1>6, <1>7, <1>8 DEF Next

LEMMA GrantedRows ==
  ASSUME IInv, NEW r \in Runs, NEW h \in Hash, NEW amount \in Amounts, NEW limit \in Limits,
         Reserve(r, h, amount, limit), Granted(h, amount, limit)
  PROVE  /\ reservations[h] = "absent" /\ reservations' = [reservations EXCEPT ![h] = "reserved"]
         /\ contexts' = contexts \cup {h}
         /\ ledger' = [ledger EXCEPT ![h] = [entry |-> "reserve", status |-> "pending",
                                             amount |-> amount]]
         /\ budget' = [budget EXCEPT ![h.mission] = limit]
         /\ Exposure(h.mission) + amount <= limit
  BY DEF Reserve, ReserveQuoteAndBudget, InsertRows, Granted, LedgerInserted, EnsureMission,
         ReservationInserted, ContextInserted, BudgetAllows

LEMMA FiniteStep == IInv /\ Finite /\ [Next]_vars => Finite'
<1> SUFFICES ASSUME IInv, Finite, [Next]_vars PROVE Finite'
  OBVIOUS
<1>1. ASSUME GrantedStep PROVE \E h \in Hash : contexts' = contexts \cup {h}
  BY <1>1, GrantedRows DEF GrantedStep
<1> QED
  BY <1>1, RowsAreGranted, FS_AddElement DEF NoNewRow, Finite

-----------------------------------------------------------------------------
(* What is committed is exposed. *)
Exposed(m) == {h \in Hash : h.mission = m /\ Counted(h)}

LEMMA AmountsAreNatural == ASSUME IInv PROVE \A h \in Hash : AmountOf[h] \in Nat
<1>1. ASSUME NEW h \in Hash PROVE ledger[h].amount \in Amounts \cup {0}
  <2>1. ledger[h] \in LedgerRow
    BY DEF IInv, TypeOK, QuoteLockTypeOK
  <2> QED
    BY <2>1 DEF LedgerRow
<1>2. Amounts \cup {0} \subseteq Nat
  BY QuoteLockAssumption
<1>3. \A h \in Hash : AmountOf[h] = ledger[h].amount
  BY DEF AmountOf
<1> QED
  BY <1>1, <1>2, <1>3

LEMMA RowsAreFew ==
  ASSUME IInv, Finite, NEW m
  PROVE  /\ Unreleased(m) \subseteq Exposed(m)
         /\ IsFiniteSet(Exposed(m)) /\ IsFiniteSet(Unreleased(m))
<1>1. ASSUME NEW h \in Hash, h \in contexts, h \in Unreleased(m) PROVE Counted(h)
  <2>1. PICK r \in Runs : holds[r] = h
    BY <1>1 DEF IInv, Owned
  <2>2. RowsAt(r, h)
    BY <2>1, PipelineAssumption DEF IInv, RowsFollowRun
  <2> QED
    BY <1>1, <2>2 DEF Unreleased, RowsAt, Rows, EntryOf, KeptRows, GivenBack, Fresh, Posted, Counted
<1>2. \A h \in Hash : h \notin contexts => reservations[h] = "absent" /\ ~Counted(h)
  BY DEF IInv, Owned, Counted, NoEntry
<1>3. Unreleased(m) \subseteq Exposed(m)
  BY <1>1, <1>2 DEF Unreleased, Exposed
<1>4. Exposed(m) \subseteq contexts
  BY <1>2 DEF Exposed
<1> QED
  BY <1>3, <1>4, FS_Subset DEF Finite

LEMMA CommittedIsExposed ==
  ASSUME IInv, Finite, NEW m
  PROVE  Committed(m) \in Nat /\ Exposure(m) \in Nat /\ Committed(m) <= Exposure(m)
<1>1. /\ Unreleased(m) \in SUBSET Exposed(m)
      /\ IsFiniteSet(Exposed(m)) /\ IsFiniteSet(Unreleased(m))
  BY RowsAreFew
<1>2. \A h \in Exposed(m) : AmountOf[h] \in Nat
  BY AmountsAreNatural DEF Exposed
<1>3. \A h \in Unreleased(m) : AmountOf[h] \in Nat /\ AmountOf[h] <= AmountOf[h]
  BY <1>1, <1>2
<1>4. SumFunctionOnSet(AmountOf, Unreleased(m)) <= SumFunctionOnSet(AmountOf, Exposed(m))
  BY <1>1, <1>2, <1>3, SumMonotone
<1>5. SumFunctionOnSet(AmountOf, Unreleased(m)) \in Nat /\ SumFunctionOnSet(AmountOf, Exposed(m)) \in Nat
  BY <1>1, <1>2, <1>3, SumNat
<1> QED
  BY <1>4, <1>5 DEF Committed, Exposure, Exposed

(* The sum moves only by what a grant adds. *)
LEMMA CommitmentsGranted ==
  ASSUME IInv, Finite, [Next]_vars, NEW m \in Missions, Committed(m)' > Committed(m)
  PROVE  Committed(m)' <= budget'[m]
<1>1. Committed(m) \in Nat /\ Exposure(m) \in Nat /\ Committed(m) <= Exposure(m)
  BY CommittedIsExposed
<1>2. (\A h \in Unreleased(m) : AmountOf[h] \in Nat) /\ IsFiniteSet(Unreleased(m))
  BY AmountsAreNatural, RowsAreFew DEF Unreleased
<1>3. Committed(m)' = SumFunctionOnSet(AmountOf', Unreleased(m)')
  BY DEF Committed
<1>4. CASE NoNewRow
  <2>1. ASSUME NEW h \in Unreleased(m)' PROVE h \in Unreleased(m)
    <3>1. h \in Hash /\ Forward(h)
      BY RowsMoveForward DEF Unreleased
    <3> QED
      BY <1>4, <2>1, <3>1 DEF Unreleased, Forward, NoNewRow
  <2>2. \A h \in Unreleased(m)' : AmountOf'[h] = AmountOf[h]
    BY <1>4 DEF NoNewRow, AmountOf, Unreleased
  <2>3. Unreleased(m)' \in SUBSET Unreleased(m)
    BY <2>1
  <2>4. \A h \in Unreleased(m)' : AmountOf'[h] \in Nat /\ AmountOf'[h] <= AmountOf[h]
    BY <1>2, <2>2, <2>3
  <2>5. SumFunctionOnSet(AmountOf', Unreleased(m)') <= SumFunctionOnSet(AmountOf, Unreleased(m))
    BY <1>2, <2>3, <2>4, SumMonotone
  <2>6. Committed(m)' <= Committed(m)
    BY <1>3, <2>5 DEF Committed
  <2>7. Committed(m)' \in Nat
    BY <1>2, <1>3, <2>3, <2>4, FS_Subset, SumNat
  <2> QED
    BY <1>1, <2>6, <2>7
<1>5. ASSUME NEW r \in Runs, NEW h \in Hash, NEW amount \in Amounts, NEW limit \in Limits,
             Reserve(r, h, amount, limit), Granted(h, amount, limit)
      PROVE  Committed(m)' <= budget'[m]
  <2>1. /\ reservations[h] = "absent" /\ reservations' = [reservations EXCEPT ![h] = "reserved"]
        /\ ledger' = [ledger EXCEPT ![h] = [entry |-> "reserve", status |-> "pending",
                                            amount |-> amount]]
        /\ budget' = [budget EXCEPT ![h.mission] = limit]
        /\ Exposure(h.mission) + amount <= limit
    BY <1>5, GrantedRows
  <2>2. \A c \in Hash : c # h => AmountOf'[c] = AmountOf[c]
    BY <2>1 DEF AmountOf, IInv, TypeOK, QuoteLockTypeOK
  <2>3. AmountOf'[h] = amount /\ amount \in Nat /\ limit \in Nat
    BY <2>1, QuoteLockAssumption DEF AmountOf, IInv, TypeOK, QuoteLockTypeOK
  <2>4. h \notin Unreleased(m) /\ \A c \in Unreleased(m) : c \in Hash /\ c # h
    BY <2>1 DEF Unreleased
  <2>5. SumFunctionOnSet(AmountOf', Unreleased(m)) = Committed(m)
    BY <1>2, <2>2, <2>4, SumAgrees DEF Committed
  <2>6. CASE m = h.mission
    <3>1. Unreleased(m)' = Unreleased(m) \cup {h}
      BY <2>1, <2>6 DEF Unreleased, IInv, TypeOK, QuoteLockTypeOK
    <3>2. IsFiniteSet(Unreleased(m)') /\ \A c \in Unreleased(m)' : AmountOf'[c] \in Nat
      BY <1>2, <2>2, <2>3, <2>4, <3>1, FS_AddElement
    <3>3. Committed(m)' = AmountOf'[h] + SumFunctionOnSet(AmountOf', Unreleased(m)' \ {h})
      BY <1>3, <3>1, <3>2, SumRemove
    <3>4. Unreleased(m)' \ {h} = Unreleased(m)
      BY <2>4, <3>1
    <3>5. Committed(m)' = amount + Committed(m)
      BY <2>3, <2>5, <3>3, <3>4
    <3>6. budget'[m] = limit
      BY <2>1, <2>6 DEF IInv, TypeOK, QuoteLockTypeOK
    <3> QED
      BY <1>1, <2>1, <2>3, <2>6, <3>5, <3>6
  <2>7. CASE m # h.mission
    <3>1. Unreleased(m)' = Unreleased(m)
      BY <2>1, <2>7 DEF Unreleased, IInv, TypeOK, QuoteLockTypeOK
    <3> QED
      BY <1>1, <1>3, <2>5, <3>1
  <2> QED
    BY <2>6, <2>7
<1> QED
  BY <1>4, <1>5, RowsAreGranted DEF GrantedStep

(* Whenever a mission commits more money, the total stays within its       *)
(* budget of then.                                                         *)
THEOREM BudgetIsHeld == Spec => BudgetHeld
<1>1. Init => IInv /\ Finite
  BY IInvInit, FiniteInit
<1>2. IInv /\ Finite /\ [Next]_vars => IInv' /\ Finite'
  BY IInvStep, FiniteStep
<1>3. IInv /\ Finite /\ [Next]_vars =>
        [\A m \in Missions : Committed(m)' > Committed(m) => Committed(m)' <= budget'[m]]_vars
  BY CommitmentsGranted
<1> QED
  BY <1>1, <1>2, <1>3, PTL DEF Spec, BudgetHeld
=============================================================================
