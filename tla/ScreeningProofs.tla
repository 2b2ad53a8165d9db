--------------------------- MODULE ScreeningProofs ---------------------------
(***************************************************************************)
(* Proofs about the eighteen checks: ScreeningChecks for every set of      *)
(* requests, and AttackLab for every number of parallel attempts.          *)
(*                                                                         *)
(* A request that passed was refused by none of the eighteen; what each of *)
(* them says of it is one conjunct of what the wallet's call is bound to.  *)
(* The request of an attack that is refused passes those that come before  *)
(* the one that the scenario names, and is refused by that one.            *)
(***************************************************************************)
EXTENDS ScreeningChecks, AttackLab, OperatorLemmas

-----------------------------------------------------------------------------
(* The order of the checks                                                 *)

LEMMA Eighteen == ASSUME NEW q, NEW t PROVE DOMAIN Screens(q, t) = 1..18
  BY DEF Screens

(* A request that is refused is refused by the first check that refuses it. *)
LEMMA ScreenedFirst ==
  ASSUME NEW q, NEW t, Refusals(q, t) # {}
  PROVE  \E i \in Refusals(q, t) :
           Screened(q, t) = [layer |-> Screens(q, t)[i][1], decision |-> Screens(q, t)[i][2], place |-> i]
<1>1. Refusals(q, t) \in SUBSET Nat
  BY Eighteen DEF Refusals
<1>2. \E i \in Refusals(q, t) : \A j \in Refusals(q, t) : i <= j
  BY <1>1, LeastOf
<1> QED BY <1>2 DEF Screened

(* What passes was refused by no check. *)
LEMMA PassedAll ==
  ASSUME NEW q, NEW t, Screened(q, t) = Passed
  PROVE  Refusals(q, t) = {}
<1>1. SUFFICES ASSUME Refusals(q, t) # {} PROVE FALSE
  OBVIOUS
<1>2. PICK i \in Refusals(q, t) : Screened(q, t).place = i
  BY <1>1, ScreenedFirst
<1>3. i \in 1..18
  BY Eighteen DEF Refusals
<1> QED BY <1>2, <1>3 DEF Passed

-----------------------------------------------------------------------------
(* What one check says                                                     *)

LEMMA Checked ==
  ASSUME NEW q, NEW t, Refusals(q, t) = {}
  PROVE  /\ Canonical(q.url) = Canonical(q.resource)
         /\ Canonical(q.metadata) = Canonical(q.url)
         /\ RegistryHolds(q)
         /\ TrustDecision(q) \notin {"block", "fallback_required"}
         /\ FirewallDecision(q.found) # "block"
         /\ q.quote # None => QuoteHolds(q) /\ q.quote.context \in {None, "this"}
         /\ ClearSigned(q)
<1>1. \A i \in 1..18 : Screens(q, t)[i][3]
  BY Eighteen DEF Refusals
<1>2. Screens(q, t)[3][3] /\ Screens(q, t)[7][3] /\ Screens(q, t)[8][3] /\ Screens(q, t)[9][3]
  BY <1>1
<1>3. Screens(q, t)[10][3] /\ Screens(q, t)[11][3] /\ Screens(q, t)[12][3] /\ Screens(q, t)[13][3]
      /\ Screens(q, t)[18][3]
  BY <1>1
<1> QED BY <1>2, <1>3 DEF Screens

(* The worst of what was found decides. *)
LEMMA NothingSecret ==
  ASSUME NEW found, FirewallDecision(found) # "block"
  PROVE  "block" \notin found
<1>1. SUFFICES ASSUME "block" \in found PROVE FALSE
  OBVIOUS
<1>2. {i \in DOMAIN Severity : Severity[i] \in found /\ \A j \in i + 1 .. 4 : Severity[j] \notin found} = {4}
  BY <1>1 DEF Severity
<1>3. (CHOOSE i \in {4} : TRUE) = 4 /\ {4} # {}
  OBVIOUS
<1>4. FirewallDecision(found) = Severity[4]
  BY <1>2, <1>3 DEF FirewallDecision
<1> QED BY <1>4 DEF Severity

(* The challenge, the registry and the trust record name one payee. *)
LEMMA Trusted ==
  ASSUME NEW q, RegistryHolds(q), TrustDecision(q) \notin {"block", "fallback_required"}
  PROVE  /\ q.payTo = "merchant" /\ TrustRecord(q).payTo = "merchant"
         /\ Endpoint(TrustRecord(q).endpoint) = Endpoint(q.resource)
  BY DEF RegistryHolds, TrustDecision, Identified

(* What a call that is not the escrow's carries, if the review let it.     *)
LEMMA Reviewed ==
  ASSUME NEW q, NEW data, ~Escrowed(q), CalldataHolds(q, data)
  PROVE  CarriesOnly(data, q)
<1>1. data.function \in {"transfer", "approve", "transferFrom", "multicall"}
  BY DEF CalldataHolds, AllowedFunctions
<1>2. CASE data.function \in {"transfer", "transferFrom"}
  BY <1>2 DEF CalldataHolds, CarriesOnly, Names
<1>3. CASE data.function = "approve"
  BY <1>3 DEF CalldataHolds, CarriesOnly, Names
<1>4. CASE data.function = "multicall"
  BY <1>4 DEF CalldataHolds, CarriesOnly, AllowedFunctions
<1> QED BY <1>1, <1>2, <1>3, <1>4

(* The call of a request that passed, as the property has it.              *)
CallHolds(c, q) ==
  \/ c.signs
  \/ /\ c.amount = q.amount /\ CarriesOnly(c.data, q)
     /\ c.to = "merchant" \/ (q.operation = "contract_call" /\ c.to = q.address)

(* What the wallet is asked for carries only what was reviewed, to the     *)
(* merchant or to the address of the challenge.                            *)
LEMMA Carried ==
  ASSUME NEW q, ClearSigned(q), ~Declined(q),
         q.operation \in {"transfer", "contract_call", "message_sign"}
  PROVE  CallHolds(WalletCall(q), q)
<1>1. CASE q.operation # "contract_call"
  BY <1>1 DEF WalletCall, CarriesOnly, CallHolds
<1>2. CASE q.operation = "contract_call"
  <2>1. Calldata(q) # None /\ CalldataHolds(q, Calldata(q))
    BY <1>2 DEF ClearSigned, Declined
  <2>2. CarriesOnly(Calldata(q), q)
    <3>1. CASE Escrowed(q)
      <4>1. Calldata(q).to = "merchant" /\ Calldata(q).amount = q.amount
            /\ Calldata(q).function = "fund" /\ Calldata(q).context = "this"
        BY <3>1 DEF Calldata, Fund
      <4> QED BY <4>1 DEF CarriesOnly
    <3>2. CASE ~Escrowed(q)
      BY <2>1, <3>2, Reviewed
    <3> QED BY <3>1, <3>2
  <2>3. /\ WalletCall(q).amount = q.amount /\ WalletCall(q).data = Calldata(q)
        /\ WalletCall(q).to = "merchant" \/ WalletCall(q).to = q.address
    BY <1>2 DEF WalletCall
  <2> QED BY <1>2, <2>2, <2>3 DEF CallHolds
<1> QED BY <1>1, <1>2

-----------------------------------------------------------------------------
(* Every call is bound                                                     *)

Bound(q) ==
  /\ Canonical(q.url) = Canonical(q.resource) /\ Canonical(q.metadata) = Canonical(q.url)
  /\ q.payTo = "merchant" /\ TrustRecord(q).payTo = "merchant"
  /\ Endpoint(TrustRecord(q).endpoint) = Endpoint(q.resource)
  /\ q.quote # None => q.quote.key = q.entry.publicKey /\ q.quote.context # "other"
  /\ "block" \notin q.found
  /\ CallHolds(WalletCall(q), q)

LEMMA BoundWhenPassed ==
  ASSUME RequestsAssumption, NEW q \in Requests, NEW t, Screened(q, t) = Passed, ~Declined(q)
  PROVE  Bound(q)
<1>1. Refusals(q, t) = {}
  BY PassedAll
<1>2. /\ RegistryHolds(q) /\ TrustDecision(q) \notin {"block", "fallback_required"}
      /\ FirewallDecision(q.found) # "block" /\ ClearSigned(q)
  BY <1>1, Checked
<1>3. /\ Canonical(q.url) = Canonical(q.resource) /\ Canonical(q.metadata) = Canonical(q.url)
      /\ q.quote # None => q.quote.key = q.entry.publicKey /\ q.quote.context # "other"
  BY <1>1, Checked, RequestsAssumption DEF QuoteHolds
<1>4. /\ q.payTo = "merchant" /\ TrustRecord(q).payTo = "merchant"
      /\ Endpoint(TrustRecord(q).endpoint) = Endpoint(q.resource)
  BY <1>2, Trusted
<1>5. "block" \notin q.found
  BY <1>2, NothingSecret
<1>6. CallHolds(WalletCall(q), q)
  BY <1>2, Carried, RequestsAssumption
<1> QED BY <1>3, <1>4, <1>5, <1>6 DEF Bound

(* A call is of the request that just passed.                              *)
Asked == call # None => Bound(request) /\ call = WalletCall(request) /\ outcome = Passed

(* Whatever the requests, and in whatever order they come: what the wallet *)
(* is asked for is of the resource that was requested, under the quote     *)
(* that was signed, and of the amount of the challenge; it goes to the     *)
(* registered merchant, or, a contract call, to the address in the         *)
(* challenge with calldata that was reviewed.                              *)
THEOREM CallsAreBound == Spec => []CallIsBound
<1>1. Init => Asked
  BY DEF Init, Asked
<1>2. Asked /\ [Next]_vars => Asked'
  <2> SUFFICES ASSUME Asked, [Next]_vars PROVE Asked'
    OBVIOUS
  <2>1. CASE \E q \in Requests : Screen(q)
    <3>1. PICK q \in Requests : Screen(q)
      BY <2>1
    <3>2. CASE Screened(q, taken) = Passed /\ ~Declined(q)
      <4>1. Bound(q)
        BY <3>2, BoundWhenPassed, RequestsAssumption
      <4>2. request' = q /\ outcome' = Passed /\ call' = WalletCall(q)
        BY <3>1, <3>2 DEF Screen
      <4> QED BY <4>1, <4>2 DEF Asked
    <3>3. CASE ~(Screened(q, taken) = Passed /\ ~Declined(q))
      BY <3>1, <3>3 DEF Screen, Asked
    <3> QED BY <3>2, <3>3
  <2>2. CASE Return
    BY <2>2 DEF Return, Asked
  <2>3. CASE Answer
    BY <2>3 DEF Answer, Asked
  <2>4. CASE UNCHANGED vars
    BY <2>4 DEF vars, Asked
  <2> QED BY <2>1, <2>2, <2>3, <2>4 DEF Next
<1>3. Asked => CallIsBound
  BY DEF Asked, Bound, CallIsBound, CallHolds
<1> QED BY <1>1, <1>2, <1>3, PTL DEF Spec

-----------------------------------------------------------------------------
(* What stays reserved                                                     *)

(* What does not convert, of the terms of a reservation.                   *)
Unconverted(terms) ==
  IF terms.escrowed THEN ~terms.decimals \/ ~Whole(terms.amount) \/ ~terms.evm
  ELSE \/ terms.function = "truncated"
       \/ terms.function \in {"transfer", "transferFrom"} /\ terms.amount = Garbled

(* The checks after the lock that throw do so where something does not     *)
(* convert.  The calldata of a fund call is whole, and no amount of its    *)
(* own is compared.                                                        *)
LEMMA ThrowsUnconverted ==
  ASSUME RequestsAssumption, NEW q \in Requests, NEW t,
         Screened(q, t).place > LockPlace, Screened(q, t).decision = "throws"
  PROVE  Unconverted(Terms(q))
<1>1. Refusals(q, t) # {}
  BY DEF Screened, Passed, LockPlace
<1>2. PICK i \in Refusals(q, t) :
        Screened(q, t) = [layer |-> Screens(q, t)[i][1], decision |-> Screens(q, t)[i][2], place |-> i]
  BY <1>1, ScreenedFirst
<1>3. i \in 1..18 /\ i > 14 /\ Screens(q, t)[i][2] = "throws" /\ ~Screens(q, t)[i][3]
  BY <1>2, Eighteen DEF Refusals, LockPlace
<1>4. i \in {15, 16, 17, 18}
  BY <1>3
<1>5. i # 15 /\ i # 18
  BY <1>3 DEF Screens
<1>6. CASE i = 16
  <2>1. ~Screens(q, t)[16][3]
    BY <1>3, <1>6
  <2>2. Escrowed(q) /\ ~FundConverts(q)
    BY <2>1 DEF Screens
  <2> QED BY <2>2 DEF FundConverts, Terms, Unconverted
<1>7. CASE i = 17
  <2>1. ~Screens(q, t)[17][3]
    BY <1>3, <1>7
  <2>2. DecodeThrows(q) \/ CompareThrows(q)
    BY <2>1 DEF Screens
  <2>3. /\ Calldata(q) # None
        /\ \/ Calldata(q).function = "truncated"
           \/ Calldata(q).function \in {"transfer", "transferFrom"} /\ q.amount = Garbled
    BY <2>2 DEF DecodeThrows, CompareThrows
  <2>4. ~Escrowed(q)
    BY <2>3 DEF Calldata, Fund
  <2>5. Terms(q).escrowed = Escrowed(q) /\ Terms(q).amount = q.amount
        /\ Terms(q).function = Calldata(q).function
    BY <2>3 DEF Terms
  <2> QED BY <2>3, <2>4, <2>5 DEF Unconverted
<1> QED BY <1>4, <1>5, <1>6, <1>7

(* What is held is of terms that do not convert, or of a payment whose     *)
(* answer is awaited.                                                      *)
Reserved ==
  budget.status = "held" => Unconverted(budget.of) \/ (request # None /\ outcome = Passed)

LEMMA ReservedByScreen ==
  ASSUME RequestsAssumption, Reserved, NEW q \in Requests, Screen(q)
  PROVE  Reserved'
<1> DEFINE o == Screened(q, taken)
<1>1. request' = q /\ outcome' = o /\ budget' = Reservation(q, o) /\ q # None /\ request = None
  BY RequestsAssumption DEF Screen
<1>2. CASE o = Passed
  BY <1>1, <1>2 DEF Reserved
<1>3. CASE o # Passed
  <2>1. o.place \in 1..18 /\ (o.place > LockPlace /\ o.decision = "throws" => Unconverted(Terms(q)))
    <3>1. Refusals(q, taken) # {}
      BY <1>3 DEF Screened
    <3>2. PICK i \in Refusals(q, taken) : o.place = i
      BY <3>1, ScreenedFirst
    <3>3. i \in 1..18
      BY Eighteen DEF Refusals
    <3> QED BY <3>2, <3>3, ThrowsUnconverted, RequestsAssumption
  <2>2. CASE o.place <= LockPlace
    <3>1. budget' = budget
      BY <1>1, <2>1, <2>2 DEF Reservation, LockPlace
    <3> QED BY <1>1, <3>1, <1>3 DEF Reserved
  <2>3. CASE o.place > LockPlace /\ o.decision # "throws"
    <3>1. budget' = Free("released")
      BY <1>1, <2>1, <2>3 DEF Reservation, LockPlace
    <3> QED BY <1>1, <3>1 DEF Reserved, Free
  <2>4. CASE o.place > LockPlace /\ o.decision = "throws"
    <3>1. budget' = [status |-> "held", of |-> Terms(q)]
      BY <1>1, <2>1, <2>4 DEF Reservation, LockPlace
    <3> QED BY <1>1, <2>1, <2>4, <3>1 DEF Reserved
  <2> QED BY <2>1, <2>2, <2>3, <2>4 DEF LockPlace
<1> QED BY <1>2, <1>3

(* Whatever the requests: money stays reserved for nothing but terms that  *)
(* do not convert: of a fund call its decimals, amount or payee, of other  *)
(* calldata its words or the amount it is compared with.                   *)
THEOREM HeldByThrowsOnly == Spec => []HeldOnlyByThrows
<1>1. Init => Reserved
  BY DEF Init, Reserved, Free, Passed
<1>2. Reserved /\ [Next]_vars => Reserved'
  <2> SUFFICES ASSUME Reserved, [Next]_vars PROVE Reserved'
    OBVIOUS
  <2>1. CASE \E q \in Requests : Screen(q)
    BY <2>1, ReservedByScreen, RequestsAssumption
  <2>2. CASE Return
    BY <2>2 DEF Return, Reserved
  <2>3. CASE Answer
    BY <2>3 DEF Answer, Reserved, Free
  <2>4. CASE UNCHANGED vars
    BY <2>4 DEF vars, Reserved
  <2> QED BY <2>1, <2>2, <2>3, <2>4 DEF Next
<1>3. Reserved => HeldOnlyByThrows
  BY DEF Reserved, HeldOnlyByThrows, Unconverted
<1> QED BY <1>1, <1>2, <1>3, PTL DEF Spec

-----------------------------------------------------------------------------
(* The attack lab: which check refuses                                     *)

(* A check refuses once those before it have let a request pass. *)
PassesTo(q, t, n) == \A j \in 1..n : Screens(q, t)[j][3]
Refused(q, t, i, layer) ==
  ~Screens(q, t)[i][3] /\ Screens(q, t)[i][1] = layer /\ Screens(q, t)[i][2] = "block"

LEMMA RefusedAt ==
  ASSUME NEW q, NEW t, NEW i \in 1..18, NEW n, n = i - 1, PassesTo(q, t, n),
         NEW layer, Refused(q, t, i, layer)
  PROVE  Screened(q, t) = [layer |-> layer, decision |-> "block", place |-> i]
<1>1. DOMAIN Screens(q, t) = 1..18
  BY DEF Screens
<1>2. ASSUME NEW j \in 1..18, j < i PROVE Screens(q, t)[j][3]
  <2>1. j \in 1..n
    BY <1>2
  <2> QED BY <2>1 DEF PassesTo
<1>3. i \in Refusals(q, t) /\ \A j \in Refusals(q, t) : j \in 1..18 /\ i <= j
  BY <1>1, <1>2 DEF Refusals, Refused
<1>4. \A k \in Refusals(q, t) : (\A j \in Refusals(q, t) : k <= j) => k = i
  BY <1>3
<1>5. (CHOOSE k \in Refusals(q, t) : \A j \in Refusals(q, t) : k <= j) = i
  BY <1>3, <1>4
<1> QED BY <1>3, <1>5 DEF Screened, Refused

(* Past all eighteen is past the checks.                                   *)
LEMMA PassesEach ==
  ASSUME NEW q, NEW t, PassesTo(q, t, 18)
  PROVE  Screened(q, t) = Passed
<1>1. DOMAIN Screens(q, t) = 1..18
  BY DEF Screens
<1> QED BY <1>1 DEF Screened, Refusals, PassesTo

(* One check after the other.                                              *)
LEMMA PassesNext ==
  ASSUME NEW q, NEW t, NEW n \in Nat, PassesTo(q, t, n), NEW k, k = n + 1, Screens(q, t)[k][3]
  PROVE  PassesTo(q, t, k)
<1> SUFFICES ASSUME NEW j \in 1..k PROVE Screens(q, t)[j][3]
  BY DEF PassesTo
<1>1. j \in 1..n \/ j = k
  OBVIOUS
<1> QED BY <1>1 DEF PassesTo

(* None is no name of the lab's, and none of its records. *)
LEMMA NoneApart ==
  None # "report" /\ None # "ledger" /\ None # "elsewhere" /\ None # "provider"
  BY LabAssumption

(* What the first checks look at, and the next ones. *)
Requested(q) ==
  /\ q.resource = "report" /\ q.url = "report" /\ q.paymentHeaders = 0 /\ q.listed
  /\ q.complete /\ ~q.expired /\ q.payTo = "merchant" /\ q.entry = Entry /\ q.live = None
Registered(q) == Requested(q) /\ q.facilitator = "fac"
Vouched(q) == Registered(q) /\ q.demo = Record
Unlocked(q) == Vouched(q) /\ q.found = {} /\ q.metadata = "report" /\ q.quote = None

LEMMA RequestedPasses ==
  ASSUME NEW q, NEW t, Requested(q)
  PROVE  PassesTo(q, t, 5)
<1>1. Readable("report") /\ 0 <= 1
  BY NoneApart DEF Readable
<1>2. Screens(q, t)[1][3]
  BY <1>1 DEF Screens, Requested
<1>3. Screens(q, t)[2][3]
  BY <1>1 DEF Screens, Requested
<1>4. Screens(q, t)[3][3]
  BY <1>1 DEF Screens, Requested
<1>5. Screens(q, t)[4][3] /\ Screens(q, t)[5][3]
  BY DEF Screens, Requested, Origin
<1> QED BY <1>2, <1>3, <1>4, <1>5 DEF PassesTo

LEMMA RegisteredPasses ==
  ASSUME NEW q, NEW t, Registered(q)
  PROVE  PassesTo(q, t, 7)
<1>1. RegistryHolds(q)
  BY NoneApart DEF Registered, Requested, RegistryHolds, Entry
<1>2. Screens(q, t)[6][3]
  BY DEF Screens, Registered
<1>3. Screens(q, t)[7][3]
  BY <1>1 DEF Screens
<1>4. PassesTo(q, t, 5)
  BY RequestedPasses DEF Registered
<1>5. PassesTo(q, t, 6)
  BY <1>2, <1>4, PassesNext
<1> QED BY <1>3, <1>5, PassesNext

(* What the demo provider is recorded as, and is sent, is no None.         *)
LEMMA RecordApart == Record # None /\ Transfer # None
<1>1. "replay_same_proof" \in DOMAIN Scenarios \ {"discovery_poisoning"}
  BY DEF Scenarios
<1>2. Scenarios["replay_same_proof"] = Replay
  BY DEF Scenarios
<1>3. Replay.request.demo = Record /\ Replay.request.calldata = Transfer
  BY DEF Replay, Plain, Clean, Base
<1> QED BY <1>1, <1>2, <1>3, LabAssumption

LEMMA VouchedPasses ==
  ASSUME NEW q, NEW t, Vouched(q)
  PROVE  PassesTo(q, t, 9)
<1>1. TrustDecision(q) = "require_approval"
  <2>1. TrustRecord(q) = Record /\ q.live = None
    BY DEF Vouched, Registered, Requested, TrustRecord
  <2>2. Identified(Record, q) /\ ~TooLow(Record, q)
    BY DEF Vouched, Registered, Requested, Identified, TooLow, Record, Entry
  <2> QED BY <2>1, <2>2, RecordApart DEF TrustDecision
<1>2. Screens(q, t)[8][3]
  BY <1>1 DEF Screens
<1>3. Screens(q, t)[9][3]
  BY <1>1 DEF Screens
<1>4. PassesTo(q, t, 7)
  BY RegisteredPasses DEF Vouched
<1>5. PassesTo(q, t, 8)
  BY <1>2, <1>4, PassesNext
<1> QED BY <1>3, <1>5, PassesNext

LEMMA UnlockedPasses ==
  ASSUME NEW q, NEW t, Unlocked(q)
  PROVE  PassesTo(q, t, 13)
<1>1. FirewallDecision(q.found) = "allow"
  BY DEF Unlocked, FirewallDecision
<1>2. Screens(q, t)[10][3]
  BY <1>1 DEF Screens
<1>3. Screens(q, t)[11][3]
  BY NoneApart DEF Screens, Unlocked, Vouched, Registered, Requested, Readable
<1>4. Screens(q, t)[12][3] /\ Screens(q, t)[13][3]
  BY DEF Screens, Unlocked
<1>5. PassesTo(q, t, 9)
  BY VouchedPasses DEF Unlocked
<1>6. PassesTo(q, t, 10)
  BY <1>2, <1>5, PassesNext
<1>7. PassesTo(q, t, 11)
  BY <1>3, <1>6, PassesNext
<1>8. PassesTo(q, t, 12)
  BY <1>4, <1>7, PassesNext
<1> QED BY <1>4, <1>8, PassesNext

(* With the quote free, a transfer comes to ClearSign,                     *)
LEMMA TransferPasses ==
  ASSUME NEW q, NEW t, ~t, Unlocked(q), q.operation = "transfer", q.amount # Garbled,
         q.calldata # None, q.calldata.function # "truncated"
  PROVE  PassesTo(q, t, 17)
<1>1. ~Escrowed(q) /\ ~CompareThrows(q) /\ ~DecodeThrows(q)
  BY DEF Escrowed, CompareThrows, DecodeThrows, Calldata
<1>2. Screens(q, t)[14][3] /\ Screens(q, t)[15][3]
  BY <1>1 DEF Screens
<1>3. Screens(q, t)[16][3] /\ Screens(q, t)[17][3]
  BY <1>1 DEF Screens
<1>4. PassesTo(q, t, 13)
  BY UnlockedPasses
<1>5. PassesTo(q, t, 14)
  BY <1>2, <1>4, PassesNext
<1>6. PassesTo(q, t, 15)
  BY <1>2, <1>5, PassesNext
<1>7. PassesTo(q, t, 16)
  BY <1>3, <1>6, PassesNext
<1> QED BY <1>3, <1>7, PassesNext

(* which passes it when the calldata says what the challenge says.         *)
LEMMA PaymentPasses ==
  ASSUME NEW q, NEW t, ~t, Unlocked(q), q.operation = "transfer", q.body = "this", q.amount # Garbled,
         q.calldata = [Transfer EXCEPT !.amount = q.amount], q.calldata # None
  PROVE  Screened(q, t) = Passed
<1>1. Calldata(q) = q.calldata /\ ~Escrowed(q)
  BY DEF Calldata, Escrowed
<1>2. ClearSigned(q)
  <2>1. q.calldata.function = "transfer" /\ q.calldata.to = "merchant" /\ q.calldata.amount = q.amount
    BY DEF Transfer
  <2>2. AllowedFunctions(q) = {"transfer", "approve", "transferFrom", "multicall"}
    BY <1>1 DEF AllowedFunctions
  <2>3. q.entry.evm
    BY DEF Unlocked, Vouched, Registered, Requested, Entry
  <2> QED BY <1>1, <2>1, <2>2, <2>3 DEF ClearSigned, CalldataHolds, Names
<1>3. Screens(q, t)[18][3]
  BY <1>2 DEF Screens
<1>4. PassesTo(q, t, 17)
  <2>1. q.calldata.function # "truncated"
    BY DEF Transfer
  <2> QED BY <2>1, TransferPasses
<1>5. PassesTo(q, t, 18)
  BY <1>3, <1>4, PassesNext
<1> QED BY <1>5, PassesEach

-----------------------------------------------------------------------------
(* The requests of the scenarios                                           *)

(* The clean request passes while the quote is free; the lock refuses it   *)
(* once it is taken.                                                       *)
LEMMA CleanRequest ==
  /\ Unlocked(Clean) /\ Clean.operation = "transfer" /\ Clean.body = "this" /\ Clean.amount = 2
  /\ Clean.calldata = Transfer
  BY DEF Clean, Base, Unlocked, Vouched, Registered, Requested

LEMMA CleanPasses == ASSUME NEW t, ~t PROVE Screened(Clean, t) = Passed
<1>1. Clean.calldata = [Transfer EXCEPT !.amount = Clean.amount] /\ Clean.amount # Garbled
  BY CleanRequest DEF Transfer, Garbled
<1> QED BY <1>1, CleanRequest, PaymentPasses, RecordApart

LEMMA CleanLocked ==
  ASSUME NEW t, t
  PROVE  Screened(Clean, t) = [layer |-> "quote_lock", decision |-> "block", place |-> 14]
<1>1. PassesTo(Clean, t, 13)
  BY CleanRequest, UnlockedPasses
<1>2. Refused(Clean, t, 14, "quote_lock")
  BY DEF Screens, Refused
<1>3. 14 \in 1..18 /\ 13 = 14 - 1
  OBVIOUS
<1> QED BY <1>1, <1>2, <1>3, RefusedAt

(* An overpriced request that is consistent in itself passes.              *)
LEMMA DynamicPricePasses == ASSUME NEW t, ~t PROVE Screened(DynamicPrice.request, t) = Passed
<1> DEFINE q == DynamicPrice.request
<1>1. q = [Clean EXCEPT !.amount = 500, !.calldata = [Transfer EXCEPT !.amount = 500]]
  BY DEF DynamicPrice, Plain
<1>2. Unlocked(q)
  BY <1>1 DEF Clean, Base, Unlocked, Vouched, Registered, Requested
<1>3. q.operation = "transfer" /\ q.body = "this" /\ q.amount = 500
  BY <1>1 DEF Clean, Base
<1>4. q.calldata = [Transfer EXCEPT !.amount = 500]
  BY <1>1 DEF Clean, Base
<1>5. q.calldata # None
  <2>1. "dynamic_price_overspend" \in DOMAIN Scenarios \ {"discovery_poisoning"}
        /\ Scenarios["dynamic_price_overspend"] = DynamicPrice
    BY DEF Scenarios
  <2> QED BY <2>1, LabAssumption
<1>6. q.amount # Garbled /\ q.calldata = [Transfer EXCEPT !.amount = q.amount]
  BY <1>3, <1>4 DEF Garbled
<1> HIDE DEF q
<1> QED BY <1>2, <1>3, <1>5, <1>6, PaymentPasses DEF q

(* The check that blocks the request of each of the others.                *)
Blocks(q, t, layer) ==
  \E i \in 1..18 : Screened(q, t) = [layer |-> layer, decision |-> "block", place |-> i]

LEMMA CrossResourceRefused ==
  ASSUME NEW t PROVE Blocks(CrossResource.request, t, "resource_binding")
<1> DEFINE q == CrossResource.request
<1>1. q.resource = "report" /\ q.url = "ledger" /\ q.paymentHeaders = 0
  BY DEF CrossResource, Asking, Plain, Clean, Base
<1> HIDE DEF q
<1>2. Readable("report") /\ Readable("ledger") /\ 0 <= 1
  BY NoneApart DEF Readable
<1>3. Screens(q, t)[1][3]
  BY <1>1, <1>2 DEF Screens
<1>4. Screens(q, t)[2][3]
  BY <1>1, <1>2 DEF Screens
<1>5. PassesTo(q, t, 2)
  BY <1>3, <1>4 DEF PassesTo
<1>6. Refused(q, t, 3, "resource_binding")
  BY <1>1 DEF Screens, Canonical, Refused
<1>7. 3 \in 1..18 /\ 2 = 3 - 1
  OBVIOUS
<1>8. Screened(q, t) = [layer |-> "resource_binding", decision |-> "block", place |-> 3]
  BY <1>5, <1>6, <1>7, RefusedAt
<1> QED BY <1>7, <1>8 DEF Blocks, q

LEMMA HeaderConfusionRefused ==
  ASSUME NEW t PROVE Blocks(HeaderConfusion.request, t, "http_headers")
<1> DEFINE q == HeaderConfusion.request
<1>1. q.resource = "report" /\ q.url = "report" /\ q.paymentHeaders = 2
  BY DEF HeaderConfusion, Asking, Plain, Clean, Base
<1> HIDE DEF q
<1>2. Readable("report") /\ ~(2 <= 1)
  BY NoneApart DEF Readable
<1>3. Screens(q, t)[1][3]
  BY <1>1, <1>2 DEF Screens
<1>4. PassesTo(q, t, 1)
  BY <1>3 DEF PassesTo
<1>5. Refused(q, t, 2, "http_headers")
  BY <1>1, <1>2 DEF Screens, Refused
<1>6. 2 \in 1..18 /\ 1 = 2 - 1
  OBVIOUS
<1>7. Screened(q, t) = [layer |-> "http_headers", decision |-> "block", place |-> 2]
  BY <1>4, <1>5, <1>6, RefusedAt
<1> QED BY <1>6, <1>7 DEF Blocks, q

LEMMA DiscoveryPoisoningRefused ==
  ASSUME NEW t PROVE Blocks(DiscoveryPoisoning.request, t, "provider_registry")
<1> DEFINE q == DiscoveryPoisoning.request
<1>1. q.resource = "elsewhere" /\ q.url = "elsewhere" /\ q.paymentHeaders = 0 /\ ~q.listed
  BY DEF DiscoveryPoisoning, Asking, Plain, Clean, Base
<1> HIDE DEF q
<1>2. Readable("elsewhere") /\ 0 <= 1
  BY NoneApart DEF Readable
<1>3. Screens(q, t)[1][3] /\ Screens(q, t)[3][3]
  BY <1>1, <1>2 DEF Screens
<1>4. Screens(q, t)[2][3]
  BY <1>1, <1>2 DEF Screens
<1>5. PassesTo(q, t, 3)
  BY <1>3, <1>4 DEF PassesTo
<1>6. Refused(q, t, 4, "provider_registry")
  BY <1>1 DEF Screens, Refused
<1>7. 4 \in 1..18 /\ 3 = 4 - 1
  OBVIOUS
<1>8. Screened(q, t) = [layer |-> "provider_registry", decision |-> "block", place |-> 4]
  BY <1>5, <1>6, <1>7, RefusedAt
<1> QED BY <1>7, <1>8 DEF Blocks, q

LEMMA SettlementPathRefused ==
  ASSUME NEW t PROVE Blocks(SettlementPath.request, t, "provider_registry")
<1> DEFINE q == SettlementPath.request
<1>1. Requested(q) /\ q.facilitator = "otherfac"
  BY DEF SettlementPath, Asking, Plain, Clean, Base, Requested
<1> HIDE DEF q
<1>2. PassesTo(q, t, 5)
  BY <1>1, RequestedPasses
<1>3. Screens(q, t)[6][3]
  BY <1>1 DEF Screens
<1>4. PassesTo(q, t, 6)
  BY <1>2, <1>3, PassesNext
<1>5. ~RegistryHolds(q)
  BY <1>1 DEF RegistryHolds, Requested, Entry
<1>6. Refused(q, t, 7, "provider_registry")
  BY <1>5 DEF Screens, Refused
<1>7. 7 \in 1..18 /\ 6 = 7 - 1
  OBVIOUS
<1>8. Screened(q, t) = [layer |-> "provider_registry", decision |-> "block", place |-> 7]
  BY <1>4, <1>6, <1>7, RefusedAt
<1> QED BY <1>7, <1>8 DEF Blocks, q

(* A record that does not identify the provider, or rates it too low.      *)
LEMMA Distrusted ==
  ASSUME NEW q, NEW t, Registered(q), q.demo # None, ~Identified(q.demo, q) \/ TooLow(q.demo, q)
  PROVE  Blocks(q, t, "erc8004")
<1>1. PassesTo(q, t, 7)
  BY RegisteredPasses
<1>2. TrustDecision(q) = "block"
  <2>1. TrustRecord(q) = q.demo
    BY DEF TrustRecord, Registered, Requested
  <2> QED BY <2>1 DEF TrustDecision
<1>3. Refused(q, t, 8, "erc8004")
  BY <1>2 DEF Screens, Refused
<1>4. 8 \in 1..18 /\ 7 = 8 - 1
  OBVIOUS
<1>5. Screened(q, t) = [layer |-> "erc8004", decision |-> "block", place |-> 8]
  BY <1>1, <1>3, <1>4, RefusedAt
<1> QED BY <1>4, <1>5 DEF Blocks

LEMMA IdentityMismatchRefused ==
  ASSUME NEW t PROVE Blocks(Erc8004IdentityMismatch.request, t, "erc8004")
<1> DEFINE q == Erc8004IdentityMismatch.request
<1>1. Registered(q)
  BY DEF Erc8004IdentityMismatch, Asking, Plain, Clean, Base, Registered, Requested
<1>2. q.demo = [Record EXCEPT !.endpoint = "elsewhere", !.payTo = "stranger", !.reputation = 92]
  BY DEF Erc8004IdentityMismatch, Asking, Plain, Clean, Base
<1>3. "erc8004_identity_mismatch" \in DOMAIN Scenarios \ {"discovery_poisoning"}
      /\ Scenarios["erc8004_identity_mismatch"] = Erc8004IdentityMismatch
  BY DEF Scenarios
<1>4. q.demo # None
  BY <1>3, LabAssumption
<1> HIDE DEF q
<1>5. q.demo.payTo = "stranger" /\ q.payTo = "merchant"
  BY <1>1, <1>2 DEF Record, Registered, Requested
<1>6. ~Identified(q.demo, q)
  BY <1>5 DEF Identified
<1> QED BY <1>1, <1>4, <1>6, Distrusted DEF q

LEMMA LowReputationRefused ==
  ASSUME NEW t PROVE Blocks(LowReputationProvider.request, t, "erc8004")
<1> DEFINE q == LowReputationProvider.request
<1>1. Registered(q)
  BY DEF LowReputationProvider, Asking, Plain, Clean, Base, Registered, Requested
<1>2. q.demo = [Record EXCEPT !.reputation = 12, !.denied = 5]
  BY DEF LowReputationProvider, Asking, Plain, Clean, Base
<1>3. "low_reputation_provider" \in DOMAIN Scenarios \ {"discovery_poisoning"}
      /\ Scenarios["low_reputation_provider"] = LowReputationProvider
  BY DEF Scenarios
<1>4. q.demo # None
  BY <1>3, LabAssumption
<1> HIDE DEF q
<1>5. q.demo.denied = 5
  BY <1>2 DEF Record
<1>6. ~Identified(q.demo, q)
  BY <1>5 DEF Identified
<1> QED BY <1>1, <1>4, <1>6, Distrusted DEF q

LEMMA PiiRefused ==
  ASSUME NEW t PROVE Blocks(Pii.request, t, "metadata_firewall")
<1> DEFINE q == Pii.request
<1>1. Vouched(q) /\ q.found = Sanitised({"block"})
  BY DEF Pii, Asking, Plain, Clean, Base, Vouched, Registered, Requested
<1> HIDE DEF q
<1>2. "block" \in q.found
  BY <1>1 DEF Sanitised
<1>3. PassesTo(q, t, 9)
  BY <1>1, VouchedPasses
<1>4. FirewallDecision(q.found) = "block"
  <2>1. {i \in DOMAIN Severity : Severity[i] \in q.found
             /\ \A j \in i + 1 .. 4 : Severity[j] \notin q.found} = {4}
    BY <1>2 DEF Severity
  <2>2. (CHOOSE i \in {4} : TRUE) = 4 /\ {4} # {}
    OBVIOUS
  <2>3. FirewallDecision(q.found) = Severity[4]
    BY <2>1, <2>2 DEF FirewallDecision
  <2> QED BY <2>3 DEF Severity
<1>5. Refused(q, t, 10, "metadata_firewall")
  BY <1>4 DEF Screens, Refused
<1>6. 10 \in 1..18 /\ 9 = 10 - 1
  OBVIOUS
<1>7. Screened(q, t) = [layer |-> "metadata_firewall", decision |-> "block", place |-> 10]
  BY <1>3, <1>5, <1>6, RefusedAt
<1> QED BY <1>6, <1>7 DEF Blocks, q

(* Calldata that does not hold.                                            *)
LEMMA Unsigned ==
  ASSUME NEW q, NEW t, ~t, Unlocked(q), q.operation = "transfer", q.amount # Garbled,
         q.calldata # None, q.calldata.function # "truncated", ~CalldataHolds(q, q.calldata)
  PROVE  Blocks(q, t, "clearsig")
<1>1. PassesTo(q, t, 17)
  BY TransferPasses
<1>2. Calldata(q) = q.calldata
  BY DEF Calldata, Escrowed
<1>3. ~ClearSigned(q)
  BY <1>2 DEF ClearSigned
<1>4. Refused(q, t, 18, "clearsig")
  BY <1>3 DEF Screens, Refused
<1>5. 18 \in 1..18 /\ 17 = 18 - 1
  OBVIOUS
<1>6. Screened(q, t) = [layer |-> "clearsig", decision |-> "block", place |-> 18]
  BY <1>1, <1>4, <1>5, RefusedAt
<1> QED BY <1>5, <1>6 DEF Blocks

LEMMA MaliciousApproveRefused ==
  ASSUME NEW t, ~t PROVE Blocks(MaliciousApprove.request, t, "clearsig")
<1> DEFINE q == MaliciousApprove.request
<1>1. Unlocked(q) /\ q.operation = "transfer" /\ q.amount = 2
  BY DEF MaliciousApprove, Asking, Plain, Clean, Base, Unlocked, Vouched, Registered, Requested
<1>2. q.calldata = [function |-> "approve", to |-> "stranger", amount |-> Unlimited,
                    context |-> None, inner |-> {}]
  BY DEF MaliciousApprove, Asking, Plain, Clean, Base
<1>3. "malicious_approve" \in DOMAIN Scenarios \ {"discovery_poisoning"}
      /\ Scenarios["malicious_approve"] = MaliciousApprove
  BY DEF Scenarios
<1>4. q.calldata # None
  BY <1>3, LabAssumption
<1> HIDE DEF q
<1>5. ~CalldataHolds(q, q.calldata)
  BY <1>2 DEF CalldataHolds
<1>6. q.amount # Garbled /\ q.calldata.function # "truncated"
  BY <1>1, <1>2 DEF Garbled
<1> QED BY <1>1, <1>4, <1>5, <1>6, Unsigned DEF q

LEMMA PartialPaymentRefused ==
  ASSUME NEW t, ~t PROVE Blocks(PartialPayment.request, t, "clearsig")
<1> DEFINE q == PartialPayment.request
<1>0. q = [Clean EXCEPT !.amount = 2000, !.calldata = [Transfer EXCEPT !.amount = 1800]]
  BY DEF PartialPayment, Asking, Plain
<1>1. Unlocked(q) /\ q.operation = "transfer" /\ q.amount = 2000
  BY <1>0 DEF Clean, Base, Unlocked, Vouched, Registered, Requested
<1>2. q.calldata = [Transfer EXCEPT !.amount = 1800]
  BY <1>0 DEF Clean, Base
<1>3. "partial_payment_decimals_confusion" \in DOMAIN Scenarios \ {"discovery_poisoning"}
      /\ Scenarios["partial_payment_decimals_confusion"] = PartialPayment
  BY DEF Scenarios
<1>4. q.calldata # None
  BY <1>3, LabAssumption
<1> HIDE DEF q
<1>5. q.calldata.function = "transfer" /\ q.calldata.amount = 1800
  BY <1>2 DEF Transfer
<1>6. ~CalldataHolds(q, q.calldata)
  BY <1>1, <1>5 DEF CalldataHolds
<1>7. q.amount # Garbled /\ q.calldata.function # "truncated"
  BY <1>1, <1>2, <1>5 DEF Garbled
<1> QED BY <1>1, <1>4, <1>6, <1>7, Unsigned DEF q

LEMMA MulticallRefused ==
  ASSUME NEW t, ~t PROVE Blocks(MulticallHiddenOperation.request, t, "clearsig")
<1> DEFINE q == MulticallHiddenOperation.request
<1>1. Unlocked(q) /\ q.operation = "transfer" /\ q.amount = 2
  BY DEF MulticallHiddenOperation, Asking, Plain, Clean, Base, Unlocked, Vouched, Registered, Requested
<1>2. q.calldata.function = "multicall" /\ q.calldata.inner = {"approve", "mint"}
  BY DEF MulticallHiddenOperation, Asking, Plain, Clean, Base
<1>3. "multicall_hidden_operation" \in DOMAIN Scenarios \ {"discovery_poisoning"}
      /\ Scenarios["multicall_hidden_operation"] = MulticallHiddenOperation
  BY DEF Scenarios
<1>4. q.calldata # None
  BY <1>3, LabAssumption
<1> HIDE DEF q
<1>5. "mint" \in q.calldata.inner \cap KnownFunctions /\ "mint" \notin AllowedFunctions(q)
  BY <1>1, <1>2 DEF AllowedFunctions, Escrowed, KnownFunctions
<1>6. ~CalldataHolds(q, q.calldata)
  BY <1>2, <1>5 DEF CalldataHolds
<1>7. q.amount # Garbled /\ q.calldata.function # "truncated"
  BY <1>1, <1>2, <1>5 DEF Garbled
<1> QED BY <1>1, <1>4, <1>6, <1>7, Unsigned DEF q

-----------------------------------------------------------------------------
(* The wallet's answers of the scenarios                                   *)

(* The receipt the lab signs holds for a body that is well formed and denies*)
(* nothing, and for no other.                                              *)
LEMMA Delivers ==
  ASSUME NEW s, s.body = [hash |-> "body", shaped |-> TRUE, denies |-> FALSE]
  PROVE  Delivered(s)
<1> DEFINE checks == ServiceChecks(ScenarioReceipt, s.body, Expected)
<1>1. ScenarioReceipt.signature
        = Signature("provider", ScenarioReceipt, ScenarioReceipt.result, ScenarioReceipt.status)
  BY DEF ScenarioReceipt, Signed, Signature
<1>2. ScenarioReceipt.result = ServiceResult(ScenarioReceipt, ScenarioReceipt.status)
  BY DEF ScenarioReceipt, Signed, ServiceResult
<1>3. /\ ScenarioReceipt.context = "this" /\ ScenarioReceipt.terms = "these"
      /\ ScenarioReceipt.resource = "report" /\ ScenarioReceipt.response = "body"
      /\ ScenarioReceipt.clean /\ ScenarioReceipt.schema
  BY DEF ScenarioReceipt, Signed
<1>4. \A i \in 1..9 : checks[i][2]
  <2>1. /\ Expected.context = "this" /\ Expected.terms = "these" /\ Expected.resource = "report"
        /\ s.body.hash = "body" /\ s.body.shaped /\ ~s.body.denies
    BY DEF Expected
  <2>2. checks[1][2]
    BY <1>3, <2>1 DEF ServiceChecks
  <2>3. checks[2][2]
    BY <1>3, <2>1 DEF ServiceChecks
  <2>4. checks[3][2]
    BY <1>3, <2>1 DEF ServiceChecks
  <2>5. checks[4][2] /\ checks[9][2]
    BY <1>1, <1>2 DEF ServiceChecks, Expected
  <2>6. checks[5][2] /\ checks[6][2]
    BY <1>3, <2>1 DEF ServiceChecks
  <2>7. checks[7][2]
    BY <1>3, <2>1 DEF ServiceChecks
  <2>8. checks[8][2]
    BY <1>3, <2>1 DEF ServiceChecks
  <2> HIDE DEF checks
  <2> QED BY <2>2, <2>3, <2>4, <2>5, <2>6, <2>7, <2>8
<1> HIDE DEF checks
<1>5. {i \in 1..9 : ~checks[i][2]} = {}
  BY <1>4
<1> QED BY <1>5 DEF Delivered, ServiceOutcome, checks

LEMMA DeliversNot ==
  ASSUME NEW s, s.body.denies \/ ~s.body.shaped
  PROVE  ~Delivered(s)
<1> DEFINE checks == ServiceChecks(ScenarioReceipt, s.body, Expected)
<1>1. ~checks[6][2] \/ ~checks[7][2]
  BY DEF ServiceChecks, Expected
<1> HIDE DEF checks
<1>2. {i \in 1..9 : ~checks[i][2]} # {}
  BY <1>1
<1> QED BY <1>2 DEF Delivered, ServiceOutcome, checks

(* What the wallet's answer comes to.                                      *)
Allow == [layer |-> "guard_pipeline", decision |-> "allow"]

(* The lab sends headers.                                                  *)
LEMMA HeadersApart ==
  ASSUME NEW name \in DOMAIN Scenarios \ {"discovery_poisoning"}
  PROVE  Scenarios[name].headers # None
  BY LabAssumption

LEMMA ReplaySettles ==
  /\ Replay.request = Clean /\ Replay.attempts = 2 /\ ~Replay.parallel /\ Settled(Replay) = Allow
<1>1. /\ Replay.request = Clean /\ Replay.attempts = 2 /\ ~Replay.parallel /\ Replay.cap = Unlimited
      /\ Replay.headers = [private |-> TRUE, varies |-> TRUE]
      /\ Replay.body = [hash |-> "body", shaped |-> TRUE, denies |-> FALSE]
  BY DEF Replay, Plain
<1>2. Delivered(Replay)
  BY <1>1, Delivers
<1>3. CacheSafe(Replay.headers) /\ ~(Replay.request.amount > Replay.cap)
  BY <1>1, CleanRequest DEF CacheSafe, Unlimited
<1> QED BY <1>1, <1>2, <1>3 DEF Settled, Allow

LEMMA ConcurrentSettles ==
  /\ ConcurrentFreeRiding.request = Clean /\ ConcurrentFreeRiding.attempts = Many
  /\ ConcurrentFreeRiding.parallel /\ Settled(ConcurrentFreeRiding) = Allow
<1> DEFINE s == ConcurrentFreeRiding
<1>1. /\ s.request = Clean /\ s.attempts = Many /\ s.parallel /\ s.cap = Unlimited
      /\ s.headers = [private |-> TRUE, varies |-> TRUE]
      /\ s.body = [hash |-> "body", shaped |-> TRUE, denies |-> FALSE]
  BY DEF ConcurrentFreeRiding, Plain
<1>2. Delivered(s)
  BY <1>1, Delivers
<1>3. CacheSafe(s.headers) /\ ~(s.request.amount > s.cap)
  BY <1>1, CleanRequest DEF CacheSafe, Unlimited
<1> QED BY <1>1, <1>2, <1>3 DEF Settled, Allow

LEMMA DynamicPriceSettles ==
  Settled(DynamicPrice) = Block("caw") /\ DynamicPrice.attempts = 1 /\ ~DynamicPrice.parallel
<1>1. DynamicPrice.request.amount = 500 /\ DynamicPrice.cap = 200
      /\ DynamicPrice.attempts = 1 /\ ~DynamicPrice.parallel
  BY DEF DynamicPrice, Plain, Clean, Base
<1> QED BY <1>1 DEF Settled

LEMMA CacheConfusionSettles ==
  /\ CacheConfusion.request = Clean /\ Settled(CacheConfusion) = Block("cache_policy")
  /\ CacheConfusion.attempts = 1 /\ ~CacheConfusion.parallel
<1>1. /\ CacheConfusion.request = Clean /\ CacheConfusion.cap = Unlimited
      /\ ~CacheConfusion.headers.private
      /\ CacheConfusion.attempts = 1 /\ ~CacheConfusion.parallel
  BY DEF CacheConfusion, Plain
<1>2. Scenarios["cache_confusion"] = CacheConfusion
      /\ "cache_confusion" \in DOMAIN Scenarios \ {"discovery_poisoning"}
  BY DEF Scenarios
<1>3. ~CacheSafe(CacheConfusion.headers) /\ ~(CacheConfusion.request.amount > CacheConfusion.cap)
  BY <1>1, <1>2, CleanRequest, HeadersApart DEF CacheSafe, Unlimited
<1> QED BY <1>1, <1>3 DEF Settled

LEMMA UndeliveredSettles ==
  ASSUME NEW s, s.request = Clean, s.cap = Unlimited,
         s.headers = [private |-> TRUE, varies |-> TRUE], s.body.denies \/ ~s.body.shaped
  PROVE  Settled(s) = Block("receipt")
<1>1. CacheSafe(s.headers) /\ ~(s.request.amount > s.cap)
  BY CleanRequest DEF CacheSafe, Unlimited
<1> QED BY <1>1, DeliversNot DEF Settled

LEMMA PaidButDeniedSettles ==
  /\ PaidButDenied.request = Clean /\ Settled(PaidButDenied) = Block("receipt")
  /\ PaidButDenied.attempts = 1 /\ ~PaidButDenied.parallel
<1>1. /\ PaidButDenied.request = Clean /\ PaidButDenied.cap = Unlimited
      /\ PaidButDenied.headers = [private |-> TRUE, varies |-> TRUE] /\ PaidButDenied.body.denies
      /\ PaidButDenied.attempts = 1 /\ ~PaidButDenied.parallel
  BY DEF PaidButDenied, Plain
<1> QED BY <1>1, UndeliveredSettles

LEMMA MalformedDeliverySettles ==
  /\ MalformedDelivery.request = Clean /\ Settled(MalformedDelivery) = Block("receipt")
  /\ MalformedDelivery.attempts = 1 /\ ~MalformedDelivery.parallel
<1>1. /\ MalformedDelivery.request = Clean /\ MalformedDelivery.cap = Unlimited
      /\ MalformedDelivery.headers = [private |-> TRUE, varies |-> TRUE] /\ ~MalformedDelivery.body.shaped
      /\ MalformedDelivery.attempts = 1 /\ ~MalformedDelivery.parallel
  BY DEF MalformedDelivery, Plain
<1> QED BY <1>1, UndeliveredSettles

(* The scenarios of one attempt.                                           *)
Alone(s) == s.attempts = 1 /\ ~s.parallel
LEMMA AskedOnce == ASSUME NEW q PROVE Alone(Asking(q)) /\ Asking(q).request = q
  BY DEF Asking, Plain, Alone

(* A scenario of one attempt is refused, or passes and its wallet's answer *)
(* is a refusal.                                                           *)
BlocksOnce(s, t, layer) ==
  /\ Alone(s)
  /\ \/ Blocks(s.request, t, layer)
     \/ Screened(s.request, t) = Passed /\ Settled(s) = Block(layer)

LEMMA RefusedScenarios ==
  ASSUME NEW t, ~t
  PROVE  /\ BlocksOnce(CrossResource, t, "resource_binding")
         /\ BlocksOnce(Pii, t, "metadata_firewall")
         /\ BlocksOnce(MaliciousApprove, t, "clearsig")
         /\ BlocksOnce(DiscoveryPoisoning, t, "provider_registry")
         /\ BlocksOnce(Erc8004IdentityMismatch, t, "erc8004")
         /\ BlocksOnce(LowReputationProvider, t, "erc8004")
         /\ BlocksOnce(HeaderConfusion, t, "http_headers")
         /\ BlocksOnce(SettlementPath, t, "provider_registry")
         /\ BlocksOnce(PartialPayment, t, "clearsig")
         /\ BlocksOnce(MulticallHiddenOperation, t, "clearsig")
<1>1. Alone(CrossResource) /\ Alone(Pii) /\ Alone(MaliciousApprove) /\ Alone(DiscoveryPoisoning)
  BY AskedOnce DEF CrossResource, Pii, MaliciousApprove, DiscoveryPoisoning
<1>2. Alone(Erc8004IdentityMismatch) /\ Alone(LowReputationProvider) /\ Alone(HeaderConfusion)
  BY AskedOnce DEF Erc8004IdentityMismatch, LowReputationProvider, HeaderConfusion
<1>3. Alone(SettlementPath) /\ Alone(PartialPayment) /\ Alone(MulticallHiddenOperation)
  BY AskedOnce DEF SettlementPath, PartialPayment, MulticallHiddenOperation
<1>4. BlocksOnce(CrossResource, t, "resource_binding") /\ BlocksOnce(Pii, t, "metadata_firewall")
  BY <1>1, CrossResourceRefused, PiiRefused DEF BlocksOnce
<1>5. BlocksOnce(MaliciousApprove, t, "clearsig") /\ BlocksOnce(DiscoveryPoisoning, t, "provider_registry")
  BY <1>1, MaliciousApproveRefused, DiscoveryPoisoningRefused DEF BlocksOnce
<1>6. BlocksOnce(Erc8004IdentityMismatch, t, "erc8004") /\ BlocksOnce(LowReputationProvider, t, "erc8004")
  BY <1>2, IdentityMismatchRefused, LowReputationRefused DEF BlocksOnce
<1>7. BlocksOnce(HeaderConfusion, t, "http_headers") /\ BlocksOnce(SettlementPath, t, "provider_registry")
  BY <1>2, <1>3, HeaderConfusionRefused, SettlementPathRefused DEF BlocksOnce
<1>8. BlocksOnce(PartialPayment, t, "clearsig") /\ BlocksOnce(MulticallHiddenOperation, t, "clearsig")
  BY <1>3, PartialPaymentRefused, MulticallRefused DEF BlocksOnce
<1> QED BY <1>4, <1>5, <1>6, <1>7, <1>8

LEMMA SettledScenarios ==
  ASSUME NEW t, ~t
  PROVE  /\ BlocksOnce(DynamicPrice, t, "caw")
         /\ BlocksOnce(CacheConfusion, t, "cache_policy")
         /\ BlocksOnce(PaidButDenied, t, "receipt")
         /\ BlocksOnce(MalformedDelivery, t, "receipt")
<1>1. Screened(Clean, t) = Passed /\ Screened(DynamicPrice.request, t) = Passed
  BY CleanPasses, DynamicPricePasses
<1>2. BlocksOnce(DynamicPrice, t, "caw")
  BY <1>1, DynamicPriceSettles DEF BlocksOnce, Alone
<1>3. BlocksOnce(CacheConfusion, t, "cache_policy")
  BY <1>1, CacheConfusionSettles DEF BlocksOnce, Alone
<1>4. BlocksOnce(PaidButDenied, t, "receipt") /\ BlocksOnce(MalformedDelivery, t, "receipt")
  BY <1>1, PaidButDeniedSettles, MalformedDeliverySettles DEF BlocksOnce, Alone
<1> QED BY <1>2, <1>3, <1>4

(* The scenarios whose attempts share the one quote.                       *)
Shared == {"replay_same_proof", "concurrent_free_riding_20_requests"}

LEMMA SingleScenario ==
  ASSUME NEW name \in DOMAIN Scenarios \ Shared, NEW t, ~t
  PROVE  BlocksOnce(Scenarios[name], t, BlockedBy[name])
<1>1. CASE name \in {"cross_resource_substitution", "pii_leakage", "malicious_approve"}
  BY <1>1, RefusedScenarios DEF Scenarios, BlockedBy
<1>2. CASE name \in {"discovery_poisoning", "erc8004_identity_mismatch", "low_reputation_provider"}
  BY <1>2, RefusedScenarios DEF Scenarios, BlockedBy
<1>3. CASE name \in {"header_confusion_duplicate_x_payment", "settlement_path_substitution"}
  BY <1>3, RefusedScenarios DEF Scenarios, BlockedBy
<1>4. CASE name \in {"partial_payment_decimals_confusion", "multicall_hidden_operation"}
  BY <1>4, RefusedScenarios DEF Scenarios, BlockedBy
<1>5. CASE name \in {"dynamic_price_overspend", "cache_confusion", "paid_but_denied", "malformed_delivery"}
  BY <1>5, SettledScenarios DEF Scenarios, BlockedBy
<1>6. name \in {"cross_resource_substitution", "pii_leakage", "malicious_approve"}
           \cup {"discovery_poisoning", "erc8004_identity_mismatch", "low_reputation_provider"}
           \cup {"header_confusion_duplicate_x_payment", "settlement_path_substitution"}
           \cup {"partial_payment_decimals_confusion", "multicall_hidden_operation"}
           \cup {"dynamic_price_overspend", "cache_confusion", "paid_but_denied", "malformed_delivery"}
  BY DEF Scenarios, Shared
<1> QED BY <1>1, <1>2, <1>3, <1>4, <1>5, <1>6

LEMMA SharedScenario ==
  ASSUME NEW name \in Shared
  PROVE  /\ name \in DOMAIN Scenarios /\ BlockedBy[name] = "quote_lock"
         /\ Scenarios[name].request = Clean /\ Settled(Scenarios[name]) = Allow
         /\ Scenarios[name].attempts \in Attempt /\ Scenarios[name].attempts > 1
<1>1. CASE name = "replay_same_proof"
  <2>1. Scenarios[name] = Replay /\ name \in DOMAIN Scenarios /\ BlockedBy[name] = "quote_lock"
    BY <1>1 DEF Scenarios, BlockedBy
  <2>2. 2 \in Attempt
    BY LabAssumption DEF Attempt
  <2> QED BY <2>1, <2>2, ReplaySettles
<1>2. CASE name = "concurrent_free_riding_20_requests"
  <2>1. Scenarios[name] = ConcurrentFreeRiding /\ name \in DOMAIN Scenarios /\ BlockedBy[name] = "quote_lock"
    BY <1>2 DEF Scenarios, BlockedBy
  <2>2. Many \in Attempt /\ Many > 1
    BY LabAssumption DEF Attempt
  <2> QED BY <2>1, <2>2, ConcurrentSettles
<1> QED BY <1>1, <1>2 DEF Shared

-----------------------------------------------------------------------------
(* The run of a scenario                                                   *)

(* What attempt i comes to: of those that share a quote the first is let   *)
(* through, and it is the first because attempts start in turn.            *)
Came(i) ==
  IF i # 1 THEN Block("quote_lock")
  ELSE IF attack \in Shared THEN Allow ELSE Block(BlockedBy[attack])

(* The inductive invariant: an attempt that has not begun left nothing      *)
(* behind; only the first is ever at the wallet; what has come back came    *)
(* back as it must; a shared quote is reserved from the first start on; the *)
(* timeline and the reply tell what the attempts came to.                   *)
LabTypeOK ==
  /\ attack \in DOMAIN Scenarios \cup {None}
  /\ pc \in [Attempt -> {"idle", "wallet", "returned", "recorded"}]
  /\ DOMAIN result = Attempt /\ DOMAIN timeline = Attempt

Unstarted ==
  /\ \A i \in Attempt : attack = None \/ i \notin Attempts => pc[i] = "idle"
  /\ pc[1] = "idle" => ~reserved /\ \A i \in Attempt : pc[i] = "idle"
OneAsked == \A i \in Attempt : pc[i] = "wallet" => i = 1 /\ Settled(S) = Came(1)
Come == \A i \in Attempt : pc[i] \in {"returned", "recorded"} => result[i] = Came(i)
Locked == attack \in Shared /\ pc[1] # "idle" => reserved
Recorded ==
  \A i \in Attempt : timeline[i] = IF pc[i] = "recorded" THEN Told(i) ELSE "none"
Replied ==
  reply # None /\ reply.status = 200 =>
    /\ attack # None /\ \A i \in Attempts : pc[i] = "recorded"
    /\ reply.decision = AttackDecision(result[Primary].decision)
    /\ reply.layer = result[Primary].layer

LabIInv == LabTypeOK /\ Unstarted /\ OneAsked /\ Come /\ Locked /\ Recorded /\ Replied

(* There is a first attempt; None is no attack.                            *)
LEMMA FirstAttempt == 1 \in Attempt /\ Attempt \subseteq Nat
  BY LabAssumption DEF Attempt

LEMMA NoScenario == None \notin DOMAIN Scenarios
  BY LabAssumption

(* How many attempts a scenario makes.                                     *)
LEMMA ScenarioAttempts ==
  ASSUME NEW name \in DOMAIN Scenarios
  PROVE  /\ Scenarios[name].attempts \in Attempt
         /\ name \notin Shared => Scenarios[name].attempts = 1
<1>1. CASE name \in Shared
  BY <1>1, SharedScenario
<1>2. CASE name \notin Shared
  <2> DEFINE t == FALSE
  <2>1. ~t
    OBVIOUS
  <2> HIDE DEF t
  <2>2. BlocksOnce(Scenarios[name], t, BlockedBy[name])
    BY <1>2, <2>1, SingleScenario
  <2> QED BY <1>2, <2>2, FirstAttempt DEF BlocksOnce, Alone
<1> QED BY <1>1, <1>2

LEMMA AttemptsApart ==
  ASSUME attack \in DOMAIN Scenarios
  PROVE  /\ S.attempts \in Attempt /\ S.attempts \in Nat /\ Attempts \subseteq Attempt
         /\ 1 \in Attempts /\ S.attempts \in Attempts
<1>1. S.attempts \in Attempt
  BY ScenarioAttempts DEF S
<1>2. S.attempts \in Nat /\ S.attempts >= 1 /\ S.attempts <= Many /\ Many \in Nat
  BY <1>1, LabAssumption DEF Attempt
<1> QED BY <1>1, <1>2 DEF Attempts, Attempt

(* The invariant holds at first, and every step keeps it.                  *)
LEMMA LabInitially == LabInit => LabIInv
<1> SUFFICES ASSUME LabInit PROVE LabIInv
  OBVIOUS
<1>1. LabTypeOK
  BY DEF LabInit, LabTypeOK
<1>2. \A i \in Attempt : pc[i] = "idle"
  BY DEF LabInit
<1>3. Unstarted
  BY <1>2 DEF LabInit, Unstarted
<1>4. OneAsked /\ Come
  BY <1>2 DEF OneAsked, Come
<1>5. Locked
  BY <1>2, FirstAttempt DEF Locked
<1>6. Recorded /\ Replied
  BY <1>2 DEF LabInit, Recorded, Replied
<1> QED BY <1>1, <1>3, <1>4, <1>5, <1>6 DEF LabIInv

LEMMA LabTurnAway ==
  ASSUME LabIInv, NEW status \in {400, 404, 405}, TurnAway(status)
  PROVE  LabIInv'
<1>1. LabTypeOK' /\ Unstarted' /\ Locked'
  BY DEF TurnAway, LabIInv, LabTypeOK, Unstarted, Locked, Attempts, S
<1>2. OneAsked' /\ Come'
  BY DEF TurnAway, LabIInv, OneAsked, Come, Came, S
<1>3. Recorded'
  BY DEF TurnAway, LabIInv, Recorded, Told
<1>4. Replied'
  BY DEF TurnAway, Replied
<1> QED BY <1>1, <1>2, <1>3, <1>4 DEF LabIInv

LEMMA LabRun ==
  ASSUME LabIInv, NEW name \in DOMAIN Scenarios, Run(name)
  PROVE  LabIInv'
<1>1. \A i \in Attempt : pc[i] = "idle"
  BY DEF Run, LabIInv, Unstarted
<1>2. LabTypeOK'
  BY DEF Run, LabIInv, LabTypeOK
<1>3. Unstarted'
  BY <1>1, FirstAttempt DEF Run, LabIInv, Unstarted
<1>4. OneAsked' /\ Come'
  BY <1>1 DEF Run, OneAsked, Come
<1>5. Locked'
  BY <1>1, FirstAttempt DEF Run, Locked
<1>6. Recorded' /\ Replied'
  BY DEF Run, LabIInv, Recorded, Told, Replied
<1> QED BY <1>2, <1>3, <1>4, <1>5, <1>6 DEF LabIInv

LEMMA LabClose ==
  ASSUME LabIInv, Close
  PROVE  LabIInv'
<1>1. attack' = None /\ reply' = None /\ ~reserved' /\ \A i \in Attempt : pc'[i] = "idle"
  BY DEF Close
<1>2. LabTypeOK'
  BY DEF Close, LabTypeOK
<1>3. Unstarted'
  BY <1>1 DEF Unstarted
<1>4. OneAsked' /\ Come'
  BY <1>1 DEF OneAsked, Come
<1>5. Locked'
  BY <1>1, FirstAttempt DEF Locked
<1>6. Recorded'
  BY <1>1 DEF Close, Recorded
<1>7. Replied'
  BY <1>1 DEF Replied
<1> QED BY <1>2, <1>3, <1>4, <1>5, <1>6, <1>7 DEF LabIInv

LEMMA LabReport ==
  ASSUME LabIInv, Report
  PROVE  LabIInv'
<1>1. LabTypeOK' /\ Unstarted' /\ Locked'
  BY DEF Report, LabIInv, LabTypeOK, Unstarted, Locked, Attempts, S
<1>2. OneAsked' /\ Come'
  BY DEF Report, LabIInv, OneAsked, Come, Came, S
<1>3. Recorded'
  BY DEF Report, LabIInv, Recorded, Told
<1>4. Replied'
  <2>1. Primary' = Primary /\ Attempts' = Attempts
    BY DEF Report, Primary, Attempts, S
  <2>2. attack' # None /\ \A i \in Attempts' : pc'[i] = "recorded"
    BY <2>1 DEF Report, Busy
  <2>3. reply'.decision = AttackDecision(result'[Primary'].decision)
        /\ reply'.layer = result'[Primary'].layer
    BY <2>1 DEF Report
  <2> QED BY <2>2, <2>3 DEF Replied
<1> QED BY <1>1, <1>2, <1>3, <1>4 DEF LabIInv

(* What an attempt that starts comes to. *)
LEMMA Starts ==
  ASSUME LabIInv, NEW i \in Attempt, Start(i)
  PROVE  /\ attack \in DOMAIN Scenarios /\ i \in Attempts /\ pc[i] = "idle" /\ reply = None
         /\ i = 1 \/ (pc[1] # "idle" /\ attack \in Shared)
         /\ pc'[i] = "wallet" => i = 1 /\ Settled(S) = Came(1)
         /\ pc'[i] # "wallet" => pc'[i] = "returned" /\ result'[i] = Came(i)
         /\ attack \in Shared => reserved'
<1> DEFINE o == Screened(S.request, reserved)
<1>1. attack \in DOMAIN Scenarios /\ i \in Attempts /\ pc[i] = "idle" /\ reply = None
  BY DEF Start, InTurn, Busy, LabIInv, LabTypeOK
<1>2. i = 1 \/ pc[1] # "idle"
  <2>1. SUFFICES ASSUME i # 1 PROVE pc[1] # "idle"
    OBVIOUS
  <2>2. 1 \in 1 .. i - 1
    BY <2>1, FirstAttempt DEF Attempt
  <2> QED BY <2>2 DEF Start, InTurn
<1>3. i # 1 => attack \in Shared
  BY <1>1, ScenarioAttempts DEF Attempts, S
<1>4. /\ pc'[i] = IF o = Passed THEN "wallet" ELSE "returned"
      /\ result'[i] = IF o = Passed THEN None ELSE [layer |-> o.layer, decision |-> o.decision]
      /\ reserved' = (reserved \/ o.place = 0 \/ o.place > LockPlace)
  BY DEF Start, LabIInv, LabTypeOK
<1>5. CASE i # 1
  <2>1. attack \in Shared /\ reserved
    BY <1>2, <1>3, <1>5 DEF LabIInv, Locked
  <2>2. S.request = Clean
    BY <2>1, SharedScenario DEF S
  <2>3. o = [layer |-> "quote_lock", decision |-> "block", place |-> 14]
    BY <2>1, <2>2, CleanLocked
  <2>4. o # Passed /\ [layer |-> o.layer, decision |-> o.decision] = Block("quote_lock")
    BY <2>3 DEF Passed, Block
  <2>5. pc'[i] = "returned" /\ result'[i] = Block("quote_lock") /\ reserved'
    BY <1>4, <2>1, <2>4
  <2> QED BY <1>1, <1>2, <1>5, <2>1, <2>5 DEF Came
<1>6. CASE i = 1 /\ attack \in Shared
  <2>1. ~reserved
    BY <1>1, <1>6 DEF LabIInv, Unstarted
  <2>2. S.request = Clean /\ Settled(S) = Allow
    BY <1>6, SharedScenario DEF S
  <2>3. o = Passed
    BY <2>1, <2>2, CleanPasses
  <2>4. o.place = 0
    BY <2>3 DEF Passed
  <2>5. pc'[i] = "wallet" /\ reserved'
    BY <1>4, <2>3, <2>4
  <2> QED BY <1>1, <1>6, <2>2, <2>5 DEF Came
<1>7. CASE i = 1 /\ attack \notin Shared
  <2>1. ~reserved
    BY <1>1, <1>7 DEF LabIInv, Unstarted
  <2>2. BlocksOnce(S, reserved, BlockedBy[attack])
    BY <1>1, <1>7, <2>1, SingleScenario DEF S
  <2>3. CASE Blocks(S.request, reserved, BlockedBy[attack])
    <3>1. PICK k \in 1..18 : o = [layer |-> BlockedBy[attack], decision |-> "block", place |-> k]
      BY <2>3 DEF Blocks
    <3>2. o # Passed /\ [layer |-> o.layer, decision |-> o.decision] = Block(BlockedBy[attack])
      BY <3>1 DEF Passed, Block
    <3>3. pc'[i] = "returned" /\ result'[i] = Block(BlockedBy[attack])
      BY <1>4, <3>2
    <3> QED BY <1>1, <1>7, <3>3 DEF Came
  <2>4. CASE o = Passed /\ Settled(S) = Block(BlockedBy[attack])
    BY <1>1, <1>4, <1>7, <2>4 DEF Came
  <2> QED BY <2>2, <2>3, <2>4 DEF BlocksOnce
<1> QED BY <1>5, <1>6, <1>7

LEMMA LabStart ==
  ASSUME LabIInv, NEW i \in Attempt, Start(i)
  PROVE  LabIInv'
<1>1. /\ attack' = attack /\ timeline' = timeline /\ reply' = reply
      /\ \A j \in Attempt : j # i => pc'[j] = pc[j] /\ result'[j] = result[j]
  BY DEF Start, LabIInv, LabTypeOK
<1>2. S' = S /\ Attempts' = Attempts /\ \A j \in Attempt : Came(j)' = Came(j)
  BY <1>1 DEF S, Attempts, Came
<1>3. pc'[i] \in {"wallet", "returned"}
  BY Starts
<1>4. LabTypeOK'
  <2>1. pc' \in [Attempt -> {"idle", "wallet", "returned", "recorded"}]
    BY DEF Start, LabIInv, LabTypeOK
  <2>2. DOMAIN result' = Attempt
    BY DEF Start, LabIInv, LabTypeOK
  <2> QED BY <1>1, <2>1, <2>2 DEF LabIInv, LabTypeOK
<1>5. Unstarted'
  <2>1. attack # None /\ i \in Attempts
    BY Starts, NoScenario
  <2>2. pc'[1] # "idle"
    BY Starts, <1>1, <1>3, FirstAttempt
  <2>3. \A j \in Attempt : j \notin Attempts => pc'[j] = "idle"
    BY <1>1, <2>1 DEF LabIInv, Unstarted
  <2> QED BY <1>1, <1>2, <2>1, <2>2, <2>3 DEF Unstarted
<1>6. OneAsked'
  BY <1>1, <1>2, Starts, FirstAttempt DEF LabIInv, OneAsked
<1>7. Come'
  BY <1>1, <1>2, <1>3, Starts DEF LabIInv, Come
<1>8. Locked'
  BY <1>1, Starts DEF Locked
<1>9. Recorded'
  <2>1. \A j \in Attempt : pc'[j] = "recorded" <=> pc[j] = "recorded"
    BY <1>1, <1>3, Starts
  <2>2. \A j \in Attempt : pc[j] = "recorded" => result'[j] = result[j]
    BY <1>1, Starts
  <2> QED BY <1>1, <2>1, <2>2 DEF LabIInv, Recorded, Told
<1>10. Replied'
  BY <1>1, Starts DEF Replied
<1> QED BY <1>4, <1>5, <1>6, <1>7, <1>8, <1>9, <1>10 DEF LabIInv

LEMMA LabResume ==
  ASSUME LabIInv, NEW i \in Attempt, Resume(i)
  PROVE  LabIInv'
<1>1. /\ attack' = attack /\ timeline' = timeline /\ reply' = reply /\ reserved'
      /\ attack # None /\ reply = None /\ pc[i] = "wallet"
      /\ \A j \in Attempt : j # i => pc'[j] = pc[j] /\ result'[j] = result[j]
      /\ pc'[i] = "returned" /\ result'[i] = Settled(S)
  BY DEF Resume, Busy, LabIInv, LabTypeOK
<1>2. S' = S /\ Attempts' = Attempts /\ \A j \in Attempt : Came(j)' = Came(j)
  BY <1>1 DEF S, Attempts, Came
<1>3. i = 1 /\ Settled(S) = Came(1)
  BY <1>1 DEF LabIInv, OneAsked
<1>4. LabTypeOK'
  <2>1. pc' \in [Attempt -> {"idle", "wallet", "returned", "recorded"}]
    BY DEF Resume, LabIInv, LabTypeOK
  <2>2. DOMAIN result' = Attempt
    BY DEF Resume, LabIInv, LabTypeOK
  <2> QED BY <1>1, <2>1, <2>2 DEF LabIInv, LabTypeOK
<1>5. Unstarted'
  <2>1. i \in Attempts
    BY <1>1 DEF LabIInv, Unstarted
  <2>2. \A j \in Attempt : j \notin Attempts => pc'[j] = "idle"
    BY <1>1, <2>1 DEF LabIInv, Unstarted
  <2> QED BY <1>1, <1>2, <1>3, <2>2 DEF Unstarted
<1>6. OneAsked'
  BY <1>1, <1>2 DEF LabIInv, OneAsked
<1>7. Come'
  BY <1>1, <1>2, <1>3 DEF LabIInv, Come
<1>8. Locked'
  BY <1>1 DEF Locked
<1>9. Recorded'
  BY <1>1 DEF LabIInv, Recorded, Told
<1>10. Replied'
  BY <1>1 DEF Replied
<1> QED BY <1>4, <1>5, <1>6, <1>7, <1>8, <1>9, <1>10 DEF LabIInv

LEMMA LabNote ==
  ASSUME LabIInv, NEW i \in Attempt, Note(i)
  PROVE  LabIInv'
<1>1. /\ attack' = attack /\ result' = result /\ reply' = reply /\ reserved' = reserved
      /\ attack # None /\ reply = None /\ pc[i] = "returned"
      /\ \A j \in Attempt : j # i => pc'[j] = pc[j] /\ timeline'[j] = timeline[j]
      /\ pc'[i] = "recorded" /\ timeline'[i] = Told(i)
  BY DEF Note, Busy, LabIInv, LabTypeOK
<1>2. /\ S' = S /\ Attempts' = Attempts
      /\ \A j \in Attempt : Came(j)' = Came(j) /\ Told(j)' = Told(j)
  BY <1>1 DEF S, Attempts, Came, Told
<1>3. LabTypeOK'
  <2>1. pc' \in [Attempt -> {"idle", "wallet", "returned", "recorded"}]
    BY DEF Note, LabIInv, LabTypeOK
  <2>2. DOMAIN timeline' = Attempt
    BY DEF Note, LabIInv, LabTypeOK
  <2> QED BY <1>1, <2>1, <2>2 DEF LabIInv, LabTypeOK
<1>4. Unstarted'
  <2>1. i \in Attempts /\ pc[1] # "idle"
    BY <1>1 DEF LabIInv, Unstarted
  <2>2. pc'[1] # "idle"
    BY <1>1, <2>1, FirstAttempt
  <2>3. \A j \in Attempt : j \notin Attempts => pc'[j] = "idle"
    BY <1>1, <2>1 DEF LabIInv, Unstarted
  <2> QED BY <1>1, <1>2, <2>2, <2>3 DEF Unstarted
<1>5. OneAsked'
  BY <1>1, <1>2 DEF LabIInv, OneAsked
<1>6. Come'
  BY <1>1, <1>2 DEF LabIInv, Come
<1>7. Locked'
  <2>1. pc[1] # "idle"
    BY <1>1 DEF LabIInv, Unstarted
  <2> QED BY <1>1, <2>1 DEF LabIInv, Locked
<1>8. Recorded'
  BY <1>1, <1>2 DEF LabIInv, Recorded
<1>9. Replied'
  BY <1>1 DEF Replied
<1> QED BY <1>3, <1>4, <1>5, <1>6, <1>7, <1>8, <1>9 DEF LabIInv

LEMMA LabInvariant == LabSpec => []LabIInv
<1>1. LabIInv /\ [LabNext]_labVars => LabIInv'
  <2> SUFFICES ASSUME LabIInv, [LabNext]_labVars PROVE LabIInv'
    OBVIOUS
  <2>1. CASE \E status \in {400, 404, 405} : TurnAway(status)
    BY <2>1, LabTurnAway
  <2>2. CASE \E name \in DOMAIN Scenarios : Run(name)
    BY <2>2, LabRun
  <2>3. CASE \E i \in Attempt : Start(i) \/ Resume(i) \/ Note(i)
    BY <2>3, LabStart, LabResume, LabNote
  <2>4. CASE Report
    BY <2>4, LabReport
  <2>5. CASE Close
    BY <2>5, LabClose
  <2>6. CASE UNCHANGED labVars
    <3>1. LabTypeOK' /\ Unstarted' /\ Locked'
      BY <2>6 DEF labVars, LabIInv, LabTypeOK, Unstarted, Locked, Attempts, S
    <3>2. OneAsked' /\ Come'
      BY <2>6 DEF labVars, LabIInv, OneAsked, Come, Came, S
    <3>3. Recorded'
      BY <2>6 DEF labVars, LabIInv, Recorded, Told
    <3>4. Replied'
      BY <2>6 DEF labVars, LabIInv, Replied, Attempts, Primary, S
    <3> QED BY <3>1, <3>2, <3>3, <3>4 DEF LabIInv
  <2> QED BY <2>1, <2>2, <2>3, <2>4, <2>5, <2>6 DEF LabNext
<1> QED BY <1>1, LabInitially, PTL DEF LabSpec

(* The attempt that is told of, and what became of each. *)
LEMMA RepliedBlocked ==
  ASSUME LabIInv, reply # None, reply.status = 200
  PROVE  reply.decision = "blocked" /\ reply.layer = BlockedBy[attack]
<1>1. attack \in DOMAIN Scenarios /\ \A i \in Attempts : i \in Attempt /\ result[i] = Came(i)
  <2>1. attack \in DOMAIN Scenarios /\ \A i \in Attempts : pc[i] = "recorded"
    BY DEF LabIInv, LabTypeOK, Replied
  <2>2. Attempts \subseteq Attempt
    BY <2>1, AttemptsApart
  <2> QED BY <2>1, <2>2 DEF LabIInv, Come
<1>2. Primary \in Attempts /\ result[Primary] = Block(BlockedBy[attack])
  <2>1. S.attempts \in Attempt /\ S.attempts \in Attempts /\ 1 \in Attempts
    BY <1>1, AttemptsApart
  <2>2. CASE attack \notin Shared
    <3>1. S.attempts = 1
      BY <1>1, <2>2, ScenarioAttempts DEF S
    <3>2. Attempts = {1}
      BY <3>1 DEF Attempts
    <3>3. {i \in Attempts : result[i].decision = "block"} = {1}
      BY <1>1, <2>2, <3>2 DEF Came, Block
    <3>4. Primary = 1
      BY <3>1, <3>3 DEF Primary
    <3> QED BY <1>1, <2>1, <2>2, <3>4 DEF Came
  <2>3. CASE attack \in Shared
    <3> DEFINE blocked == {i \in Attempts : result[i].decision = "block"}
    <3>1. S.attempts > 1 /\ BlockedBy[attack] = "quote_lock"
      BY <2>3, SharedScenario DEF S
    <3>2. \A i \in Attempts : i # 1 => result[i] = Block("quote_lock") /\ result[i].decision = "block"
      BY <1>1 DEF Came, Block
    <3>3. 1 \notin blocked
      BY <1>1, <2>3 DEF Came, Allow
    <3>4. S.attempts \in blocked
      BY <2>1, <3>1, <3>2
    <3>5. blocked \in SUBSET Nat
      BY DEF Attempts
    <3>6. Primary \in blocked
      <4>1. CASE ~S.parallel
        BY <3>4, <4>1 DEF Primary
      <4>2. CASE S.parallel
        <5>1. \E i \in blocked : \A j \in blocked : i <= j
          <6> HIDE DEF blocked
          <6> QED BY <3>4, <3>5, LeastOf
        <5>2. (CHOOSE i \in blocked : \A j \in blocked : i <= j) \in blocked
          BY <5>1
        <5> QED BY <3>4, <4>2, <5>2 DEF Primary
      <4> QED BY <4>1, <4>2
    <3>7. Primary \in Attempts /\ Primary # 1
      BY <3>3, <3>6
    <3> QED BY <3>1, <3>2, <3>7
  <2> QED BY <2>2, <2>3
<1>3. result[Primary].decision = "block" /\ result[Primary].layer = BlockedBy[attack]
  BY <1>2 DEF Block
<1> QED BY <1>3 DEF LabIInv, Replied, AttackDecision

(* However many attempts there are and in whatever order they come back: the*)
(* reply of each of the sixteen scenarios is a refusal by the defense that *)
(* the scenario claims (scenarios.ts:48-250), never by another.            *)
THEOREM BlockedAsClaimed == LabSpec => []BlockedWhereClaimed
<1>1. LabIInv => BlockedWhereClaimed
  BY RepliedBlocked DEF BlockedWhereClaimed
<1> QED BY <1>1, LabInvariant, PTL

(* Nobody but the first attempt is at the wallet or told as a success.     *)
LEMMA OnlyTheFirst ==
  ASSUME LabIInv
  PROVE  /\ \A i \in Attempt : pc[i] = "wallet" \/ timeline[i] = "success" => i = 1
         /\ \A i \in Attempt : pc[i] = "recorded" /\ i # 1 => timeline[i] = "blocked"
         /\ attack \in Shared /\ pc[1] = "recorded" => timeline[1] = "success"
<1>1. \A i \in Attempt : pc[i] = "recorded" => timeline[i] = Told(i) /\ result[i] = Came(i)
  BY DEF LabIInv, Recorded, Come
<1>2. \A i \in Attempt : i # 1 => Came(i).decision = "block"
  BY DEF Came, Block
<1>3. attack \in Shared => Came(1).decision = "allow"
  BY DEF Came, Allow
<1>4. \A i \in Attempt : pc[i] = "recorded" /\ i # 1 => timeline[i] = "blocked"
  BY <1>1, <1>2 DEF Told
<1>5. \A i \in Attempt : timeline[i] = "success" => pc[i] = "recorded"
  BY DEF LabIInv, Recorded
<1>6. \A i \in Attempt : pc[i] = "wallet" => i = 1
  BY DEF LabIInv, OneAsked
<1>7. attack \in Shared /\ pc[1] = "recorded" => timeline[1] = "success"
  BY <1>1, <1>3, FirstAttempt DEF Told
<1> QED BY <1>4, <1>5, <1>6, <1>7

(* Of any number of attempts with one proof one at most is at the wallet or*)
(* told as a success, and all the others of a finished run as blocked.     *)
THEOREM NobodyRidesFree == LabSpec => []NoFreeRide
<1>1. LabIInv => NoFreeRide
  <2> SUFFICES ASSUME LabIInv PROVE NoFreeRide
    OBVIOUS
  <2>1. Cardinality({i \in Attempt : pc[i] = "wallet"} \cup {i \in Attempt : timeline[i] = "success"}) <= 1
    <3> DEFINE T == {i \in Attempt : pc[i] = "wallet"} \cup {i \in Attempt : timeline[i] = "success"}
    <3>1. T = {} \/ T = {1}
      BY OnlyTheFirst
    <3> HIDE DEF T
    <3>2. Cardinality(T) <= 1
      <4>1. Cardinality({}) = 0
        BY FS_EmptySet, Zenon
      <4>2. Cardinality({1}) = 1
        BY FS_Singleton, Zenon
      <4> QED BY <3>1, <4>1, <4>2
    <3> QED BY <3>2 DEF T
  <2>2. ASSUME reply # None, reply.status = 200, S.attempts > 1
        PROVE  Cardinality({i \in Attempts : timeline[i] = "blocked"}) = S.attempts - 1
    <3>1. attack \in DOMAIN Scenarios /\ \A i \in Attempts : i \in Attempt /\ pc[i] = "recorded"
      BY <2>2, AttemptsApart DEF LabIInv, LabTypeOK, Replied
    <3>2. attack \in Shared /\ S.attempts \in Attempt
      BY <2>2, <3>1, ScenarioAttempts DEF S
    <3>3. S.attempts \in Nat /\ 1 \in Attempts
      BY <3>1, AttemptsApart
    <3>4. \A i \in Attempts : timeline[i] = "blocked" <=> i # 1
      BY <3>1, <3>2, <3>3, OnlyTheFirst
    <3>5. {i \in Attempts : timeline[i] = "blocked"} = 2 .. S.attempts
      BY <3>3, <3>4 DEF Attempts
    <3>6. Cardinality(2 .. S.attempts) = S.attempts - 1
      <4> DEFINE n == S.attempts
      <4>1. n \in Nat /\ n > 1
        BY <2>2, <3>3
      <4> HIDE DEF n
      <4>2. Cardinality(2 .. n) = IF 2 > n THEN 0 ELSE n - 2 + 1
        BY <4>1, FS_Interval
      <4>3. Cardinality(2 .. n) = n - 1
        BY <4>1, <4>2
      <4> QED BY <4>3 DEF n
    <3> QED BY <3>5, <3>6
  <2> QED BY <2>1, <2>2 DEF NoFreeRide
<1> QED BY <1>1, LabInvariant, PTL

=============================================================================
