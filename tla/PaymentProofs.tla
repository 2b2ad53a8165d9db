---------------------------- MODULE PaymentProofs ----------------------------
(***************************************************************************)
(* Theorems about the two ends of a payment: the agent's LiveExecutor, for *)
(* every set of calls and request ids, any number of which may overlap,    *)
(* and for every deadline; and the service's Provider, for every time to   *)
(* live and every bound.                                                   *)
(***************************************************************************)
EXTENDS LiveExecutor, Provider, TLAPS

-----------------------------------------------------------------------------
(* The executor                                                            *)
(*                                                                         *)
(* What an answer says of the wallet has to stay true while the wallet     *)
(* goes on: Sound lists, cause by cause, what the wallet had done by then, *)
(* and each of these is a fact the wallet does not take back.              *)

Taken == {"processing", "paid", "failed"}

(* Causes found before the wallet is called. *)
BeforeWallet ==
  AdapterCauses \cup {"prerequisite", "environment", "unsupported", "arguments"}

(* A submission of the request id came to nothing. *)
OneFailed(r) == \E d \in Calls : RequestOf[d] = r /\ wallet[d] \in {"refused", "failed"}

(* What an answer's cause tells of the submission it is about, or of       *)
(* another one of its request id.                                          *)
Tells(cause, c) ==
  /\ cause \in BeforeWallet => wallet[c] = "none"
  /\ cause = "policy" => wallet[c] = "refused"
  /\ cause = "failed" => OneFailed(RequestOf[c])
  /\ cause = "paid" => wallet[c] \in Taken

Sound(a) ==
  /\ pc[a.by] = "answered"
  /\ a.decision = Decision(a.cause)
  /\ Tells(a.cause, a.by)

(* A call submits after it was loaded, reads what the wallet did, and      *)
(* polls while the deadline has not passed.                                *)
Submitted(c) ==
  /\ pc[c] \in {"idle", "loading"} => wallet[c] = "none"
  /\ pc[c] \in {"record", "audit"} => wallet[c] \in Taken
  /\ reply[c].status = "failed" \/ record[c] = "failed" => OneFailed(RequestOf[c])
  /\ pc[c] \in {"idle", "loading", "submitting"} => polls[c] = 0
  /\ pc[c] = "record" => polls[c] < MaxPolls

(* A call that came back has an answer about its request id, and one that  *)
(* came back from the wallet left an answer in the cache.                  *)
AnsweredWell(c) ==
  pc[c] = "answered" =>
    /\ answer[c] \in Answer /\ Sound(answer[c])
    /\ RequestOf[answer[c].by] = RequestOf[c]
    /\ wallet[c] # "none" => cache[RequestOf[c]] # None

CachedWell(r) ==
  cache[r] # None => Sound(cache[r]) /\ RequestOf[cache[r].by] = r

IInv ==
  /\ TypeOK
  /\ \A c \in Calls : Submitted(c) /\ AnsweredWell(c)
  /\ \A r \in Requests : CachedWell(r)

-----------------------------------------------------------------------------
(* The two kinds of step a call makes.  It comes back with an answer, its  *)
(* own or the cached one,                                                  *)
Cause == AdapterCauses \cup ExecutorCauses

ComesBack(c, a) ==
  /\ Return(c, a) /\ UNCHANGED wallet
  /\ pc[c] \notin {"answered", "threw"}
  /\ \/ pc[c] = "idle" /\ a = cache[RequestOf[c]] /\ a # None /\ UNCHANGED cache
     \/ \E cause \in Cause :
          /\ a = Answered(c, cause) /\ Tells(cause, c)
          /\ \/ wallet[c] = "none" /\ UNCHANGED cache
             \/ cache' = [cache EXCEPT ![RequestOf[c]] = a]

(* or it goes on: from the adapter to the SDK, the wallet and the record.  *)
GoesOn(c) ==
  /\ UNCHANGED <<known, answer, cache>>
  /\ pc[c] # "answered"
  /\ \E p \in {"loading", "threw", "submitting", "record", "audit"} :
       pc' = [pc EXCEPT ![c] = p]
  /\ \/ wallet' = wallet
     \/ pc[c] = "loading" /\ wallet[c] = "none" /\ wallet' = [wallet EXCEPT ![c] = "sent"]
  /\ pc'[c] = "loading" => wallet'[c] = "none"
  /\ pc'[c] \in {"record", "audit"} => wallet'[c] \in Taken
  /\ \E m \in [status : Seen, id : BOOLEAN] :
       reply' = [reply EXCEPT ![c] = m] /\ (m.status = "failed" => OneFailed(RequestOf[c]))
  /\ \E r \in Seen :
       record' = [record EXCEPT ![c] = r] /\ (r = "failed" => OneFailed(RequestOf[c]))
  /\ \E n \in 0..MaxPolls :
       /\ polls' = [polls EXCEPT ![c] = n]
       /\ pc'[c] \in {"loading", "submitting"} => n = 0
       /\ pc'[c] = "record" => n < MaxPolls

LEMMA AnsweredType ==
  ASSUME NEW c \in Calls, NEW cause \in Cause
  PROVE  Answered(c, cause) \in Answer
  BY DEF Answered, Answer, Decision, Decisions, Cause

(* Each action of a call is one of the two. *)
LEMMA Shape ==
  ASSUME TypeOK, NEW c \in Calls, Submitted(c), Start(c) \/ Step(c)
  PROVE  GoesOn(c) \/ \E a \in Answer : ComesBack(c, a)
<1> USE DEF Cause, AdapterCauses, ExecutorCauses, Tells, BeforeWallet
<1>1. ASSUME NEW cause \in Cause, pc[c] \notin {"answered", "threw"},
             Return(c, Answered(c, cause)), UNCHANGED wallet, Tells(cause, c),
             \/ wallet[c] = "none" /\ UNCHANGED cache
             \/ cache' = [cache EXCEPT ![RequestOf[c]] = Answered(c, cause)]
      PROVE  \E a \in Answer : ComesBack(c, a)
  <2>1. Answered(c, cause) \in Answer
    BY <1>1, AnsweredType
  <2> QED BY <1>1, <2>1 DEF ComesBack
<1>2. CASE AdapterRefuses(c)
  BY <1>1, <1>2 DEF AdapterRefuses, MayStart, Submitted
<1>3. CASE ExecutorRefuses(c)
  BY <1>1, <1>3 DEF ExecutorRefuses, MayStart, Submitted
<1>4. CASE ReturnCached(c)
  <2>1. cache[RequestOf[c]] \in Answer
    BY <1>4, ExecutorAssumption DEF ReturnCached, TypeOK
  <2> QED BY <1>4, <2>1 DEF ReturnCached, MayStart, ComesBack
<1>5. CASE RefuseOperation(c)
  BY <1>1, <1>5 DEF RefuseOperation, MayStart, Submitted, Remember
<1>6. CASE RejectArguments(c)
  BY <1>1, <1>6 DEF RejectArguments, Submitted, Remember
<1>7. CASE ReplyRefused(c)
  BY <1>1, <1>7 DEF ReplyRefused, Remember
<1>8. CASE ReplyLost(c)
  BY <1>1, <1>8 DEF ReplyLost, Remember
<1>9. CASE ReplyPending(c)
  BY <1>1, <1>9 DEF ReplyPending, Remember
<1> DEFINE Same == /\ wallet' = wallet => wallet' = [wallet EXCEPT ![c] = wallet[c]]
                   /\ reply' = reply => reply' = [reply EXCEPT ![c] = reply[c]]
                   /\ record' = record => record' = [record EXCEPT ![c] = record[c]]
                   /\ polls' = polls => polls' = [polls EXCEPT ![c] = polls[c]]
                   /\ reply[c] \in [status : Seen, id : BOOLEAN] /\ record[c] \in Seen
                   /\ polls[c] \in 0..MaxPolls
<1>10. Same
  BY DEF TypeOK
<1>11. CASE LookUpAudit(c)
  <2>1. PICK audit \in BOOLEAN, src \in BOOLEAN, id \in BOOLEAN :
          \/ Remember(c, Outcome(c, audit, src, id))
          \/ pc' = [pc EXCEPT ![c] = "record"] /\ polls[c] < MaxPolls
             /\ UNCHANGED <<known, answer, reply, record, polls, cache>>
    BY <1>11 DEF LookUpAudit
  <2>2. CASE Remember(c, Outcome(c, audit, src, id))
    <3>1. /\ Outcome(c, audit, src, id) \in {"failed", "unconfirmed", "evidence", "paid"}
          /\ Outcome(c, audit, src, id) = "failed" => OneFailed(RequestOf[c])
      BY <1>11 DEF Outcome, LookUpAudit, Submitted
    <3>2. Tells(Outcome(c, audit, src, id), c)
      BY <1>11, <3>1 DEF Submitted, LookUpAudit
    <3> QED BY <1>1, <1>11, <2>2, <3>1, <3>2 DEF Remember, LookUpAudit
  <2>3. CASE pc' = [pc EXCEPT ![c] = "record"] /\ polls[c] < MaxPolls
             /\ UNCHANGED <<known, answer, reply, record, polls, cache>>
    <3>1. pc[c] = "audit" /\ UNCHANGED wallet /\ pc'[c] = "record"
      BY <1>11, <2>3 DEF LookUpAudit, TypeOK
    <3>2. wallet[c] \in Taken /\ polls[c] < MaxPolls
      BY <3>1, <2>1, <2>3 DEF Submitted
    <3> QED BY <1>10, <2>3, <3>1, <3>2 DEF GoesOn, Submitted, TypeOK
  <2> QED BY <2>1, <2>2, <2>3
<1>12. CASE Begin(c)
  BY <1>10, <1>12 DEF Begin, MayStart, GoesOn, Submitted, TypeOK
<1>13. CASE LoaderThrows(c)
  BY <1>10, <1>13 DEF LoaderThrows, GoesOn, Submitted, TypeOK
<1>14. CASE Submit(c)
  BY <1>10, <1>14 DEF Submit, GoesOn, Submitted, TypeOK
<1>15. CASE ReplyTaken(c)
  <2>1. PICK id \in BOOLEAN : reply' = [reply EXCEPT ![c] = [status |-> Status(c), id |-> id]]
    BY <1>15 DEF ReplyTaken
  <2>2. /\ [status |-> Status(c), id |-> id] \in [status : Seen, id : BOOLEAN]
        /\ Status(c) = "failed" => OneFailed(RequestOf[c])
    BY DEF Status, Seen, OneFailed
  <2>3. wallet[c] \in Taken /\ wallet' = wallet /\ pc' = [pc EXCEPT ![c] = "record"]
        /\ pc[c] = "submitting" /\ UNCHANGED <<known, answer, record, polls, cache>>
    BY <1>15 DEF ReplyTaken, Taken
  <2>4. polls[c] = 0 /\ 0 < MaxPolls /\ 0 \in 0..MaxPolls
    BY <2>3, ExecutorAssumption DEF Submitted
  <2>5. polls' = [polls EXCEPT ![c] = 0]
    BY <1>10, <2>3, <2>4
  <2> QED BY <1>10, <2>1, <2>2, <2>3, <2>4, <2>5 DEF GoesOn, Submitted, TypeOK
<1>16. CASE LookUpRecord(c)
  <2>1. PICK r \in {"none"} \cup {Status(d) : d \in RecordedUnder(RequestOf[c])} :
          record' = [record EXCEPT ![c] = r]
    BY <1>16 DEF LookUpRecord
  <2>2. r \in Seen /\ (r = "failed" => OneFailed(RequestOf[c]))
    BY <2>1 DEF Status, Seen, RecordedUnder, OneFailed
  <2>3. polls' = [polls EXCEPT ![c] = polls[c] + 1] /\ polls[c] + 1 \in 0..MaxPolls
    BY <1>16, ExecutorAssumption DEF LookUpRecord, TypeOK, Submitted
  <2>4. wallet[c] \in Taken /\ wallet' = wallet /\ pc' = [pc EXCEPT ![c] = "audit"]
        /\ pc[c] = "record" /\ UNCHANGED <<known, answer, reply, cache>>
    BY <1>16 DEF LookUpRecord, Submitted
  <2> QED BY <1>10, <2>1, <2>2, <2>3, <2>4 DEF GoesOn, Submitted, TypeOK
<1> QED
  BY <1>2, <1>3, <1>4, <1>5, <1>6, <1>7, <1>8, <1>9, <1>11, <1>12, <1>13, <1>14, <1>15, <1>16
  DEF Start, Step, Reply

-----------------------------------------------------------------------------
LEMMA TypeStep ==
  ASSUME TypeOK, \A c \in Calls : Submitted(c), [Next]_vars
  PROVE  TypeOK'
<1> USE ExecutorAssumption
<1>1. ASSUME NEW c \in Calls, GoesOn(c) PROVE TypeOK'
  BY <1>1 DEF GoesOn, TypeOK, known, Wallet
<1>2. ASSUME NEW c \in Calls, NEW a \in Answer, ComesBack(c, a) PROVE TypeOK'
  BY <1>2 DEF ComesBack, Return, TypeOK, known
<1>3. ASSUME NEW c \in Calls, WalletMoves(c) PROVE TypeOK'
  BY <1>3 DEF WalletMoves, TypeOK, known, call
<1>4. CASE UNCHANGED vars
  BY <1>4 DEF vars, TypeOK, known, call
<1> QED
  BY <1>1, <1>2, <1>3, <1>4, Shape DEF Next

(* What came to nothing is not taken back.                                 *)
LEMMA FailedStays ==
  ASSUME TypeOK, NEW r, OneFailed(r), NEW c \in Calls,
         WalletMoves(c) \/ GoesOn(c) \/ \E b \in Answer : ComesBack(c, b)
  PROVE  OneFailed(r)'
<1>1. PICK d \in Calls : RequestOf[d] = r /\ wallet[d] \in {"refused", "failed"}
  BY DEF OneFailed
<1>2. wallet'[d] = wallet[d]
  <2>1. CASE WalletMoves(c)
    BY <1>1, <2>1 DEF WalletMoves, TypeOK, Moves
  <2>2. CASE GoesOn(c)
    BY <1>1, <2>2 DEF GoesOn, TypeOK
  <2>3. CASE \E b \in Answer : ComesBack(c, b)
    BY <2>3 DEF ComesBack
  <2> QED BY <2>1, <2>2, <2>3
<1> QED BY <1>1, <1>2 DEF OneFailed

(* What an answer tells stays true while other calls go on and while the   *)
(* wallet moves.                                                           *)
LEMMA SoundStays ==
  ASSUME TypeOK, NEW a \in Answer, Sound(a), NEW c \in Calls,
         WalletMoves(c) \/ GoesOn(c) \/ \E b \in Answer : ComesBack(c, b)
  PROVE  Sound(a)'
<1>1. a.by \in Calls
  BY DEF Answer
<1>2. OneFailed(RequestOf[a.by]) => OneFailed(RequestOf[a.by])'
  BY FailedStays
<1>3. pc'[a.by] = "answered"
  BY <1>1 DEF Sound, WalletMoves, GoesOn, ComesBack, Return, TypeOK, call
<1>4. /\ wallet[a.by] \in {"refused", "paid", "failed"} => wallet'[a.by] = wallet[a.by]
      /\ wallet[a.by] \in Taken => wallet'[a.by] \in Taken
      /\ wallet[a.by] = "none" => wallet'[a.by] = "none"
  <2>1. CASE WalletMoves(c)
    BY <1>1, <2>1 DEF WalletMoves, TypeOK, Moves, Taken
  <2>2. CASE GoesOn(c)
    BY <1>1, <2>2 DEF GoesOn, TypeOK, Sound
  <2>3. CASE \E b \in Answer : ComesBack(c, b)
    BY <2>3 DEF ComesBack
  <2> QED BY <2>1, <2>2, <2>3
<1>5. Tells(a.cause, a.by)'
  BY <1>2, <1>4 DEF Sound, Tells
<1> QED BY <1>3, <1>5 DEF Sound

(* The invariant is kept by a call that goes on,                           *)
LEMMA GoingOn ==
  ASSUME IInv, TypeOK', NEW c \in Calls, GoesOn(c)
  PROVE  IInv'
<1> USE DEF IInv
<1>0. \A d \in Calls : OneFailed(RequestOf[d]) => OneFailed(RequestOf[d])'
  BY FailedStays
<1>1. \A a \in Answer : Sound(a) => Sound(a)'
  BY SoundStays
<1>2. \A d \in Calls : Submitted(d)'
  <2> SUFFICES ASSUME NEW d \in Calls PROVE Submitted(d)'
    OBVIOUS
  <2>1. CASE d # c
    BY <1>0, <2>1 DEF GoesOn, TypeOK, Submitted
  <2>2. CASE d = c
    <3>1. reply'[c].status = "failed" \/ record'[c] = "failed" => OneFailed(RequestOf[c])'
      BY <1>0 DEF GoesOn, TypeOK
    <3>2. /\ pc'[c] \in {"idle", "loading"} => wallet'[c] = "none"
          /\ pc'[c] \in {"record", "audit"} => wallet'[c] \in Taken
          /\ pc'[c] \in {"idle", "loading", "submitting"} => polls'[c] = 0
          /\ pc'[c] = "record" => polls'[c] < MaxPolls
      BY DEF GoesOn, TypeOK
    <3> QED BY <2>2, <3>1, <3>2 DEF Submitted
  <2> QED BY <2>1, <2>2
<1>3. \A d \in Calls : AnsweredWell(d)'
  BY <1>1 DEF GoesOn, TypeOK, AnsweredWell
<1>4. \A r \in Requests : CachedWell(r)'
  BY <1>1 DEF GoesOn, TypeOK, CachedWell
<1> QED BY <1>2, <1>3, <1>4

(* by one that comes back,                                                 *)
LEMMA ComingBack ==
  ASSUME IInv, TypeOK', NEW c \in Calls, NEW a \in Answer, ComesBack(c, a)
  PROVE  IInv'
<1> USE ExecutorAssumption DEF IInv
<1>0. \A d \in Calls : OneFailed(RequestOf[d]) => OneFailed(RequestOf[d])'
  BY FailedStays
<1>1. \A b \in Answer : Sound(b) => Sound(b)'
  BY SoundStays
<1>2. /\ pc' = [pc EXCEPT ![c] = "answered"] /\ answer' = [answer EXCEPT ![c] = a]
      /\ UNCHANGED <<reply, record, polls, wallet>>
  BY DEF ComesBack, Return
<1>3. \A d \in Calls : Submitted(d)'
  BY <1>0, <1>2 DEF TypeOK, Submitted
<1>4. Sound(a)' /\ RequestOf[a.by] = RequestOf[c]
  <2>1. CASE a = cache[RequestOf[c]]
    BY <1>1, <2>1 DEF ComesBack, CachedWell
  <2>2. ASSUME NEW cause \in Cause, a = Answered(c, cause), Tells(cause, c)
        PROVE  Sound(a)' /\ RequestOf[a.by] = RequestOf[c]
    <3>1. a.by = c /\ a.cause = cause /\ a.decision = Decision(cause)
      BY <2>2 DEF Answered
    <3>2. Tells(cause, c)'
      BY <1>0, <1>2, <2>2 DEF Tells
    <3> QED BY <1>2, <3>1, <3>2 DEF Sound, TypeOK
  <2> QED BY <2>1, <2>2 DEF ComesBack
<1>5. cache' = cache \/ cache' = [cache EXCEPT ![RequestOf[c]] = a]
  BY DEF ComesBack
<1>6. \A r \in Requests : cache[r] # None => cache'[r] # None
  BY <1>5 DEF TypeOK
<1>7. wallet[c] # "none" => cache'[RequestOf[c]] # None
  <2>1. pc[c] = "idle" => wallet[c] = "none"
    BY DEF Submitted
  <2>2. CASE cache' = [cache EXCEPT ![RequestOf[c]] = a]
    BY <2>2 DEF TypeOK
  <2> QED BY <2>1, <2>2 DEF ComesBack
<1>8. \A d \in Calls : AnsweredWell(d)'
  BY <1>1, <1>2, <1>4, <1>6, <1>7 DEF TypeOK, AnsweredWell
<1>9. \A r \in Requests : CachedWell(r)'
  BY <1>1, <1>4, <1>5 DEF TypeOK, CachedWell
<1> QED BY <1>3, <1>8, <1>9

(* and by the wallet.                                                      *)
LEMMA Moving ==
  ASSUME IInv, TypeOK', NEW c \in Calls, WalletMoves(c)
  PROVE  IInv'
<1> USE DEF IInv
<1>0. \A d \in Calls : OneFailed(RequestOf[d]) => OneFailed(RequestOf[d])'
  BY FailedStays
<1>1. \A a \in Answer : Sound(a) => Sound(a)'
  BY SoundStays
<1>2. /\ wallet[c] \notin {"none", "refused", "paid", "failed"}
      /\ \E w \in Wallet : /\ wallet' = [wallet EXCEPT ![c] = w] /\ w # "none"
                           /\ wallet[c] \in Taken => w \in Taken
      /\ UNCHANGED <<known, call, cache>>
  BY DEF WalletMoves, Moves, Taken
<1>3. \A d \in Calls : Submitted(d)'
  BY <1>0, <1>2 DEF TypeOK, Submitted, call, Taken
<1>4. \A d \in Calls : AnsweredWell(d)'
  BY <1>1, <1>2 DEF TypeOK, AnsweredWell, call
<1>5. \A r \in Requests : CachedWell(r)'
  BY <1>1, <1>2, ExecutorAssumption DEF TypeOK, CachedWell
<1> QED BY <1>3, <1>4, <1>5

LEMMA Inductive == IInv /\ [Next]_vars => IInv'
<1> SUFFICES ASSUME IInv, [Next]_vars PROVE IInv'
  OBVIOUS
<1>1. TypeOK'
  BY TypeStep DEF IInv
<1>2. ASSUME NEW c \in Calls, Start(c) \/ Step(c) PROVE IInv'
  BY <1>1, <1>2, Shape, GoingOn, ComingBack DEF IInv
<1>3. ASSUME NEW c \in Calls, WalletMoves(c) PROVE IInv'
  BY <1>1, <1>3, Moving
<1>4. CASE UNCHANGED vars
  <2>1. \A r : OneFailed(r) => OneFailed(r)'
    BY <1>4 DEF vars, OneFailed
  <2>2. \A a \in Answer : Sound(a) => Sound(a)'
    BY <1>4, <2>1 DEF vars, call, Sound, Tells
  <2>3. \A d \in Calls : Submitted(d)' /\ AnsweredWell(d)'
    BY <1>4, <2>1, <2>2 DEF vars, call, IInv, Submitted, AnsweredWell
  <2>4. \A r \in Requests : CachedWell(r)'
    BY <1>4, <2>2 DEF vars, IInv, TypeOK, CachedWell
  <2> QED BY <1>1, <2>3, <2>4 DEF IInv
<1> QED
  BY <1>2, <1>3, <1>4 DEF Next

LEMMA Initial == Init => IInv
<1> SUFFICES ASSUME Init PROVE IInv
  OBVIOUS
<1>1. TypeOK
  BY ExecutorAssumption DEF Init, TypeOK, Seen, Wallet
<1> QED
  BY <1>1, ExecutorAssumption DEF Init, IInv, Submitted, AnsweredWell, CachedWell

LEMMA Invariant == Spec => []IInv
<1> QED BY Initial, Inductive, PTL DEF Spec

-----------------------------------------------------------------------------
(* Every variable keeps its type: polling never goes past its deadline.    *)
THEOREM TypeCorrect == Spec => []TypeOK
<1>1. IInv => TypeOK
  BY DEF IInv
<1> QED BY <1>1, Invariant, PTL

(* Whatever calls overlap, a budget given back for a cause that leaves     *)
(* nothing open belongs to a submission that never moves money; or to one  *)
(* told failed by the record of its request id, of which some submission   *)
(* did fail.                                                               *)
THEOREM RefusalsAreFinal == Spec => []RefusalIsFinal
<1> DEFINE Failed(a) == a.cause = "failed" /\ OneFailed(RequestOf[a.by])
<1>1. ASSUME IInv, NEW c \in Calls, Released(c), answer[c].cause \notin Uncertain
      PROVE  wallet[answer[c].by] \in {"none", "refused", "failed"} \/ Failed(answer[c])
  <2>1. answer[c] \in Answer /\ Sound(answer[c])
    BY <1>1 DEF IInv, AnsweredWell, Released
  <2>2. answer[c].cause # "paid"
    BY <1>1, <2>1 DEF Released, AdapterDecision, Sound, Decision, ExecutorCauses
  <2>3. answer[c].cause \in BeforeWallet \cup {"policy", "failed"}
    BY <1>1, <2>1, <2>2 DEF Answer, AdapterCauses, ExecutorCauses, Uncertain, BeforeWallet
  <2> QED BY <2>1, <2>3 DEF Sound, Tells
<1>2. IInv => RefusalIsFinal
  BY <1>1 DEF RefusalIsFinal, OneFailed
<1> QED BY <1>2, Invariant, PTL

(* A payment counted as made is one that the wallet took, by a submission  *)
(* of the same request id, however the answer was cached and shared.       *)
THEOREM AllowsAreTaken == Spec => []AllowIsTaken
<1>1. ASSUME IInv, NEW c \in Calls, Allowed(c)
      PROVE  /\ wallet[answer[c].by] \in {"processing", "paid", "failed"}
             /\ RequestOf[answer[c].by] = RequestOf[c]
  <2>1. /\ answer[c] \in Answer /\ Sound(answer[c])
        /\ RequestOf[answer[c].by] = RequestOf[c]
    BY <1>1 DEF IInv, AnsweredWell, Allowed
  <2>2. answer[c].cause = "paid"
    BY <1>1, <2>1 DEF Allowed, AdapterDecision, Sound, Decision, ExecutorCauses
  <2> QED BY <2>1, <2>2 DEF Sound, Tells, Taken
<1>2. IInv => AllowIsTaken
  BY <1>1 DEF AllowIsTaken
<1> QED BY <1>2, Invariant, PTL

(* A request id of which a call came back from the wallet does not go      *)
(* there again from a call that starts later.                              *)
THEOREM NoRequestTwice == Spec => NoSecondSubmission
<1> DEFINE Again == \A c, d \in Calls :
       RequestOf[c] = RequestOf[d] /\ pc[d] = "answered" /\ wallet[d] # "none" =>
         ~(pc[c] = "idle" /\ pc'[c] = "loading")
<1>1. ASSUME IInv, [Next]_vars, NEW c \in Calls, NEW d \in Calls,
             RequestOf[c] = RequestOf[d], pc[d] = "answered", wallet[d] # "none",
             pc[c] = "idle", pc'[c] = "loading"
      PROVE  FALSE
  <2>1. cache[RequestOf[c]] # None
    BY <1>1 DEF IInv, AnsweredWell
  <2>2. ASSUME NEW e \in Calls, Start(e) PROVE FALSE
    BY <1>1, <2>1, <2>2
    DEF IInv, TypeOK, Start, AdapterRefuses, ExecutorRefuses, ReturnCached, RefuseOperation,
        Begin, Remember, Return
  <2>3. ASSUME NEW e \in Calls, Step(e) PROVE FALSE
    <3>1. CASE GoesOn(e)
      <4>1. pc[e] # "idle"
        BY <2>3 DEF Step, Reply, LoaderThrows, RejectArguments, Submit, ReplyRefused, ReplyLost,
                    ReplyPending, ReplyTaken, LookUpRecord, LookUpAudit
      <4> QED BY <1>1, <3>1, <4>1 DEF GoesOn, IInv, TypeOK
    <3>2. ASSUME NEW a \in Answer, ComesBack(e, a) PROVE FALSE
      BY <1>1, <3>2 DEF ComesBack, Return, IInv, TypeOK
    <3> QED BY <1>1, <2>3, <3>1, <3>2, Shape DEF IInv
  <2>4. ASSUME NEW e \in Calls, WalletMoves(e) PROVE FALSE
    BY <1>1, <2>4 DEF WalletMoves, call
  <2> QED BY <1>1, <2>2, <2>3, <2>4 DEF Next, vars, call
<1>2. IInv /\ [Next]_vars => [Again]_vars
  BY <1>1
<1> QED BY <1>2, Invariant, PTL DEF Spec, NoSecondSubmission

-----------------------------------------------------------------------------
(* The provider                                                            *)
(*                                                                         *)
(* A refusal as unknown is explained by what the provider had forgotten:   *)
(* Kept says of every proof ever handed out that its challenge is either   *)
(* remembered or from before a restart.  What a challenge that is          *)
(* remembered says is what was issued or what a client made of it:         *)
(* Explained tells which.                                                  *)

Typed ==
  /\ now \in 0..MaxTime /\ life \in 0..MaxRestarts
  /\ remembered \subseteq Challenge /\ held \subseteq Proof

Issued == {"live", "debug"}

Kept ==
  \A p \in held :
    /\ p.life <= life /\ p.amount = AsIssued(p.of).amount
    /\ p.of.kind \in Issued => p.life < life \/ Known(p.of) # {}

Explained == \A ch \in remembered : ch = AsIssued(ch.hash) \/ ch.hash \in claimed

ProviderIInv == Typed /\ Kept /\ Explained /\ DeliveryIsBound /\ KnownUntilRestart

-----------------------------------------------------------------------------
(* Every challenge and proof that is issued is one.                        *)
LEMMA AsIssuedType ==
  ASSUME ProviderAssumption, NEW h \in Hash
  PROVE  AsIssued(h) \in Challenge /\ AsIssued(h).hash = h
<1>1. h.at + Ttl \in 0..MaxTime + Ttl
  BY ProviderAssumption DEF Hash
<1> QED BY <1>1 DEF AsIssued, Challenge

LEMMA IssueType ==
  ASSUME Typed, ProviderAssumption, NEW kind \in {"live", "debug", "original", "substituted"}
  PROVE  /\ Issue(kind) \in Challenge /\ Issue(kind) = AsIssued(Issue(kind).hash)
         /\ Issue(kind).hash.kind = kind
         /\ ProofOf(Issue(kind)) \in Proof
<1> DEFINE h == [kind |-> kind, at |-> now]
<1>1. h \in Hash
  BY DEF Typed, Hash
<1>2. Issue(kind) \in Challenge /\ Issue(kind).hash = h
  BY <1>1, AsIssuedType DEF Issue
<1> HIDE DEF h
<1>3. Issue(kind) = AsIssued(h)
  BY DEF Issue, h
<1>4. h.kind = kind
  BY DEF h
<1>5. ProofOf(Issue(kind)) \in Proof
  BY <1>2 DEF Typed, ProofOf, Proof, Challenge
<1> QED BY <1>2, <1>3, <1>4, <1>5

(* A challenge that is stored replaces the one of its hash, and no other.  *)
LEMMA Remembering ==
  ASSUME Typed, Explained, NEW found \in SUBSET Challenge, remembered' = RememberChallenge(found),
         \A ch \in found : ch = AsIssued(ch.hash) \/ ch.hash \in claimed',
         claimed \subseteq claimed'
  PROVE  /\ remembered' \subseteq Challenge /\ Explained'
         /\ \A h : Known(h) # {} => Known(h)' # {}
         /\ \A ch \in found : Known(ch.hash)' # {}
<1>1. remembered' \subseteq Challenge
  BY DEF RememberChallenge, Typed
<1>2. Explained'
  BY DEF RememberChallenge, Explained
<1>3. ASSUME NEW h, Known(h) # {} PROVE Known(h)' # {}
  <2>1. PICK ch \in remembered : ch.hash = h
    BY <1>3 DEF Known
  <2>2. CASE \E new \in found : new.hash = h
    BY <2>2 DEF Known, RememberChallenge
  <2>3. CASE ~\E new \in found : new.hash = h
    <3>1. ch \in remembered'
      BY <2>1, <2>3 DEF RememberChallenge
    <3> QED BY <2>1, <3>1 DEF Known
  <2> QED BY <2>2, <2>3
<1>4. \A ch \in found : Known(ch.hash)' # {}
  BY DEF Known, RememberChallenge
<1> QED BY <1>1, <1>2, <1>3, <1>4

(* A handed out proof is kept or not; if its challenge is issued, it is    *)
(* remembered by then.                                                     *)
LEMMA HandingOut ==
  ASSUME Typed, Kept, ProviderAssumption,
         NEW kind \in {"live", "debug", "original"}, HandOut(Issue(kind)),
         kind \in Issued => Known(Issue(kind).hash)' # {},
         \A h : Known(h) # {} => Known(h)' # {},
         remembered' \subseteq Challenge, UNCHANGED <<now, life>>
  PROVE  Typed' /\ Kept' /\ held \subseteq held'
<1>1. held' \subseteq held \cup {ProofOf(Issue(kind))} /\ held \subseteq held'
  BY DEF HandOut
<1>2. /\ ProofOf(Issue(kind)).life = life /\ life \in Nat
      /\ ProofOf(Issue(kind)).of = Issue(kind).hash /\ Issue(kind).hash.kind = kind
      /\ ProofOf(Issue(kind)).amount = AsIssued(Issue(kind).hash).amount
  BY IssueType, ProviderAssumption DEF ProofOf, Typed
<1>3. Typed'
  BY <1>1, IssueType, ProviderAssumption DEF Typed
<1>4. ASSUME NEW p \in held'
      PROVE  /\ p.life <= life' /\ p.amount = AsIssued(p.of).amount
             /\ p.of.kind \in Issued => p.life < life' \/ Known(p.of)' # {}
  <2>1. CASE p \in held
    BY <2>1 DEF Kept
  <2>2. CASE p = ProofOf(Issue(kind))
    <3>1. Issue(kind)' = Issue(kind)
      BY DEF Issue
    <3>2. p.of.kind \in Issued => Known(p.of)' # {}
      BY <1>2, <2>2, <3>1
    <3> QED BY <1>2, <2>2, <3>2
  <2> QED BY <1>1, <2>1, <2>2
<1>5. Kept'
  BY <1>4 DEF Kept
<1> QED BY <1>1, <1>3, <1>5

(* What was said last stays true while nothing else is said.               *)
LEMMA Silence ==
  ASSUME ProviderIInv, UNCHANGED <<last, life>>, held \subseteq held', claimed \subseteq claimed'
  PROVE  DeliveryIsBound' /\ KnownUntilRestart'
  BY DEF ProviderIInv, DeliveryIsBound, KnownUntilRestart, Delivered, Refused

(* A verified proof delivers what it is of.                                *)
LEMMA Delivering ==
  ASSUME ProviderIInv, NEW p \in held, NEW ch \in Challenge,
         Verifies(p, ch), Deliver(p, ch), UNCHANGED <<held, life>>,
         ch = AsIssued(ch.hash) \/ ch.hash \in claimed'
  PROVE  DeliveryIsBound' /\ KnownUntilRestart'
<1>1. /\ last'.status = "delivered" /\ last'.proof = p /\ last'.challenge = ch /\ last'.at = now
      /\ p.genuine /\ p.of = ch.hash /\ p.amount = ch.amount /\ now <= ch.expires
  BY DEF Deliver, Verifies
<1>2. last' \notin Refused
  BY <1>1 DEF Refused
<1>3. ch.amount = AsIssued(p.of).amount
  BY <1>1 DEF ProviderIInv, Kept
<1> QED BY <1>1, <1>2, <1>3 DEF DeliveryIsBound, KnownUntilRestart

(* An unknown challenge was remembered before a restart.                   *)
LEMMA Refusing ==
  ASSUME ProviderIInv, NEW p \in held, NEW q \in {p, Edited(p)}, NEW found,
         Refuse(q, found), found = {} => Known(p.of) = {}, UNCHANGED life
  PROVE  DeliveryIsBound' /\ KnownUntilRestart'
<1>1. last'.status \in {"unknown", "failed"} /\ last'.proof = q
      /\ (last'.status = "unknown" => found = {})
  BY DEF Refuse
<1>2. q.of = p.of /\ q.life = p.life
  BY DEF ProviderIInv, Typed, Proof, Edited
<1>3. last' \notin Delivered
  BY <1>1 DEF Delivered
<1>4. found = {} /\ p.of.kind \in Issued => p.life < life
  BY DEF ProviderIInv, Kept
<1> QED BY <1>1, <1>2, <1>3, <1>4 DEF DeliveryIsBound, KnownUntilRestart, Issued

(* Only a proof as it was handed out verifies.                             *)
LEMMA EditedFails ==
  ASSUME Typed, NEW p \in held, NEW ch PROVE ~Verifies(Edited(p), ch)
  BY DEF Typed, Proof, Edited, Verifies

(* What the provider finds for a proof is remembered, or issued anew.      *)
LEMMA ResolveType ==
  ASSUME Typed, Explained, ProviderAssumption, NEW p \in held, NEW q \in {p, Edited(p)}
  PROVE  /\ Resolve(q) \subseteq Challenge
         /\ Resolve(q) = {} => Known(p.of) = {}
         /\ \A ch \in Resolve(q) : ch = AsIssued(ch.hash) \/ ch.hash \in claimed
<1>1. q.of = p.of
  BY DEF Typed, Proof, Edited
<1>2. /\ Known(p.of) \subseteq Challenge
      /\ \A ch \in Known(p.of) : ch = AsIssued(ch.hash) \/ ch.hash \in claimed
  BY DEF Known, Typed, Explained
<1>3. /\ Derived(q) \subseteq Challenge
      /\ \A ch \in Derived(q) : ch = AsIssued(ch.hash)
  BY IssueType DEF Derived
<1> QED BY <1>1, <1>2, <1>3 DEF Resolve

LEMMA GetReportStep ==
  ASSUME ProviderIInv, NEW p \in held, NEW q \in {p, Edited(p)}, GetReport(q)
  PROVE  ProviderIInv'
<1> DEFINE found == Resolve(q)
           good == {ch \in found : Verifies(q, ch)}
           live == Issue("live")
<1>1. /\ found \subseteq Challenge /\ (found = {} => Known(p.of) = {})
      /\ \A ch \in found : ch = AsIssued(ch.hash) \/ ch.hash \in claimed
  BY ResolveType, ProviderAssumption DEF ProviderIInv
<1>2. live \in Challenge /\ live = AsIssued(live.hash)
  BY IssueType, ProviderAssumption DEF ProviderIInv
<1>3. CASE good # {}
  <2>1. PICK ch \in good : Deliver(q, ch)
    BY <1>3 DEF GetReport
  <2>2. q = p
    BY <2>1, EditedFails DEF ProviderIInv
  <2>3. remembered' = RememberChallenge(found) /\ UNCHANGED <<now, claimed, held, life>>
    BY <1>3 DEF GetReport
  <2>4. DeliveryIsBound' /\ KnownUntilRestart'
    BY <1>1, <2>1, <2>2, <2>3, Delivering
  <2>5. remembered' \subseteq Challenge /\ Explained' /\ \A h : Known(h) # {} => Known(h)' # {}
    BY <1>1, <2>3, Remembering DEF ProviderIInv
  <2> QED BY <2>3, <2>4, <2>5 DEF ProviderIInv, Typed, Kept
<1>4. CASE good = {}
  <2> DEFINE stored == {live} \cup {ch \in found : ch.hash # live.hash}
  <2>1. /\ Refuse(q, found) /\ HandOut(live) /\ remembered' = RememberChallenge(stored)
        /\ UNCHANGED <<now, claimed, life>>
    BY <1>4 DEF GetReport
  <2>2. /\ stored \in SUBSET Challenge /\ live \in stored
        /\ \A ch \in stored : ch = AsIssued(ch.hash) \/ ch.hash \in claimed'
    BY <1>1, <1>2, <2>1
  <2> HIDE DEF stored, live
  <2>3. claimed \subseteq claimed'
    BY <2>1
  <2>4. /\ remembered' \subseteq Challenge /\ Explained' /\ (\A h : Known(h) # {} => Known(h)' # {})
        /\ (\A ch \in stored : Known(ch.hash)' # {})
    BY <2>1, <2>2, <2>3, Remembering DEF ProviderIInv
  <2>5. Known(live.hash)' # {}
    <3>1. live' = live
      BY <2>1 DEF live, Issue
    <3> QED BY <2>2, <2>4, <3>1
  <2>6. Typed' /\ Kept'
    BY <2>1, <2>4, <2>5, HandingOut, ProviderAssumption DEF ProviderIInv, live
  <2>7. DeliveryIsBound' /\ KnownUntilRestart'
    BY <1>1, <2>1, Refusing
  <2> QED BY <2>4, <2>6, <2>7 DEF ProviderIInv
<1> QED BY <1>3, <1>4

(* The challenges a client may send along are challenges.                  *)
LEMMA BodyType ==
  ASSUME Typed, ProviderAssumption, NEW p \in held, NEW body \in Bodies(p)
  PROVE  body \subseteq Challenge
<1>1. \A q \in held : q.of \in Hash
  BY DEF Typed, Proof
<1>2. RawBodies(p) \subseteq Challenge
  <2>1. [p.of EXCEPT !.kind = "substituted"] \in Hash
    BY <1>1 DEF Hash
  <2> QED BY <1>1, <2>1, AsIssuedType DEF RawBodies
<1>3. ASSUME NEW q \in held
      PROVE  /\ [AsIssued(q.of) EXCEPT !.resource = "other"] \in Challenge
             /\ [AsIssued(q.of) EXCEPT !.amount = 2] \in Challenge
             /\ [AsIssued(q.of) EXCEPT !.expires = MaxTime + Ttl] \in Challenge
  <2>1. AsIssued(q.of) \in Challenge
    BY <1>1, AsIssuedType
  <2>2. MaxTime + Ttl \in 0..MaxTime + Ttl
    BY ProviderAssumption
  <2> QED BY <2>1, <2>2 DEF Challenge
<1>4. OwnBodies \subseteq Challenge
  <2> SUFFICES ASSUME NEW ch \in OwnBodies PROVE ch \in Challenge
    OBVIOUS
  <2> DEFINE own(q) == {[AsIssued(q.of) EXCEPT !.resource = "other"], [AsIssued(q.of) EXCEPT !.amount = 2],
                        [AsIssued(q.of) EXCEPT !.expires = MaxTime + Ttl]}
  <2>1. ch \in UNION {own(q) : q \in held}
    BY DEF OwnBodies
  <2>2. \A q \in held : own(q) \subseteq Challenge
    BY <1>3
  <2> HIDE DEF own
  <2> QED BY <2>1, <2>2
<1> QED BY <1>2, <1>4 DEF Bodies

LEMMA VerifyStep ==
  ASSUME ProviderIInv, NEW p \in held, NEW q \in {p, Edited(p)}, NEW body \in Bodies(p),
         Verify(q, body)
  PROVE  ProviderIInv'
<1> DEFINE found == ResolveWithBody(q, body)
           good == {ch \in found : Verifies(q, ch)}
<1>1. /\ remembered' = RememberChallenge(found) /\ UNCHANGED <<now, held, life>>
      /\ claimed' = claimed \cup {ch.hash : ch \in {own \in body : own # AsIssued(own.hash)}}
  BY DEF Verify
<1>2. /\ found \in SUBSET Challenge /\ (found = {} => Known(p.of) = {})
      /\ \A ch \in found : ch = AsIssued(ch.hash) \/ ch.hash \in claimed'
  <2>1. body \subseteq Challenge
    BY BodyType, ProviderAssumption DEF ProviderIInv
  <2>2. \A ch \in body : ch = AsIssued(ch.hash) \/ ch.hash \in claimed'
    BY <1>1
  <2>3. /\ Resolve(q) \subseteq Challenge /\ (Resolve(q) = {} => Known(p.of) = {})
        /\ \A ch \in Resolve(q) : ch = AsIssued(ch.hash) \/ ch.hash \in claimed
    BY ResolveType, ProviderAssumption DEF ProviderIInv
  <2> QED BY <1>1, <2>1, <2>2, <2>3 DEF ResolveWithBody
<1>3. claimed \subseteq claimed'
  BY <1>1
<1> HIDE DEF found
<1>4. remembered' \subseteq Challenge /\ Explained' /\ \A h : Known(h) # {} => Known(h)' # {}
  BY <1>1, <1>2, <1>3, Remembering DEF ProviderIInv
<1>5. Typed' /\ Kept'
  BY <1>1, <1>4 DEF ProviderIInv, Typed, Kept
<1>6. DeliveryIsBound' /\ KnownUntilRestart'
  <2>1. CASE good # {}
    <3>1. PICK ch \in good : Deliver(q, ch)
      BY <2>1 DEF Verify, found
    <3>2. q = p
      BY <3>1, EditedFails DEF ProviderIInv
    <3> QED BY <1>1, <1>2, <3>1, <3>2, Delivering
  <2>2. CASE good = {}
    <3>1. Refuse(q, found)
      BY <2>2 DEF Verify, found
    <3> QED BY <1>1, <1>2, <3>1, Refusing
  <2> QED BY <2>1, <2>2
<1> QED BY <1>4, <1>5, <1>6 DEF ProviderIInv

(* The two routes that hand out a challenge they remember.                 *)
LEMMA IssueStep ==
  ASSUME ProviderIInv, NEW kind \in Issued, remembered' = RememberChallenge({Issue(kind)}),
         HandOut(Issue(kind)), UNCHANGED <<now, claimed, life, last>>
  PROVE  ProviderIInv'
<1>1. Issue(kind) \in Challenge /\ Issue(kind) = AsIssued(Issue(kind).hash)
  BY IssueType, ProviderAssumption DEF ProviderIInv, Issued
<1>2. /\ {Issue(kind)} \in SUBSET Challenge /\ claimed \subseteq claimed'
      /\ \A ch \in {Issue(kind)} : ch = AsIssued(ch.hash) \/ ch.hash \in claimed'
  BY <1>1
<1>3. /\ remembered' \subseteq Challenge /\ Explained' /\ (\A h : Known(h) # {} => Known(h)' # {})
      /\ (\A ch \in {Issue(kind)} : Known(ch.hash)' # {})
  BY <1>2, Remembering DEF ProviderIInv
<1>4. Known(Issue(kind).hash)' # {}
  <2>1. Issue(kind)' = Issue(kind)
    BY DEF Issue
  <2> QED BY <1>3, <2>1
<1>5. Typed' /\ Kept' /\ held \subseteq held'
  BY <1>3, <1>4, HandingOut, ProviderAssumption DEF ProviderIInv, Issued
<1> QED BY <1>2, <1>3, <1>5, Silence DEF ProviderIInv

LEMMA ProviderInductive == ProviderIInv /\ [ProviderNext]_providerVars => ProviderIInv'
<1> SUFFICES ASSUME ProviderIInv, [ProviderNext]_providerVars PROVE ProviderIInv'
  OBVIOUS
<1>1. CASE GetDebugChallenge
  BY <1>1, IssueStep DEF GetDebugChallenge, Issued
<1>2. CASE GetFixture
  <2>1. remembered' = remembered /\ claimed' = claimed /\ \A h : Known(h)' = Known(h)
    BY <1>2 DEF GetFixture, Known
  <2>2. Typed' /\ Kept' /\ held \subseteq held'
    BY <1>2, <2>1, HandingOut, ProviderAssumption DEF GetFixture, ProviderIInv, Issued, Typed
  <2> QED BY <1>2, <2>1, <2>2, Silence DEF GetFixture, ProviderIInv, Explained
<1>3. CASE AskForReport
  BY <1>3, IssueStep DEF AskForReport, Issued
<1>4. CASE Restart
  <2>1. last' \notin Delivered /\ last' \notin Refused
    BY <1>4 DEF Restart, Nothing, Delivered, Refused
  <2>2. Typed' /\ Kept' /\ Explained'
    BY <1>4, ProviderAssumption DEF Restart, ProviderIInv, Typed, Kept, Proof, Explained
  <2> QED BY <2>1, <2>2 DEF ProviderIInv, DeliveryIsBound, KnownUntilRestart
<1>5. CASE Tick
  <2>1. last' \notin Delivered /\ last' \notin Refused
    BY <1>5 DEF Tick, Nothing, Delivered, Refused
  <2>2. Typed' /\ Kept' /\ Explained'
    BY <1>5, ProviderAssumption DEF Tick, ProviderIInv, Typed, Kept, Known, Explained
  <2> QED BY <2>1, <2>2 DEF ProviderIInv, DeliveryIsBound, KnownUntilRestart
<1>6. ASSUME NEW p \in held, GetReport(p) \/ GetReport(Edited(p)) PROVE ProviderIInv'
  BY <1>6, GetReportStep
<1>7. ASSUME NEW p \in held, VerifyUnreadable(p) PROVE ProviderIInv'
  <2>1. last'.status = "unreadable" /\ UNCHANGED <<now, remembered, claimed, held, life>>
    BY <1>7 DEF VerifyUnreadable
  <2>2. last' \notin Delivered
    BY <2>1 DEF Delivered
  <2> QED BY <2>1, <2>2
          DEF ProviderIInv, Typed, Kept, Known, Explained, DeliveryIsBound, KnownUntilRestart
<1>8. ASSUME NEW p \in held, NEW body \in Bodies(p), Verify(p, body) \/ Verify(Edited(p), body)
      PROVE  ProviderIInv'
  BY <1>8, VerifyStep
<1>9. CASE UNCHANGED providerVars
  BY <1>9 DEF providerVars, ProviderIInv, Typed, Kept, Known, Explained,
              DeliveryIsBound, KnownUntilRestart, Delivered, Refused
<1> QED
  BY <1>1, <1>2, <1>3, <1>4, <1>5, <1>6, <1>7, <1>8, <1>9 DEF ProviderNext

LEMMA ProviderInvariant == ProviderSpec => []ProviderIInv
<1>1. ProviderInit => ProviderIInv
  BY ProviderAssumption
  DEF ProviderInit, ProviderIInv, Typed, Kept, Explained, DeliveryIsBound, KnownUntilRestart,
      Nothing, Delivered, Refused
<1> QED BY <1>1, ProviderInductive, PTL DEF ProviderSpec

-----------------------------------------------------------------------------
(* Whatever a client sends along with a proof, and whatever it made the    *)
(* provider remember before, a delivery is against a challenge of the      *)
(* proof's hash and of the amount issued under it, unexpired by its own    *)
(* account; and one with another resource or expiry than was issued is of  *)
(* a hash for which a client sent its own terms in this life.              *)
THEOREM DeliveriesAreBound == ProviderSpec => []DeliveryIsBound
<1>1. ProviderIInv => DeliveryIsBound
  BY DEF ProviderIInv
<1> QED BY <1>1, ProviderInvariant, PTL

(* Only a restart makes the provider forget a challenge it issued.         *)
THEOREM NothingForgotten == ProviderSpec => []KnownUntilRestart
<1>1. ProviderIInv => KnownUntilRestart
  BY DEF ProviderIInv
<1> QED BY <1>1, ProviderInvariant, PTL
==============================================================================
