----------------------------- MODULE LiveExecutor -----------------------------
(***************************************************************************)
(* One payment through the CAW adapter and its live executor               *)
(* (services/runtime/src/caw-adapter.mjs, caw-live-executor.mjs): what is  *)
(* refused before the wallet is called, the answer cache by request id,    *)
(* the submission, the polling for evidence, and the answer the guard      *)
(* pipeline settles the budget by.                                         *)
(*                                                                         *)
(* The wallet is the environment.  It may take a request and lose the      *)
(* reply, take it after the caller gave up, ask its owner, settle late or  *)
(* fail.  A call stands for one call of the adapter; its own submission at *)
(* the wallet has the call's name.                                         *)
(***************************************************************************)
EXTENDS Naturals, FiniteSets

CONSTANTS
  Calls,        \* calls of the adapter
  Requests,     \* request ids
  RequestOf,    \* the request id of a call
  MaxPolls,     \* bound: polls before the deadline
  None          \* no answer

VARIABLES
  verified,    \* every live capability is verified in the adapter's report
  configured,  \* the executor was created with its environment complete
  pc,          \* where a call stands
  answer,      \* the answer of a call
  cache,       \* the executor's answers by request id
  reply,       \* the wallet's reply: status, and whether it named a transaction
  record,      \* the wallet's record as last read by a call
  polls,       \* polls of a call so far
  wallet       \* what became of a call's submission at the wallet

known == <<verified, configured>>
call == <<pc, answer, reply, record, polls>>
vars == <<known, call, cache, wallet>>

Decisions == {"allow", "block", "require_approval", "fallback_required"}
AdapterCauses == {"context", "expired", "capability"}
ExecutorCauses == {"prerequisite", "environment", "unsupported", "arguments", "policy",
                   "transport", "approval", "failed", "unconfirmed", "evidence", "paid"}

(* Causes for which the caller cannot know what the wallet will do.        *)
Uncertain == {"approval", "transport", "unconfirmed", "evidence"}

(* An answer with the call that produced it, which a cached one keeps.     *)
Answer == [decision : Decisions, cause : AdapterCauses \cup ExecutorCauses, by : Calls]
ASSUME ExecutorAssumption ==
  /\ RequestOf \in [Calls -> Requests]
  /\ MaxPolls \in Nat \ {0}
  /\ None \notin Answer

Seen == {"none", "processing", "paid", "failed"}
Wallet == {"none", "sent", "refused", "waiting", "processing", "paid", "failed"}

TypeOK ==
  /\ verified \in BOOLEAN /\ configured \in BOOLEAN
  /\ pc \in [Calls -> {"idle", "loading", "submitting", "record", "audit", "answered", "threw"}]
  /\ answer \in [Calls -> Answer \cup {None}]
  /\ cache \in [Requests -> Answer \cup {None}]
  /\ reply \in [Calls -> [status : Seen, id : BOOLEAN]]
  /\ record \in [Calls -> Seen]
  /\ polls \in [Calls -> 0..MaxPolls]
  /\ wallet \in [Calls -> Wallet]

Init ==
  /\ verified \in BOOLEAN /\ configured \in BOOLEAN
  /\ pc = [c \in Calls |-> "idle"]
  /\ answer = [c \in Calls |-> None]
  /\ cache = [r \in Requests |-> None]
  /\ reply = [c \in Calls |-> [status |-> "none", id |-> FALSE]]
  /\ record = [c \in Calls |-> "none"]
  /\ polls = [c \in Calls |-> 0]
  /\ wallet = [c \in Calls |-> "none"]

-----------------------------------------------------------------------------
(* createBlockedExecution and createBlockedCawResult: what each refusal    *)
(* decides.                                                                *)
Decision(cause) ==
  CASE cause = "paid" -> "allow"
    [] cause = "approval" -> "require_approval"
    [] cause \in {"capability", "unsupported", "unconfirmed", "evidence"} -> "fallback_required"
    [] OTHER -> "block"

Answered(c, cause) == [decision |-> Decision(cause), cause |-> cause, by |-> c]

Return(c, a) ==
  /\ pc' = [pc EXCEPT ![c] = "answered"]
  /\ answer' = [answer EXCEPT ![c] = a]
  /\ UNCHANGED <<known, reply, record, polls>>

(* An answer of the executor that later calls of its request id get too.   *)
Remember(c, cause) ==
  /\ Return(c, Answered(c, cause))
  /\ cache' = [cache EXCEPT ![RequestOf[c]] = Answered(c, cause)]

(* createExecutorBlockedCawResult: any refusal of the executor that does   *)
(* not wait for the owner becomes a block.                                 *)
AdapterDecision(a) ==
  IF a.cause \in ExecutorCauses /\ a.decision = "fallback_required" THEN "block" ELSE a.decision

(* runGuardPipeline after the adapter: every answer but an allow gives the *)
(* reserved budget back.                                                   *)
Released(c) == pc[c] = "answered" /\ AdapterDecision(answer[c]) # "allow"
Allowed(c) == pc[c] = "answered" /\ AdapterDecision(answer[c]) = "allow"

-----------------------------------------------------------------------------
(* A caller starts a call, while others of its request id may be under     *)
(* way: nothing in the adapter or the executor makes it wait.              *)
MayStart(c) == pc[c] = "idle"

(* executePaymentIntent: refusals of the adapter before its executor.      *)
AdapterRefuses(c) ==
  /\ MayStart(c)
  /\ \/ \E cause \in {"context", "expired"} : Return(c, Answered(c, cause))
     \/ ~verified /\ Return(c, Answered(c, "capability"))
  /\ UNCHANGED <<cache, wallet>>

(* createPrerequisiteExecutor, validatePaymentContextAgainstEnv: refused   *)
(* without being remembered.                                               *)
ExecutorRefuses(c) ==
  /\ MayStart(c) /\ verified
  /\ Return(c, Answered(c, IF configured THEN "environment" ELSE "prerequisite"))
  /\ UNCHANGED <<cache, wallet>>

ReturnCached(c) ==
  /\ MayStart(c) /\ verified /\ configured
  /\ cache[RequestOf[c]] # None
  /\ Return(c, cache[RequestOf[c]])
  /\ UNCHANGED <<cache, wallet>>

(* Only transfer and contract_call are wired to the wallet.                *)
RefuseOperation(c) ==
  /\ MayStart(c) /\ verified /\ configured
  /\ cache[RequestOf[c]] = None
  /\ Remember(c, "unsupported")
  /\ UNCHANGED wallet

Begin(c) ==
  /\ MayStart(c) /\ verified /\ configured
  /\ cache[RequestOf[c]] = None
  /\ pc' = [pc EXCEPT ![c] = "loading"]
  /\ UNCHANGED <<known, answer, reply, record, polls, cache, wallet>>

(* The import of the SDK fails: the error leaves the executor.             *)
LoaderThrows(c) ==
  /\ pc[c] = "loading"
  /\ pc' = [pc EXCEPT ![c] = "threw"]
  /\ UNCHANGED <<known, answer, reply, record, polls, cache, wallet>>

(* submitContractCall, createLocalRejectedResponse, toCawDecimalAmount:    *)
(* arguments refused where they are built, caught as a denial.             *)
RejectArguments(c) ==
  /\ pc[c] = "loading"
  /\ Remember(c, "arguments")
  /\ UNCHANGED wallet

Submit(c) ==
  /\ pc[c] = "loading"
  /\ pc' = [pc EXCEPT ![c] = "submitting"]
  /\ wallet' = [wallet EXCEPT ![c] = "sent"]
  /\ UNCHANGED <<known, answer, reply, record, polls, cache>>

(* createDeniedExecution: the wallet's policy answers with an error; one   *)
(* whose wording mentions "pending" is taken for a pending approval.       *)
ReplyRefused(c) ==
  /\ pc[c] = "submitting" /\ wallet[c] = "refused"
  /\ \E cause \in {"policy", "approval"} : Remember(c, cause)
  /\ UNCHANGED wallet

(* createDeniedExecution again: an error instead of a reply, whatever the  *)
(* wallet did or will still do.  The faulty form does not remember it.     *)
ReplyLost_NotCached(c) ==
  /\ pc[c] = "submitting"
  /\ \E cause \in {"transport", "approval"} : Return(c, Answered(c, cause))
  /\ UNCHANGED <<cache, wallet>>
ReplyLost(c) ==
  /\ pc[c] = "submitting"
  /\ \E cause \in {"transport", "approval"} : Remember(c, cause)
  /\ UNCHANGED wallet

(* isPendingApproval, or an error whose result is pending.                 *)
ReplyPending(c) ==
  /\ pc[c] = "submitting" /\ wallet[c] = "waiting"
  /\ Remember(c, "approval")
  /\ UNCHANGED wallet

(* The status of a submission as a reply or a record tells it: a rejected  *)
(* one reads as failed, one that waits as under way (FAILED_STATUSES,       *)
(* SUCCESS_STATUSES).                                                      *)
Status(c) ==
  CASE wallet[c] \in {"refused", "failed"} -> "failed"
    [] wallet[c] = "paid" -> "paid"
    [] OTHER -> "processing"

(* The wallet took the request; its reply may or may not name a            *)
(* transaction.  The faulty form does not look for a pending approval.     *)
ReplyTaken_PendingToo(c) ==
  /\ pc[c] = "submitting" /\ wallet[c] \in {"waiting", "processing", "paid", "failed"}
  /\ pc' = [pc EXCEPT ![c] = "record"]
  /\ \E id \in BOOLEAN :
       reply' = [reply EXCEPT ![c] = [status |-> Status(c), id |-> id]]
  /\ UNCHANGED <<known, answer, record, polls, cache, wallet>>
ReplyTaken(c) ==
  /\ pc[c] = "submitting" /\ wallet[c] \in {"processing", "paid", "failed"}
  /\ pc' = [pc EXCEPT ![c] = "record"]
  /\ \E id \in BOOLEAN :
       reply' = [reply EXCEPT ![c] = [status |-> Status(c), id |-> id]]
  /\ UNCHANGED <<known, answer, record, polls, cache, wallet>>

(* The submissions the wallet may have a record of under a request id.     *)
RecordedUnder(r) == {d \in Calls : RequestOf[d] = r /\ wallet[d] \notin {"none", "sent"}}

(* lookupTransactionByRequestId: a record of the request id as it is now,  *)
(* whichever of the id's submissions it is of, or an error that reads as   *)
(* none.                                                                   *)
LookUpRecord(c) ==
  /\ pc[c] = "record"
  /\ pc' = [pc EXCEPT ![c] = "audit"]
  /\ \E r \in {"none"} \cup {Status(d) : d \in RecordedUnder(RequestOf[c])} :
       record' = [record EXCEPT ![c] = r]
  /\ polls' = [polls EXCEPT ![c] = @ + 1]
  /\ UNCHANGED <<known, answer, reply, cache, wallet>>

(* normalizeSuccessfulTransaction: the record last read, else the reply,   *)
(* gives the status; audit tells whether an audit log was found, src and   *)
(* id whether the record names the wallet and the transaction.  The faulty *)
(* form takes a transaction under way for a failed one.                    *)
Outcome_ProcessingFails(c, audit, src, id) ==
  LET found == record[c] # "none"
      status == IF found THEN record[c] ELSE reply[c].status
      named == reply[c].id \/ (found /\ id)
  IN  IF status \in {"failed", "processing"} THEN "failed"
      ELSE IF status # "paid" /\ ~named THEN "unconfirmed"
      ELSE IF ~(found /\ src /\ named /\ audit) THEN "evidence"
      ELSE "paid"
Outcome(c, audit, src, id) ==
  LET found == record[c] # "none"
      status == IF found THEN record[c] ELSE reply[c].status
      named == reply[c].id \/ (found /\ id)
  IN  IF status = "failed" THEN "failed"
      ELSE IF status # "paid" /\ ~named THEN "unconfirmed"
      ELSE IF ~(found /\ src /\ named /\ audit) THEN "evidence"
      ELSE "paid"

(* lookupAuditLogByRequestId ends a poll of settleTransferEvidence: both   *)
(* found, or the deadline passed, or another poll.  The faulty forms   *)
(* have no deadline, or poll once more after it.                           *)
LookUpAudit_NoDeadline(c) ==
  /\ pc[c] = "audit"
  /\ \E audit, src, id \in BOOLEAN :
       IF record[c] # "none" /\ audit
       THEN Remember(c, Outcome(c, audit, src, id))
       ELSE /\ pc' = [pc EXCEPT ![c] = "record"]
            /\ polls' = [polls EXCEPT ![c] = 0]
            /\ UNCHANGED <<known, answer, reply, record, cache>>
  /\ UNCHANGED wallet
LookUpAudit_OnePollMore(c) ==
  /\ pc[c] = "audit"
  /\ \E audit, src, id \in BOOLEAN :
       \/ Remember(c, Outcome(c, audit, src, id))
       \/ /\ ~(record[c] # "none" /\ audit) /\ polls[c] <= MaxPolls
          /\ pc' = [pc EXCEPT ![c] = "record"]
          /\ UNCHANGED <<known, answer, reply, record, polls, cache>>
  /\ UNCHANGED wallet
LookUpAudit(c) ==
  /\ pc[c] = "audit"
  /\ \E audit, src, id \in BOOLEAN :
       \/ Remember(c, Outcome(c, audit, src, id))
       \/ /\ ~(record[c] # "none" /\ audit) /\ polls[c] < MaxPolls
          /\ pc' = [pc EXCEPT ![c] = "record"]
          /\ UNCHANGED <<known, answer, reply, record, polls, cache>>
  /\ UNCHANGED wallet

-----------------------------------------------------------------------------
(* The wallet and its owner, at their own time.                            *)
Moves == {<<"sent", "refused">>, <<"sent", "waiting">>, <<"sent", "processing">>,
          <<"waiting", "processing">>, <<"waiting", "failed">>,
          <<"processing", "paid">>, <<"processing", "failed">>}

WalletMoves(c) ==
  /\ \E to \in Wallet : <<wallet[c], to>> \in Moves /\ wallet' = [wallet EXCEPT ![c] = to]
  /\ UNCHANGED <<known, call, cache>>

Start(c) == AdapterRefuses(c) \/ ExecutorRefuses(c) \/ ReturnCached(c) \/ RefuseOperation(c) \/ Begin(c)
Reply(c) == ReplyRefused(c) \/ ReplyLost(c) \/ ReplyPending(c) \/ ReplyTaken(c)
Step(c) ==
  \/ LoaderThrows(c) \/ RejectArguments(c) \/ Submit(c)
  \/ Reply(c) \/ LookUpRecord(c) \/ LookUpAudit(c)

Next == \E c \in Calls : Start(c) \/ Step(c) \/ WalletMoves(c)

(* Node resumes a call whose promise has settled, and every request to the *)
(* wallet gets a reply or an error.                                        *)
Fairness == \A c \in Calls : WF_vars(Step(c))

Spec == Init /\ [][Next]_vars /\ Fairness

-----------------------------------------------------------------------------
(* Properties                                                              *)

(* Money and budget: a budget given back for any cause but the four that   *)
(* leave the wallet's doing open (owner asked, reply lost, no confirmation,*)
(* no evidence) belongs to a submission that never moves money.  A failure *)
(* is read from the record of the request id: where two calls of one id    *)
(* overlapped it may be the other's that came to nothing, and only then    *)
(* may the budget of a payment be given back for good.                     *)
RefusalIsFinal ==
  \A c \in Calls : Released(c) /\ answer[c].cause \notin Uncertain =>
    LET by == answer[c].by IN
    \/ wallet[by] \in {"none", "refused", "failed"}
    \/ /\ answer[c].cause = "failed"
       /\ \E d \in Calls : RequestOf[d] = RequestOf[by] /\ wallet[d] \in {"refused", "failed"}

(* A payment is counted as made only when the wallet took it without       *)
(* waiting for its owner, by a submission of this very request id.         *)
AllowIsTaken ==
  \A c \in Calls : Allowed(c) =>
    /\ wallet[answer[c].by] \in {"processing", "paid", "failed"}
    /\ RequestOf[answer[c].by] = RequestOf[c]

(* "reuses the stable request_id result for idempotency": whatever was     *)
(* refused, lost or thrown, a request id of which a call came back from    *)
(* the wallet does not go there again, unless from a call that was already *)
(* under way by then.                                                      *)
NoSecondSubmission ==
  [][\A c, d \in Calls :
       RequestOf[c] = RequestOf[d] /\ pc[d] = "answered" /\ wallet[d] # "none" =>
         ~(pc[c] = "idle" /\ pc'[c] = "loading")]_vars

(* Every call returns or throws: polling ends at its deadline.             *)
CallsReturn ==
  \A c \in Calls : pc[c] = "loading" ~> pc[c] \in {"answered", "threw"}
=============================================================================
