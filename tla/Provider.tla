------------------------------- MODULE Provider -------------------------------
(***************************************************************************)
(* The x402 provider (services/provider-x402/src): challenges issued and   *)
(* remembered in memory, proofs verified against them, reports and         *)
(* receipts.  One request is one step: a handler only awaits the body it   *)
(* reads first.                                                            *)
(*                                                                         *)
(* The config and the request's host and path are fixed, so that the hash  *)
(* of a challenge that was issued is its kind and the instant of issue.  A *)
(* client may send a normalised challenge of its own, which says of itself *)
(* what its hash is.                                                       *)
(***************************************************************************)
EXTENDS Naturals, FiniteSets

CONSTANTS
  Ttl,          \* challengeTtlMs
  MaxTime,      \* bound: the clock
  MaxHeld,      \* bound: proofs the agent keeps
  MaxRestarts   \* bound: restarts

ASSUME ProviderAssumption ==
  Ttl \in Nat /\ MaxTime \in Nat /\ MaxHeld \in Nat \ {0} /\ MaxRestarts \in Nat

VARIABLES
  now,        \* the clock, in a unit within which two requests may fall
  remembered, \* issuedChallenges, one for a hash
  claimed,    \* hashes a client sent terms of its own for, in this life (history)
  held,       \* proofs the agent was handed, with the life they come from (history)
  life,       \* restarts so far
  last        \* the last response (history)

providerVars == <<now, remembered, claimed, held, life, last>>

(* What /paid/report issues, createDebugChallenge and the two challenges   *)
(* of the substitution fixture, as the hash of the raw challenge tells     *)
(* them apart.                                                             *)
Hash == [kind : {"live", "debug", "original", "substituted"}, at : 0..MaxTime]

(* A normalised challenge.                                                 *)
Challenge == [hash : Hash, resource : {"report", "other"}, amount : 1..2, expires : 0..MaxTime + Ttl]

(* createProviderChallenge, normalizeX402Challenge: the one that belongs   *)
(* to a raw challenge.                                                     *)
AsIssued(h) ==
  [hash |-> h, resource |-> IF h.kind = "substituted" THEN "other" ELSE "report",
   amount |-> IF h.kind = "substituted" THEN 2 ELSE 1, expires |-> h.at + Ttl]
Issue(kind) == AsIssued([kind |-> kind, at |-> now])

(* createDebugPaymentProof, and such a proof after someone edited it.      *)
Proof == [of : Hash, amount : 1..2, genuine : BOOLEAN, life : 0..MaxRestarts]
ProofOf(ch) == [of |-> ch.hash, amount |-> ch.amount, genuine |-> TRUE, life |-> life]
Edited(p) == [p EXCEPT !.genuine = FALSE]

Nothing == [status |-> "none"]
Delivered == [status : {"delivered"}, proof : Proof, challenge : Challenge, at : 0..MaxTime]
Refused == [status : {"unknown", "failed", "unreadable"}, proof : Proof]

ProviderInit ==
  /\ now = 0 /\ life = 0 /\ remembered = {}
  /\ claimed = {} /\ held = {} /\ last = Nothing

-----------------------------------------------------------------------------
(* The agent keeps the proof that comes with a challenge                   *)
(* (fallbackDebugPaymentHeader), up to the bound.                          *)
HandOut(ch) == held' = IF Cardinality(held) < MaxHeld THEN held \cup {ProofOf(ch)} ELSE held

(* rememberChallenge: under its hash, instead of the one that is there.    *)
Known(h) == {ch \in remembered : ch.hash = h}
RememberChallenge(challenges) ==
  {ch \in remembered : \A new \in challenges : new.hash # ch.hash} \cup challenges

(* verifyPaymentProof: every failure is looked for, any refuses.  The      *)
(* faulty form does not compare the hashes.                                *)
Verifies_AnyChallenge(p, ch) ==
  p.genuine /\ p.amount = ch.amount /\ now <= ch.expires
Verifies(p, ch) ==
  p.genuine /\ p.of = ch.hash /\ p.amount = ch.amount /\ now <= ch.expires

(* resolveChallengeForProof: the challenge of that hash; else a debug      *)
(* challenge derived anew, issued at this instant.  The empty set when     *)
(* there is none.  The faulty form only knows what it remembers of debug   *)
(* challenges.                                                             *)
Derived(p) == {ch \in {Issue("debug")} : ch.hash = p.of}
Resolve_LiveForgotten(p) ==
  IF Known(p.of) # {} /\ p.of.kind # "live" THEN Known(p.of) ELSE Derived(p)
Resolve(p) == IF Known(p.of) # {} THEN Known(p.of) ELSE Derived(p)

(* resolveChallengeForVerification: the body's challenge comes first and   *)
(* is remembered like one that was issued.                                 *)
ResolveWithBody(p, body) == IF body # {} THEN body ELSE Resolve(p)

(* createPaidReport, createServiceReceipt, createSignedProviderQuote. *)
Deliver(p, ch) ==
  last' = [status |-> "delivered", proof |-> p, challenge |-> ch, at |-> now]

Refuse(p, found) ==
  last' = [status |-> IF found = {} THEN "unknown" ELSE "failed", proof |-> p]

-----------------------------------------------------------------------------
(* GET /debug/challenge.                                                   *)
GetDebugChallenge ==
  /\ remembered' = RememberChallenge({Issue("debug")})
  /\ HandOut(Issue("debug"))
  /\ UNCHANGED <<now, claimed, life, last>>

(* GET /attack-fixtures/substitution: nothing is remembered.               *)
GetFixture ==
  /\ HandOut(Issue("original"))
  /\ UNCHANGED <<now, remembered, claimed, life, last>>

(* GET /paid/report without a readable proof: 402 and a new challenge.     *)
AskForReport ==
  /\ remembered' = RememberChallenge({Issue("live")})
  /\ HandOut(Issue("live"))
  /\ UNCHANGED <<now, claimed, life, last>>

(* GET /paid/report with a proof: the report, or 402 and a new challenge,  *)
(* which replaces what is remembered under its hash.                       *)
GetReport(p) ==
  LET found == Resolve(p)
      good == {ch \in found : Verifies(p, ch)}
  IN  IF good # {}
      THEN /\ \E ch \in good : Deliver(p, ch)
           /\ remembered' = RememberChallenge(found)
           /\ UNCHANGED <<now, claimed, held, life>>
      ELSE /\ Refuse(p, found)
           /\ remembered' = RememberChallenge({Issue("live")} \cup {ch \in found : ch.hash # Issue("live").hash})
           /\ HandOut(Issue("live"))
           /\ UNCHANGED <<now, claimed, life>>

(* POST /verify-payment, /debug/verify and /gateway/payment; body is the   *)
(* challenge the client sends along, if any.                               *)
Verify(p, body) ==
  LET found == ResolveWithBody(p, body)
      good == {ch \in found : Verifies(p, ch)}
  IN  /\ remembered' = RememberChallenge(found)
      /\ claimed' = claimed \cup {ch.hash : ch \in {own \in body : own # AsIssued(own.hash)}}
      /\ IF good # {} THEN \E ch \in good : Deliver(p, ch) ELSE Refuse(p, found)
      /\ UNCHANGED <<now, held, life>>

(* The same routes with a payment header that does not decode.             *)
VerifyUnreadable(p) ==
  /\ last' = [status |-> "unreadable", proof |-> Edited(p)]
  /\ UNCHANGED <<now, remembered, claimed, held, life>>

(* A new process: createProviderState starts empty.                        *)
Restart ==
  /\ life < MaxRestarts
  /\ life' = life + 1
  /\ remembered' = {} /\ claimed' = {} /\ last' = Nothing
  /\ UNCHANGED <<now, held>>

Tick ==
  /\ now < MaxTime
  /\ now' = now + 1 /\ last' = Nothing
  /\ UNCHANGED <<remembered, claimed, held, life>>

(* A raw challenge is hashed and normalised anew: one that the client was  *)
(* handed, or the fixture's substituted one.                               *)
RawBodies(p) == {AsIssued(q.of) : q \in held} \cup {AsIssued([p.of EXCEPT !.kind = "substituted"])}

(* A normalised one is taken as it comes: the client names the hash of a   *)
(* challenge it was handed, and changes one of its terms as it likes.      *)
OwnBodies ==
  UNION {{[AsIssued(q.of) EXCEPT !.resource = "other"], [AsIssued(q.of) EXCEPT !.amount = 2],
          [AsIssued(q.of) EXCEPT !.expires = MaxTime + Ttl]} : q \in held}

Bodies(p) == {{}} \cup {{ch} : ch \in RawBodies(p) \cup OwnBodies}

ProviderNext ==
  \/ GetDebugChallenge \/ GetFixture \/ AskForReport \/ Restart \/ Tick
  \/ \E p \in held : \/ GetReport(p) \/ GetReport(Edited(p)) \/ VerifyUnreadable(p)
                     \/ \E body \in Bodies(p) : Verify(p, body) \/ Verify(Edited(p), body)

ProviderSpec == ProviderInit /\ [][ProviderNext]_providerVars

-----------------------------------------------------------------------------
(* Properties                                                              *)

(* "binds verification to the issued challenge hash", "returns a delivered *)
(* receipt only after verifying the payment proof against the issued       *)
(* challenge" (test/provider.test.mjs:43, 101).  Whichever route and body, *)
(* a delivery is against a challenge, not expired by its own account, of   *)
(* the hash the proof was made for and of the amount that was issued under *)
(* it.  It is the issued challenge itself, unless since the provider       *)
(* started a client sent terms of its own under that hash, as the code     *)
(* lets it: then resource and expiry are the client's.                     *)
DeliveryIsBound ==
  last \in Delivered =>
    LET ch == last.challenge
        h == last.proof.of
    IN  /\ last.proof.genuine /\ last.proof \in held
        /\ ch.hash = h /\ ch.amount = AsIssued(h).amount
        /\ last.at <= ch.expires
        /\ ch = AsIssued(h) \/ h \in claimed

(* A proof handed out in this life by a route that issues a challenge is   *)
(* never answered "unknown challenge": the memory loses nothing but at a   *)
(* restart.                                                                *)
KnownUntilRestart ==
  last \in Refused /\ last.status = "unknown" /\ last.proof.of.kind \in {"live", "debug"}
    => last.proof.life < life

=============================================================================
