------------------------------ MODULE MCScreening ------------------------------
(***************************************************************************)
(* ScreeningChecks over requests that differ from a clean one in up to two *)
(* fields.                                                                 *)
(***************************************************************************)
EXTENDS ScreeningChecks

(* A request for each kind of payment; the runs screen it with up to two   *)
(* fields different.                                                       *)
Profiles ==
  {Base,
   [Base EXCEPT !.operation = "contract_call"],
   [Base EXCEPT !.operation = "contract_call", !.service = "escrowed-delivery",
                !.address = "escrow", !.calldata = None],
   [Base EXCEPT !.operation = "message_sign", !.message = TRUE]}

(* What else a field may be. *)
Deviations == [
  resource |-> {None, "unreadable", "report%", "report?", "ledger", "elsewhere"},
  url |-> {"unreadable", "report%", "report?", "ledger", "elsewhere"},
  paymentHeaders |-> {0, 2},
  listed |-> {FALSE},
  complete |-> {FALSE},
  expired |-> {TRUE},
  payTo |-> {"stranger"},
  facilitator |-> {None, "unreadable", "otherfac"},
  entry |-> {[Entry EXCEPT !.allowed = {"report", "report%", "report?", "ledger"}],
             [Entry EXCEPT !.facilitator = None], [Entry EXCEPT !.status = "blocked"],
             [Entry EXCEPT !.publicKey = None], [Entry EXCEPT !.threshold = 10],
             [Entry EXCEPT !.evm = FALSE]},
  live |-> {Record, [Record EXCEPT !.payTo = "stranger"], [Record EXCEPT !.reputation = 45]},
  demo |-> {None, [Record EXCEPT !.endpoint = "ledger"], [Record EXCEPT !.payTo = "stranger"],
            [Record EXCEPT !.denied = 3], [Record EXCEPT !.reputation = 45],
            [Record EXCEPT !.reputation = 15]},
  found |-> {{"redact"}, {"hash_only", "require_approval"}, {"redact", "block"}},
  metadata |-> {"unreadable", "report%", "ledger"},
  quote |-> [key : {"provider", "another"}, terms : {"this", "other"}, context : {None, "this", "other"}],
  operation |-> {"contract_call", "message_sign"},
  service |-> {"escrowed-delivery"},
  address |-> {"escrow", "stranger"},
  calldata |-> {None} \cup
    [function : {"transfer", "approve", "transferFrom"}, to : {"merchant", "stranger"},
     amount : {1, 2, Unlimited}, context : {None}, inner : {{}}] \cup
    [function : {"multicall"}, to : {None}, amount : {0}, context : {None},
     inner : {{"transfer"}, {"transfer", "mint"}, {"transfer", "unheard of"}}] \cup
    [function : {"fund"}, to : {"merchant"}, amount : {2}, context : {"this", "other"}, inner : {{}}] \cup
    [function : {"truncated"}, to : {None}, amount : {0}, context : {None}, inner : {{}}],
  signed |-> {FALSE},
  body |-> {None, "other"},
  amount |-> {1, Garbled},
  decimals |-> {FALSE},
  message |-> {TRUE}]

MCRequests ==
  LET differing(q) == UNION {{[q EXCEPT ![f] = v] : v \in Deviations[f]} : f \in DOMAIN Deviations}
  IN  UNION {UNION {differing(q) : q \in differing(p) \cup {p}} : p \in Profiles}
================================================================================
