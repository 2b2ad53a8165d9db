---------------------------- MODULE MCLiveExecutor ----------------------------
(* An instance of LiveExecutor for TLC: two calls of one request id.         *)
EXTENDS LiveExecutor, TLC

CONSTANTS c1, c2, r1
MCCalls == {c1, c2}
MCRequests == {r1}
MCRequestOf == (c1 :> r1) @@ (c2 :> r1)
=============================================================================
