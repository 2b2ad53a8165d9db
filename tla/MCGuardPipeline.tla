-------------------------- MODULE MCGuardPipeline --------------------------
(* Small instances of GuardPipeline for TLC. *)
EXTENDS GuardPipeline, TLC

CONSTANTS m1, p1, p2, r1, r2, r3

(* Two providers with an origin each, and two that share one. *)
DistinctOrigins == (p1 :> 1) @@ (p2 :> 2)
SharedOrigin == (p1 :> 1) @@ (p2 :> 1)

(* Runs are interchangeable: no definition tells two of them apart. *)
RunSymmetry == Permutations(Runs)
=============================================================================
