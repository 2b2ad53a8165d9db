--------------------------- MODULE MCMissionFlow ---------------------------
(* An instance of MissionFlow: two resources the registry allows, one it   *)
(* does not, and which a prompt names.                                     *)
EXTENDS MissionFlow, TLC

CONSTANTS r1, r2, other, plain, pii, link

MCResources == {r1, r2, other}
MCListed == {r1, r2}
MCTrusted == {r1, r2}
MCIdRank == r1 :> 2 @@ r2 :> 1 @@ other :> 3
MCPrompts == {plain, pii, link}
MCPii == {pii}
MCNamed == [p \in MCPrompts |-> IF p = link THEN other ELSE None]
=============================================================================
