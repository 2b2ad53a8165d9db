-------------------------- MODULE MCEvidenceExport --------------------------
(* An instance of EvidenceExport: a resource that passes the screening,    *)
(* and one that the registry refuses before the trust check is reached,    *)
(* which a prompt names.                                                   *)
EXTENDS EvidenceExport, TLC

CONSTANTS r1, other, plain, pii, link

MCResources == {r1, other}
MCListed == {r1}
MCTrusted == {r1}
MCIdRank == r1 :> 1 @@ other :> 2
MCPrompts == {plain, pii, link}
MCPii == {pii}
MCNamed == [p \in MCPrompts |-> IF p = link THEN other ELSE None]
=============================================================================
