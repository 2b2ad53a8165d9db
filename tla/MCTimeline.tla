----------------------------- MODULE MCTimeline -----------------------------
(* An instance of Timeline for TLC: two missions, each streamed by a page. *)
EXTENDS Timeline

CONSTANTS m1, m2, p1, p2
MCMissions == {m1, m2}
MCReaders == {p1, p2}
MCMissionOf == (p1 :> m1) @@ (p2 :> m2)
=============================================================================
