------------------------- MODULE MCScheduleMachine -------------------------
(* A schedule small enough to enumerate: two ids, a legal and a too short   *)
(* period, an endless and a two-capture schedule, leases around the legal   *)
(* range, and passes that skip none, one and several capture times.         *)
EXTENDS ScheduleMachine

MCPeriods == {1, 2, 3}
MCCounts == {0, 1, 2}
MCLeases == 1 .. 4
MCLeaseSeqs == 0 .. 3
MCElapsed == {1, 2, 5}
=============================================================================
