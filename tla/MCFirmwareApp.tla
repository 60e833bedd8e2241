--------------------------- MODULE MCFirmwareApp ---------------------------
(* The firmware application on an instance small enough to enumerate. *)
EXTENDS FirmwareApp, TLC

MCPeriods == {1}
MCCounts == {0, 1}
MCLeases == {2}
MCSequences == {1}
MCElapsed == {1}
MCSymmetry == Permutations(Nonces) \cup Permutations(Requests)
=============================================================================
