---------------------------- MODULE MCWinBroker ----------------------------
(* Values of the constants of WinBroker for TLC. *)
EXTENDS WinBroker

MCObjects   == {1, 2, 3}
MCResources == <<<<"r1", "r2">>, <<"r3">>, <<"r4", "r5">>>>
=============================================================================
