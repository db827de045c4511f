-------------------------- MODULE MCWinTransport ---------------------------
(* Messages with bodies of two bytes, one and one. *)
EXTENDS WinTransport

MCSize == <<2, 1, 1>>
=============================================================================
