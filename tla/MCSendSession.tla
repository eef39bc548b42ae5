--------------------------- MODULE MCSendSession ---------------------------
(***************************************************************************)
(* Small values for SendSession: bytes are counted modulo 3, so that the   *)
(* count 3 of a message is cut to 0, and the LED has two steps.            *)
(***************************************************************************)
EXTENDS SendSession

MCPackets == {<<>>, <<1, 2>>}

MCCounts == {1, 3}
=============================================================================
