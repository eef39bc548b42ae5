---------------------------- MODULE MCRfTransmit ----------------------------
(***************************************************************************)
(* Packets for checking RfTransmit.  They are sent in any order, so that a *)
(* short packet leaves the tail of a longer one behind it in the buffer.   *)
(***************************************************************************)
EXTENDS RfTransmit, SequencesExt

\* Every packet of at most four bytes that rfSend can send on time: single
\* pulses, runs of markers, markers at the end, markers first.
MCTimelyPackets ==
  { p \in SeqOf(1 .. MaxByte, 4) : PacketTimely(p) }

\* Packets for a late rfSend, those of the shortest pulses included, and
\* the empty packet, for which rfSend starts with the tail of an earlier one.
MCPackets == { <<>>, <<3>>, <<1, 2>>, <<1, 1, 2>>, <<2, 1, 3, 2>>, <<3, 2, 1>>,
               <<2, 3, 1, 2, 2>> }
=============================================================================
