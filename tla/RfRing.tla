------------------------------- MODULE RfRing -------------------------------
(***************************************************************************)
(* The ring of rf/receive.c: the timer interrupt packs the samples that    *)
(* leave its filter into bytes and stores the bytes; the main loop scans   *)
(* them.                                                                   *)
(***************************************************************************)
EXTENDS StreamBits

CONSTANT DataBytes  (* DATA_BYTES: the bytes of the ring, 512              *)

ASSUME RingAssumption == DataBytes \in Nat \ {0, 1}

VARIABLES
  buffer,          (* the samples of the byte being packed                 *)
  data,            (* the ring                                             *)
  dataP            (* the slot the next byte goes to                       *)

ringVars == <<buffer, data, dataP>>

Slots == 0 .. DataBytes - 1
Ring == DataBytes * ByteBits

RingInit ==
  /\ buffer = <<>>
  /\ data = [slot \in Slots |-> [b \in 1 .. ByteBits |-> 0]]
  /\ dataP = 0

\* Mutant of Pack: the write position never wraps to the first slot.
PackPastEnd(sample) ==
  LET packed == Append(buffer, sample)
  IN  IF Len(packed) = ByteBits
        THEN /\ buffer' = <<>>
             /\ data' = [data EXCEPT ![dataP] = packed]
             /\ dataP' = IF dataP + 1 = DataBytes THEN dataP ELSE dataP + 1
        ELSE buffer' = packed /\ UNCHANGED <<data, dataP>>

\* Mutant of Pack: a byte is stored one sample late.
PackLate(sample) ==
  LET packed == Append(buffer, sample)
  IN  IF Len(packed) > ByteBits
        THEN /\ buffer' = <<>>
             /\ data' = [data EXCEPT ![dataP] = packed]
             /\ dataP' = (dataP + 1) % DataBytes
        ELSE buffer' = packed /\ UNCHANGED <<data, dataP>>

\* A sample is packed; a full byte is stored.
Pack(sample) ==
  LET packed == Append(buffer, sample)
  IN  IF Len(packed) = ByteBits
        THEN /\ buffer' = <<>>
             /\ data' = [data EXCEPT ![dataP] = packed]
             /\ dataP' = (dataP + 1) % DataBytes
        ELSE buffer' = packed /\ UNCHANGED <<data, dataP>>

RingTypeOK ==
  /\ buffer \in Seq(Bit) /\ Len(buffer) < ByteBits
  /\ data \in [Slots -> [1 .. ByteBits -> Bit]]
  /\ dataP \in Slots
=============================================================================
