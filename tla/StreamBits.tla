---------------------------- MODULE StreamBits -----------------------------
(***************************************************************************)
(* What the sampling and the decoders of rf/ have in common: the counts    *)
(* that are a byte wide, and bytes, which are sequences of bits, the one   *)
(* received first at the front.                                            *)
(***************************************************************************)
EXTENDS Integers, Sequences

CONSTANTS
  ByteBits,  (* 8                                                          *)
  CountMod   (* 256: counts are bytes                                      *)

ASSUME StreamBitsAssumption == ByteBits \in Nat \ {0} /\ CountMod \in Nat \ {0}

Bit == {0, 1}
Byte == [1 .. ByteBits -> Bit]
Zero == [b \in 1 .. ByteBits |-> 0]

\* The bits of a sequence of bytes.
Joined(bytes) ==
  [k \in 1 .. Len(bytes) * ByteBits |->
     bytes[((k - 1) \div ByteBits) + 1][((k - 1) % ByteBits) + 1]]

\* The place in a C buffer of the bytes 0, 1, ... n-1, as a sequence.
FirstBytes(buffer, n) == [k \in 1 .. n |-> buffer[k - 1]]
=============================================================================
