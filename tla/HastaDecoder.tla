---------------------------- MODULE HastaDecoder ----------------------------
(***************************************************************************)
(* rf/hasta.c, as built for the TellStick Net: streamHasta, told the runs  *)
(* of the radio one by one, knows an old and a new message by the lengths  *)
(* of the runs they begin with.  A bit is a pair of runs, short and long   *)
(* or long and short.  An old message is four bytes; a new one has a fifth *)
(* that makes the sum of all of them 1.                                    *)
(***************************************************************************)
EXTENDS StreamBits

CONSTANT HastaCounts  (* the lengths of the runs it is told                *)

ASSUME HastaAssumption == HastaCounts \subseteq 1 .. 255

VARIABLES
  hasta,       (* the static variables of hasta.c: hastastate, prepulse,   *)
               (* the bits of hastabyte, bytecount, the bytes in           *)
               (* totalhastadata and their sum, hastadata                  *)
  hastaHeard,  (* history: the bits since the runs a message began with    *)
  hastaSent    (* history: the message that the last run has completed     *)

hastaVars == <<hasta, hastaHeard, hastaSent>>

BigPulse(new, x) == x \in IF new THEN 9 .. 15 ELSE 5 .. 7
SmallPulse(new, x) == x \in IF new THEN 4 .. 8 ELSE 2 .. 4

HastaInit ==
  /\ hasta = [state |-> "none", prepulse |-> "none", byte |-> <<>>,
              bytecount |-> 0, total |-> <<>>, sum |-> 0]
  /\ hastaHeard = <<>>
  /\ hastaSent = <<>>

\* Mutant of ClearHasta: the sum is left to the next message.
ClearHastaNotSum(h) ==
  [h EXCEPT !.prepulse = "none", !.total = <<>>, !.state = "none",
            !.byte = <<>>, !.bytecount = 0]

ClearHasta(h) ==
  [h EXCEPT !.prepulse = "none", !.sum = 0, !.total = <<>>, !.state = "none",
            !.byte = <<>>, !.bytecount = 0]

HastaParsing == hasta.state \in {"old", "new"}

-----------------------------------------------------------------------------
\* The runs that begin a message: of the first one alone the level
\* matters.
HastaBegins(state, level, x) ==
  CASE state = "none" /\ level = 1 /\ x \in 86 .. 91 -> "first"
    [] state = "first" /\ x \in 28 .. 31 -> "old"
    [] state = "first" /\ x \in 43 .. 46 -> "secondNew"
    [] state = "secondNew" /\ x \in 27 .. 31 -> "thirdNew"
    [] state = "thirdNew" /\ x \in 4 .. 8 -> "new"
    [] OTHER -> "none"

HastaBegin(level, x) ==
  LET next == HastaBegins(hasta.state, level, x)
  IN  /\ ~ HastaParsing
      /\ hasta' = IF next # "none" \/ hasta.state = "none"
                    THEN [hasta EXCEPT !.state = next]
                    ELSE ClearHasta(hasta)
      /\ hastaHeard' = <<>>
      /\ hastaSent' = <<>>

\* The first run of a bit.
HastaPrepulse(x) ==
  LET new == hasta.state = "new"
  IN  /\ HastaParsing /\ hasta.prepulse = "none"
      /\ SmallPulse(new, x) \/ BigPulse(new, x)
      /\ hasta' = [hasta EXCEPT !.prepulse = IF SmallPulse(new, x) THEN "small"
                                             ELSE "big"]
      /\ UNCHANGED <<hastaHeard, hastaSent>>

\* The second run of a bit is of the other kind.
HastaPairs(x) ==
  LET new == hasta.state = "new"
  IN  \/ hasta.prepulse = "small" /\ BigPulse(new, x)
      \/ hasta.prepulse = "big" /\ SmallPulse(new, x)

HastaDrop(x) ==
  LET new == hasta.state = "new"
  IN  /\ HastaParsing
      /\ IF hasta.prepulse # "none" THEN ~ HastaPairs(x)
         ELSE ~ SmallPulse(new, x) /\ ~ BigPulse(new, x)
      /\ hasta' = ClearHasta(hasta)
      /\ hastaHeard' = <<>>
      /\ UNCHANGED hastaSent

HastaBit == IF hasta.prepulse = "big" THEN 1 ELSE 0
WithHastaBit == [hasta EXCEPT !.prepulse = "none",
                              !.byte = Append(hasta.byte, HastaBit)]

HastaInByte(x) ==
  /\ HastaParsing /\ HastaPairs(x)
  /\ Len(hasta.byte) + 1 < ByteBits
  /\ hasta' = WithHastaBit
  /\ hastaHeard' = Append(hastaHeard, HastaBit)
  /\ UNCHANGED hastaSent

\* The value of a byte, its first bit the lowest.
Value(byte) ==
  LET value[k \in 1 .. ByteBits + 1] ==
        IF k > ByteBits THEN 0 ELSE byte[k] + 2 * value[k + 1]
  IN  value[1]

\* A byte is complete: the first four are data, the fifth is the checksum and
\* stays in hastabyte.
HastaCounted(h) ==
  IF h.bytecount < 4
    THEN [h EXCEPT !.bytecount = h.bytecount + 1, !.byte = <<>>,
                   !.total = Append(h.total, h.byte),
                   !.sum = h.sum + Value(h.byte)]
    ELSE [h EXCEPT !.bytecount = h.bytecount + 1]

HastaByte(x) ==
  LET h == HastaCounted(WithHastaBit)
      complete == h.bytecount = IF h.state = "old" THEN 4 ELSE 5
      good == h.state = "new" => (h.sum + Value(h.byte)) % 2 ^ ByteBits = 1
  IN  /\ HastaParsing /\ HastaPairs(x)
      /\ Len(hasta.byte) + 1 = ByteBits
      /\ hasta' = IF complete THEN ClearHasta(h) ELSE h
      /\ hastaHeard' = Append(hastaHeard, HastaBit)
      /\ hastaSent' = IF complete /\ good THEN <<h.state, h.total>> ELSE <<>>

streamHasta(level, count) ==
  \/ HastaBegin(level, count) \/ HastaPrepulse(count) \/ HastaDrop(count)
  \/ HastaInByte(count) \/ HastaByte(count)

HastaNext == \E level \in Bit, count \in HastaCounts : streamHasta(level, count)

-----------------------------------------------------------------------------
HastaTypeOK ==
  /\ hasta.state \in {"none", "first", "old", "secondNew", "thirdNew", "new"}
  /\ hasta.prepulse \in {"none", "small", "big"}
  /\ hasta.byte \in Seq(Bit) /\ Len(hasta.byte) < ByteBits
  /\ hasta.bytecount = Len(hasta.total)
  /\ hasta.bytecount \in 0 .. IF hasta.state = "old" THEN 3 ELSE 4
  /\ ~ HastaParsing => hasta.bytecount = 0

\* A message in the making, and one sent, is made of all the bits since the runs
\* it began with, in order, and of no bit of an earlier message or of noise that
\* was dropped; an old message is sent whenever it is whole, and a new one exactly
\* if the sum of its five bytes is 1 (hasta.c:175-218).
HastaHears ==
  LET bytes == [k \in 1 .. Len(hastaHeard) \div ByteBits |->
                  SubSeq(hastaHeard, (k - 1) * ByteBits + 1, k * ByteBits)]
      sum == Value(bytes[1]) + Value(bytes[2]) + Value(bytes[3])
               + Value(bytes[4]) + Value(bytes[5])
  IN  /\ HastaParsing => hastaHeard = Joined(hasta.total) \o hasta.byte
      /\ hastaSent # <<>> => hastaSent[2] = SubSeq(bytes, 1, 4)
      /\ Len(bytes) = 4 /\ ~ HastaParsing => hastaSent # <<>>
      /\ Len(bytes) = 5 => (hastaSent # <<>>) = (sum % 2 ^ ByteBits = 1)
=============================================================================
