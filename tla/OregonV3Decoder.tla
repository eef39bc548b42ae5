-------------------------- MODULE OregonV3Decoder --------------------------
(***************************************************************************)
(* rf/oregonv3.c: streamOregonV3, told the runs of the radio one by one,   *)
(* waits for a preamble of small pulses and a sync of big ones, and then   *)
(* takes the level at every second half cell for a bit: an id of two       *)
(* bytes, and data whose length the id tells.  The data of an id that is   *)
(* not known ends with a silence.                                          *)
(***************************************************************************)
EXTENDS StreamBits

CONSTANTS
  V3Preamble,   (* 20: more small pulses than that begin a message         *)
  V3Sync,       (* 3: the big pulses of the sync behind the first one      *)
  V3Lengths,    (* the bytes of data of the known ids, up to 9             *)
  V3MinBits,    (* 55: more bits than that may be ended by a silence       *)
  V3MaxHalf,    (* 400: after more half cells a message is given up        *)
  HalfMod,      (* 65536: halfTime is an int of two bytes                  *)
  V3Buffer,     (* 9, the bytes of bufferV3                                *)
  V3Runs        (* the lengths of the runs it is told                      *)

ASSUME V3Assumption ==
  /\ {V3Preamble, V3Sync, V3MaxHalf, V3Buffer} \subseteq Nat \ {0}
  /\ V3Sync < CountMod /\ V3MinBits \in Nat
  /\ HalfMod \in Nat \ {0} /\ HalfMod % (2 * ByteBits) = 0
  /\ V3Runs \subseteq 1 .. CountMod - 1
  /\ V3Lengths \subseteq 1 .. V3Buffer

VARIABLES
  v3,       (* the static variables of oregonv3.c                          *)
  v3Heard,  (* history: the bits since the sync, but for the bytes of      *)
            (* zeros that the id began with                                *)
  v3Sent    (* history: the message that the last run has completed        *)

v3Vars == <<v3, v3Heard, v3Sent>>

V3Init ==
  /\ v3 = [state |-> "preamble", sync |-> 0, half |-> 0, byte |-> <<>>,
           id |-> <<>>, expected |-> -1, cnt |-> 0,
           buffer |-> [k \in 0 .. V3Buffer - 1 |-> Zero]]
  /\ v3Heard = <<>>
  /\ v3Sent = <<>>

V3Small(x) == x \in 6 .. 11
V3Big(x) == x \in 14 .. 21
EndSilence(x) == x > 30

\* Mutant of ClearOregonV3: the half cells are left to the next message.
ClearV3NotHalf(d) == [d EXCEPT !.state = "preamble", !.sync = 0, !.byte = <<>>]

ClearOregonV3(d) ==
  [d EXCEPT !.state = "preamble", !.sync = 0, !.half = 0, !.byte = <<>>]

-----------------------------------------------------------------------------
V3Preambled(d) == [d EXCEPT !.state = "sync", !.sync = V3Sync]

V3PreamblePulse(x) ==
  /\ v3.state = "preamble"
  /\ v3' = IF V3Small(x) THEN [v3 EXCEPT !.sync = (v3.sync + 1) % CountMod]
           ELSE IF V3Big(x) /\ v3.sync > V3Preamble
             THEN V3Preambled(v3)
           ELSE ClearOregonV3(v3)
  /\ v3Heard' = <<>>
  /\ v3Sent' = <<>>

V3SyncPulse(x) ==
  /\ v3.state = "sync"
  /\ v3' = IF V3Big(x) /\ v3.sync = 1
             THEN [v3 EXCEPT !.state = "id", !.sync = 0, !.id = <<>>]
           ELSE IF V3Big(x) THEN [v3 EXCEPT !.sync = v3.sync - 1]
           ELSE ClearOregonV3(v3)
  /\ UNCHANGED <<v3Heard, v3Sent>>

V3Parsing == v3.state \in {"id", "data"}

\* oregonBitV3: a big pulse may not begin in the middle of a cell.
V3Valid(x) == V3Small(x) \/ (V3Big(x) /\ v3.half % 2 = 0)
V3Halves(x) == (v3.half + IF V3Big(x) THEN 2 ELSE 1) % HalfMod
V3EndsBit(x) == V3Parsing /\ V3Valid(x) /\ V3Halves(x) % 2 = 0

V3HalfBit(x) ==
  /\ V3Parsing
  /\ V3Valid(x) /\ ~ V3EndsBit(x)
  /\ v3' = [v3 EXCEPT !.half = V3Halves(x)]
  /\ UNCHANGED <<v3Heard, v3Sent>>

WithV3Bit(level, x) ==
  [v3 EXCEPT !.half = V3Halves(x), !.byte = Append(v3.byte, level)]

V3InByte(level, x) ==
  /\ V3EndsBit(x)
  /\ Len(v3.byte) + 1 < ByteBits
  /\ v3' = WithV3Bit(level, x)
  /\ v3Heard' = Append(v3Heard, level)
  /\ UNCHANGED v3Sent

\* A first byte of zeros counts as none.  The second one tells the length of the
\* data, -1 for an id that is not known; which ids are is left open.
V3IdByte(level, x) ==
  LET b == WithV3Bit(level, x)
      d == [b EXCEPT !.byte = <<>>]
      skipped == v3.id = <<>> /\ b.byte = Zero
  IN  /\ V3EndsBit(x) /\ v3.state = "id"
      /\ Len(b.byte) = ByteBits
      /\ \/ /\ v3.id = <<>>
            /\ v3' = [d EXCEPT !.id = IF skipped THEN <<>> ELSE <<b.byte>>]
         \/ /\ v3.id # <<>>
            /\ \E expected \in V3Lengths \cup {-1} :
                 v3' = [d EXCEPT !.id = Append(v3.id, b.byte), !.state = "data",
                                 !.expected = expected, !.cnt = 0]
      /\ v3Heard' = IF skipped THEN <<>> ELSE Append(v3Heard, level)
      /\ UNCHANGED v3Sent

\* A byte is stored.  One beyond bufferV3 is only counted: what the write hits
\* is not modelled.
V3Stored(d, byte) ==
  [d EXCEPT !.buffer = [k \in DOMAIN d.buffer |->
                          IF k = d.cnt THEN byte ELSE d.buffer[k]],
            !.cnt = d.cnt + 1]

V3Send(d) ==
  /\ v3' = ClearOregonV3(d)
  /\ v3Sent' = <<d.id, d.cnt, d.buffer>>

V3DataByte(level, x) ==
  LET b == WithV3Bit(level, x)
      d == [V3Stored(b, b.byte) EXCEPT !.byte = <<>>, !.expected = @ - 1]
  IN  /\ V3EndsBit(x) /\ v3.state = "data"
      /\ Len(b.byte) = ByteBits
      /\ \/ /\ d.expected = 0
            /\ V3Send(d)
            /\ v3Heard' = Append(v3Heard, level)
         \/ /\ d.expected # 0 /\ d.half <= V3MaxHalf
            /\ v3' = d
            /\ v3Heard' = Append(v3Heard, level)
            /\ UNCHANGED v3Sent
         \/ /\ d.expected # 0 /\ d.half > V3MaxHalf
            /\ v3' = ClearOregonV3(d)
            /\ v3Heard' = <<>>
            /\ UNCHANGED v3Sent

\* A low run that is long ends the data of an id that is not known.  It stands
\* for a byte of zeros; the bits of a byte that is not complete are dropped.
V3EndsData(level, x) ==
  /\ v3.state = "data" /\ v3.expected < 0
  /\ level = 0 /\ EndSilence(x)
  /\ v3.half \div 2 > V3MinBits

V3SilenceEnds(level, x) ==
  /\ V3EndsData(level, x)
  /\ V3Send([V3Stored(v3, Zero) EXCEPT !.expected = 0])
  /\ UNCHANGED v3Heard

V3Drop(level, x) ==
  /\ V3Parsing
  /\ ~ V3Valid(x) /\ ~ V3EndsData(level, x)
  /\ v3' = ClearOregonV3(v3)
  /\ v3Heard' = <<>>
  /\ UNCHANGED v3Sent

\* High runs are told too short by a sample and low ones too long.
streamOregonV3(level, count) ==
  LET x == (IF level = 1 THEN count + 1 ELSE count - 1) % CountMod
  IN  \/ V3PreamblePulse(x) \/ V3SyncPulse(x)
      \/ V3HalfBit(x) \/ V3InByte(level, x)
      \/ V3IdByte(level, x) \/ V3DataByte(level, x)
      \/ V3SilenceEnds(level, x) \/ V3Drop(level, x)

V3Next == \E level \in Bit, count \in V3Runs : streamOregonV3(level, count)

-----------------------------------------------------------------------------
V3TypeOK ==
  /\ v3.state \in {"preamble", "sync", "id", "data"}
  /\ v3.sync \in 0 .. CountMod - 1
  /\ v3.state = "sync" => v3.sync \in 1 .. V3Sync
  /\ v3.half \in 0 .. HalfMod - 1
  /\ v3.state = "data" => v3.expected # 0
  /\ v3.byte \in Seq(Bit) /\ Len(v3.byte) < ByteBits
  /\ DOMAIN v3.buffer = 0 .. V3Buffer - 1

V3Bytes(buffer, n) == FirstBytes(buffer, IF n <= V3Buffer THEN n ELSE V3Buffer)

\* A message in the making, and one sent, begins with the bits since the sync,
\* in order, as many as bufferV3 holds, and has no bit of an earlier message or
\* of noise that was dropped (oregonv3.c:57-85, 195-209); the half cells counted
\* tell where in a cell the next run begins.
V3Hears ==
  LET bytes == 2 + v3.cnt
      prefix(s, t) == Len(s) <= Len(t) /\ s = SubSeq(t, 1, Len(s))
  IN  /\ v3.state = "id" => v3Heard = Joined(v3.id) \o v3.byte
      /\ v3.state = "data" =>
           /\ prefix(Joined(v3.id \o V3Bytes(v3.buffer, v3.cnt)), v3Heard)
           /\ Len(v3Heard) = bytes * ByteBits + Len(v3.byte)
           /\ v3.byte = SubSeq(v3Heard, bytes * ByteBits + 1, Len(v3Heard))
      /\ v3Sent # <<>> =>
           LET n == Len(v3Heard) \div ByteBits - 2
           IN  prefix(Joined(v3Sent[1] \o V3Bytes(v3Sent[3], n)), v3Heard)
      /\ V3Parsing =>
           (v3.half % (2 * ByteBits)) \div 2 = Len(v3.byte)

\* "21 nibbles, -4 for sensor id, stored as bytes" (oregonv3.c:93): the data of
\* a message fits in bufferV3.
V3FitsBuffer == v3.cnt <= V3Buffer
=============================================================================
