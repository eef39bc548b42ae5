--------------------------- MODULE OregonDecoder ---------------------------
(***************************************************************************)
(* rf/oregon.c: streamOregon is told the runs of the radio one by one and  *)
(* assembles a message: a preamble of big pulses, an id of two bytes, and  *)
(* as many bytes of data as the id says.  A bit is the level of a run that *)
(* ends in the middle of a cell; bytes are sequences of bits, the first    *)
(* received first.                                                         *)
(***************************************************************************)
EXTENDS StreamBits

CONSTANTS
  OregonPreamble, (* 25: more big pulses than that begin a message         *)
  OregonIds,      (* the known ids, pairs of bytes                         *)
  OregonLength,   (* the bytes of data of each                             *)
  OregonBuffer,   (* 8, the bytes of buffer                                *)
  OregonRuns      (* the lengths of the runs it is told                    *)

ASSUME OregonAssumption ==
  /\ {OregonPreamble, OregonBuffer} \subseteq Nat \ {0}
  /\ OregonBuffer < CountMod
  /\ OregonRuns \subseteq 1 .. CountMod - 1
  /\ OregonIds \subseteq (Byte \ {Zero}) \X Byte
  /\ OregonLength \in [OregonIds -> 1 .. OregonBuffer]

VARIABLES
  oregon,      (* the static variables of oregon.c                         *)
  oregonHeard, (* history: the bits since the preamble, but for the bytes  *)
               (* of zeros that the id began with                          *)
  oregonBigs,  (* history: big pulses since the last message or small      *)
               (* pulse, counted to OregonPreamble + 1                     *)
  oregonSent   (* history: the message that the last run has completed     *)

oregonVars == <<oregon, oregonHeard, oregonBigs, oregonSent>>

OregonInit ==
  /\ oregon = [state |-> "wait", cnt |-> 0, bitCnt |-> 0, byte |-> <<>>,
               totByteCnt |-> 0, byteLength |-> -1, id |-> <<>>, length |-> 0,
               buffer |-> [k \in 0 .. OregonBuffer - 1 |-> Zero]]
  /\ oregonHeard = <<>>
  /\ oregonBigs = 0
  /\ oregonSent = <<>>

OregonBig(x) == x \in 12 .. 22
OregonSmall(x) == x \in 4 .. 13

\* Mutant of ClearOregon: the bits of a byte are left to the next message.
ClearOregonNotByte(o) ==
  [o EXCEPT !.bitCnt = 0, !.totByteCnt = 0, !.state = "wait", !.byteLength = -1]

\* It leaves cnt alone, which in a preamble counts big pulses.
ClearOregon(o) ==
  [o EXCEPT !.byte = <<>>, !.bitCnt = 0, !.totByteCnt = 0, !.state = "wait",
            !.byteLength = -1]

OregonParsing == oregon.state # "wait"

-----------------------------------------------------------------------------
\* A preamble: big pulses, and a small one behind them.  Other runs are ignored.
OregonCounts(x) ==
  /\ ~ OregonParsing
  /\ OregonBig(x) \/ ~ OregonSmall(x)
  /\ oregon' = [oregon EXCEPT
                  !.cnt = (@ + IF OregonBig(x) THEN 1 ELSE 0) % CountMod]
  /\ oregonBigs' = IF OregonBig(x) /\ oregonBigs <= OregonPreamble
                     THEN oregonBigs + 1 ELSE oregonBigs
  /\ oregonHeard' = <<>>
  /\ oregonSent' = <<>>

OregonBegins(x) ==
  LET began == oregon.cnt > OregonPreamble
  IN  /\ ~ OregonParsing
      /\ OregonSmall(x) /\ ~ OregonBig(x)
      /\ oregon' = [oregon EXCEPT !.cnt = 0,
                                  !.state = IF began THEN "id" ELSE @,
                                  !.id = IF began THEN <<>> ELSE @]
      /\ oregonBigs' = IF began THEN oregonBigs ELSE 0
      /\ oregonHeard' = <<>>
      /\ oregonSent' = <<>>

\* oregonBit: a cell is a small and a big pulse, or the second half of a big one
\* and a big one.  The last bit of a message may end in a pulse of any length.
OregonInvalid(x) ==
  \/ oregon.bitCnt = 0 /\ ~ OregonSmall(x)
  \/ /\ oregon.bitCnt = 1
     /\ ~ OregonBig(x)
     /\ oregon.totByteCnt # oregon.byteLength

OregonDrop(x) ==
  /\ OregonParsing
  /\ OregonInvalid(x)
  /\ oregon' = ClearOregon(oregon)
  /\ oregonBigs' = 0
  /\ oregonHeard' = <<>>
  /\ UNCHANGED oregonSent

\* A pulse that does not end a bit.
OregonMoreData(level, x) ==
  LET combined == OregonBig(x) /\ ~ (level = 1 /\ OregonSmall(x))
  IN  /\ OregonParsing
      /\ ~ OregonInvalid(x)
      /\ oregon.bitCnt # 1
      /\ oregon' = [oregon EXCEPT !.bitCnt =
                      IF oregon.bitCnt = 0 \/ combined THEN 1
                      ELSE IF OregonSmall(x) THEN 0 ELSE 2]
      /\ UNCHANGED <<oregonHeard, oregonBigs, oregonSent>>

OregonEndsBit(x) == OregonParsing /\ oregon.bitCnt = 1 /\ ~ OregonInvalid(x)
WithOregonBit(level) ==
  [oregon EXCEPT !.bitCnt = 2, !.byte = Append(oregon.byte, level),
                 !.totByteCnt = (oregon.totByteCnt + 1) % CountMod]

OregonInByte(level, x) ==
  /\ OregonEndsBit(x)
  /\ Len(oregon.byte) + 1 < ByteBits
  /\ oregon' = WithOregonBit(level)
  /\ oregonHeard' = Append(oregonHeard, level)
  /\ UNCHANGED <<oregonBigs, oregonSent>>

\* What a byte of the id does: a first byte of zeros counts as none.
WithOregonId(o, byte) ==
  LET id == Append(o.id, byte)
  IN  IF o.id = <<>> THEN [o EXCEPT !.id = IF byte = Zero THEN <<>> ELSE id]
      ELSE IF id \in OregonIds
        THEN [o EXCEPT !.id = id, !.length = OregonLength[id], !.state = "data",
                       !.byteLength = (2 + OregonLength[id]) * ByteBits - 1,
                       !.cnt = 0]
      ELSE [ClearOregon(o) EXCEPT !.id = id]

OregonIdByte(level, x) ==
  LET b == WithOregonBit(level)
  IN  /\ OregonEndsBit(x) /\ oregon.state = "id"
      /\ Len(b.byte) = ByteBits
      /\ oregon' = WithOregonId([b EXCEPT !.byte = <<>>], b.byte)
      /\ oregonHeard' = IF oregon'.id = <<>> \/ oregon'.state = "wait" THEN <<>>
                        ELSE Append(oregonHeard, level)
      /\ oregonBigs' = IF oregon'.state = "wait" THEN 0 ELSE oregonBigs
      /\ UNCHANGED oregonSent

OregonStored(o, byte) ==
  [o EXCEPT !.buffer[o.cnt] = byte, !.cnt = o.cnt + 1, !.length = o.length - 1]

OregonDataByte(level, x) ==
  LET b == WithOregonBit(level)
      o == OregonStored([b EXCEPT !.byte = <<>>], b.byte)
  IN  /\ OregonEndsBit(x) /\ oregon.state = "data"
      /\ Len(b.byte) = ByteBits
      /\ oregonHeard' = Append(oregonHeard, level)
      /\ IF o.length = 0
           THEN /\ oregon' = ClearOregon(o)
                /\ oregonSent' = <<o.id, FirstBytes(o.buffer, o.cnt)>>
                /\ oregonBigs' = 0
           ELSE oregon' = o /\ UNCHANGED <<oregonSent, oregonBigs>>

\* High runs are told too short by three samples and low ones too long.
streamOregon(level, count) ==
  LET x == (IF level = 1 THEN count + 3 ELSE count - 3) % CountMod
  IN  \/ OregonCounts(x) \/ OregonBegins(x)
      \/ OregonDrop(x) \/ OregonMoreData(level, x)
      \/ OregonInByte(level, x) \/ OregonIdByte(level, x)
      \/ OregonDataByte(level, x)

OregonNext ==
  \E level \in Bit, count \in OregonRuns : streamOregon(level, count)

-----------------------------------------------------------------------------
OregonTypeOK ==
  /\ oregon.state \in {"wait", "id", "data"}
  /\ oregon.cnt \in 0 .. CountMod - 1
  /\ oregon.state = "data" => oregon.cnt + oregon.length \in 1 .. OregonBuffer
  /\ oregon.bitCnt \in 0 .. 2
  /\ oregon.byte \in Seq(Bit) /\ Len(oregon.byte) < ByteBits
  /\ DOMAIN oregon.buffer = 0 .. OregonBuffer - 1

\* A message in the making, and one sent, is made of all the bits since the
\* preamble, in order, and of no bit of an earlier message or of noise that was
\* dropped (oregon.c:72-92, 163-174); and a preamble came before it, although
\* its big pulses may be fewer than oregon.c:116 asks for, by as many as the
\* message before it had bytes of data, for cnt counts both.
OregonHears ==
  /\ oregon.state = "id" => oregonHeard = Joined(oregon.id) \o oregon.byte
  /\ oregon.state = "data" =>
       oregonHeard = Joined(oregon.id \o FirstBytes(oregon.buffer, oregon.cnt))
                       \o oregon.byte
  /\ oregonSent # <<>> =>
       /\ oregonHeard = Joined(oregonSent[1] \o oregonSent[2])
       /\ Len(oregonSent[2]) = OregonLength[oregonSent[1]]
  /\ OregonParsing => oregonBigs + OregonBuffer > OregonPreamble
=============================================================================
