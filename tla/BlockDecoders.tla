--------------------------- MODULE BlockDecoders ---------------------------
(***************************************************************************)
(* The block decoders of rf/, which rfReceiveTask calls after a silence.   *)
(* Each reads the burst backwards, from its last sample on, with           *)
(* rfCountSimilar: a run of one level is one count, or 0 if it is longer   *)
(* than a byte counts, and the rest of it another one.  Two, four or (for  *)
(* Mandolyn) one or two counts are a digit.  Each is followed alone.       *)
(*                                                                         *)
(* A burst is any sequence of counts, or a command that                    *)
(* sendArctechCommand of a TellStick Net has keyed.                        *)
(***************************************************************************)
EXTENDS StreamBits, FiniteSets, SequencesExt

CONSTANTS
  BlockCounts,   (* the counts of a burst, for each decoder                *)
  MaxCount,      (* 255, the longest run that rfCountSimilar counts        *)
  SignalLength,  (* SIGNAL_LENGTH of arctech.c, 31                         *)
  MaxSignal,     (* the most digits it reads, 36                           *)
  CodeSwitchDigits, EverflourishDigits, Pt2262Digits,   (* 12, 24, 12      *)
  MandolynDigits,(* 32, before the preamble                                *)
  CrcPolynom,    (* the bits of CRCPOLYNOM, an unsigned char: {0, 4, 5}    *)
  HouseBits, UnitBits,   (* of a command, 26 and 4                         *)
  Commands,      (* the commands keyed: their house, unit and method       *)
  Pulses,        (* the lengths, in samples, of short, long and start      *)
                 (* pulses of a command                                    *)
  Silences       (* the lengths of the silence before a command            *)

Decoders == {"selflearning", "codeswitch", "fineoffset", "everflourish",
             "mandolyn", "x10", "pt2262"}

ASSUME BlockAssumption ==
  /\ DOMAIN BlockCounts = Decoders
  /\ \A d \in Decoders : BlockCounts[d] \subseteq 0 .. MaxCount
  /\ {MaxCount, SignalLength, MaxSignal, HouseBits, UnitBits} \subseteq Nat
  /\ HouseBits + UnitBits + 2 = SignalLength + 1
  /\ SignalLength < MaxSignal
  /\ {CodeSwitchDigits, EverflourishDigits, Pt2262Digits} \subseteq Nat \ {0}
  /\ MandolynDigits \in Nat
  /\ CrcPolynom \subseteq 0 .. ByteBits - 1

\* Every decoder that compares them with a limit can tell a long pulse and a
\* start pulse from a short one, and a silence from a short one; what
\* Everflourish and X10 read of a command is no more than there is.
ASSUME CommandAssumption ==
  /\ MaxCount >= 25
  /\ Pulses["short"] \subseteq 0 .. 9
  /\ Pulses["long"] \cup Pulses["start"] \subseteq 25 .. MaxCount
  /\ Silences \subseteq {silence \in Nat : silence > 9}
  /\ ByteBits % 2 = 0
  /\ {2 * ByteBits, EverflourishDigits} \subseteq 1 .. SignalLength + 1

VARIABLES
  parse,    (* the decoder called: where it is, the counts of the digit    *)
            (* it reads, how many digits it has read, and what it stored   *)
            (* of them: the positions of the bits that are 1, or for       *)
            (* PT2262 a number                                             *)
  air,      (* what is left to read of a command: for each run of a level  *)
            (* the lengths it may have                                     *)
  command,  (* history: the command keyed, and the silence before it       *)
  digits,   (* history: the digits read                                    *)
  reported  (* history: what the last call has reported                    *)

blockVars == <<parse, air, command, digits, reported>>

Nothing == <<>>
Invalid == 3

-----------------------------------------------------------------------------
\* The digits: which counts they are made of, the first one read at the front.
Fits(counts, shape) == \A k \in DOMAIN shape : counts[k] \in shape[k]

arctechCodeSwitchBit(b) ==
  LET S == 0 .. 9   L == 16 .. MaxCount
  IN  CASE Fits(b, <<L, S, L, S>>) -> 0
        [] Fits(b, <<S, L, L, S>>) -> 1
        [] OTHER -> Invalid

arctechSelflearningBit(b) ==
  LET S == 0 .. 9   L == 16 .. MaxCount
  IN  CASE Fits(b, <<L, S, S, S>>) -> 0
        [] Fits(b, <<S, S, L, S>>) -> 1
        [] OTHER -> Invalid

everflourishBit(b) ==
  LET S == 0 .. 12   L == 17 .. MaxCount
  IN  CASE Fits(b, <<S, S, S, L>>) -> 1
        [] Fits(b, <<S, L, S, S>>) -> 0
        [] OTHER -> Invalid

x10Bit(b) ==
  LET S == 0 .. 12   L == 25 .. MaxCount
  IN  CASE Fits(b, <<S, S>>) -> 0
        [] Fits(b, <<L, S>>) -> 1
        [] OTHER -> Invalid

pt2262Bit(b) ==
  LET S == 6 .. 14   L == 21 .. 29
  IN  CASE Fits(b, <<L, S, L, S>>) -> 0
        [] Fits(b, <<S, L, S, L>>) -> 1
        [] Fits(b, <<S, L, L, S>>) -> 2
        [] OTHER -> Invalid

MandolynZero(b1) == b1 \in 30 .. 40

mandolynBit(b) ==
  CASE MandolynZero(b[1]) -> 0
    [] ~ MandolynZero(b[1]) /\ Fits(b, <<10 .. 20, 10 .. 20>>) -> 1
    [] OTHER -> Invalid

fineOffsetBit(b) ==
  LET S == 0 .. 10   L == 14 .. MaxCount
  IN  CASE Fits(b, <<L, L>>) -> 0
        [] Fits(b, <<S, L>>) -> 1
        [] OTHER -> Invalid

Digit(d, b) ==
  CASE d = "codeswitch" -> arctechCodeSwitchBit(b)
    [] d = "selflearning" -> arctechSelflearningBit(b)
    [] d = "everflourish" -> everflourishBit(b)
    [] d = "x10" -> x10Bit(b)
    [] d = "pt2262" -> pt2262Bit(b)
    [] d = "mandolyn" -> mandolynBit(b)
    [] d = "fineoffset" -> fineOffsetBit(b)

\* These counts are all that the decoder reads before it decides on a digit.
IsDigit(d, b) ==
  \/ Len(b) = IF d \in {"x10", "mandolyn", "fineoffset"} THEN 2 ELSE 4
  \/ d = "mandolyn" /\ MandolynZero(b[1])

DigitsOf(d) ==
  CASE d = "selflearning" -> MaxSignal
    [] d = "codeswitch" -> CodeSwitchDigits
    [] d = "fineoffset" -> 5 * ByteBits
    [] d = "everflourish" -> EverflourishDigits
    [] d = "mandolyn" -> MandolynDigits + 4
    [] d = "x10" -> 4 * ByteBits
    [] d = "pt2262" -> Pt2262Digits

\* What a digit of PT2262 counts, from the first one read on.
power[n \in 0 .. Pt2262Digits] == IF n = 0 THEN 1 ELSE 3 * power[n - 1]

-----------------------------------------------------------------------------
\* Bits are stored from the lowest up, but codeswitch shifts them in, and
\* selflearning, when its long is full, shifts the oldest one out.
Up(bits) == {p + 1 : p \in bits}
Down(bits) == {p - 1 : p \in bits \ {0}}

OnlyIf(bits, digit) == {p \in bits : digit = 1}

\* Mutant of ArctechStored: the oldest bit stays.
ArctechUnshifted(data, n, digit) ==
  data \cup OnlyIf({IF n > SignalLength THEN SignalLength ELSE n}, digit)

ArctechStored(data, n, digit) ==
  IF n > SignalLength
    THEN Down(data) \cup OnlyIf({SignalLength}, digit)
    ELSE data \cup OnlyIf({n}, digit)

Stored(d, data, n, digit) ==
  CASE d = "pt2262" -> data + digit * power[n]
    [] d = "codeswitch" -> Up(data) \cup OnlyIf({0}, digit)
    [] d = "selflearning" -> ArctechStored(data, n, digit)
    [] OTHER -> data \cup OnlyIf({n}, digit)

\* The loop of calculateCrc8 over one byte, its highest bit first.
CrcBit(crc, bit) ==
  LET shifted == Up(crc) \ {ByteBits}
      onebit == (ByteBits - 1 \in crc) # bit
  IN  IF onebit THEN (shifted \ CrcPolynom) \cup (CrcPolynom \ shifted)
      ELSE shifted

calculateCrc8(crc, byte) ==
  LET after[k \in 0 .. ByteBits] ==
        IF k = 0 THEN crc ELSE CrcBit(after[k - 1], ByteBits - k \in byte)
  IN  after[ByteBits]

\* The byte at a place of the digits, the one read first at 0.
ByteAt(data, place) ==
  {b \in 0 .. ByteBits - 1 : place * ByteBits + b \in data}

\* Fine Offset is read from its last byte, the checksum, to its first one.
CrcFits(data) ==
  LET crc[n \in 0 .. 4] ==
        IF n = 0 THEN {} ELSE calculateCrc8(crc[n - 1], ByteAt(data, 5 - n))
  IN  crc[4] = ByteAt(data, 0)

Complements(byte1, byte2) == byte1 = (0 .. ByteBits - 1) \ byte2

MandolynPreamble == {MandolynDigits + 2, MandolynDigits + 3}

\* What is left to check when all digits are read.
Accepted(d, data) ==
  CASE d = "codeswitch" -> data # {}
    [] d = "x10" -> /\ Complements(ByteAt(data, 3), ByteAt(data, 2))
                    /\ Complements(ByteAt(data, 1), ByteAt(data, 0))
    [] d = "mandolyn" -> {p \in data : p >= MandolynDigits} = MandolynPreamble
    [] d = "fineoffset" -> CrcFits(data)
    [] OTHER -> TRUE

Report(d, data) ==
  [decoder |-> d,
   data |-> IF d = "mandolyn" THEN {p \in data : p < MandolynDigits} ELSE data]

-----------------------------------------------------------------------------
\* transmit_arctech.c: the pulses of a command, in the order keyed.
Short == Pulses["short"]
Long == Pulses["long"]
sendOne == <<Short, Long, Short, Short>>
sendZero == <<Short, Short, Short, Long>>

BitOf(n, p) == (n \div 2 ^ p) % 2

\* Mutant of sendBits: the lowest bit is keyed first.
sendBitsUp(n, bits) ==
  FlattenSeq([k \in 1 .. bits |->
                IF BitOf(n, k - 1) = 1 THEN sendOne ELSE sendZero])

\* The lowest bits of a number, the highest of them first.
sendBits(n, bits) ==
  FlattenSeq([k \in 1 .. bits |->
                IF BitOf(n, bits - k) = 1 THEN sendOne ELSE sendZero])

\* Mutant of KeyedCommand: the group bit is left out.
KeyedWithoutGroup(c) ==
  <<Short, Pulses["start"]>> \o sendBits(c.house, HouseBits)
    \o (IF c.method = 1 THEN sendOne ELSE sendZero)
    \o sendBits(c.unit, UnitBits) \o <<Short>>

KeyedCommand(c) ==
  <<Short, Pulses["start"]>> \o sendBits(c.house, HouseBits) \o sendZero
    \o (IF c.method = 1 THEN sendOne ELSE sendZero)
    \o sendBits(c.unit, UnitBits) \o <<Short>>

-----------------------------------------------------------------------------
Idle == [decoder |-> "none", at |-> "idle", counts |-> <<>>, read |-> 0,
         data |-> {}]

BlockInit ==
  /\ parse = Idle
  /\ air = <<>>
  /\ command = Nothing
  /\ digits = <<>>
  /\ reported = Nothing

Call(d) ==
  /\ parse.at = "idle"
  /\ parse' = [decoder |-> d, counts |-> <<>>, read |-> 0,
               data |-> IF d = "pt2262" THEN 0 ELSE {},
               at |-> IF d \in {"everflourish", "fineoffset"} THEN "digit"
                      ELSE "skip"]
  /\ UNCHANGED <<digits, reported>>

CallOnAny(d) == Call(d) /\ air' = <<>> /\ command' = Nothing

CallOnCommand(d, c, silence) ==
  /\ Call(d)
  /\ air' = << {silence} >> \o KeyedCommand(c)
  /\ command' = [keyed |-> c, silence |-> silence]

Lengths == IF air = <<>> THEN BlockCounts[parse.decoder] ELSE Last(air)

\* The run at the place of the decoder has this length.
rfCountSimilar(length) ==
  air' = CASE air = <<>> -> air
           [] air # <<>> /\ length <= MaxCount -> Front(air)
           [] air # <<>> /\ length > MaxCount ->
                Append(Front(air), {length - MaxCount})

Count(length) == IF length <= MaxCount THEN length ELSE 0

\* The pulse that ends the burst.
SkipLast ==
  /\ parse.at = "skip"
  /\ \E length \in Lengths : rfCountSimilar(length)
  /\ parse' = [parse EXCEPT !.at = "digit"]
  /\ UNCHANGED <<command, digits, reported>>

\* The next run of a digit.
Read(length) ==
  /\ parse.at = "digit"
  /\ rfCountSimilar(length)
  /\ UNCHANGED command

Counted(length) == Append(parse.counts, Count(length))
DigitWith(length) == Digit(parse.decoder, Counted(length))

InDigit(length) ==
  /\ Read(length)
  /\ ~ IsDigit(parse.decoder, Counted(length))
  /\ parse' = [parse EXCEPT !.counts = Counted(length)]
  /\ UNCHANGED <<digits, reported>>

\* The call is over; it may report.
Ends(report) ==
  /\ parse' = [parse EXCEPT !.at = "over", !.counts = <<>>]
  /\ reported' = report

\* Counts that are no digit: not this protocol, unless selflearning has all
\* its digits, or all but the last one, which the sender may leave out.
NoDigit(length) ==
  LET d == parse.decoder
  IN  /\ Read(length)
      /\ IsDigit(d, Counted(length))
      /\ DigitWith(length) = Invalid
      /\ UNCHANGED digits
      /\ Ends(IF d = "selflearning" /\ parse.read >= SignalLength
                THEN Report(d, parse.data) ELSE Nothing)

TakeDigit(length) ==
  LET d == parse.decoder
      digit == DigitWith(length)
      data == Stored(d, parse.data, parse.read, digit)
  IN  /\ Read(length)
      /\ IsDigit(d, Counted(length))
      /\ digit # Invalid
      /\ digits' = Append(digits, digit)
      /\ IF parse.read + 1 < DigitsOf(d)
           THEN /\ parse' = [parse EXCEPT !.counts = <<>>, !.data = data,
                                          !.read = parse.read + 1]
                /\ UNCHANGED reported
           ELSE Ends(IF Accepted(d, data) THEN Report(d, data) ELSE Nothing)

\* Its variables are local.
Return ==
  /\ parse.at = "over"
  /\ parse' = Idle
  /\ air' = <<>>
  /\ command' = Nothing
  /\ digits' = <<>>
  /\ reported' = Nothing

BlockNext ==
  \/ \E d \in Decoders : CallOnAny(d)
  \/ \E d \in Decoders, c \in Commands, silence \in Silences :
       CallOnCommand(d, c, silence)
  \/ SkipLast
  \/ Return
  \/ /\ parse.at = "digit"
     /\ \E length \in Lengths :
          InDigit(length) \/ NoDigit(length) \/ TakeDigit(length)

BlockSpec == BlockInit /\ [][BlockNext]_blockVars

-----------------------------------------------------------------------------
BlockTypeOK ==
  /\ parse.at \in {"idle", "skip", "digit", "over"}
  /\ parse.at # "idle" => parse.decoder \in Decoders
  /\ parse.decoder = "pt2262" => parse.data \in 0 .. power[Pt2262Digits] - 1
  /\ parse.decoder = "selflearning" => parse.data \subseteq 0 .. SignalLength
  /\ Len(parse.counts) < 4
  /\ reported # Nothing => parse.at = "over"

Ones(bits) == {k - 1 : k \in {n \in DOMAIN bits : bits[n] = 1}}

\* The products of CRCPOLYNOM, with its highest bit, and any polynomial.
Multiples ==
  LET polynom == CrcPolynom \cup {ByteBits}
      Terms(q, n) == {t \in q \X polynom : t[1] + t[2] = n}
  IN  { {n \in 0 .. 5 * ByteBits - 1 : Cardinality(Terms(q, n)) % 2 = 1} :
          q \in SUBSET (0 .. 4 * ByteBits - 1) }

\* Digits to base 3, the last one the highest.
Ternary(s) ==
  LET value[n \in 0 .. Len(s)] ==
        IF n = 0 THEN 0 ELSE s[(Len(s) - n) + 1] + 3 * value[n - 1]
  IN  value[Len(s)]

\* What a burst of these digits means: its value, or Nothing if it is none of
\* the protocol.  The first digit read is the lowest, except for codeswitch, and
\* selflearning means the last 32 of its digits.
Meaning(d, s) ==
  CASE d = "selflearning" ->
         IF Len(s) < SignalLength THEN Nothing
         ELSE IF Len(s) = SignalLength THEN Report(d, Ones(s))
         ELSE Report(d, Ones(SubSeq(s, Len(s) - SignalLength, Len(s))))
    [] d # "selflearning" /\ Len(s) < DigitsOf(d) -> Nothing
    [] d = "codeswitch" /\ Len(s) = DigitsOf(d) ->
         IF Ones(s) = {} THEN Nothing ELSE Report(d, Ones(Reverse(s)))
    [] d = "x10" /\ Len(s) = DigitsOf(d) ->
         IF \A k \in 1 .. ByteBits : /\ s[k] # s[k + ByteBits]
                                     /\ s[k + 2 * ByteBits] # s[k + 3 * ByteBits]
           THEN Report(d, Ones(s)) ELSE Nothing
    [] d = "mandolyn" /\ Len(s) = DigitsOf(d) ->
         IF SubSeq(s, MandolynDigits + 1, Len(s)) = <<0, 0, 1, 1>>
           THEN Report(d, Ones(SubSeq(s, 1, MandolynDigits))) ELSE Nothing
    [] d = "fineoffset" /\ Len(s) = DigitsOf(d) ->
         IF Ones(s) \in Multiples THEN Report(d, Ones(s)) ELSE Nothing
    [] d = "everflourish" /\ Len(s) = DigitsOf(d) -> Report(d, Ones(s))
    [] d = "pt2262" /\ Len(s) = DigitsOf(d) ->
         Report(d, Ternary(s))

\* A decoder reports exactly what the digits it has read mean: every bit at its
\* place, selflearning the last 32 digits whether 31, 32 or up to 36 could be
\* read, and a checksum, a complement or a preamble that is wrong in any bit is
\* no report (arctech.c:78-123, x10.c:44-50, mandolyn.c:49-60,
\* fineoffset.c:54-61).
BlockHears ==
  parse.at = "over" =>
    reported = Meaning(parse.decoder, digits)

\* What a command says: house, group, method and unit, the unit the lowest.
CommandValue(c) ==
  {p \in 0 .. UnitBits - 1 : BitOf(c.unit, p) = 1}
    \cup {p \in {UnitBits} : c.method = 1}
    \cup {p + UnitBits + 2 : p \in {h \in 0 .. HouseBits - 1 :
                                      BitOf(c.house, h) = 1}}

Over(d) == parse.at = "over" /\ parse.decoder = d /\ command # Nothing

\* The start pulse and a silence that is counted as 0 twice, or as 0 and a few
\* samples, look like one more digit.
LooksLikeDigit(silence) ==
  silence > MaxCount /\ Count(silence - MaxCount) < 10

\* A command that a TellStick Net keys (transmit_arctech.c:65-95) is reported by
\* the selflearning decoder of another one as the house, method and unit it was
\* keyed for, unless the silence before it looks like a digit (receive.c:106,
\* arctech.c:84-105).
CommandHeard ==
  Over("selflearning") /\ ~ LooksLikeDigit(command.silence) =>
    reported = Report("selflearning", CommandValue(command.keyed))

\* For what else a command is taken: always for a message of Everflourish, and
\* for one of X10 exactly if its lowest digits are each other's complement;
\* never for another protocol (receive.c:206-214).
AlsoTakenFor ==
  LET value == CommandValue(command.keyed)
      half == ByteBits \div 2
      Differ(p) == (p \in value) # (p + half \in value)
  IN  /\ \A d \in {"codeswitch", "fineoffset", "mandolyn", "pt2262"} :
           Over(d) => reported = Nothing
      /\ Over("everflourish") =>
           reported = Report("everflourish",
                             {p \in value : p < EverflourishDigits})
      /\ Over("x10") =>
           (reported # Nothing) =
             \A k \in 0 .. half - 1 : Differ(k) /\ Differ(ByteBits + k)
=============================================================================
