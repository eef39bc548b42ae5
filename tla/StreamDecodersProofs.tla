----------------------- MODULE StreamDecodersProofs ------------------------
(***************************************************************************)
(* What the stream decoders send is what they heard, for bytes and         *)
(* messages of every length, every preamble and every sequence of runs.    *)
(***************************************************************************)
EXTENDS StreamDecoders, StreamBitsProofs

-----------------------------------------------------------------------------
(* Oregon sensors: what the static variables say in each state.            *)

OregonStatics ==
  [state : {"wait", "id", "data"}, cnt : 0 .. CountMod - 1, bitCnt : 0 .. 2,
   byte : Seq(Bit), totByteCnt : Int, byteLength : Int, id : Seq(Byte),
   length : Int, buffer : [0 .. OregonBuffer - 1 -> Byte]]

\* The same while it parses a message.
OregonParses ==
  [state : {"id", "data"}, cnt : 0 .. OregonBuffer, bitCnt : 0 .. 2,
   byte : Seq(Bit), totByteCnt : Int, byteLength : Int, id : Seq(Byte),
   length : Int, buffer : [0 .. OregonBuffer - 1 -> Byte]]

\* In an id nothing is stored yet; in the data what is stored and what is still
\* to come make up the length that the id tells.
OregonForm ==
  /\ oregon \in OregonStatics
  /\ Len(oregon.byte) < ByteBits
  /\ oregon.state = "wait" => oregon.byte = <<>>
  /\ oregon.state = "id" => oregon.cnt = 0
  /\ oregon.state = "data" =>
       /\ oregon.id \in OregonIds /\ oregon.length >= 1
       /\ oregon.cnt + oregon.length = OregonLength[oregon.id]

\* The bits heard are those of the bytes and of the part of a byte.  A message
\* sent is told for one run, in which nothing is parsed.
OregonBits ==
  /\ oregon.state = "id" => oregonHeard = Joined(oregon.id) \o oregon.byte
  /\ oregon.state = "data" =>
       oregonHeard = Joined(oregon.id \o FirstBytes(oregon.buffer, oregon.cnt))
                       \o oregon.byte
  /\ OregonParsing => oregonSent = <<>>
  /\ oregonSent # <<>> =>
       /\ oregonHeard = Joined(oregonSent[1] \o oregonSent[2])
       /\ Len(oregonSent[2]) = OregonLength[oregonSent[1]]

\* cnt is ahead of the big pulses by the bytes of the last message at most.
OregonCounted ==
  /\ oregonBigs \in Nat
  /\ oregon.state = "wait" =>
       \/ oregon.cnt <= oregonBigs + OregonBuffer
       \/ oregonBigs > OregonPreamble
  /\ OregonParsing => oregonBigs + OregonBuffer > OregonPreamble

OregonInv == OregonForm /\ OregonBits /\ OregonCounted

LEMMA OregonSizes ==
  /\ OregonPreamble \in Nat /\ OregonBuffer \in Nat \ {0}
  /\ OregonBuffer < CountMod
  /\ \A id \in OregonIds : /\ id \in Seq(Byte) /\ id # <<>>
                           /\ OregonLength[id] \in 1 .. OregonBuffer
<1>1. OregonPreamble \in Nat /\ OregonBuffer \in Nat \ {0}
      /\ OregonBuffer < CountMod
  BY OregonAssumption
<1>2. ASSUME NEW id \in OregonIds
      PROVE  id \in Seq(Byte) /\ id # <<>> /\ OregonLength[id] \in 1 .. OregonBuffer
  <2>1. id \in Byte \X Byte /\ OregonLength[id] \in 1 .. OregonBuffer
    BY OregonAssumption
  <2>2. PICK a \in Byte, b \in Byte : id = <<a, b>>
    BY <2>1
  <2>3. QED
    BY <2>1, <2>2
<1>3. QED
  BY <1>1, <1>2

LEMMA OregonStart == OregonInit => OregonInv
<1> SUFFICES ASSUME OregonInit PROVE OregonInv
  OBVIOUS
<1>1. <<>> \in Seq(Bit) /\ Len(<<>>) = 0 /\ <<>> \in Seq(Byte)
  BY EmptySeq
<1>2. Zero \in Byte
  BY ByteIsSeq
<1>3. oregon \in OregonStatics
  BY <1>1, <1>2, ByteSizes DEF OregonInit, OregonStatics
<1>4. oregon.state = "wait" /\ oregon.byte = <<>> /\ oregon.cnt = 0
  BY DEF OregonInit
<1>5. oregonSent = <<>> /\ oregonBigs = 0
  BY DEF OregonInit
<1>6. OregonForm
  BY <1>1, <1>3, <1>4, ByteSizes DEF OregonForm
<1>7. OregonBits
  BY <1>4, <1>5 DEF OregonBits, OregonParsing
<1>8. OregonCounted
  BY <1>4, <1>5, OregonSizes DEF OregonCounted, OregonParsing
<1>9. QED
  BY <1>6, <1>7, <1>8 DEF OregonInv

LEMMA OregonCountsStep ==
  ASSUME OregonInv, NEW x, OregonCounts(x)
  PROVE  OregonInv'
<1> DEFINE big == IF OregonBig(x) THEN 1 ELSE 0
<1> USE DEF OregonInv
<1>1. /\ oregon.state = "wait" /\ oregon \in OregonStatics
      /\ oregon.cnt \in 0 .. CountMod - 1 /\ oregonBigs \in Nat
  BY DEF OregonCounts, OregonParsing, OregonForm, OregonStatics, OregonCounted
<1>2. /\ oregon' = [oregon EXCEPT !.cnt = (oregon.cnt + big) % CountMod]
      /\ oregonBigs' = IF OregonBig(x) /\ oregonBigs <= OregonPreamble
                         THEN oregonBigs + 1 ELSE oregonBigs
      /\ oregonSent' = <<>>
  BY DEF OregonCounts
<1>3. /\ (oregon.cnt + big) % CountMod \in 0 .. CountMod - 1
      /\ (oregon.cnt + big) % CountMod <= oregon.cnt + big
  <2>1. oregon.cnt + big \in 0 .. CountMod
    BY <1>1, ByteSizes
  <2>2. oregon.cnt + big \in Int
    BY <2>1, ByteSizes
  <2> DEFINE m == oregon.cnt + big
  <2> HIDE DEF m
  <2>3. m \in Int /\ m \in 0 .. CountMod
    BY <2>1, <2>2 DEF m
  <2>4. m % CountMod \in 0 .. CountMod - 1 /\ m % CountMod <= m
    <3>1. m \in 0 .. CountMod - 1 => m % CountMod = m
      BY <2>3, ByteSizes, NearMod
    <3>2. m \in CountMod .. 2 * CountMod - 1 => m % CountMod = m - CountMod
      BY <2>3, ByteSizes, NearMod
    <3>3. QED
      BY <2>3, <3>1, <3>2, ByteSizes
  <2>5. QED
    BY <2>4 DEF m
<1> DEFINE c == (oregon.cnt + big) % CountMod
<1>4. c \in 0 .. CountMod - 1 /\ c <= oregon.cnt + big
  BY <1>3
<1>5. oregon' = [oregon EXCEPT !.cnt = c]
  BY <1>2
<1> HIDE DEF c
<1>6. /\ oregon' \in OregonStatics
      /\ oregon'.state = "wait" /\ oregon'.byte = oregon.byte /\ oregon'.cnt = c
  BY <1>1, <1>4, <1>5 DEF OregonStatics
<1>7. OregonForm'
  BY <1>1, <1>6 DEF OregonForm
<1>8. OregonBits'
  BY <1>2, <1>6 DEF OregonBits, OregonParsing
<1>9. OregonCounted'
  <2>1. big \in 0 .. 1 /\ (big = 1 <=> OregonBig(x))
    OBVIOUS
  <2> HIDE DEF big
  <2>2. \/ oregon.cnt <= oregonBigs + OregonBuffer
        \/ oregonBigs > OregonPreamble
    BY <1>1 DEF OregonCounted
  <2>3. oregonBigs' \in Nat
    BY <1>1, <1>2
  <2>4. c <= oregonBigs' + OregonBuffer \/ oregonBigs' > OregonPreamble
    BY <1>1, <1>2, <1>4, <2>1, <2>2, OregonSizes, ByteSizes
  <2>5. QED
    BY <1>6, <2>3, <2>4 DEF OregonCounted, OregonParsing
<1>10. QED
  BY <1>7, <1>8, <1>9

LEMMA OregonBeginsStep ==
  ASSUME OregonInv, NEW x, OregonBegins(x)
  PROVE  OregonInv'
<1> USE DEF OregonInv
<1>1. /\ oregon.state = "wait" /\ oregon \in OregonStatics
      /\ oregon.cnt \in 0 .. CountMod - 1 /\ oregonBigs \in Nat
      /\ oregon.byte = <<>> /\ <<>> \in Seq(Byte)
  BY EmptySeq DEF OregonBegins, OregonParsing, OregonForm, OregonStatics, OregonCounted
<1>6. oregon \in OregonStatics /\ 0 \in 0 .. CountMod - 1 /\ <<>> \in Seq(Byte)
  BY <1>1, ByteSizes
<1>2. oregonSent' = <<>> /\ oregonHeard' = <<>>
  BY DEF OregonBegins
<1>3. CASE oregon.cnt > OregonPreamble
  <2>1. /\ oregon' = [oregon EXCEPT !.cnt = 0, !.state = "id", !.id = <<>>]
        /\ oregonBigs' = oregonBigs
    BY <1>3 DEF OregonBegins
  <2>2. /\ oregon' \in OregonStatics /\ oregon'.cnt = 0 /\ oregon'.state = "id"
        /\ oregon'.id = <<>> /\ oregon'.byte = <<>>
    <3>1. oregon' \in OregonStatics
      BY <1>6, <2>1 DEF OregonStatics
    <3>2. oregon'.cnt = 0 /\ oregon'.state = "id" /\ oregon'.id = <<>>
      BY <1>1, <2>1 DEF OregonStatics
    <3>3. oregon'.byte = oregon.byte
      BY <1>1, <2>1 DEF OregonStatics
    <3>4. QED
      BY <1>1, <3>1, <3>2, <3>3
  <2>3. OregonForm'
    BY <1>1, <2>2 DEF OregonForm
  <2>4. Joined(<<>>) \o <<>> = <<>>
    BY JoinedEmpty, ConcatEmptySeq
  <2>5. OregonBits'
    BY <1>2, <2>2, <2>4 DEF OregonBits, OregonParsing
  <2>6. oregonBigs + OregonBuffer > OregonPreamble
    BY <1>1, <1>3, OregonSizes, ByteSizes DEF OregonCounted
  <2>7. OregonCounted'
    BY <1>1, <2>1, <2>2, <2>6 DEF OregonCounted, OregonParsing
  <2>8. QED
    BY <2>3, <2>5, <2>7
<1>4. CASE ~ (oregon.cnt > OregonPreamble)
  <2>1. oregon' = [oregon EXCEPT !.cnt = 0] /\ oregonBigs' = 0
    <3>1. oregon' = [oregon EXCEPT !.cnt = 0, !.state = oregon.state,
                                   !.id = oregon.id]
      BY <1>4 DEF OregonBegins
    <3>2. QED
      BY <1>1, <1>4, <3>1 DEF OregonBegins, OregonStatics
  <2>2. /\ oregon' \in OregonStatics /\ oregon'.cnt = 0 /\ oregon'.state = "wait"
        /\ oregon'.byte = <<>>
    <3>1. oregon' \in OregonStatics
      BY <1>6, <2>1 DEF OregonStatics
    <3>2. oregon'.cnt = 0 /\ oregon'.state = oregon.state
      BY <1>1, <2>1 DEF OregonStatics
    <3>3. oregon'.byte = oregon.byte
      BY <1>1, <2>1 DEF OregonStatics
    <3>4. QED
      BY <1>1, <3>1, <3>2, <3>3
  <2>3. OregonForm'
    BY <1>1, <2>2 DEF OregonForm
  <2>4. OregonBits'
    BY <1>2, <2>2 DEF OregonBits, OregonParsing
  <2>5. OregonCounted'
    BY <2>1, <2>2, OregonSizes DEF OregonCounted, OregonParsing
  <2>6. QED
    BY <2>3, <2>4, <2>5
<1>5. QED
  BY <1>3, <1>4


\* What holds of the variables of a decoder that parses a message.
LEMMA OregonReads ==
  ASSUME OregonInv, OregonParsing
  PROVE  /\ oregon \in OregonStatics
         /\ oregon.byte \in Seq(Bit) /\ Len(oregon.byte) < ByteBits
         /\ Len(oregon.byte) \in Nat
         /\ oregon.id \in Seq(Byte)
         /\ oregon.buffer \in [0 .. OregonBuffer - 1 -> Byte]
         /\ oregon.cnt \in 0 .. OregonBuffer /\ oregon.length \in Int
         /\ oregon.totByteCnt \in Int
         /\ oregon.state \in {"id", "data"}
         /\ oregonSent = <<>> /\ oregonBigs \in Nat
         /\ oregonBigs + OregonBuffer > OregonPreamble
<1> USE DEF OregonInv
<1>1. /\ oregon \in OregonStatics /\ Len(oregon.byte) < ByteBits
      /\ oregon.byte \in Seq(Bit) /\ oregon.id \in Seq(Byte)
      /\ oregon.buffer \in [0 .. OregonBuffer - 1 -> Byte]
      /\ oregon.length \in Int /\ oregon.totByteCnt \in Int
      /\ oregon.cnt \in 0 .. CountMod - 1
      /\ oregon.state \in {"id", "data"}
  BY DEF OregonForm, OregonStatics, OregonParsing
<1>2. Len(oregon.byte) \in Nat
  BY <1>1, LenProperties
<1>3. oregon.cnt \in 0 .. OregonBuffer
  <2>1. CASE oregon.state = "id"
    BY <2>1, OregonSizes DEF OregonForm
  <2>2. CASE oregon.state = "data"
    <3>1. oregon.id \in OregonIds /\ oregon.length >= 1
          /\ oregon.cnt + oregon.length = OregonLength[oregon.id]
      BY <2>2 DEF OregonForm
    <3>2. OregonLength[oregon.id] \in 1 .. OregonBuffer
      BY <3>1, OregonSizes
    <3>3. QED
      BY <1>1, <3>1, <3>2, OregonSizes, ByteSizes
  <2>3. QED
    BY <1>1, <2>1, <2>2
<1>4. oregonSent = <<>> /\ oregonBigs \in Nat
      /\ oregonBigs + OregonBuffer > OregonPreamble
  BY DEF OregonBits, OregonCounted
<1>5. QED
  BY <1>1, <1>2, <1>3, <1>4

\* There is room for the byte that comes.
LEMMA OregonRoom ==
  ASSUME OregonInv, oregon.state = "data"
  PROVE  /\ oregon.id \in OregonIds /\ oregon.length >= 1
         /\ oregon.cnt + oregon.length = OregonLength[oregon.id]
         /\ oregon.cnt \in 0 .. OregonBuffer - 1
         /\ FirstBytes(oregon.buffer, oregon.cnt) \in Seq(Byte)
         /\ Len(FirstBytes(oregon.buffer, oregon.cnt)) = oregon.cnt
         /\ oregon.id \o FirstBytes(oregon.buffer, oregon.cnt) \in Seq(Byte)
<1>1. /\ oregon.id \in OregonIds /\ oregon.length >= 1
      /\ oregon.cnt + oregon.length = OregonLength[oregon.id]
  BY DEF OregonInv, OregonForm
<1>2. /\ oregon.buffer \in [0 .. OregonBuffer - 1 -> Byte]
      /\ oregon.cnt \in 0 .. OregonBuffer /\ oregon.length \in Int
      /\ oregon.id \in Seq(Byte)
  BY OregonReads DEF OregonParsing
<1>3. OregonLength[oregon.id] \in 1 .. OregonBuffer
  BY <1>1, OregonSizes
<1>4. oregon.cnt \in 0 .. OregonBuffer - 1
  BY <1>1, <1>2, <1>3, OregonSizes
<1>5. /\ FirstBytes(oregon.buffer, oregon.cnt) \in Seq(Byte)
      /\ Len(FirstBytes(oregon.buffer, oregon.cnt)) = oregon.cnt
  <2>1. OregonBuffer \in Nat /\ Zero \in Byte
    BY OregonSizes, ByteIsSeq
  <2>2. QED
    BY <1>2, <1>4, <2>1, FirstBytesMore
<1>6. QED
  BY <1>1, <1>2, <1>4, <1>5, ConcatProperties

\* A decoder that is cleared, and nothing sent, or a message that was.
LEMMA OregonCleared ==
  ASSUME OregonInv, NEW o \in OregonStatics, oregon' = ClearOregon(o),
         o.cnt <= OregonBuffer, oregonBigs' = 0,
         oregonSent' # <<>> =>
           /\ oregonHeard' = Joined(oregonSent'[1] \o oregonSent'[2])
           /\ Len(oregonSent'[2]) = OregonLength[oregonSent'[1]]
  PROVE  OregonInv'
<1> USE DEF OregonInv
<1>1. /\ 0 \in 0 .. 2 /\ 0 \in Int /\ -1 \in Int
      /\ <<>> \in Seq(Bit) /\ Len(<<>>) = 0
  BY EmptySeq
<1>2. /\ oregon' \in OregonStatics
      /\ oregon'.state = "wait" /\ oregon'.byte = <<>> /\ oregon'.cnt = o.cnt
  BY <1>1 DEF ClearOregon, OregonStatics
<1>3. OregonForm'
  BY <1>1, <1>2, ByteSizes DEF OregonForm
<1>4. OregonBits'
  BY <1>2 DEF OregonBits, OregonParsing
<1>5. o.cnt <= 0 + OregonBuffer
  BY OregonSizes
<1>6. OregonCounted'
  BY <1>2, <1>5 DEF OregonCounted, OregonParsing
<1>7. QED
  BY <1>3, <1>4, <1>6

LEMMA OregonDropStep ==
  ASSUME OregonInv, NEW x, OregonDrop(x)
  PROVE  OregonInv'
<1>1. OregonParsing /\ oregon' = ClearOregon(oregon) /\ oregonBigs' = 0
      /\ oregonSent' = oregonSent
  BY DEF OregonDrop
<1>2. oregon \in OregonStatics /\ oregon.cnt <= OregonBuffer /\ oregonSent' = <<>>
  BY <1>1, OregonReads, OregonSizes
<1>3. QED
  BY <1>1, <1>2, OregonCleared

LEMMA OregonMoreDataStep ==
  ASSUME OregonInv, NEW level, NEW x, OregonMoreData(level, x)
  PROVE  OregonInv'
<1> USE DEF OregonInv
<1>1. /\ OregonParsing
      /\ \E b \in 0 .. 2 : oregon' = [oregon EXCEPT !.bitCnt = b]
  BY DEF OregonMoreData
<1>2. oregonHeard' = oregonHeard /\ oregonBigs' = oregonBigs
      /\ oregonSent' = oregonSent
  BY DEF OregonMoreData
<1>3. PICK b \in 0 .. 2 : oregon' = [oregon EXCEPT !.bitCnt = b]
  BY <1>1
<1>4. oregon \in OregonStatics
  BY <1>1, OregonReads
<1>5. oregon' \in OregonStatics
  BY <1>3, <1>4 DEF OregonStatics
<1>6. /\ oregon'.state = oregon.state /\ oregon'.byte = oregon.byte
      /\ oregon'.cnt = oregon.cnt /\ oregon'.id = oregon.id
      /\ oregon'.buffer = oregon.buffer /\ oregon'.length = oregon.length
  BY <1>3, <1>4 DEF OregonStatics
<1>7. OregonForm'
  BY <1>5, <1>6 DEF OregonForm
<1>8. OregonBits'
  BY <1>2, <1>6 DEF OregonBits, OregonParsing
<1>9. OregonCounted'
  BY <1>2, <1>6 DEF OregonCounted, OregonParsing
<1>10. QED
  BY <1>7, <1>8, <1>9

\* A bit is added.
LEMMA OregonBitAdded ==
  ASSUME OregonInv, NEW level \in Bit, OregonParsing
  PROVE  LET b == WithOregonBit(level)
         IN  /\ b \in OregonParses
             /\ b.state = oregon.state /\ b.byte = Append(oregon.byte, level)
             /\ b.cnt = oregon.cnt /\ b.id = oregon.id
             /\ b.buffer = oregon.buffer /\ b.length = oregon.length
             /\ b.byte \in Seq(Bit) /\ Len(b.byte) = Len(oregon.byte) + 1
<1> DEFINE t == (oregon.totByteCnt + 1) % CountMod
           s == Append(oregon.byte, level)
<1>1. /\ oregon \in OregonStatics /\ oregon.byte \in Seq(Bit)
      /\ oregon.totByteCnt \in Int /\ oregon.cnt \in 0 .. OregonBuffer
      /\ oregon.state \in {"id", "data"}
  BY OregonReads
<1>2. t \in Int
  <2>1. oregon.totByteCnt + 1 \in Int
    BY <1>1
  <2>2. QED
    BY <2>1, ByteSizes, DivMod, SMTT(30)
<1>3. s \in Seq(Bit) /\ Len(s) = Len(oregon.byte) + 1
  BY <1>1, AppendProperties
<1>4. WithOregonBit(level) =
        [oregon EXCEPT !.bitCnt = 2, !.byte = s, !.totByteCnt = t]
  BY DEF WithOregonBit
<1> HIDE DEF t, s
<1> DEFINE b == [oregon EXCEPT !.bitCnt = 2, !.byte = s, !.totByteCnt = t]
<1>5. /\ b.state = oregon.state /\ b.byte = s /\ b.cnt = oregon.cnt
      /\ b.id = oregon.id /\ b.buffer = oregon.buffer /\ b.length = oregon.length
  BY <1>1 DEF OregonStatics
<1>6. b \in OregonParses
  <2>1. oregon \in OregonParses
    BY <1>1 DEF OregonStatics, OregonParses
  <2>2. 2 \in 0 .. 2
    OBVIOUS
  <2>3. QED
    BY <2>1, <2>2, <1>2, <1>3 DEF OregonParses
<1> HIDE DEF b
<1>7. QED
  BY <1>3, <1>4, <1>5, <1>6 DEF b, s

LEMMA OregonInByteStep ==
  ASSUME OregonInv, NEW level \in Bit, NEW x, OregonInByte(level, x)
  PROVE  OregonInv'
<1> USE DEF OregonInv
<1>1. /\ OregonParsing /\ Len(oregon.byte) + 1 < ByteBits
      /\ oregon' = WithOregonBit(level)
      /\ oregonHeard' = Append(oregonHeard, level)
  BY DEF OregonInByte, OregonEndsBit
<1>2. oregonBigs' = oregonBigs /\ oregonSent' = oregonSent
  BY DEF OregonInByte
<1>3. /\ oregon'.state = oregon.state /\ oregon'.byte = Append(oregon.byte, level)
      /\ oregon'.cnt = oregon.cnt /\ oregon'.id = oregon.id
      /\ oregon'.buffer = oregon.buffer /\ oregon'.length = oregon.length
      /\ Len(oregon'.byte) = Len(oregon.byte) + 1
  BY <1>1, OregonBitAdded
<1>4. oregon' \in OregonParses
  BY <1>1, OregonBitAdded
<1>5. oregon' \in OregonStatics
  <2>1. 0 .. OregonBuffer \subseteq 0 .. CountMod - 1
    BY OregonSizes, ByteSizes
  <2>2. QED
    BY <1>4, <2>1 DEF OregonStatics, OregonParses
<1>6. OregonForm'
  <2>1. oregon.state # "wait"
    BY <1>1 DEF OregonParsing
  <2>2. QED
    BY <1>1, <1>3, <1>5, <2>1 DEF OregonForm
<1>7. /\ oregon.byte \in Seq(Bit) /\ oregon.id \in Seq(Byte)
      /\ oregon.buffer \in [0 .. OregonBuffer - 1 -> Byte]
      /\ oregon.cnt \in 0 .. OregonBuffer /\ oregonSent = <<>>
  BY <1>1, OregonReads
<1>8. ASSUME oregon.state = "id"
      PROVE  oregonHeard' = Joined(oregon'.id) \o oregon'.byte
  BY <1>1, <1>3, <1>7, <1>8, HeardBit DEF OregonBits
<1>9. ASSUME oregon.state = "data"
      PROVE  oregonHeard' =
               Joined(oregon'.id \o FirstBytes(oregon'.buffer, oregon'.cnt))
                 \o oregon'.byte
  <2> DEFINE bytes == oregon.id \o FirstBytes(oregon.buffer, oregon.cnt)
  <2>1. bytes \in Seq(Byte)
    BY <1>9, OregonRoom
  <2>2. oregonHeard = Joined(bytes) \o oregon.byte
    BY <1>9 DEF OregonBits
  <2> HIDE DEF bytes
  <2>3. oregonHeard' = Joined(bytes) \o Append(oregon.byte, level)
    BY <1>1, <1>7, <2>1, <2>2, HeardBit
  <2>4. QED
    BY <1>3, <2>3 DEF bytes
<1>10. OregonBits'
  BY <1>2, <1>3, <1>7, <1>8, <1>9 DEF OregonBits
<1>11. OregonCounted'
  BY <1>2, <1>3 DEF OregonCounted, OregonParsing
<1>12. QED
  BY <1>6, <1>10, <1>11

\* What a byte that is complete leaves: its bits are those of the byte, and they
\* are added to the bits heard.
LEMMA OregonByteDone ==
  ASSUME OregonInv, NEW level \in Bit, OregonParsing,
         Len(WithOregonBit(level).byte) = ByteBits
  PROVE  LET b == WithOregonBit(level)
             c == [b EXCEPT !.byte = <<>>]
         IN  /\ c \in OregonParses /\ c.byte = <<>> /\ b.byte \in Byte
             /\ c.state = oregon.state /\ c.cnt = oregon.cnt /\ c.id = oregon.id
             /\ c.buffer = oregon.buffer /\ c.length = oregon.length
             /\ \A bytes \in Seq(Byte) :
                  oregonHeard = Joined(bytes) \o oregon.byte =>
                    Append(oregonHeard, level) = Joined(Append(bytes, b.byte))
<1> DEFINE b == WithOregonBit(level)
           c == [b EXCEPT !.byte = <<>>]
<1>1. /\ b \in OregonParses
      /\ b.state = oregon.state /\ b.byte = Append(oregon.byte, level)
      /\ b.cnt = oregon.cnt /\ b.id = oregon.id
      /\ b.buffer = oregon.buffer /\ b.length = oregon.length
      /\ b.byte \in Seq(Bit) /\ Len(b.byte) = Len(oregon.byte) + 1
      /\ Len(b.byte) = ByteBits
  BY OregonBitAdded
<1> HIDE DEF b
<1>2. b.byte \in Byte
  BY <1>1, ByteIsSeq
<1>3. <<>> \in Seq(Bit)
  BY EmptySeq
<1>4. /\ c \in OregonParses /\ c.byte = <<>>
      /\ c.state = b.state /\ c.cnt = b.cnt /\ c.id = b.id
      /\ c.buffer = b.buffer /\ c.length = b.length
  BY <1>1, <1>3 DEF OregonParses
<1>5. oregon.byte \in Seq(Bit) /\ Len(oregon.byte) + 1 = ByteBits
  BY <1>1, OregonReads
<1>6. ASSUME NEW bytes \in Seq(Byte), oregonHeard = Joined(bytes) \o oregon.byte
      PROVE  Append(oregonHeard, level) = Joined(Append(bytes, b.byte))
  BY <1>1, <1>5, <1>6, HeardByte
<1> HIDE DEF c
<1>7. QED
  BY <1>1, <1>2, <1>4, <1>6 DEF b, c

\* The states of a parse that goes on, from what they hold.
LEMMA OregonGoesOn ==
  ASSUME OregonInv, OregonParsing, NEW o \in OregonParses, oregon' = o,
         o.byte = <<>>,
         o.state = "id" => o.cnt = 0 /\ oregonHeard' = Joined(o.id),
         o.state = "data" =>
           /\ o.id \in OregonIds /\ o.length >= 1
           /\ o.cnt + o.length = OregonLength[o.id]
           /\ oregonHeard' = Joined(o.id \o FirstBytes(o.buffer, o.cnt))
           /\ o.id \o FirstBytes(o.buffer, o.cnt) \in Seq(Byte),
         oregonBigs' = oregonBigs, oregonSent' = oregonSent
  PROVE  OregonInv'
<1>1. /\ oregonSent' = <<>> /\ oregonBigs' \in Nat
      /\ oregonBigs' + OregonBuffer > OregonPreamble
  BY OregonReads
<1>2. /\ Len(<<>>) = 0 /\ o.state \in {"id", "data"} /\ o.id \in Seq(Byte)
  BY EmptySeq DEF OregonParses
<1>3. oregon' \in OregonStatics
  <2>1. 0 .. OregonBuffer \subseteq 0 .. CountMod - 1
    BY OregonSizes, ByteSizes
  <2>2. QED
    BY <2>1 DEF OregonStatics, OregonParses
<1>4. OregonForm'
  BY <1>2, <1>3, ByteSizes DEF OregonForm
<1>5. o.state = "id" => oregonHeard' = Joined(o.id) \o <<>>
  <2>1. Joined(o.id) \o <<>> = Joined(o.id)
    BY <1>2, JoinedType, ConcatEmptySeq
  <2>2. QED
    BY <2>1
<1>6. o.state = "data" =>
        oregonHeard' = Joined(o.id \o FirstBytes(o.buffer, o.cnt)) \o <<>>
  <2> SUFFICES ASSUME o.state = "data"
               PROVE  oregonHeard' = Joined(o.id \o FirstBytes(o.buffer, o.cnt))
                                       \o <<>>
    OBVIOUS
  <2> DEFINE bytes == o.id \o FirstBytes(o.buffer, o.cnt)
  <2>1. bytes \in Seq(Byte) /\ oregonHeard' = Joined(bytes)
    OBVIOUS
  <2> HIDE DEF bytes
  <2>2. Joined(bytes) \o <<>> = Joined(bytes)
    BY <2>1, JoinedType, ConcatEmptySeq
  <2>3. QED
    BY <2>1, <2>2 DEF bytes
<1>7. OregonBits'
  BY <1>1, <1>2, <1>5, <1>6 DEF OregonBits
<1>8. OregonCounted'
  BY <1>1, <1>2 DEF OregonCounted, OregonParsing
<1>9. QED
  BY <1>4, <1>7, <1>8 DEF OregonInv

LEMMA OregonIdByteStep ==
  ASSUME OregonInv, NEW level \in Bit, NEW x, OregonIdByte(level, x)
  PROVE  OregonInv'
<1> DEFINE b == WithOregonBit(level)
           c == [b EXCEPT !.byte = <<>>]
           id == Append(c.id, b.byte)
<1>1. /\ OregonParsing /\ oregon.state = "id" /\ Len(b.byte) = ByteBits
      /\ oregon' = WithOregonId(c, b.byte) /\ oregonSent' = oregonSent
  BY DEF OregonIdByte, OregonEndsBit
<1>2. /\ oregonHeard' = IF oregon'.id = <<>> \/ oregon'.state = "wait" THEN <<>>
                        ELSE Append(oregonHeard, level)
      /\ oregonBigs' = IF oregon'.state = "wait" THEN 0 ELSE oregonBigs
  BY DEF OregonIdByte
<1>3. /\ c \in OregonParses /\ c.byte = <<>> /\ b.byte \in Byte
      /\ c.state = "id" /\ c.cnt = 0 /\ c.id = oregon.id
      /\ Append(oregonHeard, level) = Joined(id)
      /\ c.id \in Seq(Byte)
  <2>1. oregon.cnt = 0 /\ oregonHeard = Joined(oregon.id) \o oregon.byte
    BY <1>1 DEF OregonInv, OregonForm, OregonBits
  <2>2. oregon.id \in Seq(Byte)
    BY <1>1, OregonReads
  <2>3. /\ c \in OregonParses /\ c.byte = <<>> /\ b.byte \in Byte
        /\ c.state = oregon.state /\ c.cnt = oregon.cnt /\ c.id = oregon.id
    BY <1>1, OregonByteDone
  <2>4. Append(oregonHeard, level) = Joined(Append(oregon.id, b.byte))
    BY <1>1, <2>1, <2>2, OregonByteDone
  <2> HIDE DEF b, c
  <2>5. QED
    BY <1>1, <2>1, <2>2, <2>3, <2>4
<1>4. /\ c.id = <<>> /\ b.byte = Zero => oregon' = [c EXCEPT !.id = <<>>]
      /\ c.id = <<>> /\ b.byte # Zero => oregon' = [c EXCEPT !.id = id]
      /\ c.id # <<>> /\ id \in OregonIds =>
           oregon' = [c EXCEPT !.id = id, !.length = OregonLength[id],
                               !.state = "data",
                               !.byteLength = (2 + OregonLength[id]) * ByteBits - 1,
                               !.cnt = 0]
      /\ c.id # <<>> /\ id \notin OregonIds =>
           oregon' = [ClearOregon(c) EXCEPT !.id = id]
  BY <1>1 DEF WithOregonId
<1> HIDE DEF b, c
<1>5. id \in Seq(Byte) /\ id # <<>> /\ <<>> \in Seq(Byte)
  BY <1>3, AppendProperties, EmptySeq
<1> HIDE DEF id
<1>6. CASE c.id = <<>> /\ b.byte = Zero
  <2> DEFINE o == [c EXCEPT !.id = <<>>]
  <2>1. o \in OregonParses /\ o.state = "id" /\ o.cnt = 0 /\ o.byte = <<>>
        /\ o.id = <<>>
    BY <1>3, <1>5 DEF OregonParses
  <2>2. oregon' = o
    BY <1>4, <1>6
  <2> HIDE DEF o
  <2>3. oregonHeard' = Joined(o.id) /\ oregonBigs' = oregonBigs
    BY <1>2, <2>1, <2>2, JoinedEmpty
  <2>4. QED
    BY <1>1, <2>1, <2>2, <2>3, OregonGoesOn
<1>7. CASE c.id = <<>> /\ b.byte # Zero
  <2> DEFINE o == [c EXCEPT !.id = id]
  <2>1. o \in OregonParses /\ o.state = "id" /\ o.cnt = 0 /\ o.byte = <<>>
        /\ o.id = id
    BY <1>3, <1>5 DEF OregonParses
  <2>2. oregon' = o
    BY <1>4, <1>7
  <2> HIDE DEF o
  <2>3. oregonHeard' = Joined(o.id) /\ oregonBigs' = oregonBigs
    BY <1>2, <1>3, <1>5, <2>1, <2>2
  <2>4. QED
    BY <1>1, <2>1, <2>2, <2>3, OregonGoesOn
<1>8. CASE c.id # <<>> /\ id \in OregonIds
  <2> DEFINE n == OregonLength[id]
             l == (2 + n) * ByteBits - 1
             o == [c EXCEPT !.id = id, !.length = n, !.state = "data",
                            !.byteLength = l, !.cnt = 0]
  <2>1. n \in Int /\ n >= 1 /\ l \in Int /\ 0 \in 0 .. OregonBuffer
    BY <1>8, OregonSizes, ByteSizes
  <2>2. oregon' = o
    BY <1>4, <1>8
  <2> HIDE DEF n, l
  <2>3. o \in OregonParses
    BY <1>3, <1>5, <2>1 DEF OregonParses
  <2>4. o.state = "data" /\ o.cnt = 0 /\ o.byte = <<>> /\ o.id = id /\ o.length = n
    BY <1>3 DEF OregonParses
  <2> HIDE DEF o
  <2>5. oregonHeard' = Joined(id) /\ oregonBigs' = oregonBigs
    BY <1>2, <1>3, <1>5, <2>2, <2>4
  <2>6. id \o FirstBytes(o.buffer, 0) = id
    BY <1>5, FirstBytesNone, ConcatEmptySeq
  <2>7. o.id \o FirstBytes(o.buffer, o.cnt) = id
    BY <2>4, <2>6
  <2>8. o.cnt + o.length = OregonLength[o.id] /\ o.id \in OregonIds /\ o.length >= 1
    BY <1>8, <2>1, <2>4 DEF n
  <2>9. /\ oregonHeard' = Joined(o.id \o FirstBytes(o.buffer, o.cnt))
        /\ o.id \o FirstBytes(o.buffer, o.cnt) \in Seq(Byte)
    BY <1>5, <2>5, <2>7
  <2>10. QED
    BY <1>1, <2>2, <2>3, <2>4, <2>5, <2>8, <2>9, OregonGoesOn
<1>9. CASE c.id # <<>> /\ id \notin OregonIds
  <2> DEFINE o == [c EXCEPT !.id = id]
  <2>1. oregon' = ClearOregon(o)
    <3>1. c \in OregonParses
      BY <1>3
    <3>2. oregon' = [ClearOregon(c) EXCEPT !.id = id]
      BY <1>4, <1>9
    <3>3. QED
      BY <3>1, <3>2 DEF ClearOregon, OregonParses
  <2>2. o \in OregonParses /\ o.cnt = 0
    BY <1>3, <1>5 DEF OregonParses
  <2>3. oregon'.state = "wait"
    BY <2>1, <2>2 DEF ClearOregon, OregonParses
  <2> HIDE DEF o
  <2>4. o \in OregonStatics /\ o.cnt <= OregonBuffer
    <3>1. 0 .. OregonBuffer \subseteq 0 .. CountMod - 1
      BY OregonSizes, ByteSizes
    <3>2. QED
      BY <2>2, <3>1, OregonSizes DEF OregonStatics, OregonParses
  <2>5. oregonBigs' = 0 /\ oregonSent' = <<>>
    BY <1>1, <1>2, <2>3, OregonReads
  <2>6. QED
    BY <2>1, <2>4, <2>5, OregonCleared
<1>10. QED
  BY <1>6, <1>7, <1>8, <1>9

LEMMA OregonDataByteStep ==
  ASSUME OregonInv, NEW level \in Bit, NEW x, OregonDataByte(level, x)
  PROVE  OregonInv'
<1> DEFINE b == WithOregonBit(level)
           c == [b EXCEPT !.byte = <<>>]
           o == OregonStored(c, b.byte)
<1>1. /\ OregonParsing /\ oregon.state = "data" /\ Len(b.byte) = ByteBits
      /\ oregonHeard' = Append(oregonHeard, level)
  BY DEF OregonDataByte, OregonEndsBit
<1>2. /\ o.length = 0 =>
           /\ oregon' = ClearOregon(o) /\ oregonBigs' = 0
           /\ oregonSent' = <<o.id, FirstBytes(o.buffer, o.cnt)>>
      /\ o.length # 0 =>
           oregon' = o /\ oregonSent' = oregonSent /\ oregonBigs' = oregonBigs
  BY DEF OregonDataByte
<1>3. /\ c \in OregonParses /\ c.byte = <<>> /\ b.byte \in Byte
      /\ c.state = "data" /\ c.cnt = oregon.cnt /\ c.id = oregon.id
      /\ c.buffer = oregon.buffer /\ c.length = oregon.length
  BY <1>1, OregonByteDone
<1> DEFINE bytes == oregon.id \o FirstBytes(oregon.buffer, oregon.cnt)
<1>4. bytes \in Seq(Byte) /\ oregonHeard = Joined(bytes) \o oregon.byte
  BY <1>1, OregonRoom DEF OregonInv, OregonBits
<1>5. oregonHeard' = Joined(Append(bytes, b.byte))
  BY <1>1, <1>4, OregonByteDone
<1>6. /\ oregon.id \in OregonIds /\ oregon.id \in Seq(Byte)
      /\ oregon.length >= 1 /\ oregon.length \in Int
      /\ oregon.cnt + oregon.length = OregonLength[oregon.id]
      /\ oregon.cnt \in 0 .. OregonBuffer - 1
      /\ oregon.buffer \in [0 .. OregonBuffer - 1 -> Byte]
      /\ FirstBytes(oregon.buffer, oregon.cnt) \in Seq(Byte)
      /\ Len(FirstBytes(oregon.buffer, oregon.cnt)) = oregon.cnt
  BY <1>1, OregonRoom, OregonReads
<1> HIDE DEF b, c
<1> DEFINE m == oregon.cnt + 1
           buffer == [oregon.buffer EXCEPT ![oregon.cnt] = b.byte]
<1>7. /\ o.buffer = buffer /\ o.cnt = m /\ o.length = oregon.length - 1
      /\ o.id = oregon.id /\ o.state = "data" /\ o.byte = <<>> /\ o \in OregonParses
  <2> DEFINE l == oregon.length - 1
  <2>1. buffer \in [0 .. OregonBuffer - 1 -> Byte] /\ m \in 0 .. OregonBuffer
        /\ l \in Int
    BY <1>3, <1>6, OregonSizes
  <2>2. o = [c EXCEPT !.buffer = buffer, !.cnt = m, !.length = l]
    BY <1>3 DEF OregonStored, OregonParses
  <2> HIDE DEF buffer, m, l, o
  <2>3. o \in OregonParses
    BY <1>3, <2>1, <2>2 DEF OregonParses
  <2>4. /\ o.buffer = buffer /\ o.cnt = m /\ o.length = l
        /\ o.id = oregon.id /\ o.state = "data" /\ o.byte = <<>>
    BY <1>3, <2>2 DEF OregonParses
  <2>5. QED
    BY <2>3, <2>4 DEF l
<1> DEFINE s == FirstBytes(oregon.buffer, oregon.cnt)
           t == FirstBytes(buffer, m)
<1>8. t = Append(s, b.byte) /\ t \in Seq(Byte) /\ Len(t) = m
  <2>1. OregonBuffer \in Nat
    BY OregonSizes
  <2>2. t = Append(s, b.byte)
    BY <1>3, <1>6, <2>1, FirstBytesMore
  <2> HIDE DEF s, t
  <2>3. s \in Seq(Byte) /\ Len(s) = oregon.cnt
    BY <1>6 DEF s
  <2>4. QED
    BY <1>3, <2>2, <2>3, AppendProperties
<1>9. Append(bytes, b.byte) = oregon.id \o t /\ oregon.id \o t \in Seq(Byte)
  <2> HIDE DEF t
  <2>1. s \in Seq(Byte)
    BY <1>6
  <2> HIDE DEF s
  <2>2. <<b.byte>> \in Seq(Byte)
    BY <1>3
  <2>3. (oregon.id \o s) \o <<b.byte>> = oregon.id \o (s \o <<b.byte>>)
    <3> DEFINE id == oregon.id
               e == <<b.byte>>
    <3>1. id \in Seq(Byte) /\ e \in Seq(Byte)
      BY <1>6, <2>2
    <3> HIDE DEF id, e
    <3>2. (id \o s) \o e = id \o (s \o e)
      BY <3>1, <2>1, ConcatAssociative
    <3>3. QED
      BY <3>2 DEF id, e
  <2>4. Append(s, b.byte) = s \o <<b.byte>>
    BY <1>3, <2>1, AppendIsConcat
  <2>5. Append(bytes, b.byte) = bytes \o <<b.byte>>
    <3> HIDE DEF bytes
    <3>1. QED
      BY <1>3, <1>4, AppendIsConcat
  <2>6. oregon.id \o t \in Seq(Byte)
    BY <1>6, <1>8, ConcatProperties
  <2>7. QED
    BY <1>8, <2>3, <2>4, <2>5, <2>6 DEF s
<1>10. FirstBytes(o.buffer, o.cnt) = t
  BY <1>7
<1> HIDE DEF t, bytes, buffer, o, s
<1>11. oregonHeard' = Joined(oregon.id \o t)
  BY <1>5, <1>9
<1>12. CASE o.length = 0
  <2>1. oregonSent' = <<o.id, t>> /\ oregonBigs' = 0 /\ oregon' = ClearOregon(o)
    BY <1>2, <1>10, <1>12
  <2>2. Len(t) = OregonLength[o.id] /\ oregonHeard' = Joined(o.id \o t)
    BY <1>6, <1>7, <1>8, <1>11, <1>12
  <2>3. oregonSent'[1] = o.id /\ oregonSent'[2] = t
    BY <2>1
  <2>4. o \in OregonStatics /\ o.cnt <= OregonBuffer
    <3>1. 0 .. OregonBuffer \subseteq 0 .. CountMod - 1
      BY OregonSizes, ByteSizes
    <3>2. QED
      BY <1>7, <3>1, <1>6, OregonSizes, SMTT(30) DEF OregonStatics, OregonParses
  <2>5. QED
    BY <2>1, <2>2, <2>3, <2>4, OregonCleared
<1>13. CASE o.length # 0
  <2>1. oregon' = o /\ oregonSent' = oregonSent /\ oregonBigs' = oregonBigs
    BY <1>2, <1>13
  <2>2. /\ o.id \in OregonIds /\ o.length >= 1
        /\ o.cnt + o.length = OregonLength[o.id]
    BY <1>6, <1>7, <1>13
  <2>3. /\ oregonHeard' = Joined(o.id \o FirstBytes(o.buffer, o.cnt))
        /\ o.id \o FirstBytes(o.buffer, o.cnt) \in Seq(Byte)
    BY <1>7, <1>9, <1>10, <1>11
  <2>4. o \in OregonParses /\ o.byte = <<>> /\ o.state = "data"
    BY <1>7
  <2>5. QED
    BY <1>1, <2>1, <2>2, <2>3, <2>4, OregonGoesOn
<1>14. QED
  BY <1>12, <1>13

LEMMA OregonStep ==
  ASSUME OregonInv, OregonNext
  PROVE  OregonInv'
<1>1. PICK level, x :
        /\ level \in Bit
        /\ \/ OregonCounts(x) \/ OregonBegins(x)
           \/ OregonDrop(x) \/ OregonMoreData(level, x)
           \/ OregonInByte(level, x) \/ OregonIdByte(level, x)
           \/ OregonDataByte(level, x)
  BY DEF OregonNext, streamOregon
<1>2. CASE OregonCounts(x)
  BY <1>1, <1>2, OregonCountsStep
<1>3. CASE OregonBegins(x)
  BY <1>1, <1>3, OregonBeginsStep
<1>4. CASE OregonDrop(x)
  BY <1>1, <1>4, OregonDropStep
<1>5. CASE OregonMoreData(level, x)
  BY <1>1, <1>5, OregonMoreDataStep
<1>6. CASE OregonInByte(level, x)
  BY <1>1, <1>6, OregonInByteStep
<1>7. CASE OregonIdByte(level, x)
  BY <1>1, <1>7, OregonIdByteStep
<1>8. CASE OregonDataByte(level, x)
  BY <1>1, <1>8, OregonDataByteStep
<1>9. QED
  BY <1>1, <1>2, <1>3, <1>4, <1>5, <1>6, <1>7, <1>8

LEMMA OregonKept ==
  ASSUME OregonInv, UNCHANGED oregonVars
  PROVE  OregonInv'
<1>1. oregon' = oregon /\ oregonHeard' = oregonHeard
      /\ oregonBigs' = oregonBigs /\ oregonSent' = oregonSent
  BY DEF oregonVars
<1>2. QED
  BY <1>1 DEF OregonInv, OregonForm, OregonBits, OregonCounted, OregonParsing

LEMMA OregonAlways == StreamSpec => []OregonInv
<1>1. StreamInit => OregonInv
  BY OregonStart DEF StreamInit
<1>2. OregonInv /\ [StreamNext]_streamVars => OregonInv'
  <2> SUFFICES ASSUME OregonInv, [StreamNext]_streamVars PROVE OregonInv'
    OBVIOUS
  <2>1. OregonNext \/ UNCHANGED oregonVars
    BY DEF StreamNext, streamVars
  <2>2. QED
    BY <2>1, OregonStep, OregonKept
<1>3. QED
  BY <1>1, <1>2, PTL DEF StreamSpec

\* The static variables of oregon.c have their types, and a message that is
\* told fits in its buffer.
THEOREM OregonTypes == StreamSpec => []OregonTypeOK
<1>1. OregonInv => OregonTypeOK
  <2> SUFFICES ASSUME OregonInv PROVE OregonTypeOK
    OBVIOUS
  <2>1. /\ oregon \in OregonStatics /\ Len(oregon.byte) < ByteBits
        /\ oregon.state \in {"wait", "id", "data"} /\ oregon.cnt \in 0 .. CountMod - 1
        /\ oregon.bitCnt \in 0 .. 2 /\ oregon.byte \in Seq(Bit)
        /\ DOMAIN oregon.buffer = 0 .. OregonBuffer - 1
    BY DEF OregonInv, OregonForm, OregonStatics
  <2>2. ASSUME oregon.state = "data"
        PROVE  oregon.cnt + oregon.length \in 1 .. OregonBuffer
    BY <2>2, OregonSizes, OregonRoom
  <2>3. QED
    BY <2>1, <2>2 DEF OregonTypeOK
<1>2. QED
  BY <1>1, OregonAlways, PTL

\* streamOregon sends and assembles exactly the bits it heard since the
\* preamble, for ids and data of every length, and a preamble went before them
\* (oregon.c:72-92, 105-123, 163-174).
THEOREM OregonHeard == StreamSpec => []OregonHears
<1>1. OregonInv => OregonHears
  BY DEF OregonInv, OregonBits, OregonCounted, OregonHears
<1>2. QED
  BY <1>1, OregonAlways, PTL

-----------------------------------------------------------------------------
(* Hasta.                                                                  *)

\* The values of the ends of a byte satisfy the equation of Value.
LEMMA ValueFunction ==
  ASSUME NEW byte \in Byte
  PROVE  \E value : value = [k \in 1 .. ByteBits + 1 |->
                               IF k > ByteBits THEN 0
                               ELSE byte[k] + 2 * value[k + 1]]
<1> DEFINE K == 1 .. ByteBits + 1
           Step(g, k) == IF k > ByteBits THEN 0 ELSE byte[k] + 2 * g[k + 1]
           T == {j \in 0 .. ByteBits :
                   \E g \in [K -> Int] :
                     \A k \in K : k >= (ByteBits + 1) - j => g[k] = Step(g, k)}
<1>1. ByteBits \in Nat \ {0} /\ \A k \in 1 .. ByteBits : byte[k] \in Int
  BY ByteSizes DEF Byte, Bit
<1>2. 0 \in T
  <2> DEFINE g == [k \in K |-> 0]
  <2>1. g \in [K -> Int]
    OBVIOUS
  <2>2. \A k \in K : k >= (ByteBits + 1) - 0 => g[k] = Step(g, k)
    BY <1>1
  <2>3. QED
    BY <1>1, <2>1, <2>2
<1>3. ASSUME NEW n \in T, n < ByteBits PROVE n + 1 \in T
  <2>1. PICK g \in [K -> Int] :
          \A k \in K : k >= (ByteBits + 1) - n => g[k] = Step(g, k)
    OBVIOUS
  <2> DEFINE p == ByteBits - n
             v == byte[p] + 2 * g[p + 1]
             h == [g EXCEPT ![p] = v]
  <2>2. n \in Nat /\ p \in 1 .. ByteBits /\ p \in K /\ p + 1 \in K
    BY <1>1, <1>3
  <2>3. v \in Int
    BY <1>1, <2>2, SMTT(30)
  <2>4. h \in [K -> Int] /\ h[p] = v /\ \A k \in K : k # p => h[k] = g[k]
    BY <2>2, <2>3
  <2> HIDE DEF h, v
  <2>5. ASSUME NEW k \in K, k >= (ByteBits + 1) - (n + 1)
        PROVE  h[k] = Step(h, k)
    <3>1. CASE k = p
      <4>1. h[p + 1] = g[p + 1] /\ ~ (p > ByteBits)
        BY <2>2, <2>4, <1>1
      <4>2. QED
        BY <2>4, <3>1, <4>1 DEF v
    <3>2. CASE k # p
      <4>1. k >= (ByteBits + 1) - n /\ k \in Int
        BY <1>1, <2>2, <2>5, <3>2
      <4>2. h[k] = g[k] /\ g[k] = Step(g, k)
        BY <2>1, <2>4, <3>2, <4>1
      <4>3. ASSUME ~ (k > ByteBits) PROVE h[k + 1] = g[k + 1]
        <5>1. k + 1 \in K /\ k + 1 # p
          BY <1>1, <2>2, <4>1, <4>3
        <5>2. QED
          BY <2>4, <5>1
      <4>4. QED
        BY <4>2, <4>3
    <3>3. QED
      BY <3>1, <3>2
  <2>6. n + 1 \in 0 .. ByteBits
    BY <1>1, <1>3, <2>2
  <2>7. QED
    BY <2>4, <2>5, <2>6
<1>4. ByteBits \in T
  <2> HIDE DEF T
  <2>1. ByteBits \in Nat /\ ByteBits \in 0 .. ByteBits
    BY <1>1
  <2>2. T \subseteq 0 .. ByteBits
    BY DEF T
  <2>3. QED
    BY <2>1, <2>2, <1>2, <1>3, BoundedInduction
<1>5. PICK g \in [K -> Int] : \A k \in K : g[k] = Step(g, k)
  BY <1>1, <1>4
<1>6. g = [k \in K |-> Step(g, k)]
  BY <1>5
<1>7. QED
  BY <1>6

\* The value of a byte is a number.
LEMMA ValueType ==
  ASSUME NEW byte \in Byte
  PROVE  Value(byte) \in Nat
<1> DEFINE value == CHOOSE f : f = [k \in 1 .. ByteBits + 1 |->
                                      IF k > ByteBits THEN 0
                                      ELSE byte[k] + 2 * f[k + 1]]
<1>1. value = [k \in 1 .. ByteBits + 1 |->
                 IF k > ByteBits THEN 0 ELSE byte[k] + 2 * value[k + 1]]
  BY ValueFunction
<1>2. Value(byte) = value[1]
  BY DEF Value
<1> HIDE DEF value
<1> DEFINE T == {j \in 0 .. ByteBits : value[(ByteBits + 1) - j] \in Nat}
<1>3. ByteBits \in Nat \ {0} /\ \A k \in 1 .. ByteBits : byte[k] \in Nat
  BY ByteSizes DEF Byte, Bit
<1>4. 0 \in T
  BY <1>1, <1>3
<1>5. ASSUME NEW n \in T, n < ByteBits PROVE n + 1 \in T
  <2> DEFINE p == ByteBits - n
  <2>1. /\ n \in Nat /\ p \in 1 .. ByteBits /\ p = (ByteBits + 1) - (n + 1)
        /\ value[p + 1] \in Nat /\ n + 1 \in 0 .. ByteBits
    <3>1. n \in Nat /\ p \in 1 .. ByteBits /\ p = (ByteBits + 1) - (n + 1)
          /\ p + 1 = (ByteBits + 1) - n /\ n + 1 \in 0 .. ByteBits
      BY <1>3, <1>5
    <3>2. QED
      BY <3>1
  <2> HIDE DEF p
  <2>2. value[p] = byte[p] + 2 * value[p + 1]
    BY <1>1, <1>3, <2>1
  <2>3. value[p] \in Nat
    BY <1>3, <2>1, <2>2
  <2>4. QED
    BY <2>1, <2>3
<1>6. ByteBits \in T
  <2>1. T \subseteq 0 .. ByteBits
    OBVIOUS
  <2> HIDE DEF T
  <2>2. ByteBits \in Nat /\ ByteBits \in 0 .. ByteBits
    BY <1>3
  <2>3. QED
    BY <1>4, <1>5, <2>1, <2>2, BoundedInduction
<1>7. QED
  BY <1>2, <1>3, <1>6

HastaStatics ==
  [state : {"none", "first", "old", "secondNew", "thirdNew", "new"},
   prepulse : {"none", "small", "big"}, byte : Seq(Bit), bytecount : 0 .. 4,
   total : Seq(Byte), sum : Nat]

\* The value of byte k of a message, if it has come.
ValueAt(m, k) == IF k <= Len(m) THEN Value(m[k]) ELSE 0
FirstFour(m) ==
  ValueAt(m, 1) + ValueAt(m, 2) + ValueAt(m, 3) + ValueAt(m, 4)

\* bytecount counts the bytes of totalhastadata and hastadata is their sum; before
\* a message begins there are none, nor bits of one.
HastaForm ==
  /\ hasta \in HastaStatics
  /\ Len(hasta.byte) < ByteBits
  /\ hasta.bytecount = Len(hasta.total)
  /\ hasta.sum = FirstFour(hasta.total)
  /\ hasta.state = "old" => hasta.bytecount < 4
  /\ ~ HastaParsing => hasta.total = <<>> /\ hasta.byte = <<>>

\* A message that the last run has completed, of either kind.
HastaCompletes(m) ==
  /\ hastaHeard = Joined(m)
  /\ \/ Len(m) = 4 /\ hastaSent = <<"old", m>>
     \/ /\ Len(m) = 5
        /\ hastaSent = IF (FirstFour(m) + Value(m[5])) % 2 ^ ByteBits = 1
                         THEN <<"new", SubSeq(m, 1, 4)>> ELSE <<>>

HastaBits ==
  /\ HastaParsing =>
       hastaHeard = Joined(hasta.total) \o hasta.byte /\ hastaSent = <<>>
  /\ ~ HastaParsing =>
       \/ hastaHeard = <<>> /\ hastaSent = <<>>
       \/ \E m \in Seq(Byte) : HastaCompletes(m)

HastaInv == HastaForm /\ HastaBits

LEMMA FirstFourEmpty == FirstFour(<<>>) = 0 /\ Len(<<>>) = 0
<1>1. Len(<<>>) = 0
  BY EmptySeq
<1>2. QED
  BY <1>1 DEF FirstFour, ValueAt

\* A byte more adds its value.
LEMMA FirstFourMore ==
  ASSUME NEW m \in Seq(Byte), NEW b \in Byte
  PROVE  /\ Len(m) < 4 => FirstFour(Append(m, b)) = FirstFour(m) + Value(b)
         /\ Len(m) = 4 => /\ FirstFour(Append(m, b)) = FirstFour(m)
                          /\ SubSeq(Append(m, b), 1, 4) = m
         /\ FirstFour(m) \in Nat /\ Value(b) \in Nat
<1> DEFINE n == Len(m)
           t == Append(m, b)
<1>1. /\ n \in Nat /\ t \in Seq(Byte) /\ Len(t) = n + 1 /\ t[n + 1] = b
      /\ \A k \in 1 .. n : t[k] = m[k] /\ m[k] \in Byte
  BY AppendProperties, LenProperties, ElementOfSeq
<1>2. Value(b) \in Nat
  BY ValueType
<1>3. \A k \in 1 .. n : Value(m[k]) \in Nat
  BY <1>1, ValueType
<1> HIDE DEF t, n
<1>4. ASSUME NEW k \in 1 .. 4
      PROVE  /\ ValueAt(m, k) \in Nat
             /\ k = n + 1 => ValueAt(t, k) = Value(b) /\ ValueAt(m, k) = 0
             /\ k # n + 1 => ValueAt(t, k) = ValueAt(m, k)
  <2>1. CASE k <= n
    <3>1. k \in 1 .. n /\ k <= Len(t) /\ k # n + 1
      BY <1>1, <2>1
    <3>2. QED
      BY <1>1, <1>3, <3>1 DEF ValueAt, n
  <2>2. CASE k = n + 1
    BY <1>1, <2>2 DEF ValueAt, n
  <2>3. CASE k > n + 1
    BY <1>1, <2>3 DEF ValueAt, n
  <2>4. QED
    BY <1>1, <2>1, <2>2, <2>3
<1>5. /\ ValueAt(m, 1) \in Nat /\ ValueAt(m, 2) \in Nat
      /\ ValueAt(m, 3) \in Nat /\ ValueAt(m, 4) \in Nat
  BY <1>4
<1>6. FirstFour(m) \in Nat
  BY <1>5 DEF FirstFour
<1>7. ASSUME n < 4 PROVE FirstFour(t) = FirstFour(m) + Value(b)
  <2>1. n + 1 \in 1 .. 4 /\ n \in 0 .. 3
    BY <1>1, <1>7
  <2>2. /\ n = 0 \/ n = 1 \/ n = 2 \/ n = 3
    BY <2>1
  <2>3. /\ 1 = n + 1 => ValueAt(t, 1) = Value(b) /\ ValueAt(m, 1) = 0
        /\ 1 # n + 1 => ValueAt(t, 1) = ValueAt(m, 1)
        /\ 2 = n + 1 => ValueAt(t, 2) = Value(b) /\ ValueAt(m, 2) = 0
        /\ 2 # n + 1 => ValueAt(t, 2) = ValueAt(m, 2)
        /\ 3 = n + 1 => ValueAt(t, 3) = Value(b) /\ ValueAt(m, 3) = 0
        /\ 3 # n + 1 => ValueAt(t, 3) = ValueAt(m, 3)
        /\ 4 = n + 1 => ValueAt(t, 4) = Value(b) /\ ValueAt(m, 4) = 0
        /\ 4 # n + 1 => ValueAt(t, 4) = ValueAt(m, 4)
    BY <1>4
  <2> DEFINE a == ValueAt(m, 1)
             b2 == ValueAt(m, 2)
             c == ValueAt(m, 3)
             d == ValueAt(m, 4)
             v == Value(b)
  <2>4. v \in Nat /\ a \in Nat /\ b2 \in Nat /\ c \in Nat /\ d \in Nat
    BY <1>2, <1>5
  <2>5. FirstFour(m) = a + b2 + c + d
    BY DEF FirstFour
  <2>6. FirstFour(t) = ValueAt(t, 1) + ValueAt(t, 2) + ValueAt(t, 3) + ValueAt(t, 4)
    BY DEF FirstFour
  <2> HIDE DEF a, b2, c, d, v
  <2>7. FirstFour(t) = (a + b2 + c + d) + v
    <3>1. CASE n = 0
      BY <2>3, <2>4, <2>6, <3>1 DEF a, b2, c, d, v
    <3>2. CASE n = 1
      BY <2>3, <2>4, <2>6, <3>2 DEF a, b2, c, d, v
    <3>3. CASE n = 2
      BY <2>3, <2>4, <2>6, <3>3 DEF a, b2, c, d, v
    <3>4. CASE n = 3
      BY <2>3, <2>4, <2>6, <3>4 DEF a, b2, c, d, v
    <3>5. QED
      BY <2>2, <3>1, <3>2, <3>3, <3>4
  <2>8. QED
    BY <2>5, <2>7 DEF v
<1>8. ASSUME n = 4
      PROVE  FirstFour(t) = FirstFour(m) /\ SubSeq(t, 1, 4) = m
  <2>1. FirstFour(t) = FirstFour(m)
    BY <1>4, <1>5, <1>8 DEF FirstFour
  <2>2. \A k \in 1 .. 4 : t[k] \in Byte /\ t[k] = m[k]
    BY <1>1, <1>8
  <2>3. /\ SubSeq(t, 1, 4) \in Seq(Byte) /\ Len(SubSeq(t, 1, 4)) = 4
        /\ \A k \in 1 .. 4 : SubSeq(t, 1, 4)[k] = t[k]
    <3>1. /\ SubSeq(t, 1, 4) \in Seq(Byte)
          /\ Len(SubSeq(t, 1, 4)) = IF 1 <= 4 THEN 4 - 1 + 1 ELSE 0
          /\ \A k \in 1 .. 4 - 1 + 1 : SubSeq(t, 1, 4)[k] = t[1 + k - 1]
      BY <2>2, SubSeqProperties
    <3>2. QED
      BY <3>1
  <2>4. Len(m) = 4
    BY <1>8 DEF n
  <2> DEFINE s == SubSeq(t, 1, 4)
  <2> HIDE DEF s
  <2>5. s \in Seq(Byte) /\ Len(s) = Len(m) /\ \A k \in 1 .. Len(s) : s[k] = m[k]
    BY <2>2, <2>3, <2>4 DEF s
  <2>6. s = m
    BY <2>5, SeqEqual
  <2>7. QED
    BY <2>1, <2>6 DEF s
<1>9. QED
  BY <1>2, <1>6, <1>7, <1>8 DEF t, n

LEMMA HastaStart == HastaInit => HastaInv
<1> SUFFICES ASSUME HastaInit PROVE HastaInv
  OBVIOUS
<1>1. <<>> \in Seq(Bit) /\ <<>> \in Seq(Byte) /\ Len(<<>>) = 0
  BY EmptySeq
<1>2. /\ hasta \in HastaStatics /\ hasta.state = "none" /\ hasta.byte = <<>>
      /\ hasta.bytecount = 0 /\ hasta.total = <<>> /\ hasta.sum = 0
  BY <1>1 DEF HastaInit, HastaStatics
<1>3. hastaHeard = <<>> /\ hastaSent = <<>>
  BY DEF HastaInit
<1>4. HastaForm
  BY <1>1, <1>2, FirstFourEmpty, ByteSizes DEF HastaForm
<1>5. HastaBits
  BY <1>2, <1>3 DEF HastaBits, HastaParsing
<1>6. QED
  BY <1>4, <1>5 DEF HastaInv

\* A decoder that has just been cleared.
LEMMA HastaCleared ==
  ASSUME NEW h \in [state : {"none", "first", "old", "secondNew", "thirdNew", "new"},
                    prepulse : {"none", "small", "big"}, byte : Seq(Bit),
                    bytecount : Int, total : Seq(Byte), sum : Nat],
         hasta' = ClearHasta(h)
  PROVE  HastaForm' /\ hasta'.state = "none" /\ ~ HastaParsing'
<1>1. <<>> \in Seq(Bit) /\ <<>> \in Seq(Byte) /\ Len(<<>>) = 0 /\ 0 \in 0 .. 4
      /\ 0 \in Nat
  BY EmptySeq
<1>2. hasta' \in HastaStatics
  BY <1>1 DEF ClearHasta, HastaStatics
<1>3. /\ hasta'.state = "none" /\ hasta'.byte = <<>> /\ hasta'.total = <<>>
      /\ hasta'.bytecount = 0 /\ hasta'.sum = 0
  BY DEF ClearHasta
<1>4. HastaForm'
  BY <1>1, <1>2, <1>3, FirstFourEmpty, ByteSizes DEF HastaForm
<1>5. QED
  BY <1>3, <1>4 DEF HastaParsing

LEMMA HastaReads ==
  ASSUME HastaInv
  PROVE  /\ hasta \in HastaStatics
         /\ hasta \in [state : {"none", "first", "old", "secondNew", "thirdNew", "new"},
                       prepulse : {"none", "small", "big"}, byte : Seq(Bit),
                       bytecount : Int, total : Seq(Byte), sum : Nat]
         /\ hasta.byte \in Seq(Bit) /\ hasta.total \in Seq(Byte)
         /\ hasta.bytecount \in 0 .. 4 /\ hasta.bytecount = Len(hasta.total)
         /\ hasta.sum = FirstFour(hasta.total)
         /\ hasta.state = "old" => hasta.bytecount < 4
<1>1. /\ hasta \in HastaStatics /\ hasta.bytecount = Len(hasta.total)
      /\ hasta.sum = FirstFour(hasta.total)
      /\ hasta.state = "old" => hasta.bytecount < 4
  BY DEF HastaInv, HastaForm
<1>2. 0 .. 4 \subseteq Int
  OBVIOUS
<1>3. QED
  BY <1>1, <1>2 DEF HastaStatics

LEMMA HastaBeginStep ==
  ASSUME HastaInv, NEW level, NEW x, HastaBegin(level, x)
  PROVE  HastaInv'
<1> DEFINE next == HastaBegins(hasta.state, level, x)
<1>1. /\ ~ HastaParsing /\ hastaHeard' = <<>> /\ hastaSent' = <<>>
      /\ next # "none" \/ hasta.state = "none" => hasta' = [hasta EXCEPT !.state = next]
      /\ ~ (next # "none" \/ hasta.state = "none") => hasta' = ClearHasta(hasta)
  BY DEF HastaBegin
<1>2. next \in {"none", "first", "old", "secondNew", "thirdNew", "new"}
  <2> DEFINE s == hasta.state
  <2>1. next = HastaBegins(s, level, x)
    OBVIOUS
  <2> HIDE DEF next, s
  <2>2. /\ s = "none" /\ level = 1 /\ x \in 86 .. 91 =>
             s # "first" /\ s # "secondNew" /\ s # "thirdNew"
        /\ ~ (x \in 28 .. 31 /\ x \in 43 .. 46)
    OBVIOUS
  <2>3. QED
    BY <2>1, <2>2 DEF HastaBegins
<1> HIDE DEF next
<1>3. CASE next # "none" \/ hasta.state = "none"
  <2>1. hasta \in HastaStatics /\ hasta.total = <<>> /\ hasta.byte = <<>>
        /\ hasta.bytecount = Len(hasta.total) /\ hasta.sum = FirstFour(hasta.total)
    BY <1>1 DEF HastaInv, HastaForm
  <2>2. hasta' = [hasta EXCEPT !.state = next]
    BY <1>1, <1>3
  <2>3. hasta' \in HastaStatics
    BY <1>2, <2>1, <2>2 DEF HastaStatics
  <2>4. /\ hasta'.total = hasta.total /\ hasta'.byte = hasta.byte
        /\ hasta'.bytecount = hasta.bytecount /\ hasta'.sum = hasta.sum
    BY <2>1, <2>2 DEF HastaStatics
  <2>5. Len(<<>>) = 0
    BY EmptySeq
  <2>6. HastaForm'
    BY <2>1, <2>3, <2>4, <2>5, ByteSizes DEF HastaForm
  <2>7. Joined(<<>>) \o <<>> = <<>>
    BY JoinedEmpty, ConcatEmptySeq
  <2>8. HastaBits'
    BY <1>1, <2>1, <2>4, <2>7 DEF HastaBits
  <2>9. QED
    BY <2>6, <2>8 DEF HastaInv
<1>4. CASE ~ (next # "none" \/ hasta.state = "none")
  <2>1. HastaForm' /\ ~ HastaParsing'
    BY <1>1, <1>4, HastaReads, HastaCleared
  <2>2. QED
    BY <1>1, <2>1 DEF HastaInv, HastaBits
<1>5. QED
  BY <1>3, <1>4

LEMMA HastaPrepulseStep ==
  ASSUME HastaInv, NEW x, HastaPrepulse(x)
  PROVE  HastaInv'
<1>1. /\ \E p \in {"none", "small", "big"} : hasta' = [hasta EXCEPT !.prepulse = p]
      /\ hastaHeard' = hastaHeard /\ hastaSent' = hastaSent /\ HastaParsing
  BY DEF HastaPrepulse
<1>2. PICK p \in {"none", "small", "big"} : hasta' = [hasta EXCEPT !.prepulse = p]
  BY <1>1
<1>3. hasta \in HastaStatics
  BY HastaReads
<1>4. hasta' \in HastaStatics
  BY <1>2, <1>3 DEF HastaStatics
<1>5. /\ hasta'.state = hasta.state /\ hasta'.byte = hasta.byte
      /\ hasta'.total = hasta.total /\ hasta'.bytecount = hasta.bytecount
      /\ hasta'.sum = hasta.sum
  BY <1>2, <1>3 DEF HastaStatics
<1>6. HastaForm'
  BY <1>4, <1>5 DEF HastaInv, HastaForm, HastaParsing
<1>7. HastaBits'
  BY <1>1, <1>5 DEF HastaInv, HastaBits, HastaParsing
<1>8. QED
  BY <1>6, <1>7 DEF HastaInv

LEMMA HastaDropStep ==
  ASSUME HastaInv, NEW x, HastaDrop(x)
  PROVE  HastaInv'
<1>1. /\ HastaParsing /\ hasta' = ClearHasta(hasta)
      /\ hastaHeard' = <<>> /\ hastaSent' = hastaSent
  BY DEF HastaDrop
<1>2. HastaForm' /\ ~ HastaParsing'
  BY <1>1, HastaReads, HastaCleared
<1>3. hastaSent' = <<>>
  BY <1>1 DEF HastaInv, HastaBits
<1>4. QED
  BY <1>1, <1>2, <1>3 DEF HastaInv, HastaBits

\* A bit is added.
LEMMA HastaBitAdded ==
  ASSUME HastaInv
  PROVE  LET w == WithHastaBit
         IN  /\ w \in HastaStatics /\ HastaBit \in Bit
             /\ w.state = hasta.state /\ w.byte = Append(hasta.byte, HastaBit)
             /\ w.total = hasta.total /\ w.bytecount = hasta.bytecount
             /\ w.sum = hasta.sum
             /\ w.byte \in Seq(Bit) /\ Len(w.byte) = Len(hasta.byte) + 1
<1> DEFINE s == Append(hasta.byte, HastaBit)
<1>1. HastaBit \in Bit
  BY DEF HastaBit, Bit
<1>2. hasta \in HastaStatics /\ hasta.byte \in Seq(Bit)
  BY HastaReads
<1>3. s \in Seq(Bit) /\ Len(s) = Len(hasta.byte) + 1
  BY <1>1, <1>2, AppendProperties
<1>4. WithHastaBit = [hasta EXCEPT !.prepulse = "none", !.byte = s]
  BY DEF WithHastaBit
<1> HIDE DEF s
<1>5. WithHastaBit \in HastaStatics
  BY <1>2, <1>3, <1>4 DEF HastaStatics
<1>6. /\ WithHastaBit.state = hasta.state /\ WithHastaBit.byte = s
      /\ WithHastaBit.total = hasta.total /\ WithHastaBit.sum = hasta.sum
      /\ WithHastaBit.bytecount = hasta.bytecount
  BY <1>2, <1>4 DEF HastaStatics
<1>7. QED
  BY <1>1, <1>3, <1>5, <1>6 DEF s

LEMMA HastaInByteStep ==
  ASSUME HastaInv, NEW x, HastaInByte(x)
  PROVE  HastaInv'
<1>1. /\ HastaParsing /\ Len(hasta.byte) + 1 < ByteBits
      /\ hasta' = WithHastaBit /\ hastaHeard' = Append(hastaHeard, HastaBit)
      /\ hastaSent' = hastaSent
  BY DEF HastaInByte
<1>2. /\ hasta' \in HastaStatics /\ HastaBit \in Bit
      /\ hasta'.state = hasta.state /\ hasta'.byte = Append(hasta.byte, HastaBit)
      /\ hasta'.total = hasta.total /\ hasta'.bytecount = hasta.bytecount
      /\ hasta'.sum = hasta.sum
      /\ Len(hasta'.byte) = Len(hasta.byte) + 1
  BY <1>1, HastaBitAdded
<1>3. HastaForm'
  BY <1>1, <1>2 DEF HastaInv, HastaForm, HastaParsing
<1>4. hasta.byte \in Seq(Bit) /\ hasta.total \in Seq(Byte)
      /\ hastaHeard = Joined(hasta.total) \o hasta.byte /\ hastaSent = <<>>
  BY <1>1, HastaReads DEF HastaInv, HastaBits
<1>5. hastaHeard' = Joined(hasta'.total) \o hasta'.byte
  BY <1>1, <1>2, <1>4, HeardBit
<1>6. HastaParsing'
  BY <1>1, <1>2 DEF HastaParsing
<1>7. HastaBits'
  BY <1>1, <1>4, <1>5, <1>6 DEF HastaBits
<1>8. QED
  BY <1>3, <1>7 DEF HastaInv

LEMMA HastaByteStep ==
  ASSUME HastaInv, NEW x, HastaByte(x)
  PROVE  HastaInv'
<1> DEFINE w == WithHastaBit
           h == HastaCounted(w)
           m == Append(hasta.total, w.byte)
           complete == h.bytecount = IF h.state = "old" THEN 4 ELSE 5
           good == h.state = "new" => (h.sum + Value(h.byte)) % 2 ^ ByteBits = 1
<1>1. /\ HastaParsing /\ Len(hasta.byte) + 1 = ByteBits
      /\ hasta' = IF complete THEN ClearHasta(h) ELSE h
      /\ hastaHeard' = Append(hastaHeard, HastaBit)
      /\ hastaSent' = IF complete /\ good THEN <<h.state, h.total>> ELSE <<>>
  BY DEF HastaByte
<1>2. /\ w \in HastaStatics /\ HastaBit \in Bit
      /\ w.state = hasta.state /\ w.byte = Append(hasta.byte, HastaBit)
      /\ w.total = hasta.total /\ w.bytecount = hasta.bytecount
      /\ w.sum = hasta.sum
  BY HastaBitAdded
<1>3. /\ hasta.byte \in Seq(Bit) /\ hasta.total \in Seq(Byte)
      /\ hasta.bytecount \in 0 .. 4 /\ hasta.bytecount = Len(hasta.total)
      /\ hasta.sum = FirstFour(hasta.total)
      /\ hasta.state = "old" => hasta.bytecount < 4
      /\ hasta.state \in {"old", "new"}
      /\ hastaHeard = Joined(hasta.total) \o hasta.byte
  BY <1>1, HastaReads DEF HastaInv, HastaBits, HastaParsing
<1>4. w.byte \in Byte /\ m \in Seq(Byte) /\ hastaHeard' = Joined(m)
      /\ Len(m) = hasta.bytecount + 1 /\ m[hasta.bytecount + 1] = w.byte
  <2> HIDE DEF w
  <2>1. w.byte \in Byte /\ m \in Seq(Byte) /\ hastaHeard' = Joined(m)
    <3>1. Len(hasta.byte) + 1 = ByteBits /\ HastaBit \in Bit
      BY <1>1, <1>2
    <3>2. /\ Append(hasta.byte, HastaBit) \in Byte
          /\ Append(hasta.total, Append(hasta.byte, HastaBit)) \in Seq(Byte)
          /\ Append(Joined(hasta.total) \o hasta.byte, HastaBit)
               = Joined(Append(hasta.total, Append(hasta.byte, HastaBit)))
      BY <1>3, <3>1, HeardByte
    <3>3. QED
      BY <1>1, <1>2, <1>3, <3>2
  <2>2. Len(m) = hasta.bytecount + 1 /\ m[hasta.bytecount + 1] = w.byte
    BY <1>3, <2>1, AppendProperties
  <2>3. QED
    BY <2>1, <2>2
<1>5. /\ w.bytecount < 4 =>
           h = [w EXCEPT !.bytecount = w.bytecount + 1, !.byte = <<>>,
                         !.total = Append(w.total, w.byte),
                         !.sum = w.sum + Value(w.byte)]
      /\ ~ (w.bytecount < 4) => h = [w EXCEPT !.bytecount = w.bytecount + 1]
  BY DEF HastaCounted
<1> HIDE DEF w
<1>6. /\ Len(hasta.total) < 4 =>
           FirstFour(m) = FirstFour(hasta.total) + Value(w.byte)
      /\ Len(hasta.total) = 4 =>
           FirstFour(m) = FirstFour(hasta.total) /\ SubSeq(m, 1, 4) = hasta.total
      /\ FirstFour(hasta.total) \in Nat /\ Value(w.byte) \in Nat
  BY <1>3, <1>4, FirstFourMore
<1> HIDE DEF h, m
<1>7. PICK msg : msg = m
  OBVIOUS
<1>8. CASE hasta.bytecount < 4
  <2> DEFINE n == hasta.bytecount + 1
             v == hasta.sum + Value(w.byte)
  <2>1. h = [w EXCEPT !.bytecount = n, !.byte = <<>>, !.total = m, !.sum = v]
    BY <1>2, <1>5, <1>8 DEF m
  <2>2. n \in 0 .. 4 /\ n \in 1 .. 4 /\ v \in Nat /\ v = FirstFour(m) /\ n = Len(m)
    BY <1>3, <1>4, <1>6, <1>8
  <2>3. <<>> \in Seq(Bit) /\ Len(<<>>) = 0
    BY EmptySeq
  <2> HIDE DEF n, v
  <2>4. h \in HastaStatics
    BY <1>2, <1>4, <2>1, <2>2, <2>3 DEF HastaStatics
  <2>5. /\ h.bytecount = n /\ h.byte = <<>> /\ h.total = m /\ h.sum = v
        /\ h.state = hasta.state
    BY <1>2, <2>1 DEF HastaStatics
  <2>6. CASE complete
    <3>1. h.state = "old" /\ n = 4
      BY <1>3, <2>2, <2>5, <2>6
    <3>2. good
      BY <3>1
    <3>3. hastaSent' = <<"old", m>> /\ hasta' = ClearHasta(h)
      BY <1>1, <2>5, <2>6, <3>1, <3>2
    <3>4. h \in [state : {"none", "first", "old", "secondNew", "thirdNew", "new"},
                 prepulse : {"none", "small", "big"}, byte : Seq(Bit),
                 bytecount : Int, total : Seq(Byte), sum : Nat]
      BY <2>4 DEF HastaStatics
    <3>5. HastaForm' /\ ~ HastaParsing'
      BY <3>3, <3>4, HastaCleared
    <3>6. msg \in Seq(Byte) /\ hastaHeard' = Joined(msg) /\ Len(msg) = 4
          /\ hastaSent' = <<"old", msg>>
      BY <1>4, <1>7, <2>2, <3>1, <3>3
    <3>7. HastaBits'
      BY <3>5, <3>6 DEF HastaBits, HastaCompletes
    <3>8. QED
      BY <3>5, <3>7 DEF HastaInv
  <2>7. CASE ~ complete
    <3>1. hasta' = h /\ hastaSent' = <<>>
      BY <1>1, <2>7
    <3>2. h.state = "old" => n < 4
      BY <2>2, <2>5, <2>7
    <3>3. HastaParsing'
      BY <1>3, <2>5, <3>1 DEF HastaParsing
    <3>4. HastaForm'
      BY <2>2, <2>3, <2>4, <2>5, <3>1, <3>2, <3>3, ByteSizes DEF HastaForm
    <3>5. Joined(m) \o <<>> = Joined(m)
      BY <1>4, JoinedType, ConcatEmptySeq
    <3>6. HastaBits'
      BY <1>4, <2>5, <3>1, <3>3, <3>5 DEF HastaBits
    <3>7. QED
      BY <3>4, <3>6 DEF HastaInv
  <2>8. QED
    BY <2>6, <2>7
<1>9. CASE ~ (hasta.bytecount < 4)
  <2>1. hasta.bytecount = 4 /\ hasta.state = "new" /\ Len(m) = 5 /\ m[5] = w.byte
    <3>1. hasta.bytecount = 4
      <4>1. \A c \in 0 .. 4 : ~ (c < 4) => c = 4
        OBVIOUS
      <4>2. QED
        BY <1>3, <1>9, <4>1
    <3>2. 4 + 1 = 5
      OBVIOUS
    <3>3. Len(m) = 5 /\ m[5] = w.byte
      BY <1>4, <3>1, <3>2
    <3>4. QED
      BY <1>3, <3>1, <3>3
  <2>2. h = [w EXCEPT !.bytecount = 5]
    BY <1>2, <1>5, <2>1
  <2>3. /\ h.bytecount = 5 /\ h.byte = w.byte /\ h.total = hasta.total
        /\ h.sum = hasta.sum /\ h.state = "new"
    BY <1>2, <2>1, <2>2 DEF HastaStatics
  <2>4. h \in [state : {"none", "first", "old", "secondNew", "thirdNew", "new"},
               prepulse : {"none", "small", "big"}, byte : Seq(Bit),
               bytecount : Int, total : Seq(Byte), sum : Nat]
    BY <1>2, <2>2, SMTT(30) DEF HastaStatics
  <2>5. complete
    BY <2>3
  <2>6. HastaForm' /\ ~ HastaParsing'
    BY <1>1, <2>4, <2>5, HastaCleared
  <2>7. h.sum = FirstFour(m) /\ h.total = SubSeq(m, 1, 4) /\ h.byte = m[5]
    BY <1>3, <1>6, <2>1, <2>3
  <2> DEFINE even == (FirstFour(m) + Value(m[5])) % 2 ^ ByteBits = 1
  <2>8. good <=> even
    BY <2>3, <2>7
  <2>9. hastaSent' = IF even THEN <<"new", SubSeq(m, 1, 4)>> ELSE <<>>
    BY <1>1, <2>3, <2>5, <2>7, <2>8
  <2>10. /\ msg \in Seq(Byte) /\ hastaHeard' = Joined(msg) /\ Len(msg) = 5
         /\ hastaSent' = IF (FirstFour(msg) + Value(msg[5])) % 2 ^ ByteBits = 1
                            THEN <<"new", SubSeq(msg, 1, 4)>> ELSE <<>>
    BY <1>4, <1>7, <2>1, <2>9
  <2>11. HastaCompletes(msg)'
    BY <2>10 DEF HastaCompletes
  <2>12. HastaBits'
    BY <2>6, <2>10, <2>11 DEF HastaBits
  <2>13. QED
    BY <2>6, <2>12 DEF HastaInv
<1>10. QED
  BY <1>8, <1>9

LEMMA HastaStep ==
  ASSUME HastaInv, HastaNext
  PROVE  HastaInv'
<1>1. PICK level, x :
        /\ level \in Bit
        /\ \/ HastaBegin(level, x) \/ HastaPrepulse(x) \/ HastaDrop(x)
           \/ HastaInByte(x) \/ HastaByte(x)
  BY DEF HastaNext, streamHasta
<1>2. CASE HastaBegin(level, x)
  BY <1>1, <1>2, HastaBeginStep
<1>3. CASE HastaPrepulse(x)
  BY <1>1, <1>3, HastaPrepulseStep
<1>4. CASE HastaDrop(x)
  BY <1>1, <1>4, HastaDropStep
<1>5. CASE HastaInByte(x)
  BY <1>1, <1>5, HastaInByteStep
<1>6. CASE HastaByte(x)
  BY <1>1, <1>6, HastaByteStep
<1>7. QED
  BY <1>1, <1>2, <1>3, <1>4, <1>5, <1>6

LEMMA HastaAlways == StreamSpec => []HastaInv
<1>1. StreamInit => HastaInv
  BY HastaStart DEF StreamInit
<1>2. HastaInv /\ [StreamNext]_streamVars => HastaInv'
  <2> SUFFICES ASSUME HastaInv, [StreamNext]_streamVars PROVE HastaInv'
    OBVIOUS
  <2>1. CASE HastaNext
    BY <2>1, HastaStep
  <2>2. CASE UNCHANGED hastaVars
    <3>1. hasta' = hasta /\ hastaHeard' = hastaHeard /\ hastaSent' = hastaSent
      BY <2>2 DEF hastaVars
    <3>2. HastaForm'
      BY <3>1 DEF HastaInv, HastaForm, HastaParsing
    <3>3. HastaBits'
      BY <3>1 DEF HastaInv, HastaBits, HastaParsing, HastaCompletes
    <3>4. QED
      BY <3>2, <3>3 DEF HastaInv
  <2>3. HastaNext \/ UNCHANGED hastaVars
    BY DEF StreamNext, streamVars
  <2>4. QED
    BY <2>1, <2>2, <2>3
<1>3. QED
  BY <1>1, <1>2, PTL DEF StreamSpec

\* The static variables of hasta.c have their types: bytecount is the number of
\* bytes that wait in totalhastadata, four at most.
THEOREM HastaTypes == StreamSpec => []HastaTypeOK
<1>1. HastaInv => HastaTypeOK
  <2> SUFFICES ASSUME HastaInv PROVE HastaTypeOK
    OBVIOUS
  <2>1. /\ hasta.state \in {"none", "first", "old", "secondNew", "thirdNew", "new"}
        /\ hasta.prepulse \in {"none", "small", "big"}
        /\ hasta.byte \in Seq(Bit) /\ Len(hasta.byte) < ByteBits
        /\ hasta.bytecount = Len(hasta.total)
        /\ hasta.state = "old" => hasta.bytecount < 4
    BY DEF HastaInv, HastaForm, HastaStatics
  <2>2. hasta.bytecount \in 0 .. 4
    BY HastaReads
  <2>3. hasta.bytecount \in 0 .. IF hasta.state = "old" THEN 3 ELSE 4
    <3>1. \A c \in 0 .. 4 : c < 4 => c \in 0 .. 3
      OBVIOUS
    <3>2. QED
      BY <2>1, <2>2, <3>1
  <2>4. ~ HastaParsing => hasta.bytecount = 0
    BY <2>1, EmptySeq DEF HastaInv, HastaForm
  <2>5. QED
    BY <2>1, <2>3, <2>4 DEF HastaTypeOK
<1>2. QED
  BY <1>1, HastaAlways, PTL

\* streamHasta assembles and sends exactly the bits it heard since the runs a
\* message began with, an old message whenever it is whole and a new one exactly
\* if the sum of its five bytes is 1, for bytes of every width (hasta.c:175-218).
THEOREM HastaHeard == StreamSpec => []HastaHears
<1>1. HastaInv => HastaHears
  <2> SUFFICES ASSUME HastaInv PROVE HastaHears
    OBVIOUS
  <2> DEFINE B == BytesOf(hastaHeard)
             sum == Value(B[1]) + Value(B[2]) + Value(B[3]) + Value(B[4])
                      + Value(B[5])
             odd == sum % 2 ^ ByteBits = 1
             Goal == /\ HastaParsing => hastaHeard = Joined(hasta.total) \o hasta.byte
                     /\ hastaSent # <<>> => hastaSent[2] = SubSeq(B, 1, 4)
                     /\ Len(B) = 4 /\ ~ HastaParsing => hastaSent # <<>>
                     /\ Len(B) = 5 => (hastaSent # <<>>) = odd
  <2>1. HastaHears <=> Goal
    BY DEF HastaHears, BytesOf
  <2>2. ASSUME NEW n \in Nat, NEW r \in 0 .. ByteBits - 1, NEW bits \in Seq(Bit),
               Len(bits) = ByteBits * n + r
        PROVE  Len(BytesOf(bits)) = n
    BY <2>2, BytesOfType
  <2>3. CASE HastaParsing
    <3>1. /\ hastaHeard = Joined(hasta.total) \o hasta.byte /\ hastaSent = <<>>
          /\ hasta.total \in Seq(Byte) /\ hasta.byte \in Seq(Bit)
          /\ Len(hasta.byte) < ByteBits /\ hasta.bytecount = Len(hasta.total)
          /\ hasta.bytecount \in 0 .. 4
      BY <2>3, HastaReads DEF HastaInv, HastaBits, HastaForm
    <3> DEFINE n == Len(hasta.total)
               r == Len(hasta.byte)
    <3>2. n \in 0 .. 4 /\ n \in Nat /\ r \in Nat /\ r \in 0 .. ByteBits - 1
      <4>1. r \in Nat /\ n \in Nat
        BY <3>1, LenProperties
      <4>2. QED
        BY <3>1, <4>1, ByteSizes
    <3>3. hastaHeard \in Seq(Bit) /\ Len(hastaHeard) = ByteBits * n + r
      <4>1. Joined(hasta.total) \in Seq(Bit)
            /\ Len(Joined(hasta.total)) = n * ByteBits
        BY <3>1, JoinedType
      <4>2. hastaHeard \in Seq(Bit) /\ Len(hastaHeard) = n * ByteBits + r
        <5> DEFINE t == Joined(hasta.total)
        <5> HIDE DEF t
        <5>1. t \o hasta.byte \in Seq(Bit)
              /\ Len(t \o hasta.byte) = Len(t) + Len(hasta.byte)
          BY <3>1, <4>1, ConcatProperties DEF t
        <5>2. QED
          BY <3>1, <4>1, <5>1 DEF t
      <4>3. n * ByteBits = ByteBits * n
        BY <3>2, ByteSizes
      <4>4. QED
        BY <4>2, <4>3
    <3> HIDE DEF n, r
    <3>4. Len(B) = n
      BY <2>2, <3>2, <3>3
    <3> HIDE DEF B, odd
    <3>5. Len(B) # 5
      BY <3>2, <3>4
    <3>6. QED
      BY <2>1, <2>3, <3>1, <3>5
  <2>4. CASE ~ HastaParsing /\ hastaHeard = <<>> /\ hastaSent = <<>>
    <3>1. Len(B) = 0
      <4>1. <<>> \in Seq(Bit) /\ Len(<<>>) = ByteBits * 0 + 0 /\ 0 \in 0 .. ByteBits - 1
        BY EmptySeq, ByteSizes
      <4>2. Len(BytesOf(<<>>)) = 0
        BY <2>2, <4>1
      <4>3. QED
        BY <2>4, <4>2
    <3> HIDE DEF B, odd
    <3>2. Len(B) # 5 /\ Len(B) # 4
      BY <3>1
    <3>3. QED
      BY <2>1, <2>4, <3>2
  <2>5. ASSUME ~ HastaParsing, NEW m \in Seq(Byte), HastaCompletes(m)
        PROVE  Goal
    <3>1. B = m
      BY <2>5, BytesOfJoined DEF HastaCompletes
    <3> HIDE DEF B
    <3>2. CASE Len(m) = 4 /\ hastaSent = <<"old", m>>
      <4>1. SubSeq(m, 1, 4) = m
        BY <3>2, SubSeqFull
      <4>2. hastaSent # <<>> /\ hastaSent[2] = m /\ Len(B) = 4 /\ Len(B) # 5
        BY <3>1, <3>2
      <4>3. QED
        BY <2>5, <3>1, <4>1, <4>2
    <3>3. CASE /\ Len(m) = 5
               /\ hastaSent = IF (FirstFour(m) + Value(m[5])) % 2 ^ ByteBits = 1
                                THEN <<"new", SubSeq(m, 1, 4)>> ELSE <<>>
      <4>1. FirstFour(m) = Value(m[1]) + Value(m[2]) + Value(m[3]) + Value(m[4])
        BY <3>3 DEF FirstFour, ValueAt
      <4>2. sum = FirstFour(m) + Value(m[5])
        BY <3>1, <4>1
      <4> HIDE DEF sum
      <4>3. hastaSent = IF odd THEN <<"new", SubSeq(m, 1, 4)>> ELSE <<>>
        BY <3>3, <4>2
      <4> HIDE DEF odd
      <4>4. odd => hastaSent # <<>> /\ hastaSent[2] = SubSeq(m, 1, 4)
        BY <4>3
      <4>5. ~ odd => hastaSent = <<>>
        BY <4>3
      <4>6. (hastaSent # <<>>) = odd
        <5>1. odd \in BOOLEAN
          BY DEF odd
        <5>2. QED
          BY <4>4, <4>5, <5>1
      <4>7. Len(B) # 4
        BY <3>1, <3>3
      <4>8. QED
        BY <2>5, <3>1, <4>4, <4>5, <4>6, <4>7
    <3>4. QED
      BY <2>5, <3>2, <3>3 DEF HastaCompletes
  <2>6. QED
    BY <2>1, <2>3, <2>4, <2>5 DEF HastaInv, HastaBits
<1>2. QED
  BY <1>1, HastaAlways, PTL

-----------------------------------------------------------------------------
(* Oregon sensors of version 3.                                            *)

V3Statics ==
  [state : {"preamble", "sync", "id", "data"}, sync : 0 .. CountMod - 1,
   half : 0 .. HalfMod - 1, byte : Seq(Bit), id : Seq(Byte), expected : Int,
   cnt : Nat, buffer : [0 .. V3Buffer - 1 -> Byte]]

\* Before a message there is no half cell and no bit of one.
V3Form ==
  /\ v3 \in V3Statics
  /\ Len(v3.byte) < ByteBits
  /\ ~ V3Parsing => v3.half = 0 /\ v3.byte = <<>>
  /\ v3.state = "sync" => v3.sync \in 1 .. V3Sync
  /\ v3.state = "id" => Len(v3.id) <= 1
  /\ v3.state = "data" => Len(v3.id) = 2 /\ v3.expected # 0
  /\ V3Parsing => (v3.half % (2 * ByteBits)) \div 2 = Len(v3.byte)

\* The bytes of data, those too that bufferV3 has no room for: the bits heard are
\* those of the id, of these bytes and of a part of a byte, and the buffer holds
\* as many of them as it can.
V3Holds(heard, id, data, byte, buffer) ==
  /\ heard = Joined(id \o data) \o byte
  /\ \A k \in 1 .. Len(data) : k <= V3Buffer => buffer[k - 1] = data[k]

V3DataHeard ==
  \E data \in Seq(Byte) :
    /\ Len(data) = v3.cnt
    /\ V3Holds(v3Heard, v3.id, data, v3.byte, v3.buffer)

\* A message that the last run has completed.
V3Completed ==
  \E data \in Seq(Byte), byte \in Seq(Bit) :
    /\ Len(byte) < ByteBits
    /\ v3Sent[1] \in Seq(Byte) /\ Len(v3Sent[1]) = 2
    /\ v3Sent[3] \in [0 .. V3Buffer - 1 -> Byte]
    /\ V3Holds(v3Heard, v3Sent[1], data, byte, v3Sent[3])

V3Bits ==
  /\ v3.state = "sync" => v3Heard = <<>>
  /\ v3.state = "id" => v3Heard = Joined(v3.id) \o v3.byte
  /\ v3.state = "data" => V3DataHeard
  /\ v3.state # "preamble" => v3Sent = <<>>
  /\ v3Sent # <<>> => V3Completed

V3Inv == V3Form /\ V3Bits

LEMMA V3Sizes ==
  /\ V3Sync \in Nat \ {0} /\ V3Sync < CountMod /\ V3Buffer \in Nat \ {0}
  /\ HalfMod \in Nat \ {0} /\ HalfMod % (2 * ByteBits) = 0
  /\ \A n \in V3Lengths : n \in Int /\ n # 0
<1>1. /\ V3Sync \in Nat \ {0} /\ V3Sync < CountMod /\ V3Buffer \in Nat \ {0}
      /\ HalfMod \in Nat \ {0} /\ HalfMod % (2 * ByteBits) = 0
      /\ V3Lengths \subseteq 1 .. V3Buffer
  BY V3Assumption
<1>2. 1 .. V3Buffer \subseteq Int \ {0}
  BY <1>1
<1>3. QED
  BY <1>1, <1>2

\* Half a cell or a cell more.
LEMMA HalfCells ==
  ASSUME NEW half \in 0 .. HalfMod - 1, NEW l \in 0 .. ByteBits - 1,
         NEW d \in 1 .. 2, d = 2 => half % 2 = 0,
         (half % (2 * ByteBits)) \div 2 = l
  PROVE  LET next == (half + d) % HalfMod
         IN  /\ next \in 0 .. HalfMod - 1
             /\ next % 2 # 0 => (next % (2 * ByteBits)) \div 2 = l
             /\ next % 2 = 0 =>
                  (next % (2 * ByteBits)) \div 2 =
                    IF l + 1 < ByteBits THEN l + 1 ELSE 0
<1> DEFINE w == 2 * ByteBits
           next == (half + d) % HalfMod
           h == half % w
           r == h % 2
           g == next % w
<1>1. /\ w \in Nat \ {0} /\ 2 \in Nat \ {0} /\ half \in Int /\ half + d \in Int
      /\ HalfMod \in Nat \ {0} /\ HalfMod % w = 0 /\ ByteBits \in Nat \ {0}
      /\ l \in Int /\ d \in Int
  BY ByteSizes, V3Sizes
<1>2. w % 2 = 0
  <2>1. 2 * ByteBits + 0 = w /\ 0 \in 0 .. 2 - 1
    BY <1>1
  <2>2. (2 * ByteBits + 0) % 2 = 0
    BY <1>1, <2>1, DivModUnique
  <2>3. QED
    BY <2>1, <2>2
<1> HIDE DEF w
<1>3. next \in 0 .. HalfMod - 1 /\ next \in Int
  BY <1>1, DivMod
<1>4. g = (half + d) % w
  BY <1>1, ModMod, ZenonT(60)
<1>5. g = (h + d) % w
  <2>1. w \in Nat \ {0} /\ half \in Int /\ d \in Int
    BY <1>1
  <2>2. \A n, k \in Int : ((n % w) + k) % w = (n + k) % w
    BY <2>1, ModAdd
  <2>3. ((half % w) + d) % w = (half + d) % w
    BY <2>1, <2>2
  <2>4. QED
    BY <1>4, <2>3
<1>6. h \in 0 .. w - 1 /\ h \in Int
  BY <1>1, DivMod
<1>7. r = half % 2
  BY <1>1, <1>2, ModMod, ZenonT(60)
<1>8. g % 2 = next % 2
  <2> HIDE DEF next
  <2>1. QED
    BY <1>1, <1>2, <1>3, ModMod, ZenonT(60)
<1> HIDE DEF next, h
<1>9. h = 2 * l + r /\ r \in 0 .. 1
  <2>1. h \div 2 = l
    BY DEF h, w
  <2>2. h = 2 * (h \div 2) + (h % 2) /\ h % 2 \in 0 .. 2 - 1
    BY <1>1, <1>6, DivMod
  <2>3. QED
    BY <2>1, <2>2
<1> HIDE DEF r, g
<1>10. CASE h + d < w
  <2>1. g = h + d
    <3>1. h + d \in Int /\ h + d \in 0 .. w - 1
      BY <1>1, <1>6, <1>10
    <3> DEFINE x == h + d
    <3> HIDE DEF x
    <3>2. x \in Int /\ x \in 0 .. w - 1 /\ g = x % w
      BY <3>1, <1>5 DEF x
    <3>3. x % w = x
      BY <1>1, <3>2, NearMod
    <3>4. QED
      BY <3>2, <3>3 DEF x
  <2>2. CASE r + d = 1
    <3>1. g = 2 * l + 1 /\ 1 \in 0 .. 2 - 1
      BY <1>1, <1>9, <2>1, <2>2
    <3>2. g \div 2 = l /\ g % 2 = 1
      BY <1>1, <3>1, DivModUnique
    <3>3. QED
      BY <1>3, <1>8, <3>2 DEF next, g, w
  <2>3. CASE r + d = 2
    <3>1. g = 2 * (l + 1) + 0 /\ 0 \in 0 .. 2 - 1 /\ l + 1 \in Int
      BY <1>1, <1>9, <2>1, <2>3
    <3>2. g \div 2 = l + 1 /\ g % 2 = 0
      BY <1>1, <3>1, DivModUnique
    <3>3. l + 1 < ByteBits
      BY <1>1, <1>9, <1>10, <2>3 DEF w
    <3>4. QED
      BY <1>3, <1>8, <3>2, <3>3 DEF next, g, w
  <2>4. r + d = 1 \/ r + d = 2
    BY <1>1, <1>7, <1>9
  <2>5. QED
    BY <2>2, <2>3, <2>4
<1>11. CASE ~ (h + d < w)
  <2>1. r + d = 2 /\ ~ (l + 1 < ByteBits) /\ h + d = w
    BY <1>1, <1>6, <1>7, <1>9, <1>11 DEF w
  <2>2. g = 0
    <3>1. w % w = 0
      <4>1. w = w * 1 + 0 /\ 0 \in 0 .. w - 1
        BY <1>1
      <4>2. (w * 1 + 0) % w = 0
        BY <1>1, <4>1, DivModUnique
      <4>3. QED
        BY <4>1, <4>2
    <3>2. QED
      BY <1>5, <2>1, <3>1
  <2>3. 0 \div 2 = 0 /\ 0 % 2 = 0
    OBVIOUS
  <2>4. QED
    BY <1>3, <1>8, <2>1, <2>2, <2>3 DEF next, g, w
<1>12. QED
  BY <1>10, <1>11

LEMMA V3Start == V3Init => V3Inv
<1> SUFFICES ASSUME V3Init PROVE V3Inv
  OBVIOUS
<1>1. <<>> \in Seq(Bit) /\ <<>> \in Seq(Byte) /\ Len(<<>>) = 0 /\ Zero \in Byte
  BY EmptySeq, ByteIsSeq
<1>2. v3 \in V3Statics
  BY <1>1, ByteSizes, V3Sizes DEF V3Init, V3Statics
<1>3. v3.state = "preamble" /\ v3.half = 0 /\ v3.byte = <<>> /\ v3Sent = <<>>
  BY DEF V3Init
<1>4. V3Form
  BY <1>1, <1>2, <1>3, ByteSizes DEF V3Form, V3Parsing
<1>5. V3Bits
  BY <1>3 DEF V3Bits
<1>6. QED
  BY <1>4, <1>5 DEF V3Inv

\* A decoder that is cleared, and nothing sent, or a message that was.
LEMMA V3Cleared ==
  ASSUME NEW d \in V3Statics, v3' = ClearOregonV3(d),
         v3Sent' # <<>> => V3Completed'
  PROVE  V3Inv'
<1>1. /\ <<>> \in Seq(Bit) /\ Len(<<>>) = 0 /\ 0 \in 0 .. CountMod - 1
      /\ 0 \in 0 .. HalfMod - 1
  BY EmptySeq, ByteSizes, V3Sizes
<1>2. v3' \in V3Statics
  BY <1>1 DEF ClearOregonV3, V3Statics
<1>3. v3'.state = "preamble" /\ v3'.half = 0 /\ v3'.byte = <<>>
  BY DEF ClearOregonV3, V3Statics
<1>4. V3Form'
  BY <1>1, <1>2, <1>3, ByteSizes DEF V3Form, V3Parsing
<1>5. V3Bits'
  BY <1>3 DEF V3Bits
<1>6. QED
  BY <1>4, <1>5 DEF V3Inv

LEMMA V3PreambleStep ==
  ASSUME V3Inv, NEW x, V3PreamblePulse(x)
  PROVE  V3Inv'
<1>1. /\ v3 \in V3Statics /\ v3.half = 0 /\ v3.byte = <<>> /\ v3.state = "preamble"
      /\ v3.sync \in 0 .. CountMod - 1
  BY DEF V3PreamblePulse, V3Inv, V3Form, V3Parsing, V3Statics
<1>2. v3Heard' = <<>> /\ v3Sent' = <<>>
  BY DEF V3PreamblePulse
<1>3. \/ v3' = [v3 EXCEPT !.sync = (v3.sync + 1) % CountMod]
      \/ v3' = [v3 EXCEPT !.state = "sync", !.sync = V3Sync]
      \/ v3' = ClearOregonV3(v3)
  BY DEF V3PreamblePulse, V3Preambled
<1>4. Len(<<>>) = 0
  BY EmptySeq
<1>5. CASE v3' = [v3 EXCEPT !.sync = (v3.sync + 1) % CountMod]
  <2> DEFINE n == (v3.sync + 1) % CountMod
  <2>1. n \in 0 .. CountMod - 1
    <3>1. v3.sync + 1 \in Int
      BY <1>1, ByteSizes
    <3>2. QED
      BY <3>1, ByteSizes, DivMod
  <2>2. v3' = [v3 EXCEPT !.sync = n]
    BY <1>5
  <2> HIDE DEF n
  <2>3. v3' \in V3Statics
    BY <1>1, <2>1, <2>2 DEF V3Statics
  <2>4. v3'.state = "preamble" /\ v3'.half = 0 /\ v3'.byte = <<>>
    BY <1>1, <2>2 DEF V3Statics
  <2>5. V3Form'
    BY <1>4, <2>3, <2>4, ByteSizes DEF V3Form, V3Parsing
  <2>6. V3Bits'
    BY <1>2, <2>4 DEF V3Bits
  <2>7. QED
    BY <2>5, <2>6 DEF V3Inv
<1>6. CASE v3' = [v3 EXCEPT !.state = "sync", !.sync = V3Sync]
  <2>1. V3Sync \in 0 .. CountMod - 1 /\ V3Sync \in 1 .. V3Sync
    BY V3Sizes, ByteSizes
  <2>2. v3' \in V3Statics
    BY <1>1, <1>6, <2>1 DEF V3Statics
  <2>3. /\ v3'.state = "sync" /\ v3'.sync = V3Sync /\ v3'.half = 0
        /\ v3'.byte = <<>>
    BY <1>1, <1>6 DEF V3Statics
  <2>4. V3Form'
    BY <1>4, <2>1, <2>2, <2>3, ByteSizes DEF V3Form, V3Parsing
  <2>5. V3Bits'
    BY <1>2, <2>3 DEF V3Bits
  <2>6. QED
    BY <2>4, <2>5 DEF V3Inv
<1>7. CASE v3' = ClearOregonV3(v3)
  BY <1>1, <1>2, <1>7, V3Cleared
<1>8. QED
  BY <1>3, <1>5, <1>6, <1>7

LEMMA V3SyncStep ==
  ASSUME V3Inv, NEW x, V3SyncPulse(x)
  PROVE  V3Inv'
<1>1. /\ v3 \in V3Statics /\ v3.half = 0 /\ v3.byte = <<>> /\ v3.state = "sync"
      /\ v3.sync \in 1 .. V3Sync
  BY DEF V3SyncPulse, V3Inv, V3Form, V3Parsing
<1>2. v3Heard' = <<>> /\ v3Sent' = <<>>
  BY DEF V3SyncPulse, V3Inv, V3Bits
<1>3. \/ v3' = [v3 EXCEPT !.state = "id", !.sync = 0, !.id = <<>>]
      \/ v3.sync # 1 /\ v3' = [v3 EXCEPT !.sync = v3.sync - 1]
      \/ v3' = ClearOregonV3(v3)
  BY DEF V3SyncPulse
<1>4. Len(<<>>) = 0 /\ <<>> \in Seq(Byte)
  BY EmptySeq
<1>5. CASE v3' = [v3 EXCEPT !.state = "id", !.sync = 0, !.id = <<>>]
  <2>1. 0 \in 0 .. CountMod - 1
    BY ByteSizes
  <2>2. v3' \in V3Statics
    BY <1>1, <1>4, <1>5, <2>1 DEF V3Statics
  <2>3. v3'.state = "id" /\ v3'.id = <<>> /\ v3'.half = 0 /\ v3'.byte = <<>>
    BY <1>1, <1>5 DEF V3Statics
  <2>4. (0 % (2 * ByteBits)) \div 2 = 0
    <3> DEFINE w == 2 * ByteBits
    <3>1. w \in Nat \ {0} /\ 0 \in 0 .. w - 1
      BY ByteSizes
    <3> HIDE DEF w
    <3>2. 0 % w = 0
      BY <3>1, NearMod
    <3>3. QED
      BY <3>2 DEF w
  <2>5. V3Form'
    BY <1>4, <2>2, <2>3, <2>4, ByteSizes DEF V3Form, V3Parsing
  <2>6. Joined(<<>>) \o <<>> = <<>>
    BY JoinedEmpty, ConcatEmptySeq
  <2>7. V3Bits'
    BY <1>2, <2>3, <2>6 DEF V3Bits
  <2>8. QED
    BY <2>5, <2>7 DEF V3Inv
<1>6. CASE v3.sync # 1 /\ v3' = [v3 EXCEPT !.sync = v3.sync - 1]
  <2> DEFINE n == v3.sync - 1
  <2>1. n \in 0 .. CountMod - 1 /\ n \in 1 .. V3Sync
    BY <1>1, <1>6, V3Sizes, ByteSizes
  <2>2. v3' = [v3 EXCEPT !.sync = n]
    BY <1>6
  <2> HIDE DEF n
  <2>3. v3' \in V3Statics
    BY <1>1, <2>1, <2>2 DEF V3Statics
  <2>4. v3'.state = "sync" /\ v3'.sync = n /\ v3'.half = 0 /\ v3'.byte = <<>>
    BY <1>1, <2>2 DEF V3Statics
  <2>5. V3Form'
    BY <1>4, <2>1, <2>3, <2>4, ByteSizes DEF V3Form, V3Parsing
  <2>6. V3Bits'
    BY <1>2, <2>4 DEF V3Bits
  <2>7. QED
    BY <2>5, <2>6 DEF V3Inv
<1>7. CASE v3' = ClearOregonV3(v3)
  BY <1>1, <1>2, <1>7, V3Cleared
<1>8. QED
  BY <1>3, <1>5, <1>6, <1>7

\* What holds of the variables of a decoder that parses a message.
LEMMA V3Reads ==
  ASSUME V3Inv, V3Parsing
  PROVE  /\ v3 \in V3Statics /\ v3.half \in 0 .. HalfMod - 1
         /\ v3.byte \in Seq(Bit) /\ Len(v3.byte) \in 0 .. ByteBits - 1
         /\ v3.id \in Seq(Byte) /\ v3.cnt \in Nat /\ v3.expected \in Int
         /\ v3.buffer \in [0 .. V3Buffer - 1 -> Byte]
         /\ (v3.half % (2 * ByteBits)) \div 2 = Len(v3.byte)
         /\ v3Sent = <<>> /\ v3.state \in {"id", "data"}
<1>1. /\ v3 \in V3Statics /\ v3.half \in 0 .. HalfMod - 1
      /\ v3.byte \in Seq(Bit) /\ v3.id \in Seq(Byte) /\ v3.cnt \in Nat
      /\ v3.expected \in Int /\ v3.buffer \in [0 .. V3Buffer - 1 -> Byte]
      /\ Len(v3.byte) < ByteBits
      /\ (v3.half % (2 * ByteBits)) \div 2 = Len(v3.byte)
  BY DEF V3Inv, V3Form, V3Statics
<1>2. v3Sent = <<>> /\ v3.state \in {"id", "data"}
  BY DEF V3Inv, V3Bits, V3Parsing
<1>3. Len(v3.byte) \in 0 .. ByteBits - 1
  <2>1. Len(v3.byte) \in Nat
    BY <1>1, LenProperties
  <2>2. QED
    BY <1>1, <2>1, ByteSizes
<1>4. QED
  BY <1>1, <1>2, <1>3

\* The half cells behind a run.
LEMMA V3HalvesOf ==
  ASSUME V3Inv, V3Parsing, NEW x, V3Valid(x)
  PROVE  LET next == V3Halves(x)
         IN  /\ next \in 0 .. HalfMod - 1
             /\ next % 2 # 0 => (next % (2 * ByteBits)) \div 2 = Len(v3.byte)
             /\ next % 2 = 0 =>
                  (next % (2 * ByteBits)) \div 2 =
                    IF Len(v3.byte) + 1 < ByteBits THEN Len(v3.byte) + 1 ELSE 0
<1> DEFINE d == IF V3Big(x) THEN 2 ELSE 1
           l == Len(v3.byte)
           half == v3.half
<1>1. V3Halves(x) = (half + d) % HalfMod
  BY DEF V3Halves
<1>2. d \in 1 .. 2 /\ (d = 2 => V3Big(x))
  OBVIOUS
<1>3. ~ (V3Small(x) /\ V3Big(x))
  BY DEF V3Small, V3Big
<1>4. d = 2 => half % 2 = 0
  BY <1>2, <1>3 DEF V3Valid
<1>5. half \in 0 .. HalfMod - 1 /\ l \in 0 .. ByteBits - 1
      /\ (half % (2 * ByteBits)) \div 2 = l
  BY V3Reads
<1> HIDE DEF d, half, l
<1>6. LET next == (half + d) % HalfMod
      IN  /\ next \in 0 .. HalfMod - 1
          /\ next % 2 # 0 => (next % (2 * ByteBits)) \div 2 = l
          /\ next % 2 = 0 =>
               (next % (2 * ByteBits)) \div 2 =
                 IF l + 1 < ByteBits THEN l + 1 ELSE 0
  BY <1>2, <1>4, <1>5, HalfCells
<1>7. QED
  BY <1>1, <1>6 DEF l

LEMMA V3HalfBitStep ==
  ASSUME V3Inv, NEW x, V3HalfBit(x)
  PROVE  V3Inv'
<1> DEFINE h == V3Halves(x)
<1>1. /\ V3Parsing /\ V3Valid(x) /\ h % 2 # 0 /\ v3' = [v3 EXCEPT !.half = h]
      /\ v3Heard' = v3Heard /\ v3Sent' = v3Sent
  BY DEF V3HalfBit, V3EndsBit
<1>2. h \in 0 .. HalfMod - 1 /\ (h % (2 * ByteBits)) \div 2 = Len(v3.byte)
  BY <1>1, V3HalvesOf
<1> HIDE DEF h
<1>3. v3 \in V3Statics
  BY <1>1, V3Reads
<1>4. v3' \in V3Statics
  BY <1>1, <1>2, <1>3 DEF V3Statics
<1>5. /\ v3'.half = h /\ v3'.state = v3.state /\ v3'.byte = v3.byte
      /\ v3'.id = v3.id /\ v3'.expected = v3.expected /\ v3'.cnt = v3.cnt
      /\ v3'.buffer = v3.buffer /\ v3'.sync = v3.sync
  BY <1>1, <1>3 DEF V3Statics
<1>6. V3Form'
  BY <1>1, <1>2, <1>4, <1>5 DEF V3Inv, V3Form, V3Parsing
<1>7. V3Bits'
  <2>1. V3DataHeard' <=> V3DataHeard
    BY <1>1, <1>5 DEF V3DataHeard
  <2>2. v3Sent' = <<>>
    BY <1>1, V3Reads
  <2>3. QED
    BY <1>1, <1>5, <2>1, <2>2 DEF V3Inv, V3Bits
<1>8. QED
  BY <1>6, <1>7 DEF V3Inv

LEMMA V3DropStep ==
  ASSUME V3Inv, NEW level, NEW x, V3Drop(level, x)
  PROVE  V3Inv'
<1>1. V3Parsing /\ v3' = ClearOregonV3(v3) /\ v3Sent' = v3Sent
  BY DEF V3Drop
<1>2. v3 \in V3Statics /\ v3Sent' = <<>>
  BY <1>1, V3Reads
<1>3. QED
  BY <1>1, <1>2, V3Cleared

\* A bit is added.
LEMMA V3BitAdded ==
  ASSUME V3Inv, NEW level \in Bit, NEW x, V3EndsBit(x)
  PROVE  LET b == WithV3Bit(level, x)
         IN  /\ b \in V3Statics /\ b.state = v3.state /\ b.id = v3.id
             /\ b.byte = Append(v3.byte, level) /\ b.byte \in Seq(Bit)
             /\ Len(b.byte) = Len(v3.byte) + 1
             /\ b.expected = v3.expected /\ b.cnt = v3.cnt
             /\ b.buffer = v3.buffer
             /\ (b.half % (2 * ByteBits)) \div 2 =
                  IF Len(v3.byte) + 1 < ByteBits THEN Len(v3.byte) + 1 ELSE 0
<1> DEFINE h == V3Halves(x)
           s == Append(v3.byte, level)
<1>1. V3Parsing /\ V3Valid(x) /\ h % 2 = 0
  BY DEF V3EndsBit
<1>2. /\ h \in 0 .. HalfMod - 1
      /\ (h % (2 * ByteBits)) \div 2 =
           IF Len(v3.byte) + 1 < ByteBits THEN Len(v3.byte) + 1 ELSE 0
  BY <1>1, V3HalvesOf
<1>3. v3 \in V3Statics /\ v3.byte \in Seq(Bit)
  BY <1>1, V3Reads
<1>4. s \in Seq(Bit) /\ Len(s) = Len(v3.byte) + 1
  BY <1>3, AppendProperties
<1>5. WithV3Bit(level, x) = [v3 EXCEPT !.half = h, !.byte = s]
  BY DEF WithV3Bit
<1> HIDE DEF h, s
<1> DEFINE b == [v3 EXCEPT !.half = h, !.byte = s]
<1>6. b \in V3Statics
  BY <1>2, <1>3, <1>4 DEF V3Statics
<1>7. /\ b.state = v3.state /\ b.id = v3.id /\ b.byte = s /\ b.half = h
      /\ b.expected = v3.expected /\ b.cnt = v3.cnt /\ b.buffer = v3.buffer
  BY <1>3 DEF V3Statics
<1> HIDE DEF b
<1>8. QED
  BY <1>2, <1>4, <1>5, <1>6, <1>7 DEF b, s

\* A bit, and the last bit of a byte, are added to the data heard.
LEMMA V3HoldsBit ==
  ASSUME NEW heard, NEW id \in Seq(Byte), NEW data \in Seq(Byte),
         NEW byte \in Seq(Bit), NEW buffer, NEW level \in Bit,
         V3Holds(heard, id, data, byte, buffer)
  PROVE  V3Holds(Append(heard, level), id, data, Append(byte, level), buffer)
<1> DEFINE bytes == id \o data
<1>1. bytes \in Seq(Byte) /\ heard = Joined(bytes) \o byte
  BY ConcatProperties DEF V3Holds
<1> HIDE DEF bytes
<1>2. Append(heard, level) = Joined(bytes) \o Append(byte, level)
  BY <1>1, HeardBit
<1>3. QED
  BY <1>2 DEF V3Holds, bytes

\* A byte is stored at n, if there is room for it.
V3Puts(stored, buffer, n, byte) ==
  \A k \in 0 .. V3Buffer - 1 : stored[k] = IF k = n THEN byte ELSE buffer[k]

LEMMA V3HoldsByte ==
  ASSUME NEW heard, NEW id \in Seq(Byte), NEW data \in Seq(Byte),
         NEW byte \in Seq(Bit), NEW level \in Bit, Len(byte) + 1 = ByteBits,
         NEW buffer \in [0 .. V3Buffer - 1 -> Byte],
         V3Holds(heard, id, data, byte, buffer),
         NEW last, last = Append(byte, level),
         NEW stored, V3Puts(stored, buffer, Len(data), last),
         NEW more, more = Append(data, last)
  PROVE  /\ last \in Byte /\ more \in Seq(Byte) /\ Len(more) = Len(data) + 1
         /\ V3Holds(Append(heard, level), id, more, <<>>, stored)
<1> DEFINE bytes == id \o data
<1>1. bytes \in Seq(Byte) /\ heard = Joined(bytes) \o byte
      /\ \A k \in 1 .. Len(data) : k <= V3Buffer => buffer[k - 1] = data[k]
  BY ConcatProperties DEF V3Holds
<1> HIDE DEF bytes
<1>2. /\ last \in Byte /\ Append(bytes, last) \in Seq(Byte)
      /\ Append(heard, level) = Joined(Append(bytes, last))
      /\ Joined(Append(bytes, last)) \o <<>> = Joined(Append(bytes, last))
  BY <1>1, HeardByte
<1>3. Append(bytes, last) = id \o more
  <2>1. <<last>> \in Seq(Byte)
    BY <1>2
  <2> DEFINE e == <<last>>
  <2> HIDE DEF e
  <2>2. (id \o data) \o e = id \o (data \o e)
    BY <2>1, ConcatAssociative, SMTT(30) DEF e
  <2>3. Append(bytes, last) = bytes \o <<last>> /\ more = data \o <<last>>
    BY <1>1, <1>2, AppendIsConcat
  <2>4. QED
    BY <2>2, <2>3 DEF bytes, e
<1>4. /\ more \in Seq(Byte) /\ Len(more) = Len(data) + 1 /\ Len(data) \in Nat
      /\ \A k \in 1 .. Len(data) : more[k] = data[k]
      /\ more[Len(data) + 1] = last
  BY <1>2, AppendProperties, LenProperties
<1>5. ASSUME NEW k \in 1 .. Len(more), k <= V3Buffer PROVE stored[k - 1] = more[k]
  <2>1. k \in Int /\ k - 1 \in 0 .. V3Buffer - 1
    BY <1>4, <1>5, V3Sizes
  <2>2. CASE k - 1 = Len(data)
    BY <1>4, <2>1, <2>2 DEF V3Puts
  <2>3. CASE k - 1 # Len(data)
    <3>1. k \in 1 .. Len(data)
      <4> DEFINE n == Len(data)
      <4>1. n \in Nat /\ k \in 1 .. n + 1 /\ k # n + 1
        BY <1>4, <2>1, <2>3
      <4> HIDE DEF n
      <4>2. k \in 1 .. n
        BY <4>1
      <4>3. QED
        BY <4>2 DEF n
    <3>2. QED
      BY <1>1, <1>4, <1>5, <2>1, <2>3, <3>1 DEF V3Puts
  <2>4. QED
    BY <2>2, <2>3
<1>6. Append(heard, level) = Joined(id \o more) \o <<>>
  BY <1>2, <1>3
<1>7. V3Holds(Append(heard, level), id, more, <<>>, stored)
  BY <1>5, <1>6 DEF V3Holds
<1>8. QED
  BY <1>2, <1>4, <1>7

LEMMA V3InByteStep ==
  ASSUME V3Inv, NEW level \in Bit, NEW x, V3InByte(level, x)
  PROVE  V3Inv'
<1>1. /\ V3EndsBit(x) /\ Len(v3.byte) + 1 < ByteBits /\ v3' = WithV3Bit(level, x)
      /\ v3Heard' = Append(v3Heard, level) /\ v3Sent' = v3Sent /\ V3Parsing
  BY DEF V3InByte, V3EndsBit
<1>2. /\ v3' \in V3Statics /\ v3'.state = v3.state /\ v3'.id = v3.id
      /\ v3'.byte = Append(v3.byte, level) /\ Len(v3'.byte) = Len(v3.byte) + 1
      /\ v3'.expected = v3.expected /\ v3'.cnt = v3.cnt
      /\ v3'.buffer = v3.buffer
      /\ (v3'.half % (2 * ByteBits)) \div 2 = Len(v3.byte) + 1
  BY <1>1, V3BitAdded
<1>3. /\ v3.byte \in Seq(Bit) /\ v3.id \in Seq(Byte) /\ v3Sent = <<>>
      /\ v3.state \in {"id", "data"}
  BY <1>1, V3Reads
<1>4. V3Form'
  BY <1>1, <1>2, <1>3 DEF V3Inv, V3Form, V3Parsing
<1>5. ASSUME v3.state = "id" PROVE v3Heard' = Joined(v3'.id) \o v3'.byte
  <2>1. v3Heard = Joined(v3.id) \o v3.byte
    BY <1>5 DEF V3Inv, V3Bits
  <2>2. QED
    BY <1>1, <1>2, <1>3, <2>1, HeardBit
<1>6. ASSUME v3.state = "data" PROVE V3DataHeard'
  <2>1. PICK data \in Seq(Byte) :
          /\ Len(data) = v3.cnt
          /\ V3Holds(v3Heard, v3.id, data, v3.byte, v3.buffer)
    BY <1>6 DEF V3Inv, V3Bits, V3DataHeard
  <2>2. V3Holds(Append(v3Heard, level), v3.id, data, Append(v3.byte, level),
                v3.buffer)
    BY <1>3, <2>1, V3HoldsBit
  <2>3. V3Holds(v3Heard', v3'.id, data, v3'.byte, v3'.buffer)
    BY <1>1, <1>2, <2>2
  <2>4. QED
    BY <1>2, <2>1, <2>3 DEF V3DataHeard
<1>7. V3Bits'
  BY <1>1, <1>2, <1>3, <1>5, <1>6 DEF V3Bits
<1>8. QED
  BY <1>4, <1>7 DEF V3Inv

\* The last bit of a byte leaves no bit and no half cell.
LEMMA V3ByteDone ==
  ASSUME V3Inv, NEW level \in Bit, NEW x, V3EndsBit(x),
         Len(WithV3Bit(level, x).byte) = ByteBits
  PROVE  LET b == WithV3Bit(level, x)
             d == [b EXCEPT !.byte = <<>>]
         IN  /\ d \in V3Statics /\ d.byte = <<>> /\ b \in V3Statics
             /\ b.byte = Append(v3.byte, level) /\ b.byte \in Byte
             /\ d.state = v3.state /\ d.id = v3.id /\ d.expected = v3.expected
             /\ d.cnt = v3.cnt /\ d.buffer = v3.buffer
             /\ b.cnt = v3.cnt /\ b.buffer = v3.buffer
             /\ (d.half % (2 * ByteBits)) \div 2 = 0
             /\ Len(v3.byte) + 1 = ByteBits
<1> DEFINE b == WithV3Bit(level, x)
           d == [b EXCEPT !.byte = <<>>]
<1>1. /\ b \in V3Statics /\ b.state = v3.state /\ b.id = v3.id
      /\ b.byte = Append(v3.byte, level) /\ b.byte \in Seq(Bit)
      /\ Len(b.byte) = Len(v3.byte) + 1
      /\ b.expected = v3.expected /\ b.cnt = v3.cnt /\ b.buffer = v3.buffer
      /\ (b.half % (2 * ByteBits)) \div 2 =
           IF Len(v3.byte) + 1 < ByteBits THEN Len(v3.byte) + 1 ELSE 0
      /\ Len(b.byte) = ByteBits
  BY V3BitAdded
<1> HIDE DEF b
<1>2. b.byte \in Byte
  BY <1>1, ByteIsSeq
<1>3. <<>> \in Seq(Bit)
  BY EmptySeq
<1>4. /\ d \in V3Statics /\ d.byte = <<>> /\ d.state = b.state /\ d.id = b.id
      /\ d.expected = b.expected /\ d.cnt = b.cnt /\ d.buffer = b.buffer
      /\ d.half = b.half
  BY <1>1, <1>3 DEF V3Statics
<1>5. Len(v3.byte) + 1 = ByteBits /\ ~ (Len(v3.byte) + 1 < ByteBits)
  BY <1>1, ByteSizes
<1>6. (d.half % (2 * ByteBits)) \div 2 = 0
  BY <1>1, <1>4, <1>5
<1> HIDE DEF d
<1>7. QED
  BY <1>1, <1>2, <1>4, <1>5, <1>6 DEF b, d

LEMMA V3IdByteStep ==
  ASSUME V3Inv, NEW level \in Bit, NEW x, V3IdByte(level, x)
  PROVE  V3Inv'
<1> DEFINE b == WithV3Bit(level, x)
           d == [b EXCEPT !.byte = <<>>]
           skipped == v3.id = <<>> /\ b.byte = Zero
<1>1. /\ V3EndsBit(x) /\ v3.state = "id" /\ Len(b.byte) = ByteBits /\ V3Parsing
      /\ \/ /\ v3.id = <<>>
            /\ v3' = [d EXCEPT !.id = IF skipped THEN <<>> ELSE <<b.byte>>]
         \/ /\ v3.id # <<>>
            /\ \E expected \in V3Lengths \cup {-1} :
                 v3' = [d EXCEPT !.id = Append(v3.id, b.byte), !.state = "data",
                                 !.expected = expected, !.cnt = 0]
      /\ v3Heard' = IF skipped THEN <<>> ELSE Append(v3Heard, level)
      /\ v3Sent' = v3Sent
  BY DEF V3IdByte, V3EndsBit
<1>2. /\ d \in V3Statics /\ d.byte = <<>> /\ b.byte \in Byte
      /\ b.byte = Append(v3.byte, level) /\ d.state = "id" /\ d.id = v3.id
      /\ (d.half % (2 * ByteBits)) \div 2 = 0 /\ Len(v3.byte) + 1 = ByteBits
  BY <1>1, V3ByteDone
<1>3. /\ v3.id \in Seq(Byte) /\ Len(v3.id) <= 1 /\ Len(v3.id) \in Nat
      /\ v3.byte \in Seq(Bit) /\ v3Heard = Joined(v3.id) \o v3.byte
      /\ v3Sent' = <<>>
  BY <1>1, V3Reads, LenProperties DEF V3Inv, V3Form, V3Bits
<1> HIDE DEF b
<1> DEFINE id == Append(v3.id, b.byte)
<1>4. /\ id \in Seq(Byte) /\ Len(id) = Len(v3.id) + 1
      /\ Append(v3Heard, level) = Joined(id) /\ Joined(id) \o <<>> = Joined(id)
  <2>1. /\ Append(v3.id, Append(v3.byte, level)) \in Seq(Byte)
        /\ Append(Joined(v3.id) \o v3.byte, level)
             = Joined(Append(v3.id, Append(v3.byte, level)))
        /\ Joined(Append(v3.id, Append(v3.byte, level))) \o <<>>
             = Joined(Append(v3.id, Append(v3.byte, level)))
    BY <1>2, <1>3, HeardByte
  <2>2. Len(id) = Len(v3.id) + 1
    BY <1>2, <1>3, AppendProperties
  <2>3. QED
    BY <1>2, <1>3, <2>1, <2>2
<1>5. Len(<<>>) = 0 /\ <<>> \in Seq(Byte) /\ Joined(<<>>) \o <<>> = <<>>
  BY EmptySeq, JoinedEmpty, ConcatEmptySeq
<1> HIDE DEF d
<1>6. CASE v3.id = <<>> /\ skipped
  <2>1. v3' = [d EXCEPT !.id = <<>>] /\ v3Heard' = <<>>
    BY <1>1, <1>6
  <2>2. v3' \in V3Statics
    BY <1>2, <1>5, <2>1 DEF V3Statics
  <2>3. /\ v3'.state = "id" /\ v3'.id = <<>> /\ v3'.byte = <<>>
        /\ v3'.half = d.half
    BY <1>2, <2>1 DEF V3Statics
  <2>4. V3Form'
    BY <1>2, <1>5, <2>2, <2>3, ByteSizes DEF V3Form, V3Parsing
  <2>5. V3Bits'
    BY <1>3, <1>5, <2>1, <2>3 DEF V3Bits
  <2>6. QED
    BY <2>4, <2>5 DEF V3Inv
<1>7. CASE v3.id = <<>> /\ ~ skipped
  <2>1. v3' = [d EXCEPT !.id = <<b.byte>>] /\ v3Heard' = Append(v3Heard, level)
    BY <1>1, <1>7
  <2>2. <<b.byte>> = id /\ Len(id) = 1
    BY <1>3, <1>4, <1>5, <1>7
  <2> HIDE DEF id
  <2>3. v3' = [d EXCEPT !.id = id]
    BY <2>1, <2>2
  <2>4. v3' \in V3Statics
    BY <1>2, <1>4, <2>3 DEF V3Statics
  <2>5. /\ v3'.state = "id" /\ v3'.id = id /\ v3'.byte = <<>>
        /\ v3'.half = d.half
    BY <1>2, <2>3 DEF V3Statics
  <2>6. V3Form'
    <3>1. Len(v3'.id) <= 1 /\ Len(v3'.byte) = 0
      <4>1. v3'.id = id /\ v3'.byte = <<>>
        BY <2>5
      <4>2. Len(v3'.id) = 1 /\ Len(v3'.byte) = 0
        BY <1>5, <2>2, <4>1
      <4>3. QED
        BY <4>2
    <3>2. (v3'.half % (2 * ByteBits)) \div 2 = 0
      BY <1>2, <2>5
    <3>3. QED
      BY <2>4, <2>5, <3>1, <3>2, ByteSizes DEF V3Form, V3Parsing
  <2>7. v3Heard' = Joined(v3'.id) \o v3'.byte
    BY <1>4, <2>1, <2>5
  <2>8. V3Bits'
    BY <1>3, <2>5, <2>7 DEF V3Bits
  <2>9. QED
    BY <2>6, <2>8 DEF V3Inv
<1>8. CASE v3.id # <<>>
  <2>1. PICK expected \in V3Lengths \cup {-1} :
          v3' = [d EXCEPT !.id = id, !.state = "data", !.expected = expected,
                          !.cnt = 0]
    BY <1>1, <1>8 DEF d
  <2>2. v3Heard' = Joined(id)
    BY <1>1, <1>4, <1>8
  <2>3. Len(id) = 2
    <3>1. Len(v3.id) # 0
      BY <1>3, <1>8, EmptySeq
    <3>2. Len(v3.id) = 1
      <4>1. \A l \in Nat : l <= 1 /\ l # 0 => l = 1
        OBVIOUS
      <4>2. QED
        BY <1>3, <3>1, <4>1
    <3>3. QED
      BY <1>4, <3>2
  <2>4. expected \in Int /\ expected # 0 /\ 0 \in Nat
    BY V3Sizes
  <2> HIDE DEF id
  <2>5. v3' \in V3Statics
    BY <1>2, <1>4, <2>1, <2>4 DEF V3Statics
  <2>6. /\ v3'.state = "data" /\ v3'.id = id /\ v3'.byte = <<>>
        /\ v3'.half = d.half /\ v3'.expected = expected /\ v3'.cnt = 0
    BY <1>2, <2>1 DEF V3Statics
  <2>7. V3Form'
    BY <1>2, <1>5, <2>3, <2>4, <2>5, <2>6, ByteSizes DEF V3Form, V3Parsing
  <2>8. V3DataHeard'
    <3>1. id \o <<>> = id
      BY <1>4, ConcatEmptySeq
    <3>2. v3Heard' = Joined(id \o <<>>) \o <<>>
      BY <1>4, <2>2, <3>1
    <3>3. \A k \in 1 .. Len(<<>>) : FALSE
      BY <1>5
    <3>4. V3Holds(v3Heard', v3'.id, <<>>, v3'.byte, v3'.buffer)
      BY <2>6, <3>2, <3>3 DEF V3Holds
    <3>5. Len(<<>>) = v3'.cnt
      BY <1>5, <2>6
    <3>6. QED
      BY <1>5, <3>4, <3>5 DEF V3DataHeard
  <2>9. V3Bits'
    BY <1>3, <2>6, <2>8 DEF V3Bits
  <2>10. QED
    BY <2>7, <2>9 DEF V3Inv
<1>9. QED
  BY <1>6, <1>7, <1>8

LEMMA V3DataByteStep ==
  ASSUME V3Inv, NEW level \in Bit, NEW x, V3DataByte(level, x)
  PROVE  V3Inv'
<1> DEFINE b == WithV3Bit(level, x)
           c == [b EXCEPT !.byte = <<>>]
           d == [V3Stored(b, b.byte) EXCEPT !.byte = <<>>, !.expected = @ - 1]
<1>1. /\ V3EndsBit(x) /\ v3.state = "data" /\ Len(b.byte) = ByteBits /\ V3Parsing
      /\ \/ /\ d.expected = 0
            /\ v3' = ClearOregonV3(d) /\ v3Sent' = <<d.id, d.cnt, d.buffer>>
            /\ v3Heard' = Append(v3Heard, level)
         \/ /\ d.expected # 0 /\ v3' = d
            /\ v3Heard' = Append(v3Heard, level) /\ v3Sent' = v3Sent
         \/ v3' = ClearOregonV3(d) /\ v3Sent' = v3Sent
  BY DEF V3DataByte, V3Send, V3EndsBit
<1>2. /\ c \in V3Statics /\ c.byte = <<>> /\ b \in V3Statics
      /\ b.byte = Append(v3.byte, level) /\ b.byte \in Byte
      /\ c.state = v3.state /\ c.id = v3.id /\ c.expected = v3.expected
      /\ c.cnt = v3.cnt /\ c.buffer = v3.buffer
      /\ b.cnt = v3.cnt /\ b.buffer = v3.buffer
      /\ (c.half % (2 * ByteBits)) \div 2 = 0
      /\ Len(v3.byte) + 1 = ByteBits
  BY <1>1, V3ByteDone
<1>3. /\ v3.byte \in Seq(Bit) /\ v3.id \in Seq(Byte) /\ v3.cnt \in Nat
      /\ v3.expected \in Int /\ v3.buffer \in [0 .. V3Buffer - 1 -> Byte]
      /\ v3Sent = <<>> /\ Len(v3.id) = 2
  BY <1>1, V3Reads DEF V3Inv, V3Form
<1>4. PICK data \in Seq(Byte) :
        /\ Len(data) = v3.cnt
        /\ V3Holds(v3Heard, v3.id, data, v3.byte, v3.buffer)
  BY <1>1 DEF V3Inv, V3Bits, V3DataHeard
<1> DEFINE last == Append(v3.byte, level)
           more == Append(data, last)
           stored == [k \in 0 .. V3Buffer - 1 |->
                        IF k = Len(data) THEN last ELSE v3.buffer[k]]
<1>5. /\ last \in Byte /\ more \in Seq(Byte) /\ Len(more) = v3.cnt + 1
      /\ stored \in [0 .. V3Buffer - 1 -> Byte]
      /\ V3Holds(Append(v3Heard, level), v3.id, more, <<>>, stored)
  <2>1. /\ Len(v3.byte) + 1 = ByteBits /\ v3.byte \in Seq(Bit)
        /\ v3.id \in Seq(Byte) /\ v3.buffer \in [0 .. V3Buffer - 1 -> Byte]
        /\ V3Holds(v3Heard, v3.id, data, v3.byte, v3.buffer)
    BY <1>2, <1>3, <1>4
  <2>2. V3Puts(stored, v3.buffer, Len(data), last)
    BY DEF V3Puts
  <2> HIDE DEF stored
  <2>3. last = Append(v3.byte, level)
    OBVIOUS
  <2> HIDE DEF last
  <2>4. /\ last \in Byte /\ more \in Seq(Byte) /\ Len(more) = Len(data) + 1
        /\ V3Holds(Append(v3Heard, level), v3.id, more, <<>>, stored)
    <3> DEFINE byte == v3.byte
               id == v3.id
               buffer == v3.buffer
    <3>1. /\ Len(byte) + 1 = ByteBits /\ byte \in Seq(Bit) /\ id \in Seq(Byte)
          /\ buffer \in [0 .. V3Buffer - 1 -> Byte]
          /\ V3Holds(v3Heard, id, data, byte, buffer)
          /\ last = Append(byte, level)
          /\ V3Puts(stored, buffer, Len(data), last)
          /\ more = Append(data, last)
      BY <2>1, <2>2, <2>3
    <3> HIDE DEF b, c, d, byte, id, buffer, more
    <3>2. last \in Byte /\ more \in Seq(Byte)
      BY <3>1, V3HoldsByte
    <3>3. Len(more) = Len(data) + 1
      BY <3>1, V3HoldsByte
    <3>4. V3Holds(Append(v3Heard, level), id, more, <<>>, stored)
      BY <3>1, V3HoldsByte
    <3>5. QED
      BY <3>2, <3>3, <3>4 DEF id
  <2>5. stored \in [0 .. V3Buffer - 1 -> Byte]
    BY <2>1, <2>4 DEF stored
  <2>6. QED
    BY <1>4, <2>4, <2>5
<1> HIDE DEF more, b
<1> DEFINE n == v3.cnt + 1
           e == v3.expected - 1
<1>6. d = [c EXCEPT !.buffer = stored, !.cnt = n, !.expected = e]
  <2> DEFINE s == [k \in DOMAIN b.buffer |->
                     IF k = b.cnt THEN b.byte ELSE b.buffer[k]]
  <2>1. s = stored
    BY <1>2, <1>3, <1>4
  <2>2. d = [[b EXCEPT !.buffer = s, !.cnt = b.cnt + 1]
               EXCEPT !.byte = <<>>, !.expected = @ - 1]
    BY DEF V3Stored
  <2> HIDE DEF s, stored, c, d
  <2>3. d = [b EXCEPT !.buffer = s, !.cnt = b.cnt + 1, !.byte = <<>>,
                      !.expected = b.expected - 1]
    BY <1>2, <2>2 DEF V3Statics
  <2>4. b.expected = v3.expected
    BY <1>2 DEF c, V3Statics
  <2>5. d = [b EXCEPT !.buffer = stored, !.cnt = n, !.byte = <<>>,
                      !.expected = e]
    BY <1>2, <2>1, <2>3, <2>4
  <2>6. QED
    BY <1>2, <2>5 DEF c, V3Statics
<1> HIDE DEF d, c, stored
<1>7. n \in Nat /\ e \in Int
  BY <1>3
<1> HIDE DEF n, e
<1>8. d \in V3Statics
  BY <1>2, <1>5, <1>6, <1>7 DEF V3Statics
<1>9. /\ d.buffer = stored /\ d.cnt = n /\ d.expected = e /\ d.byte = <<>>
      /\ d.id = v3.id /\ d.state = "data" /\ d.half = c.half
  BY <1>1, <1>2, <1>6 DEF V3Statics
<1>10. Len(<<>>) = 0 /\ <<>> \in Seq(Bit)
  BY EmptySeq
<1>11. V3Holds(Append(v3Heard, level), d.id, more, <<>>, d.buffer)
  BY <1>5, <1>9
<1>12. PICK whole \in Seq(Byte) : whole = more
  BY <1>5
<1>13. V3Holds(Append(v3Heard, level), d.id, whole, <<>>, d.buffer)
       /\ Len(whole) = n
  BY <1>5, <1>11, <1>12 DEF n
<1>14. CASE /\ v3' = ClearOregonV3(d) /\ v3Sent' = <<d.id, d.cnt, d.buffer>>
            /\ v3Heard' = Append(v3Heard, level)
  <2>1. v3Sent'[1] = v3.id /\ v3Sent'[3] = stored /\ v3Sent'[1] = d.id
        /\ v3Sent'[3] = d.buffer
    BY <1>9, <1>14
  <2>2. V3Holds(v3Heard', v3Sent'[1], whole, <<>>, v3Sent'[3])
    BY <1>13, <1>14, <2>1
  <2>3. /\ Len(<<>>) < ByteBits /\ v3Sent'[1] \in Seq(Byte) /\ Len(v3Sent'[1]) = 2
        /\ v3Sent'[3] \in [0 .. V3Buffer - 1 -> Byte]
    BY <1>3, <1>5, <1>10, <2>1, ByteSizes
  <2>4. V3Completed'
    BY <1>10, <2>2, <2>3 DEF V3Completed
  <2>5. QED
    BY <1>8, <1>14, <2>4, V3Cleared
<1>15. CASE /\ d.expected # 0 /\ v3' = d
            /\ v3Heard' = Append(v3Heard, level) /\ v3Sent' = v3Sent
  <2>1. V3Form'
    BY <1>2, <1>3, <1>8, <1>9, <1>10, <1>15, ByteSizes DEF V3Form, V3Parsing
  <2>2. V3Holds(v3Heard', v3'.id, whole, v3'.byte, v3'.buffer) /\ Len(whole) = v3'.cnt
    BY <1>9, <1>13, <1>15
  <2>3. V3DataHeard'
    BY <2>2 DEF V3DataHeard
  <2>4. V3Bits'
    BY <1>3, <1>9, <1>15, <2>3 DEF V3Bits
  <2>5. QED
    BY <2>1, <2>4 DEF V3Inv
<1>16. CASE v3' = ClearOregonV3(d) /\ v3Sent' = v3Sent
  BY <1>3, <1>8, <1>16, V3Cleared
<1>17. QED
  BY <1>1, <1>14, <1>15, <1>16

LEMMA V3SilenceStep ==
  ASSUME V3Inv, NEW level, NEW x, V3SilenceEnds(level, x)
  PROVE  V3Inv'
<1> DEFINE stored == [k \in DOMAIN v3.buffer |->
                        IF k = v3.cnt THEN Zero ELSE v3.buffer[k]]
           n == v3.cnt + 1
           d == [v3 EXCEPT !.buffer = stored, !.cnt = n, !.expected = 0]
<1>1. v3.state = "data" /\ V3Parsing
  BY DEF V3SilenceEnds, V3EndsData, V3Parsing
<1>2. /\ v3 \in V3Statics /\ v3.byte \in Seq(Bit) /\ Len(v3.byte) < ByteBits
      /\ v3.id \in Seq(Byte) /\ v3.cnt \in Nat /\ Len(v3.id) = 2
      /\ v3.buffer \in [0 .. V3Buffer - 1 -> Byte]
  BY <1>1, V3Reads DEF V3Inv, V3Form
<1>3. /\ v3' = ClearOregonV3(d) /\ v3Sent' = <<d.id, d.cnt, d.buffer>>
      /\ v3Heard' = v3Heard
  <2>1. [V3Stored(v3, Zero) EXCEPT !.expected = 0] = d
    BY <1>2 DEF V3Stored, V3Statics
  <2> HIDE DEF d
  <2>2. QED
    BY <2>1 DEF V3SilenceEnds, V3Send
<1>4. stored \in [0 .. V3Buffer - 1 -> Byte] /\ n \in Nat
  <2>1. Zero \in Byte /\ DOMAIN v3.buffer = 0 .. V3Buffer - 1
    BY <1>2, ByteIsSeq
  <2>2. stored \in [0 .. V3Buffer - 1 -> Byte]
    BY <1>2, <2>1
  <2>3. QED
    BY <1>2, <2>2
<1> HIDE DEF n
<1>5. PICK data \in Seq(Byte) :
        /\ Len(data) = v3.cnt
        /\ V3Holds(v3Heard, v3.id, data, v3.byte, v3.buffer)
  BY <1>1 DEF V3Inv, V3Bits, V3DataHeard
<1>6. V3Holds(v3Heard, v3.id, data, v3.byte, stored)
  <2>1. ASSUME NEW k \in 1 .. Len(data), k <= V3Buffer
        PROVE  stored[k - 1] = data[k]
    <3>1. k - 1 # v3.cnt /\ k - 1 \in 0 .. V3Buffer - 1
      BY <1>2, <1>5, <2>1, V3Sizes
    <3>2. v3.buffer[k - 1] = data[k]
      BY <1>5, <2>1 DEF V3Holds
    <3>3. QED
      BY <1>2, <3>1, <3>2
  <2> HIDE DEF stored
  <2>2. QED
    BY <1>5, <2>1 DEF V3Holds
<1> HIDE DEF stored
<1>7. d \in V3Statics /\ d.buffer = stored /\ d.id = v3.id
  <2>1. d \in V3Statics
    <3>1. v3 \in V3Statics /\ 0 \in Int
      BY <1>2
    <3>2. QED
      BY <3>1, <1>4 DEF V3Statics
  <2>2. d.buffer = stored /\ d.id = v3.id
    BY <1>2 DEF V3Statics
  <2>3. QED
    BY <2>1, <2>2
<1> HIDE DEF d
<1>8. PICK byte \in Seq(Bit) : byte = v3.byte
  BY <1>2
<1>9. v3Sent'[1] = v3.id /\ v3Sent'[3] = stored
  BY <1>3, <1>7
<1>10. V3Holds(v3Heard', v3Sent'[1], data, byte, v3Sent'[3]) /\ Len(byte) < ByteBits
  BY <1>2, <1>3, <1>6, <1>8, <1>9
<1>11. V3Completed'
  BY <1>2, <1>4, <1>9, <1>10 DEF V3Completed
<1>12. QED
  BY <1>3, <1>7, <1>11, V3Cleared

LEMMA V3Step ==
  ASSUME V3Inv, V3Next
  PROVE  V3Inv'
<1>1. PICK level, x :
        /\ level \in Bit
        /\ \/ V3PreamblePulse(x) \/ V3SyncPulse(x)
           \/ V3HalfBit(x) \/ V3InByte(level, x)
           \/ V3IdByte(level, x) \/ V3DataByte(level, x)
           \/ V3SilenceEnds(level, x) \/ V3Drop(level, x)
  BY DEF V3Next, streamOregonV3
<1>2. CASE V3PreamblePulse(x)
  BY <1>1, <1>2, V3PreambleStep
<1>3. CASE V3SyncPulse(x)
  BY <1>1, <1>3, V3SyncStep
<1>4. CASE V3HalfBit(x)
  BY <1>1, <1>4, V3HalfBitStep
<1>5. CASE V3InByte(level, x)
  BY <1>1, <1>5, V3InByteStep
<1>6. CASE V3IdByte(level, x)
  BY <1>1, <1>6, V3IdByteStep
<1>7. CASE V3DataByte(level, x)
  BY <1>1, <1>7, V3DataByteStep
<1>8. CASE V3SilenceEnds(level, x)
  BY <1>1, <1>8, V3SilenceStep
<1>9. CASE V3Drop(level, x)
  BY <1>1, <1>9, V3DropStep
<1>10. QED
  BY <1>1, <1>2, <1>3, <1>4, <1>5, <1>6, <1>7, <1>8, <1>9

LEMMA V3Kept ==
  ASSUME V3Inv, UNCHANGED v3Vars
  PROVE  V3Inv'
<1>1. v3' = v3 /\ v3Heard' = v3Heard /\ v3Sent' = v3Sent
  BY DEF v3Vars
<1>2. QED
  BY <1>1 DEF V3Inv, V3Form, V3Bits, V3DataHeard, V3Completed, V3Parsing

LEMMA V3Always == StreamSpec => []V3Inv
<1>1. StreamInit => V3Inv
  BY V3Start DEF StreamInit
<1>2. V3Inv /\ [StreamNext]_streamVars => V3Inv'
  <2> SUFFICES ASSUME V3Inv, [StreamNext]_streamVars PROVE V3Inv'
    OBVIOUS
  <2>1. V3Next \/ UNCHANGED v3Vars
    BY DEF StreamNext, streamVars
  <2>2. QED
    BY <2>1, V3Step, V3Kept
<1>3. QED
  BY <1>1, <1>2, PTL DEF StreamSpec

\* The bytes of a message: an id of two, and data.
LEMMA V3Beginning ==
  ASSUME NEW id \in Seq(Byte), Len(id) = 2, NEW data \in Seq(Byte)
  PROVE  /\ id \o data \in Seq(Byte) /\ Len(id \o data) = 2 + Len(data)
         /\ \A k \in 1 .. 2 + Len(data) :
              (id \o data)[k] = IF k <= 2 THEN id[k] ELSE data[k - 2]
<1> DEFINE bytes == id \o data
           n == Len(data)
           two == Len(id)
<1>1. bytes \in Seq(Byte) /\ Len(bytes) = two + n
  BY ConcatProperties
<1>2. \A k \in 1 .. two + n : bytes[k] = IF k <= two THEN id[k] ELSE data[k - two]
  BY ConcatProperties
<1>3. two = 2
  OBVIOUS
<1> HIDE DEF bytes, n, two
<1>4. QED
  BY <1>1, <1>2, <1>3 DEF bytes, n

\* What bufferV3 holds of a message, and how many bytes and bits were heard.
LEMMA V3Reading ==
  ASSUME NEW heard, NEW id \in Seq(Byte), Len(id) = 2, NEW data \in Seq(Byte),
         NEW byte \in Seq(Bit), Len(byte) < ByteBits,
         NEW buffer \in [0 .. V3Buffer - 1 -> Byte],
         V3Holds(heard, id, data, byte, buffer)
  PROVE  /\ LET s == Joined(id \o V3Bytes(buffer, Len(data)))
            IN  Len(s) <= Len(heard) /\ s = SubSeq(heard, 1, Len(s))
         /\ Len(heard) = (2 + Len(data)) * ByteBits + Len(byte)
         /\ byte = SubSeq(heard, (2 + Len(data)) * ByteBits + 1, Len(heard))
         /\ Len(heard) \div ByteBits - 2 = Len(data)
<1> DEFINE n == Len(data)
           c == IF n <= V3Buffer THEN n ELSE V3Buffer
           first == FirstBytes(buffer, c)
           few == id \o first
           bytes == id \o data
<1>1. n \in Nat /\ c \in Nat /\ c <= n /\ c <= V3Buffer /\ V3Buffer \in Nat
  BY LenProperties, V3Sizes
<1>2. /\ heard = Joined(bytes) \o byte
      /\ \A k \in 1 .. n : k <= V3Buffer => buffer[k - 1] = data[k]
  BY DEF V3Holds
<1>3. first = FirstBytes(buffer, c) /\ V3Bytes(buffer, n) = first
  BY DEF V3Bytes
<1>4. bytes \in Seq(Byte) /\ Len(bytes) = 2 + n
      /\ \A k \in 1 .. 2 + n : bytes[k] = IF k <= 2 THEN id[k] ELSE data[k - 2]
  BY V3Beginning
<1> HIDE DEF n, c, bytes
<1>5. first \in Seq(Byte) /\ Len(first) = c /\ \A k \in 1 .. c : first[k] = data[k]
  <2>1. ASSUME NEW k \in 1 .. c PROVE buffer[k - 1] \in Byte /\ buffer[k - 1] = data[k]
    <3>1. k \in 1 .. n /\ k <= V3Buffer /\ k - 1 \in 0 .. V3Buffer - 1
      BY <1>1
    <3>2. QED
      BY <1>2, <3>1
  <2>2. first \in [1 .. c -> Byte]
    BY <2>1 DEF FirstBytes
  <2>3. first \in Seq(Byte) /\ Len(first) = c
    BY <1>1, <2>2
  <2>4. QED
    BY <2>1, <2>3 DEF FirstBytes
<1> HIDE DEF first
<1>6. few \in Seq(Byte) /\ Len(few) = 2 + c
      /\ \A k \in 1 .. 2 + c : few[k] = IF k <= 2 THEN id[k] ELSE first[k - 2]
  BY <1>5, V3Beginning
<1> HIDE DEF few
<1>7. Len(few) <= Len(bytes) /\ \A k \in 1 .. Len(few) : few[k] = bytes[k]
  <2>1. ASSUME NEW k \in 1 .. 2 + c PROVE few[k] = bytes[k]
    <3>1. k \in 1 .. 2 + n /\ (~ (k <= 2) => k - 2 \in 1 .. c)
      BY <1>1
    <3>2. QED
      BY <1>4, <1>5, <1>6, <3>1
  <2>2. QED
    BY <1>1, <1>4, <1>6, <2>1
<1>8. /\ Len(Joined(few)) <= Len(heard)
      /\ Joined(few) = SubSeq(heard, 1, Len(Joined(few)))
  BY <1>2, <1>4, <1>6, <1>7, JoinedPrefix
<1> DEFINE s == Joined(bytes)
<1>9. s \in Seq(Bit) /\ Len(s) = (2 + n) * ByteBits
  BY <1>4, JoinedType
<1>10. heard = s \o byte
  BY <1>2
<1> HIDE DEF s
<1>11. /\ Len(heard) = (2 + n) * ByteBits + Len(byte)
       /\ SubSeq(heard, (2 + n) * ByteBits + 1, Len(heard)) = byte
  BY <1>9, <1>10, Behind
<1>12. Len(heard) \div ByteBits = 2 + n
  <2>1. /\ ByteBits \in Nat \ {0} /\ 2 + n \in Int
        /\ Len(byte) \in 0 .. ByteBits - 1
    BY <1>1, ByteSizes, LenProperties
  <2>2. Len(heard) = ByteBits * (2 + n) + Len(byte)
    BY <1>11, <2>1, Times
  <2>3. QED
    BY <2>1, <2>2, DivModUnique
<1>13. Len(heard) \div ByteBits - 2 = n
  BY <1>1, <1>12
<1>14. Joined(id \o V3Bytes(buffer, n)) = Joined(few)
  BY <1>3 DEF few
<1>15. QED
  BY <1>8, <1>11, <1>13, <1>14 DEF n

\* The static variables of oregonv3.c have their types: there is a sync to wait
\* for in the state sync, and a byte is stored before there are more bits of it.
THEOREM V3Types == StreamSpec => []V3TypeOK
<1>1. V3Inv => V3TypeOK
  BY DEF V3Inv, V3Form, V3Statics, V3TypeOK
<1>2. QED
  BY <1>1, V3Always, PTL

\* streamOregonV3 sends and assembles exactly the bits it heard since the sync,
\* as many bytes as bufferV3 has room for, whatever its size and the length of
\* the data; and the half cells counted tell the place in a byte
\* (oregonv3.c:57-85, 195-209).
THEOREM OregonV3Heard == StreamSpec => []V3Hears
<1>1. V3Inv => V3Hears
  <2> SUFFICES ASSUME V3Inv PROVE V3Hears
    OBVIOUS
  <2>1. v3.state = "id" => v3Heard = Joined(v3.id) \o v3.byte
    BY DEF V3Inv, V3Bits
  <2>2. V3Parsing => (v3.half % (2 * ByteBits)) \div 2 = Len(v3.byte)
    BY DEF V3Inv, V3Form
  <2> DEFINE Begins(s, t) == Len(s) <= Len(t) /\ s = SubSeq(t, 1, Len(s))
             bytes == 2 + v3.cnt
             Data ==
               /\ Begins(Joined(v3.id \o V3Bytes(v3.buffer, v3.cnt)), v3Heard)
               /\ Len(v3Heard) = bytes * ByteBits + Len(v3.byte)
               /\ v3.byte = SubSeq(v3Heard, bytes * ByteBits + 1, Len(v3Heard))
             Sent ==
               Begins(Joined(v3Sent[1] \o
                               V3Bytes(v3Sent[3], Len(v3Heard) \div ByteBits - 2)),
                      v3Heard)
  <2>3. ASSUME v3.state = "data" PROVE Data
    <3>1. PICK data \in Seq(Byte) :
            /\ Len(data) = v3.cnt
            /\ V3Holds(v3Heard, v3.id, data, v3.byte, v3.buffer)
      BY <2>3 DEF V3Inv, V3Bits, V3DataHeard
    <3>2. /\ v3.id \in Seq(Byte) /\ Len(v3.id) = 2 /\ v3.byte \in Seq(Bit)
          /\ Len(v3.byte) < ByteBits /\ v3.buffer \in [0 .. V3Buffer - 1 -> Byte]
      BY <2>3 DEF V3Inv, V3Form, V3Statics
    <3>3. LET s == Joined(v3.id \o V3Bytes(v3.buffer, Len(data)))
          IN  Len(s) <= Len(v3Heard) /\ s = SubSeq(v3Heard, 1, Len(s))
      BY <3>1, <3>2, V3Reading, SMTT(30)
    <3>4. Len(v3Heard) = (2 + Len(data)) * ByteBits + Len(v3.byte)
      BY <3>1, <3>2, V3Reading, ZenonT(60)
    <3>5. v3.byte = SubSeq(v3Heard, (2 + Len(data)) * ByteBits + 1, Len(v3Heard))
      BY <3>1, <3>2, V3Reading
    <3>6. QED
      BY <3>1, <3>3, <3>4, <3>5
  <2>4. ASSUME v3Sent # <<>> PROVE Sent
    <3>1. PICK data \in Seq(Byte), byte \in Seq(Bit) :
            /\ Len(byte) < ByteBits
            /\ v3Sent[1] \in Seq(Byte) /\ Len(v3Sent[1]) = 2
            /\ v3Sent[3] \in [0 .. V3Buffer - 1 -> Byte]
            /\ V3Holds(v3Heard, v3Sent[1], data, byte, v3Sent[3])
      BY <2>4 DEF V3Inv, V3Bits, V3Completed
    <3>2. LET s == Joined(v3Sent[1] \o V3Bytes(v3Sent[3], Len(data)))
          IN  Len(s) <= Len(v3Heard) /\ s = SubSeq(v3Heard, 1, Len(s))
      BY <3>1, V3Reading, ZenonT(60)
    <3>3. Len(v3Heard) \div ByteBits - 2 = Len(data)
      BY <3>1, V3Reading
    <3>4. QED
      BY <3>2, <3>3
  <2>5. V3Hears <=> /\ v3.state = "id" => v3Heard = Joined(v3.id) \o v3.byte
                    /\ v3.state = "data" => Data
                    /\ v3Sent # <<>> => Sent
                    /\ V3Parsing =>
                         (v3.half % (2 * ByteBits)) \div 2 = Len(v3.byte)
    BY DEF V3Hears
  <2>6. QED
    BY <2>1, <2>2, <2>3, <2>4, <2>5
<1>2. QED
  BY <1>1, V3Always, PTL
=============================================================================
