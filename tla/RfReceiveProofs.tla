-------------------------- MODULE RfReceiveProofs --------------------------
(***************************************************************************)
(* Proofs about RfReceive and RfFilter, for filters, rings, bytes and      *)
(* counters of all sizes.  The task scans only what was stored, marks the  *)
(* ends of a burst, skips short bursts, and tells the stream decoders the  *)
(* runs; and at the end, which samples pass the filter, and that the ring  *)
(* keeps their order.                                                      *)
(***************************************************************************)
EXTENDS RfReceive, RfFilter, StreamBitsProofs, SequenceTheorems

ByteCounts == 0 .. CountMod - 1
RunCounts == 0 .. 2 * CountMod - 1

TaskTypes ==
  /\ pc \in {"test", "testOther", "scan", "found", "parse", "reset",
            "resetOther"}
  /\ IF pc \in {"testOther", "resetOther"} THEN seen \in Halves \X Int
                                           ELSE seen = <<>>
  /\ scan \in Places
  /\ count0 \in ByteCounts /\ count1 \in ByteCounts
  /\ startSilence \in Places \cup {<<-1, 0>>}
  /\ stopSilence[1] \in Slots \cup {-1, -13}
  /\ current \in Bit \X RunCounts
  /\ since \in 0 .. Ring

TypeInv == RingTypeOK /\ TaskTypes

ParsedInv == parsed \in BOOLEAN

\* The bytes between the task and the interrupt: the slots from scan[1] up to
\* dataP.
SlotsAhead(slot) == (slot - scan[1]) % DataBytes

\* What the loop test relies on, and what a reset that nothing interrupted does.
TestInv ==
  /\ pc = "testOther" /\ seen[2] # Half(seen[1], scan[1]) => dataP # scan[1]
  /\ pc = "scan" => dataP # scan[1]
  /\ pc \in {"reset", "resetOther"} => scan[1] = 0
  /\ pc = "resetOther" /\ ~ torn => Half(seen[1], dataP) = 0

\* Unless torn, the slots ahead of the task are filled.
WindowInv ==
  pc \notin {"reset", "resetOther"} /\ ~ torn =>
    \A slot \in Slots : SlotsAhead(slot) < Lag => slot \in fresh

\* The counters have the run being scanned.
CountInv ==
  /\ count0 = IF current[1] = 0 THEN current[2] % CountMod ELSE 0
  /\ count1 = IF current[1] = 1 THEN current[2] % CountMod ELSE 0
  /\ pc \in {"found", "parse"} => count0 = RequiredSilence

\* Only a silence that is long is parsed.
LongInv ==
  /\ parsed => current[1] = 0 /\ current[2] >= RequiredSilence
  /\ pc = "parse" => ~ parsed

\* The start of a silence: up to a turn of its counter, where the run began.
GapInv ==
  /\ current[1] = 0 /\ current[2] \in 1 .. CountMod - 1 =>
       startSilence = burstEnd
  /\ current = <<0, 0>> =>
       scan = <<0, 1>> /\ burstEnd = <<0, 1>>

\* A place as the number of the sample in the ring.
Pos(place) == place[1] * ByteBits + (place[2] - 1)

\* The start of data: the burst is marked until the scan has gone around to it.
MarkInv ==
  GapSeen /\ ~ parsed =>
    /\ since \in 1 .. Ring
    /\ since = Ring => stopSilence[1] = -1
    /\ since < Ring => /\ stopSilence = burst
                       /\ burst \in Places
                       /\ Pos(scan) = (Pos(burst) + since) % Ring

\* How far the end of a burst is from its start.
BurstInv ==
  /\ GapSeen /\ ~ parsed /\ since < Ring /\ current[1] = 0
       /\ current[2] \in 1 .. CountMod - 1 =>
       /\ burstEnd \in Places
       /\ since > current[2]
       /\ Pos(burstEnd) = (Pos(burst) + (since - current[2])) % Ring
  /\ current = <<0, 0>> => ~ GapSeen
  /\ pc = "parse" =>
       calculateDistance(stopSilence[1], startSilence[1]) \notin 0 .. MinDist - 1

-----------------------------------------------------------------------------
(* Places in the ring.                                                     *)

LEMMA RingSizes == ByteBits \in Nat \ {0} /\ DataBytes \in Nat \ {0, 1}
  BY StreamBitsAssumption, RingAssumption

LEMMA Sizes ==
  /\ ByteBits \in Nat \ {0} /\ DataBytes \in Nat \ {0, 1}
  /\ CountMod \in Nat \ {0, 1} /\ LoMod \in Nat \ {0}
  /\ RequiredSilence \in 1 .. CountMod - 1 /\ MinDist \in Nat
  /\ MaxLag \in 1 .. DataBytes - 1
  BY StreamBitsAssumption, RingAssumption, ReceiveAssumption

LEMMA RingProduct ==
  ASSUME NEW a \in Int, NEW b \in Int, NEW k \in Nat, a <= b
  PROVE  a * k \in Int /\ a * k <= b * k
  OBVIOUS

LEMMA RingSize == Ring \in Nat \ {0, 1} /\ Ring >= ByteBits
<1>1. 2 * ByteBits <= DataBytes * ByteBits
  BY RingSizes, RingProduct
<1>2. QED
  BY <1>1, RingSizes DEF Ring

LEMMA PosType ==
  ASSUME NEW place \in Places
  PROVE  Pos(place) \in 0 .. Ring - 1
<1> DEFINE s == place[1]
           b == place[2]
<1>1. s \in 0 .. DataBytes - 1 /\ b \in 1 .. ByteBits
  BY DEF Places, Slots
<1> HIDE DEF s, b
<1>2. 0 * ByteBits <= s * ByteBits /\ s * ByteBits <= (DataBytes - 1) * ByteBits
  BY <1>1, Sizes, RingProduct
<1>3. s * ByteBits + (b - 1) \in 0 .. (DataBytes * ByteBits) - 1
  BY <1>1, <1>2, Sizes
<1>4. QED
  BY <1>3 DEF s, b, Pos, Ring

\* Two places are not the same sample.
LEMMA PosInjective ==
  ASSUME NEW p \in Places, NEW q \in Places, Pos(p) = Pos(q)
  PROVE  p = q
<1>1. \A r \in Places :
        r[1] = Pos(r) \div ByteBits /\ r[2] = (Pos(r) % ByteBits) + 1
  <2>1. TAKE r \in Places
  <2> DEFINE s == r[1]
             b == r[2]
  <2>2. s \in Int /\ b - 1 \in 0 .. ByteBits - 1 /\ b \in Int
    BY Sizes DEF Places, Slots
  <2> HIDE DEF s, b
  <2>3. (ByteBits * s + (b - 1)) \div ByteBits = s
        /\ (ByteBits * s + (b - 1)) % ByteBits = b - 1
    BY <2>2, Sizes, DivModUnique
  <2>4. s * ByteBits + (b - 1) = ByteBits * s + (b - 1)
    BY <2>2, Sizes
  <2>5. QED
    BY <2>2, <2>3, <2>4 DEF s, b, Pos
<1>2. p[1] = q[1] /\ p[2] = q[2]
  BY <1>1
<1>3. QED
  BY <1>2 DEF Places

\* The next place is one sample on, around the ring.
LEMMA PosAdvanced ==
  ASSUME NEW place \in Places
  PROVE  /\ Advanced(place) \in Places
         /\ Pos(Advanced(place)) = (Pos(place) + 1) % Ring
         /\ Advanced(place) # place
<1> DEFINE s == place[1]
           b == place[2]
<1>1. s \in 0 .. DataBytes - 1 /\ b \in 1 .. ByteBits
  BY DEF Places, Slots
<1>2. Pos(place) \in 0 .. Ring - 1 /\ Pos(place) = s * ByteBits + (b - 1)
  BY PosType DEF Pos
<1> HIDE DEF s, b
<1>3. CASE b < ByteBits
  <2>1. Advanced(place) = <<s, b + 1>>
    BY <1>3 DEF Advanced, s, b
  <2>2. b + 1 \in 1 .. ByteBits /\ s \in Slots
    BY <1>1, <1>3, Sizes DEF Slots
  <2>3. Advanced(place) \in Places
    BY <2>1, <2>2 DEF Places
  <2>4. Pos(Advanced(place)) = Pos(place) + 1
    <3>1. Pos(Advanced(place)) = s * ByteBits + ((b + 1) - 1)
      BY <2>1 DEF Pos
    <3>2. QED
      BY <3>1, <1>1, <1>2, Sizes
  <2>5. Pos(place) + 1 \in 0 .. Ring - 1
    BY <2>3, <2>4, PosType
  <2>6. (Pos(place) + 1) % Ring = Pos(place) + 1
    BY <2>5, RingSize, NearMod
  <2>7. QED
    BY <2>3, <2>4, <2>6, <1>2
<1>4. CASE b = ByteBits
  <2>1. Advanced(place) = <<(s + 1) % DataBytes, 1>>
    BY <1>4, <1>1, Sizes DEF Advanced, s, b
  <2>2. CASE s = DataBytes - 1
    <3>1. (s + 1) % DataBytes = 0
      BY <2>2, Sizes, NearMod
    <3>2. Advanced(place) = <<0, 1>>
      BY <2>1, <3>1
    <3>3. Advanced(place) \in Places
      BY <3>2, Sizes DEF Places, Slots
    <3>4. Pos(Advanced(place)) = 0
      <4>1. Pos(Advanced(place)) = 0 * ByteBits + (1 - 1)
        BY <3>2 DEF Pos
      <4>2. QED
        BY <4>1, Sizes
    <3>5. Pos(place) + 1 = Ring
      <4>1. Pos(place) = (DataBytes - 1) * ByteBits + (ByteBits - 1)
        BY <2>2, <1>2, <1>4
      <4>2. QED
        BY <4>1, Sizes DEF Ring
    <3>6. Ring % Ring = 0
      BY RingSize, NearMod
    <3>7. QED
      BY <3>3, <3>4, <3>5, <3>6, RingSize, <1>2
  <2>3. CASE s # DataBytes - 1
    <3>1. (s + 1) % DataBytes = s + 1 /\ s + 1 \in Slots
      <4>1. s + 1 \in 0 .. DataBytes - 1
        BY <2>3, <1>1, Sizes
      <4>2. QED
        BY <4>1, Sizes, NearMod DEF Slots
    <3>2. Advanced(place) = <<s + 1, 1>>
      BY <2>1, <3>1
    <3>3. Advanced(place) \in Places
      BY <3>1, <3>2, Sizes DEF Places
    <3>4. Pos(Advanced(place)) = Pos(place) + 1
      <4>1. Pos(Advanced(place)) = (s + 1) * ByteBits + (1 - 1)
        BY <3>2 DEF Pos
      <4>2. QED
        BY <4>1, <1>1, <1>2, <1>4, Sizes
    <3>5. Pos(place) + 1 \in 0 .. Ring - 1
      BY <3>3, <3>4, PosType
    <3>6. (Pos(place) + 1) % Ring = Pos(place) + 1
      BY <3>5, RingSize, NearMod
    <3>7. QED
      BY <3>3, <3>4, <3>6, <1>2
  <2>4. QED
    BY <2>2, <2>3
<1>5. QED
  BY <1>1, <1>3, <1>4, Sizes

-----------------------------------------------------------------------------
(* The types.                                                              *)

LEMMA PackTypes ==
  ASSUME RingTypeOK, NEW sample \in Bit, Pack(sample)
  PROVE  /\ RingTypeOK'
         /\ buffer' # <<>> => dataP' = dataP
         /\ buffer' = <<>> => dataP' = (dataP + 1) % DataBytes
<1> DEFINE packed == Append(buffer, sample)
<1>1. /\ packed \in Seq(Bit) /\ Len(packed) = Len(buffer) + 1
      /\ Len(packed) \in 1 .. ByteBits /\ packed # <<>>
  <2>1. buffer \in Seq(Bit) /\ Len(buffer) \in Nat /\ Len(buffer) < ByteBits
    BY DEF RingTypeOK
  <2>2. packed \in Seq(Bit) /\ Len(packed) = Len(buffer) + 1 /\ packed # <<>>
    BY <2>1
  <2>3. QED
    BY <2>1, <2>2, RingSizes
<1>2. packed \in [1 .. Len(packed) -> Bit]
  BY <1>1, LenProperties
<1> HIDE DEF packed
<1>3. CASE Len(packed) = ByteBits
  <2>1. /\ buffer' = <<>> /\ data' = [data EXCEPT ![dataP] = packed]
        /\ dataP' = (dataP + 1) % DataBytes
    BY <1>3 DEF Pack, packed
  <2>2. dataP' \in Slots
    <3>1. dataP + 1 \in Int
      BY DEF RingTypeOK, Slots
    <3>2. QED
      BY <2>1, <3>1, RingSizes, DivMod DEF Slots
  <2>3. data' \in [Slots -> [1 .. ByteBits -> Bit]]
    BY <2>1, <1>2, <1>3 DEF RingTypeOK
  <2>4. buffer' \in Seq(Bit) /\ Len(buffer') < ByteBits
    BY <2>1, RingSizes
  <2>5. QED
    BY <2>1, <2>2, <2>3, <2>4 DEF RingTypeOK
<1>4. CASE Len(packed) # ByteBits
  <2>1. buffer' = packed /\ data' = data /\ dataP' = dataP
    BY <1>4 DEF Pack, packed
  <2>2. QED
    BY <2>1, <1>1, <1>4, RingSizes DEF RingTypeOK
<1>5. QED
  BY <1>3, <1>4

\* A byte of dataP, and dataP with a byte cleared.
LEMMA HalfTypes ==
  ASSUME NEW word \in Slots, NEW h \in Halves
  PROVE  /\ Half(h, word) \in Int
         /\ Cleared(h, word) \in Slots
         /\ Half(h, Cleared(h, word)) = 0
         /\ Half(Other(h), word) = 0 => Cleared(h, word) = 0
<1> DEFINE q == word \div LoMod
           r == word % LoMod
<1>1. /\ word = LoMod * q + r /\ r \in 0 .. LoMod - 1 /\ q \in Int
      /\ word \in 0 .. DataBytes - 1
  BY Sizes, DivMod DEF Slots
<1> HIDE DEF q, r
<1>2. q >= 0
  <2>1. CASE q < 0
    <3>1. q * LoMod <= (-1) * LoMod
      BY <2>1, <1>1, Sizes, RingProduct
    <3>2. QED
      BY <3>1, <1>1, Sizes
  <2>2. QED
    BY <2>1, <1>1
<1>3. 0 <= LoMod * q
  <2>1. 0 * LoMod <= q * LoMod
    BY <1>1, <1>2, Sizes, RingProduct
  <2>2. QED
    BY <2>1, <1>1, Sizes
<1>4. CASE h = "low"
  <2>1. Cleared(h, word) = LoMod * q + 0 /\ Half(h, word) = r
        /\ Half(Other(h), word) = q
    BY <1>4, <1>1, Sizes DEF Cleared, Half, Other, q, r
  <2>2. Half(h, Cleared(h, word)) = 0
    <3>1. 0 \in 0 .. LoMod - 1
      BY Sizes
    <3>2. (LoMod * q + 0) % LoMod = 0
      BY <3>1, <1>1, Sizes, DivModUnique
    <3>3. QED
      BY <1>4, <2>1, <3>2 DEF Half
  <2>3. QED
    BY <2>1, <2>2, <1>1, <1>3, Sizes DEF Slots
<1>5. CASE h = "high"
  <2>1. Cleared(h, word) = word - q * LoMod /\ Half(h, word) = q
        /\ Half(Other(h), word) = r
    BY <1>5 DEF Cleared, Half, Other, q, r
  <2>2. Cleared(h, word) = LoMod * 0 + r
    BY <2>1, <1>1, Sizes
  <2>3. Half(h, Cleared(h, word)) = 0
    BY <1>5, <2>2, <1>1, Sizes, DivModUnique DEF Half
  <2>4. QED
    BY <2>1, <2>2, <2>3, <1>1, <1>3, Sizes DEF Slots
<1>6. QED
  BY <1>4, <1>5 DEF Halves

LEMMA LongerRunType ==
  ASSUME NEW n \in RunCounts
  PROVE  LongerRun(n) \in 1 .. 2 * CountMod - 1
  BY Sizes DEF LongerRun, RunCounts

LEMMA TypeInit == ReceiveInit => TypeInv
<1> SUFFICES ASSUME ReceiveInit PROVE TypeInv
  OBVIOUS
<1>1. RingTypeOK
  BY Sizes DEF ReceiveInit, RingInit, RingTypeOK, Slots, Bit
<1>2. TaskTypes
  BY Sizes, RingSize
     DEF ReceiveInit, RingInit, TaskTypes, Places, Slots, ByteCounts, Bit, RunCounts
<1>3. QED
  BY <1>1, <1>2 DEF TypeInv

LEMMA TypeScan ==
  ASSUME TypeInv, ScanSample
  PROVE  TypeInv'
<1>1. RingTypeOK'
  BY DEF TypeInv, ScanSample, ringVars, RingTypeOK
<1>2. getBit(scan) \in Bit
  BY DEF TypeInv, TaskTypes, RingTypeOK, Places, getBit
<1>3. scan' \in Places
  BY PosAdvanced DEF ScanSample, TypeInv, TaskTypes
<1>4. pc' \in {"found", "test"} /\ seen' = <<>>
  BY DEF ScanSample, TypeInv, TaskTypes
<1>5. count0' \in ByteCounts /\ count1' \in ByteCounts
      /\ startSilence' \in Places \cup {<<-1, 0>>}
  <2>1. count0 + 1 \in Int /\ count1 + 1 \in Int /\ 0 \in ByteCounts
    BY Sizes DEF TypeInv, TaskTypes, ByteCounts
  <2>2. (count0 + 1) % CountMod \in ByteCounts /\ (count1 + 1) % CountMod \in ByteCounts
    BY <2>1, Sizes, DivMod DEF ByteCounts
  <2>3. QED
    BY <2>1, <2>2 DEF ScanSample, HighSample, LowSample, TypeInv, TaskTypes
<1>6. stopSilence'[1] \in Slots \cup {-1, -13}
  BY DEF ScanSample, Marked, TypeInv, TaskTypes, Places
<1>7. current' \in Bit \X RunCounts
  <2>1. current[2] \in RunCounts
    BY DEF TypeInv, TaskTypes
  <2>2. LongerRun(current[2]) \in RunCounts /\ 1 \in RunCounts
    BY <2>1, LongerRunType, Sizes DEF RunCounts
  <2>3. QED
    BY <1>2, <2>2 DEF ScanSample, RecordScan
<1>8. since' \in 0 .. Ring
  BY RingSize DEF ScanSample, RecordScan, TypeInv, TaskTypes
<1>9. QED
  BY <1>1, <1>3, <1>4, <1>5, <1>6, <1>7, <1>8 DEF TypeInv, TaskTypes

LEMMA TypeNext ==
  ASSUME TypeInv, [ReceiveNext]_receiveVars
  PROVE  TypeInv'
<1> USE DEF taskVars, scanHistory, ringVars
<1>1. ASSUME NEW sample \in Bit, Sample(sample) PROVE TypeInv'
  <2>1. RingTypeOK'
    BY <1>1, PackTypes DEF Sample, TypeInv
  <2>2. QED
    BY <1>1, <2>1 DEF Sample, TypeInv, TaskTypes
<1>2. ASSUME NEW h \in Halves, ReadHalf(h) PROVE TypeInv'
  <2>1. Half(h, dataP) \in Int
    BY HalfTypes DEF TypeInv, RingTypeOK
  <2>2. seen' \in Halves \X Int
    BY <1>2, <2>1 DEF ReadHalf
  <2>3. QED
    BY <1>2, <2>2 DEF ReadHalf, TypeInv, TaskTypes, RingTypeOK
<1>3. ASSUME NEW h \in Halves, ResetHalf(h) PROVE TypeInv'
  <2>1. dataP' \in Slots
    BY <1>3, HalfTypes DEF ResetHalf, TypeInv, RingTypeOK
  <2>2. seen' \in Halves \X Int
    BY <1>3 DEF ResetHalf
  <2>3. QED
    BY <1>3, <2>1, <2>2 DEF ResetHalf, TypeInv, TaskTypes, RingTypeOK
<1>4. CASE ReadOther
  BY <1>4 DEF ReadOther, TypeInv, TaskTypes, RingTypeOK
<1>5. CASE ScanSample
  BY <1>5, TypeScan
<1>6. CASE Found
  BY <1>6 DEF Found, TypeInv, TaskTypes, RingTypeOK
<1>7. CASE ResetOther
  <2>1. seen[1] \in Halves
    BY <1>7 DEF ResetOther, TypeInv, TaskTypes
  <2>2. Other(seen[1]) \in Halves
    BY <2>1 DEF Other, Halves
  <2>3. dataP' \in Slots
    BY <1>7, <2>2, HalfTypes DEF ResetOther, TypeInv, RingTypeOK
  <2>4. QED
    BY <1>7, <2>3 DEF ResetOther, TypeInv, TaskTypes, RingTypeOK
<1>8. ASSUME NEW matched \in BOOLEAN, Parse(matched) PROVE TypeInv'
  <2>1. scan' \in Places
    BY <1>8, Sizes DEF Parse, TypeInv, TaskTypes, Places, Slots
  <2>2. QED
    BY <1>8, <2>1 DEF Parse, TypeInv, TaskTypes, RingTypeOK
<1>9. CASE UNCHANGED receiveVars
  BY <1>9 DEF receiveVars, TypeInv, TaskTypes, RingTypeOK
<1>10. QED
  BY <1>1, <1>2, <1>3, <1>4, <1>5, <1>6, <1>7, <1>8, <1>9
     DEF ReceiveNext, rfReceiveTask

LEMMA ParsedInit == ReceiveInit => ParsedInv
  BY DEF ReceiveInit, ParsedInv

LEMMA ParsedNext ==
  ASSUME ParsedInv, [ReceiveNext]_receiveVars
  PROVE  ParsedInv'
<1>1. parsed' = parsed \/ parsed' \in BOOLEAN
  BY DEF ReceiveNext, rfReceiveTask, Sample, ReadHalf, ResetHalf, ReadOther,
         ScanSample, HighSample, LowSample, Found, ResetOther, Parse,
         receiveVars, taskVars
<1>2. QED
  BY <1>1 DEF ParsedInv

-----------------------------------------------------------------------------
(* The race of the task and the interrupt on dataP.                        *)

\* How far a slot is ahead of another one, around the ring.
LEMMA Around ==
  ASSUME NEW s \in Slots, NEW t \in Slots
  PROVE  /\ (s - t) % DataBytes = IF s >= t THEN s - t ELSE s - t + DataBytes
         /\ (s - t) % DataBytes \in Slots
         /\ ((s - t) % DataBytes = 0) = (s = t)
<1>1. s \in 0 .. DataBytes - 1 /\ t \in 0 .. DataBytes - 1
  BY DEF Slots
<1>2. CASE s >= t
  <2>1. s - t \in 0 .. DataBytes - 1
    BY <1>1, <1>2, Sizes
  <2>2. (s - t) % DataBytes = s - t
    BY <2>1, Sizes, NearMod
  <2>3. QED
    BY <2>1, <2>2, <1>1, <1>2, Sizes DEF Slots
<1>3. CASE s < t
  <2>1. s - t \in -DataBytes .. -1
    BY <1>1, <1>3, Sizes
  <2>2. (s - t) % DataBytes = s - t + DataBytes
    BY <2>1, Sizes, NearMod
  <2>3. QED
    BY <2>1, <2>2, <1>1, <1>3, Sizes DEF Slots
<1>4. QED
  BY <1>1, <1>2, <1>3

LEMMA NextSlot ==
  ASSUME NEW s \in Slots
  PROVE  /\ (s + 1) % DataBytes = IF s = DataBytes - 1 THEN 0 ELSE s + 1
         /\ (s + 1) % DataBytes \in Slots
<1>1. s \in 0 .. DataBytes - 1
  BY DEF Slots
<1>2. CASE s = DataBytes - 1
  <2>1. DataBytes \in DataBytes .. 2 * DataBytes - 1
    BY Sizes
  <2>2. DataBytes % DataBytes = 0
    BY <2>1, Sizes, NearMod
  <2>3. s + 1 = DataBytes
    BY <1>2, Sizes
  <2>4. QED
    BY <1>2, <2>2, <2>3, Sizes DEF Slots
<1>3. CASE s # DataBytes - 1
  <2>1. s + 1 \in 0 .. DataBytes - 1
    BY <1>1, <1>3, Sizes
  <2>2. (s + 1) % DataBytes = s + 1
    BY <2>1, Sizes, NearMod
  <2>3. QED
    BY <2>1, <2>2, <1>3 DEF Slots
<1>4. QED
  BY <1>2, <1>3

\* The distance when the slot in front, or the one behind, moves on.
LEMMA AroundSteps ==
  ASSUME NEW s \in Slots, NEW t \in Slots, NEW n \in Slots
  PROVE  /\ n = (s + 1) % DataBytes =>
              (n - t) % DataBytes = IF (s - t) % DataBytes = DataBytes - 1
                                      THEN 0 ELSE ((s - t) % DataBytes) + 1
         /\ n = (t + 1) % DataBytes =>
              (s - n) % DataBytes = IF s = t THEN DataBytes - 1
                                             ELSE ((s - t) % DataBytes) - 1
<1>1. /\ (s - t) % DataBytes = IF s >= t THEN s - t ELSE s - t + DataBytes
      /\ (n - t) % DataBytes = IF n >= t THEN n - t ELSE n - t + DataBytes
      /\ (s - n) % DataBytes = IF s >= n THEN s - n ELSE s - n + DataBytes
  BY Around
<1>2. /\ (s + 1) % DataBytes = IF s = DataBytes - 1 THEN 0 ELSE s + 1
      /\ (t + 1) % DataBytes = IF t = DataBytes - 1 THEN 0 ELSE t + 1
  BY NextSlot
<1>3. s \in 0 .. DataBytes - 1 /\ t \in 0 .. DataBytes - 1
  BY DEF Slots
<1>4. QED
  BY <1>1, <1>2, <1>3, Sizes

LEMMA AroundInjective ==
  ASSUME NEW s \in Slots, NEW t \in Slots, NEW n \in Slots,
         (s - t) % DataBytes = (n - t) % DataBytes
  PROVE  s = n
<1>1. /\ (s - t) % DataBytes = IF s >= t THEN s - t ELSE s - t + DataBytes
      /\ (n - t) % DataBytes = IF n >= t THEN n - t ELSE n - t + DataBytes
  BY Around
<1>2. QED
  BY <1>1, Sizes DEF Slots

LEMMA TestInit == ReceiveInit => TestInv
  BY DEF ReceiveInit, TestInv

\* A byte stored leaves the task further behind, by less than a lap.
LEMMA Storing ==
  ASSUME TypeInv, NEW sample \in Bit, Sample(sample), buffer' = <<>>
  PROVE  /\ Lag' = Lag + 1
         /\ dataP' # scan[1]
         /\ \A slot \in Slots : SlotsAhead(slot) < Lag + 1 /\ slot # dataP =>
                                  SlotsAhead(slot) < Lag
<1>1. /\ scan[1] \in Slots /\ dataP \in Slots
      /\ dataP' = (dataP + 1) % DataBytes /\ scan' = scan
      /\ Lag < MaxLag
  BY PackTypes DEF TypeInv, TaskTypes, RingTypeOK, Places, Sample, taskVars
<1>2. dataP' \in Slots
  BY <1>1, NextSlot
<1> DEFINE t == scan[1]
           l == Lag
<1>3. l \in Slots /\ l = (dataP - t) % DataBytes /\ Lag' = (dataP' - t) % DataBytes
      /\ \A slot \in Slots : SlotsAhead(slot) = (slot - t) % DataBytes
                             /\ SlotsAhead(slot) \in Slots
  BY <1>1, Around DEF Lag, SlotsAhead
<1> HIDE DEF t, l
<1>4. t \in Slots
  BY <1>1 DEF t
<1>5. Lag' = IF l = DataBytes - 1 THEN 0 ELSE l + 1
  <2>1. dataP \in Slots /\ dataP' = (dataP + 1) % DataBytes
    BY <1>1
  <2>2. (dataP' - t) % DataBytes = IF (dataP - t) % DataBytes = DataBytes - 1
                                     THEN 0 ELSE ((dataP - t) % DataBytes) + 1
    BY <2>1, <1>2, <1>4, AroundSteps
  <2>3. QED
    BY <2>2, <1>3
<1>6. l < DataBytes - 1
  BY <1>1, <1>3, Sizes DEF l, Slots
<1>7. Lag' = l + 1 /\ Lag' # 0
  BY <1>3, <1>5, <1>6 DEF Slots
<1>8. dataP' # t
  BY <1>2, <1>3, <1>4, <1>7, Around
<1>9. ASSUME NEW slot \in Slots, SlotsAhead(slot) < l + 1, slot # dataP
      PROVE  SlotsAhead(slot) < l
  <2>1. SlotsAhead(slot) # l
    BY <1>1, <1>3, <1>4, <1>9, AroundInjective
  <2>2. SlotsAhead(slot) \in Int /\ l \in Int
    BY <1>3 DEF Slots
  <2>3. QED
    BY <1>9, <2>1, <2>2
<1>10. QED
  BY <1>7, <1>8, <1>9 DEF l, t

LEMMA TestNext ==
  ASSUME TypeInv, TestInv, [ReceiveNext]_receiveVars
  PROVE  TestInv'
<1> USE DEF taskVars, scanHistory, ringVars
<1>1. ASSUME NEW sample \in Bit, Sample(sample) PROVE TestInv'
  <2>1. CASE buffer' = <<>>
    <3>1. dataP' # scan[1]
      BY <1>1, <2>1, Storing
    <3>2. QED
      BY <1>1, <2>1, <3>1 DEF Sample, TestInv
  <2>2. CASE buffer' # <<>>
    <3>1. dataP' = dataP
      BY <1>1, <2>2, PackTypes DEF Sample, TypeInv
    <3>2. QED
      BY <1>1, <2>2, <3>1 DEF Sample, TestInv, Half
  <2>3. QED
    BY <2>1, <2>2
<1>2. ASSUME NEW h \in Halves, ReadHalf(h) PROVE TestInv'
  BY <1>2 DEF ReadHalf, TestInv, Half
<1>3. ASSUME NEW h \in Halves, ResetHalf(h) PROVE TestInv'
  <2>1. Half(h, Cleared(h, dataP)) = 0
    BY HalfTypes DEF TypeInv, RingTypeOK
  <2>2. Half(seen'[1], dataP') = 0
    BY <1>3, <2>1 DEF ResetHalf
  <2>3. Half(seen[1], dataP)' = 0
    BY <2>2 DEF Half
  <2>4. QED
    BY <1>3, <2>3 DEF ResetHalf, TestInv
<1>4. CASE ReadOther
  BY <1>4 DEF ReadOther, TestInv
<1>5. CASE ScanSample
  BY <1>5 DEF ScanSample, TestInv
<1>6. CASE Found
  BY <1>6 DEF Found, TestInv
<1>7. CASE ResetOther
  BY <1>7 DEF ResetOther, TestInv
<1>8. ASSUME NEW matched \in BOOLEAN, Parse(matched) PROVE TestInv'
  BY <1>8 DEF Parse, TestInv
<1>9. CASE UNCHANGED receiveVars
  BY <1>9 DEF receiveVars, TestInv, Half
<1>10. QED
  BY <1>1, <1>2, <1>3, <1>4, <1>5, <1>6, <1>7, <1>8, <1>9
     DEF ReceiveNext, rfReceiveTask

LEMMA WindowInit == ReceiveInit => WindowInv
<1> SUFFICES ASSUME ReceiveInit PROVE WindowInv
  OBVIOUS
<1>1. scan[1] = 0 /\ dataP = 0
  BY DEF ReceiveInit, RingInit
<1>2. Lag = 0 /\ \A slot \in Slots : SlotsAhead(slot) >= 0
  BY <1>1, Sizes, Around DEF Lag, SlotsAhead, Slots
<1>3. QED
  BY <1>2, Sizes, Around, <1>1 DEF WindowInv, SlotsAhead, Slots

LEMMA WindowScan ==
  ASSUME TypeInv, TestInv, WindowInv, ScanSample
  PROVE  WindowInv'
<1>1. SUFFICES ASSUME ~ torn, NEW slot \in Slots, (SlotsAhead(slot) < Lag)'
               PROVE  slot \in fresh'
  BY DEF WindowInv, ScanSample
<1>2. /\ \A s \in Slots : SlotsAhead(s) < Lag => s \in fresh
      /\ dataP # scan[1] /\ dataP' = dataP
      /\ scan' = Advanced(scan) /\ scan \in Places /\ dataP \in Slots
      /\ fresh' = IF scan'[1] = scan[1] THEN fresh ELSE fresh \ {scan[1]}
  BY <1>1 DEF WindowInv, TestInv, ScanSample, TypeInv, TaskTypes, RingTypeOK,
              RecordScan, ringVars
<1>3. CASE scan'[1] = scan[1]
  <2>1. SlotsAhead(slot)' = SlotsAhead(slot) /\ Lag' = Lag
    BY <1>2, <1>3 DEF SlotsAhead, Lag
  <2>2. QED
    BY <1>1, <1>2, <1>3, <2>1
<1>4. CASE scan'[1] # scan[1]
  <2>1. scan[1] \in Slots /\ scan'[1] = (scan[1] + 1) % DataBytes
    BY <1>2, <1>4 DEF Advanced, Places
  <2> DEFINE t == scan[1]
             n == scan'[1]
             lag == Lag
             ahead == SlotsAhead(slot)
  <2>2. n \in Slots
    BY <2>1, NextSlot
  <2>3. /\ lag = (dataP - t) % DataBytes /\ lag \in Slots
        /\ ahead = (slot - t) % DataBytes /\ ahead \in Slots
        /\ (slot - n) % DataBytes < (dataP - n) % DataBytes
    BY <1>1, <1>2, <2>1, Around DEF Lag, SlotsAhead
  <2>4. dataP # t /\ t \in Slots /\ n = (t + 1) % DataBytes
    BY <1>2, <2>1
  <2> HIDE DEF t, n, lag, ahead
  <2>5. (dataP - n) % DataBytes = lag - 1
    BY <1>2, <2>2, <2>3, <2>4, AroundSteps
  <2>6. (slot - n) % DataBytes = IF slot = t THEN DataBytes - 1 ELSE ahead - 1
    BY <2>2, <2>3, <2>4, AroundSteps
  <2>7. slot # t /\ ahead < lag
    BY <2>3, <2>5, <2>6, Sizes DEF Slots
  <2>8. QED
    BY <1>2, <1>4, <2>7 DEF t, ahead, lag
<1>5. QED
  BY <1>3, <1>4

LEMMA WindowNext ==
  ASSUME TypeInv, TestInv, WindowInv, [ReceiveNext]_receiveVars
  PROVE  WindowInv'
<1> USE DEF taskVars, scanHistory, ringVars
<1>1. ASSUME NEW sample \in Bit, Sample(sample) PROVE WindowInv'
  <2>1. CASE buffer' = <<>>
    <3>1. Lag' = Lag + 1
          /\ \A slot \in Slots : SlotsAhead(slot) < Lag + 1 /\ slot # dataP =>
                                  SlotsAhead(slot) < Lag
      BY <1>1, <2>1, Storing
    <3>2. \A slot \in Slots : SlotsAhead(slot)' = SlotsAhead(slot)
      BY <1>1 DEF Sample, SlotsAhead
    <3>3. fresh' = fresh \cup {dataP} /\ pc' = pc /\ (~ torn' => ~ torn)
      BY <1>1, <2>1 DEF Sample
    <3>4. QED
      BY <3>1, <3>2, <3>3 DEF WindowInv
  <2>2. CASE buffer' # <<>>
    <3>1. dataP' = dataP
      BY <1>1, <2>2, PackTypes DEF Sample, TypeInv
    <3>2. QED
      BY <1>1, <2>2, <3>1 DEF Sample, WindowInv, Lag, SlotsAhead
  <2>3. QED
    BY <2>1, <2>2
<1>2. ASSUME NEW h \in Halves, ReadHalf(h) PROVE WindowInv'
  BY <1>2 DEF ReadHalf, WindowInv, Lag, SlotsAhead
<1>3. ASSUME NEW h \in Halves, ResetHalf(h) PROVE WindowInv'
  BY <1>3 DEF ResetHalf, WindowInv
<1>4. CASE ReadOther
  <2>1. CASE scan[1] = dataP
    <3>1. scan[1] \in Slots /\ scan' = scan /\ dataP' = dataP
      BY <1>4 DEF ReadOther, TypeInv, TaskTypes, Places
    <3>2. Lag' = 0
      BY <2>1, <3>1, Around DEF Lag, Slots
    <3>3. \A slot \in Slots : SlotsAhead(slot)' \in Slots
      BY <3>1, Around DEF SlotsAhead
    <3>4. QED
      BY <3>2, <3>3 DEF WindowInv, Slots
  <2>2. CASE scan[1] # dataP
    BY <1>4, <2>2 DEF ReadOther, WindowInv, Lag, SlotsAhead
  <2>3. QED
    BY <2>1, <2>2
<1>5. CASE ScanSample
  BY <1>5, WindowScan
<1>6. CASE Found
  BY <1>6 DEF Found, WindowInv, Lag, SlotsAhead
<1>7. CASE ResetOther
  <2>1. SUFFICES ASSUME ~ torn PROVE \A slot \in Slots : ~ (SlotsAhead(slot) < Lag)'
    BY <1>7 DEF WindowInv, ResetOther
  <2>2. scan[1] = 0 /\ Half(seen[1], dataP) = 0 /\ seen[1] \in Halves
    BY <1>7, <2>1 DEF ResetOther, TestInv, TypeInv, TaskTypes
  <2>3. Other(seen[1]) \in Halves /\ Other(Other(seen[1])) = seen[1]
    BY <2>2 DEF Other, Halves
  <2>4. dataP' = 0 /\ scan'[1] = 0
    BY <1>7, <2>2, <2>3, HalfTypes DEF ResetOther, TypeInv, RingTypeOK
  <2>5. Lag' = 0 /\ \A slot \in Slots : SlotsAhead(slot)' = slot
    BY <2>4, Around, Sizes DEF Lag, SlotsAhead, Slots
  <2>6. QED
    BY <2>5 DEF Slots
<1>8. ASSUME NEW matched \in BOOLEAN, Parse(matched) PROVE WindowInv'
  BY <1>8 DEF Parse, WindowInv, Lag, SlotsAhead
<1>9. CASE UNCHANGED receiveVars
  BY <1>9 DEF receiveVars, WindowInv, Lag, SlotsAhead
<1>10. QED
  BY <1>1, <1>2, <1>3, <1>4, <1>5, <1>6, <1>7, <1>8, <1>9
     DEF ReceiveNext, rfReceiveTask

LEMMA WindowReads ==
  ASSUME TypeInv, TestInv, WindowInv
  PROVE  ReadsWhatWasStored
<1>1. SUFFICES ASSUME pc = "scan", ~ torn PROVE scan[1] \in fresh
  BY DEF ReadsWhatWasStored
<1>2. dataP # scan[1] /\ dataP \in Slots /\ scan[1] \in Slots
  BY <1>1 DEF TestInv, TypeInv, RingTypeOK, TaskTypes, Places
<1>3. SlotsAhead(scan[1]) = 0 /\ Lag \in Slots /\ Lag # 0
  BY <1>2, Around DEF SlotsAhead, Lag
<1>4. QED
  BY <1>1, <1>2, <1>3 DEF WindowInv, Slots

-----------------------------------------------------------------------------
(* The runs and the silences.                                              *)

\* A run measured up to two turns is as long, for a counter, as it is.
LEMMA LongerRunCounts ==
  ASSUME NEW n \in RunCounts
  PROVE  /\ LongerRun(n) % CountMod = ((n % CountMod) + 1) % CountMod
         /\ n >= RequiredSilence => LongerRun(n) >= RequiredSilence
         /\ LongerRun(n) < CountMod => LongerRun(n) = n + 1
<1>1. n \in Int /\ n < 2 * CountMod
  BY Sizes DEF RunCounts
<1>2. ((n % CountMod) + 1) % CountMod = (n + 1) % CountMod
  <2>1. CountMod \in Nat \ {0} /\ 1 \in Int
    BY Sizes
  <2>2. QED
    BY <1>1, <2>1, ModAdd
<1>3. CASE n + 1 < 2 * CountMod
  BY <1>1, <1>2, <1>3, Sizes DEF LongerRun
<1>4. CASE n + 1 = 2 * CountMod
  <2>1. LongerRun(n) = CountMod
    BY <1>1, <1>4, Sizes DEF LongerRun
  <2>2. CountMod = CountMod * 1 + 0 /\ n + 1 = CountMod * 2 + 0
    BY <1>4, Sizes
  <2>3. 0 \in 0 .. CountMod - 1
    BY Sizes
  <2>4. CountMod % CountMod = 0 /\ (n + 1) % CountMod = 0
    BY <2>2, <2>3, Sizes, DivModUnique
  <2>5. QED
    BY <1>1, <1>2, <2>1, <2>4, Sizes
<1>5. QED
  BY <1>1, <1>3, <1>4, Sizes DEF RunCounts

\* A run that the counter shows to be long is long; a short one it shows as it
\* is.
LEMMA CountedRun ==
  ASSUME NEW n \in RunCounts
  PROVE  /\ n % CountMod \in ByteCounts /\ n % CountMod <= n
         /\ n < CountMod => n % CountMod = n
<1>1. n \in Int /\ n >= 0 /\ n < 2 * CountMod
  BY Sizes DEF RunCounts
<1>2. CASE n < CountMod
  <2>1. n \in 0 .. CountMod - 1
    BY <1>1, <1>2, Sizes
  <2>2. n % CountMod = n
    BY <2>1, Sizes, NearMod
  <2>3. QED
    BY <2>1, <2>2 DEF ByteCounts
<1>3. CASE n >= CountMod
  <2>1. n \in CountMod .. 2 * CountMod - 1
    BY <1>1, <1>3, Sizes
  <2>2. n % CountMod = n - CountMod
    BY <2>1, Sizes, NearMod
  <2>3. QED
    BY <1>1, <2>1, <2>2, <1>3, Sizes DEF ByteCounts
<1>4. QED
  BY <1>1, <1>2, <1>3, Sizes

LEMMA ZeroCounts == 0 % CountMod = 0 /\ 1 % CountMod = 1 /\ (0 + 1) % CountMod = 1
<1>1. 0 \in 0 .. CountMod - 1 /\ 1 \in 0 .. CountMod - 1
  BY Sizes
<1>2. QED
  BY <1>1, Sizes, NearMod

LEMMA CountInit == ReceiveInit => CountInv
  BY ZeroCounts DEF ReceiveInit, CountInv

LEMMA ScannedBit ==
  TypeInv => getBit(scan) \in Bit /\ current[1] \in Bit /\ current[2] \in RunCounts
  BY DEF TypeInv, TaskTypes, RingTypeOK, Places, getBit

LEMMA CountScan ==
  ASSUME TypeInv, CountInv, ScanSample
  PROVE  CountInv'
<1> DEFINE level == getBit(scan)
           was == current[1]
           n == current[2]
<1>1. level \in Bit /\ was \in Bit /\ n \in RunCounts
  BY ScannedBit
<1>2. /\ current' = IF level = was THEN <<level, LongerRun(n)>> ELSE <<level, 1>>
      /\ level = 1 => count1' = (count1 + 1) % CountMod /\ count0' = 0
      /\ level = 0 => count0' = (count0 + 1) % CountMod /\ count1' = 0
      /\ pc' \in {"found", "parse"} => count0' = RequiredSilence
  BY <1>1 DEF ScanSample, RecordScan, HighSample, LowSample, Bit
<1>3. /\ count0 = IF was = 0 THEN n % CountMod ELSE 0
      /\ count1 = IF was = 1 THEN n % CountMod ELSE 0
  BY DEF CountInv
<1> HIDE DEF level, was, n
<1>4. LongerRun(n) % CountMod = ((n % CountMod) + 1) % CountMod
  BY <1>1, LongerRunCounts
<1>5. CASE level = was
  BY <1>1, <1>2, <1>3, <1>4, <1>5 DEF CountInv, Bit
<1>6. CASE level # was
  BY <1>1, <1>2, <1>3, <1>6, ZeroCounts DEF CountInv, Bit
<1>7. QED
  BY <1>5, <1>6

LEMMA CountNext ==
  ASSUME TypeInv, CountInv, [ReceiveNext]_receiveVars
  PROVE  CountInv'
<1> USE DEF taskVars, scanHistory, ringVars
<1>1. CASE ScanSample
  BY <1>1, CountScan
<1>2. CASE ~ ScanSample
  <2>1. UNCHANGED <<count0, count1, current>>
    BY <1>2 DEF ReceiveNext, rfReceiveTask, Sample, ReadHalf, ResetHalf,
         ReadOther, Found, ResetOther, Parse, receiveVars
  <2>2. pc' \in {"found", "parse"} => pc \in {"found", "parse"}
    BY <1>2 DEF ReceiveNext, rfReceiveTask, Sample, ReadHalf, ResetHalf,
         ReadOther, Found, ResetOther, Parse, receiveVars
  <2>3. QED
    BY <2>1, <2>2 DEF CountInv
<1>3. QED
  BY <1>1, <1>2

LEMMA CountTells ==
  ASSUME TypeInv, CountInv
  PROVE  ToldTheRuns
<1> DEFINE level == getBit(scan)
           was == current[1]
           n == current[2] % CountMod
<1>1. level \in Bit /\ was \in Bit /\ n \in ByteCounts
  BY ScannedBit, CountedRun
<1>2. count0 = (IF was = 0 THEN n ELSE 0) /\ count1 = (IF was = 1 THEN n ELSE 0)
  BY DEF CountInv
<1>3. Told = IF level = 1 /\ count0 > 0 THEN <<0, count0>>
             ELSE IF level = 0 /\ count1 > 0 THEN <<1, count1>> ELSE <<>>
  BY DEF Told
<1>4. ToldTheRuns = (pc = "scan" =>
        Told = IF level # was /\ n > 0 THEN <<was, n>> ELSE <<>>)
  BY DEF ToldTheRuns
<1> HIDE DEF level, was, n
<1>5. SUFFICES Told = IF level # was /\ n > 0 THEN <<was, n>> ELSE <<>>
  BY <1>4
<1>6. n \in Int /\ n >= 0 /\ ~ (0 > 0)
  BY <1>1, Sizes DEF ByteCounts
<1>7. CASE level = 1
  <2>1. was = 0 => count0 = n
    BY <1>2
  <2>2. was = 1 => count0 = 0
    BY <1>2
  <2>3. QED
    BY <1>1, <1>3, <1>6, <1>7, <2>1, <2>2 DEF Bit
<1>8. CASE level = 0
  <2>1. was = 1 => count1 = n
    BY <1>2
  <2>2. was = 0 => count1 = 0
    BY <1>2
  <2>3. QED
    BY <1>1, <1>3, <1>6, <1>8, <2>1, <2>2 DEF Bit
<1>9. QED
  BY <1>1, <1>7, <1>8 DEF Bit

\* What one iteration of the loop does to the run and the marks, by the level
\* of the sample.
LEMMA LowScan ==
  ASSUME TypeInv, ScanSample, getBit(scan) = 0
  PROVE  /\ scan' = Advanced(scan) /\ parsed' = parsed
         /\ current' = IF current[1] = 0 THEN <<0, LongerRun(current[2])>>
                                         ELSE <<0, 1>>
         /\ startSilence' = IF count0 = 0 THEN scan ELSE startSilence
         /\ burstEnd' = IF current[1] = 1 THEN scan ELSE burstEnd
         /\ since' = IF since < Ring THEN since + 1 ELSE since
         /\ gap' = gap /\ burst' = burst
         /\ stopSilence' = IF stopSilence = scan' THEN <<-1, stopSilence[2]>>
                                                  ELSE stopSilence
  BY DEF ScanSample, RecordScan, LowSample, Marked

LEMMA HighScan ==
  ASSUME TypeInv, ScanSample, getBit(scan) = 1
  PROVE  /\ scan' = Advanced(scan) /\ ~ parsed'
         /\ current' = IF current[1] = 1 THEN <<1, LongerRun(current[2])>>
                                         ELSE <<1, 1>>
         /\ startSilence' = startSilence /\ burstEnd' = burstEnd
         /\ IF current[1] = 0 /\ current[2] >= RequiredSilence
              THEN gap' = current[2] /\ burst' = scan /\ since' = 1
              ELSE /\ since' = IF since < Ring THEN since + 1 ELSE since
                   /\ gap' = gap /\ burst' = burst
         /\ LET mark == IF count0 > RequiredSilence THEN scan ELSE stopSilence
            IN  stopSilence' = IF mark = scan' THEN <<-1, mark[2]>> ELSE mark
  BY DEF ScanSample, RecordScan, HighSample, Marked

\* Only an iteration of the loop changes a run or a mark; and a silence is only
\* parsed when the task has found it.
LEMMA StaysUnlessScanned ==
  ASSUME ~ ScanSample, [ReceiveNext]_receiveVars
  PROVE  /\ UNCHANGED <<count0, count1, startSilence, stopSilence, scanHistory>>
         /\ scan' = scan \/ (parsed' /\ pc = "parse")
         /\ parsed' = parsed \/ (parsed' /\ pc = "parse")
         /\ pc' = "parse" =>
              (pc = "parse" /\ parsed' = parsed) \/ (pc = "found" /\ Found)
<1> USE DEF taskVars, scanHistory, ringVars
<1>1. CASE \E sample \in Bit : Sample(sample)
  <2>1. UNCHANGED <<count0, count1, startSilence, stopSilence, scanHistory>>
    BY <1>1 DEF Sample
  <2>2. UNCHANGED <<scan, parsed, pc>>
    BY <1>1 DEF Sample
  <2>3. QED
    BY <2>1, <2>2
<1>2. CASE \E h \in Halves : ReadHalf(h)
  BY <1>2 DEF ReadHalf
<1>3. CASE \E h \in Halves : ResetHalf(h)
  BY <1>3 DEF ResetHalf
<1>4. CASE ReadOther
  BY <1>4 DEF ReadOther
<1>5. CASE Found
  BY <1>5 DEF Found
<1>6. CASE ResetOther
  BY <1>6 DEF ResetOther
<1>7. CASE \E matched \in BOOLEAN : Parse(matched)
  <2>1. /\ UNCHANGED <<count0, count1, startSilence, stopSilence, scanHistory>>
        /\ pc = "parse" /\ pc' # "parse"
    BY <1>7 DEF Parse
  <2>2. parsed'
    BY <1>7, Zenon DEF Parse
  <2>3. QED
    BY <2>1, <2>2
<1>8. CASE UNCHANGED receiveVars
  <2>1. UNCHANGED <<count0, count1, startSilence, stopSilence, scanHistory>>
    BY <1>8 DEF receiveVars
  <2>2. UNCHANGED <<scan, parsed, pc>>
    BY <1>8 DEF receiveVars
  <2>3. QED
    BY <2>1, <2>2
<1>9. QED
  BY <1>1, <1>2, <1>3, <1>4, <1>5, <1>6, <1>7, <1>8
     DEF ReceiveNext, rfReceiveTask

LEMMA LongInit == ReceiveInit => LongInv
  BY DEF ReceiveInit, LongInv

\* A silence the task has found is one: its run is low and long.
LEMMA FoundSilence ==
  ASSUME TypeInv, CountInv, pc \in {"found", "parse"}
  PROVE  /\ current[1] = 0 /\ current[2] >= RequiredSilence
<1>1. current[1] \in Bit /\ current[2] \in RunCounts
  BY DEF TypeInv, TaskTypes
<1>2. count0 = RequiredSilence /\ count0 # 0
  BY Sizes DEF CountInv
<1>3. current[1] = 0 /\ current[2] % CountMod = RequiredSilence
  BY <1>2 DEF CountInv
<1>4. current[2] % CountMod <= current[2]
  BY <1>1, CountedRun
<1>5. QED
  BY <1>3, <1>4

LEMMA LongNext ==
  ASSUME TypeInv, CountInv, ParsedInv, LongInv, [ReceiveNext]_receiveVars
  PROVE  LongInv'
<1>1. current[1] \in Bit /\ current[2] \in RunCounts
  BY DEF TypeInv, TaskTypes
<1>2. CASE ScanSample
  <2>1. pc' # "parse"
    BY <1>2 DEF ScanSample
  <2>2. CASE getBit(scan) = 1
    <3>1. ~ parsed'
      BY <1>2, <2>2, HighScan
    <3>2. QED
      BY <2>1, <3>1 DEF LongInv
  <2>3. CASE getBit(scan) = 0
    <3>1. parsed' = parsed
      BY <1>2, <2>3, LowScan
    <3>2. ASSUME parsed
          PROVE  current'[1] = 0 /\ current'[2] >= RequiredSilence
      <4>1. current[1] = 0 /\ current[2] >= RequiredSilence
        BY <3>2 DEF LongInv
      <4>2. current' = <<0, LongerRun(current[2])>>
        BY <1>2, <2>3, <4>1, LowScan
      <4>3. LongerRun(current[2]) >= RequiredSilence
        BY <1>1, <4>1, LongerRunCounts
      <4>4. QED
        BY <4>2, <4>3
    <3>3. QED
      BY <2>1, <3>1, <3>2 DEF LongInv
  <2>4. QED
    BY <2>2, <2>3, ScannedBit DEF Bit
<1>3. CASE ~ ScanSample
  <2>1. /\ current' = current
        /\ parsed' = parsed \/ (parsed' /\ pc = "parse")
        /\ pc' = "parse" =>
              (pc = "parse" /\ parsed' = parsed) \/ (pc = "found" /\ Found)
    BY <1>3, StaysUnlessScanned DEF scanHistory
  <2>2. pc = "parse" => current[1] = 0 /\ current[2] >= RequiredSilence
    BY FoundSilence
  <2>3. Found /\ pc' = "parse" => ~ parsed'
    BY DEF Found, taskVars
  <2>4. QED
    BY <2>1, <2>2, <2>3 DEF LongInv
<1>4. QED
  BY <1>2, <1>3

LEMMA SilenceInit == ReceiveInit => GapInv
  BY DEF ReceiveInit, GapInv

LEMMA SilenceNext ==
  ASSUME TypeInv, CountInv, GapInv, [ReceiveNext]_receiveVars
  PROVE  GapInv'
<1> DEFINE n == current[2]
<1>1. current[1] \in Bit /\ n \in RunCounts /\ n \in Int
  BY Sizes DEF TypeInv, TaskTypes, RunCounts
<1>2. CASE ScanSample
  <2>1. current'[2] # 0
    <3>1. LongerRun(n) # 0
      BY <1>1, LongerRunType
    <3>2. QED
      BY <1>2, <3>1 DEF ScanSample, RecordScan
  <2>2. CASE getBit(scan) = 1
    <3>1. current'[1] = 1
      BY <1>2, <2>2, HighScan
    <3>2. QED
      BY <2>1, <3>1 DEF GapInv
  <2>3. CASE getBit(scan) = 0
    <3>1. /\ startSilence' = IF count0 = 0 THEN scan ELSE startSilence
          /\ burstEnd' = IF current[1] = 1 THEN scan ELSE burstEnd
          /\ current' = IF current[1] = 0 THEN <<0, LongerRun(n)>> ELSE <<0, 1>>
      BY <1>2, <2>3, LowScan
    <3>2. CASE current[1] = 1
      <4>1. count0 = 0
        BY <3>2 DEF CountInv
      <4>2. QED
        BY <2>1, <3>1, <3>2, <4>1 DEF GapInv
    <3>3. CASE current[1] = 0 /\ n = 0
      <4>1. current = <<0, 0>>
        BY <3>3 DEF TypeInv, TaskTypes
      <4>2. scan = <<0, 1>> /\ burstEnd = <<0, 1>>
        BY <4>1 DEF GapInv
      <4>3. count0 = 0
        BY <3>3, ZeroCounts DEF CountInv
      <4>4. QED
        BY <2>1, <3>1, <3>3, <4>2, <4>3 DEF GapInv
    <3>4. CASE current[1] = 0 /\ n # 0
      <4>1. burstEnd' = burstEnd /\ current' = <<0, LongerRun(n)>>
        BY <3>1, <3>4
      <4>2. ASSUME LongerRun(n) \in 1 .. CountMod - 1
            PROVE  startSilence' = burstEnd'
        <5>1. n \in 1 .. CountMod - 1 /\ n < CountMod
          <6>1. LongerRun(n) < CountMod
            BY <4>2, Sizes
          <6>2. LongerRun(n) = n + 1
            BY <1>1, <6>1, LongerRunCounts
          <6>3. QED
            BY <1>1, <3>4, <4>2, <6>2, Sizes DEF RunCounts
        <5>2. startSilence = burstEnd
          BY <3>4, <5>1 DEF GapInv
        <5>3. count0 = n
          BY <1>1, <3>4, <5>1, CountedRun DEF CountInv
        <5>4. QED
          BY <3>1, <3>4, <4>1, <5>2, <5>3
      <4>3. QED
        BY <2>1, <4>1, <4>2 DEF GapInv
    <3>5. QED
      BY <1>1, <3>2, <3>3, <3>4 DEF Bit
  <2>4. QED
    BY <2>2, <2>3, ScannedBit DEF Bit
<1>3. CASE ~ ScanSample
  <2>1. /\ UNCHANGED <<startSilence, current, burstEnd>>
        /\ scan' = scan \/ pc = "parse"
    BY <1>3, StaysUnlessScanned DEF scanHistory
  <2>2. pc = "parse" => current # <<0, 0>>
    BY FoundSilence, Sizes
  <2>3. QED
    BY <2>1, <2>2 DEF GapInv
<1>4. QED
  BY <1>2, <1>3

-----------------------------------------------------------------------------
(* The marks.                                                              *)

LEMMA NoGapYet == 0 % CountMod <= RequiredSilence
  BY ZeroCounts, Sizes

LEMMA MarkInit == ReceiveInit => MarkInv
  BY NoGapYet, Sizes, ZeroCounts DEF ReceiveInit, MarkInv, GapSeen

LEMMA RingLap ==
  ASSUME NEW m \in Ring .. 2 * Ring - 1
  PROVE  m % Ring = m - Ring
  BY RingSize, NearMod

\* The mark of a burst that the scan goes on from.
LEMMA MarkStays ==
  ASSUME TypeInv, MarkInv, GapSeen, ~ parsed,
         scan' = Advanced(scan), burst' = burst,
         since' = IF since < Ring THEN since + 1 ELSE since,
         stopSilence' = IF stopSilence = scan' THEN <<-1, stopSilence[2]>>
                                               ELSE stopSilence
  PROVE  /\ since' \in 1 .. Ring
         /\ since' = Ring => stopSilence'[1] = -1
         /\ since' < Ring => /\ stopSilence' = burst'
                             /\ burst' \in Places
                             /\ Pos(scan)' = (Pos(burst)' + since') % Ring
<1>1. since \in 1 .. Ring /\ Ring \in Nat
  BY RingSize DEF MarkInv
<1>2. scan \in Places /\ scan' \in Places
      /\ Pos(scan') = (Pos(scan) + 1) % Ring
  BY PosAdvanced DEF TypeInv, TaskTypes
<1>3. CASE since = Ring
  <2>1. stopSilence[1] = -1 /\ since' = Ring
    BY <1>1, <1>3 DEF MarkInv
  <2>2. stopSilence'[1] = -1
    BY <2>1
  <2>3. QED
    BY <1>1, <2>1, <2>2
<1>4. CASE since < Ring
  <2> DEFINE b == Pos(burst)
             n == since
  <2>1. /\ stopSilence = burst /\ burst \in Places
        /\ Pos(scan) = (b + n) % Ring
        /\ since' = n + 1
    BY <1>4 DEF MarkInv
  <2>2. b \in 0 .. Ring - 1
    BY <2>1, PosType
  <2>3. n \in 1 .. Ring - 1
    BY <1>1, <1>4
  <2> HIDE DEF b, n
  <2>4. Pos(scan') = (b + (n + 1)) % Ring
    <3>1. Ring \in Nat \ {0} /\ b + n \in Int /\ 1 \in Int
      BY <2>2, <2>3, RingSize
    <3>2. (((b + n) % Ring) + 1) % Ring = ((b + n) + 1) % Ring
      BY <3>1, ModAdd
    <3>3. (b + n) + 1 = b + (n + 1)
      BY <2>2, <2>3
    <3>4. QED
      BY <1>2, <2>1, <3>2, <3>3
  <2>5. CASE n + 1 = Ring
    <3> DEFINE m == b + (n + 1)
    <3>1. m \in Ring .. 2 * Ring - 1
      BY <2>2, <2>5, RingSize
    <3> HIDE DEF m
    <3>2. m % Ring = m - Ring
      BY <3>1, RingLap
    <3>3. Pos(scan') = b
      BY <2>2, <2>4, <2>5, <3>2, RingSize DEF m
    <3>4. scan' = burst
      BY <1>2, <2>1, <3>3, PosInjective DEF b
    <3>5. stopSilence'[1] = -1
      BY <2>1, <3>4
    <3>6. QED
      BY <1>1, <2>1, <2>5, <3>5, RingSize
  <2>6. CASE n + 1 # Ring
    <3>1. n + 1 \in 1 .. Ring - 1
      BY <2>3, <2>6, RingSize
    <3>2. Pos(scan') # b
      <4>1. CASE b + (n + 1) < Ring
        <5>1. b + (n + 1) \in 0 .. Ring - 1
          BY <2>2, <3>1, <4>1, RingSize
        <5>2. (b + (n + 1)) % Ring = b + (n + 1)
          BY <5>1, RingSize, NearMod
        <5>3. QED
          BY <2>2, <2>4, <3>1, <5>2, RingSize
      <4>2. CASE b + (n + 1) >= Ring
        <5> DEFINE m == b + (n + 1)
        <5>1. m \in Ring .. 2 * Ring - 1
          BY <2>2, <3>1, <4>2, RingSize
        <5> HIDE DEF m
        <5>2. m % Ring = m - Ring
          BY <5>1, RingLap
        <5>3. QED
          BY <2>2, <2>4, <3>1, <5>2, RingSize DEF m
      <4>3. QED
        BY <2>2, <3>1, <4>1, <4>2, RingSize
    <3>3. stopSilence' = burst
      BY <2>1, <3>2 DEF b
    <3>4. Pos(scan)' = Pos(scan') /\ Pos(burst)' = b
      BY DEF Pos, b
    <3>5. QED
      BY <2>1, <2>4, <3>1, <3>3, <3>4, RingSize
  <2>7. QED
    BY <2>5, <2>6
<1>5. QED
  BY <1>1, <1>3, <1>4

\* A burst begins: it is marked if the counter shows the silence before it.
LEMMA MarkBegins ==
  ASSUME TypeInv, CountInv, ScanSample, getBit(scan) = 1, current[1] = 0,
         current[2] >= RequiredSilence
  PROVE  MarkInv'
<1>1. SUFFICES ASSUME GapSeen', ~ parsed'
               PROVE  /\ (since \in 1 .. Ring)' /\ since' < Ring
                      /\ stopSilence' = burst'
                      /\ burst' \in Places
                      /\ Pos(scan)' = (Pos(burst)' + since') % Ring
  BY RingSize DEF MarkInv
<1>2. /\ gap' = current[2] /\ burst' = scan /\ since' = 1
      /\ scan' = Advanced(scan) /\ scan \in Places
  BY HighScan DEF TypeInv, TaskTypes
<1>3. count0 > RequiredSilence
  BY <1>1, <1>2 DEF GapSeen, CountInv
<1>4. Advanced(scan) # scan /\ Pos(Advanced(scan)) = (Pos(scan) + 1) % Ring
  BY <1>2, PosAdvanced
<1>5. stopSilence' = scan
  BY <1>2, <1>3, <1>4, HighScan
<1>6. Pos(scan)' = Pos(Advanced(scan)) /\ Pos(burst)' = Pos(scan)
  BY <1>2 DEF Pos
<1>7. QED
  BY <1>2, <1>4, <1>5, <1>6, RingSize

LEMMA MarkNext ==
  ASSUME TypeInv, CountInv, ParsedInv, LongInv, MarkInv,
         [ReceiveNext]_receiveVars
  PROVE  MarkInv'
<1>1. CASE ScanSample
  <2>1. current[1] \in Bit /\ current[2] \in RunCounts /\ current[2] \in Int
    BY Sizes DEF TypeInv, TaskTypes, RunCounts
  <2>2. CASE getBit(scan) = 1 /\ current[1] = 0 /\ current[2] >= RequiredSilence
    BY <1>1, <2>2, MarkBegins
  <2>3. CASE getBit(scan) = 0
    <3>1. SUFFICES ASSUME GapSeen', ~ parsed'
                   PROVE  /\ since' \in 1 .. Ring
                          /\ since' = Ring => stopSilence'[1] = -1
                          /\ since' < Ring =>
                               /\ stopSilence' = burst'
                               /\ burst' \in Places
                               /\ Pos(scan)' = (Pos(burst)' + since') % Ring
      BY RingSize DEF MarkInv
    <3>2. gap' = gap /\ parsed' = parsed
      BY <1>1, <2>3, LowScan
    <3>3. GapSeen /\ ~ parsed
      BY <3>1, <3>2 DEF GapSeen
    <3>4. QED
      BY <1>1, <2>3, <3>3, LowScan, MarkStays
  <2>4. CASE getBit(scan) = 1 /\ ~ (current[1] = 0
                                      /\ current[2] >= RequiredSilence)
    <3>1. SUFFICES ASSUME GapSeen', ~ parsed'
                   PROVE  /\ since' \in 1 .. Ring
                          /\ since' = Ring => stopSilence'[1] = -1
                          /\ since' < Ring =>
                               /\ stopSilence' = burst'
                               /\ burst' \in Places
                               /\ Pos(scan)' = (Pos(burst)' + since') % Ring
      BY RingSize DEF MarkInv
    <3>2. /\ gap' = gap /\ burst' = burst /\ scan' = Advanced(scan)
          /\ since' = IF since < Ring THEN since + 1 ELSE since
      BY <1>1, <2>4, HighScan
    <3>3. GapSeen /\ ~ parsed
      BY <2>4, <3>1, <3>2 DEF GapSeen, LongInv
    <3>4. ~ (count0 > RequiredSilence)
      <4>1. CASE current[1] = 1
        BY <4>1, Sizes DEF CountInv
      <4>2. CASE current[1] = 0
        <5>1. current[2] < RequiredSilence
          BY <2>1, <2>4, <4>2, Sizes
        <5>2. current[2] % CountMod = current[2]
          BY <2>1, <5>1, CountedRun, Sizes
        <5>3. QED
          BY <2>1, <4>2, <5>1, <5>2, Sizes DEF CountInv
      <4>3. QED
        BY <2>1, <4>1, <4>2 DEF Bit
    <3>5. stopSilence' = IF stopSilence = scan' THEN <<-1, stopSilence[2]>>
                                               ELSE stopSilence
      BY <1>1, <2>4, <3>4, HighScan
    <3>6. QED
      BY <3>2, <3>3, <3>5, MarkStays
  <2>5. QED
    BY <2>2, <2>3, <2>4, ScannedBit DEF Bit
<1>2. CASE ~ ScanSample
  <2>1. /\ UNCHANGED <<stopSilence, gap, burst, since>>
        /\ ~ parsed' => scan' = scan /\ parsed' = parsed
    BY <1>2, StaysUnlessScanned DEF scanHistory
  <2>2. ~ parsed' => ~ parsed
    BY <2>1
  <2>3. GapSeen' = GapSeen
    BY <2>1 DEF GapSeen
  <2>4. ~ parsed' => Pos(scan)' = Pos(scan) /\ Pos(burst)' = Pos(burst)
    BY <2>1 DEF Pos
  <2>5. QED
    BY <2>1, <2>2, <2>3, <2>4, RingSize DEF MarkInv
<1>3. QED
  BY <1>1, <1>2

-----------------------------------------------------------------------------
(* The length of a burst.                                                  *)

LEMMA BurstInit == ReceiveInit => BurstInv
  BY NoGapYet, Sizes, ZeroCounts DEF ReceiveInit, BurstInv, GapSeen

\* The end of a burst, when the scan has met another low sample.
LEMMA EndKept ==
  ASSUME TypeInv, MarkInv, BurstInv, ScanSample, getBit(scan) = 0,
         GapSeen', ~ parsed', since' < Ring, current'[2] \in 1 .. CountMod - 1
  PROVE  /\ burstEnd' \in Places
         /\ since' > current'[2]
         /\ Pos(burstEnd)' = (Pos(burst)' + (since' - current'[2])) % Ring
<1> DEFINE n == current[2]
<1>1. /\ current' = IF current[1] = 0 THEN <<0, LongerRun(n)>> ELSE <<0, 1>>
      /\ burstEnd' = IF current[1] = 1 THEN scan ELSE burstEnd
      /\ since' = IF since < Ring THEN since + 1 ELSE since
      /\ gap' = gap /\ burst' = burst /\ parsed' = parsed
  BY LowScan
<1>2. GapSeen /\ ~ parsed
  BY <1>1 DEF GapSeen
<1>3. /\ current \in Bit \X RunCounts
      /\ current[1] \in Bit /\ n \in RunCounts /\ n \in Int /\ n >= 0
      /\ scan \in Places
  BY Sizes DEF TypeInv, TaskTypes, RunCounts
<1>4. since \in 1 .. Ring /\ since < Ring /\ since' = since + 1
  BY <1>1, <1>2, RingSize DEF MarkInv
<1>5. Pos(burst)' = Pos(burst)
  BY <1>1 DEF Pos
<1>6. CASE current[1] = 1
  <2>1. current'[2] = 1 /\ burstEnd' = scan
    BY <1>1, <1>6
  <2>2. Pos(scan) = (Pos(burst) + since) % Ring
    BY <1>2, <1>4 DEF MarkInv
  <2>3. Pos(burstEnd)' = Pos(scan)
    BY <2>1 DEF Pos
  <2>4. since' - 1 = since /\ since' > 1
    BY <1>4, RingSize
  <2>5. QED
    BY <1>3, <1>5, <2>1, <2>2, <2>3, <2>4
<1>7. CASE current[1] = 0
  <2>1. current'[2] = LongerRun(n) /\ burstEnd' = burstEnd
    BY <1>1, <1>7
  <2>2. LongerRun(n) = n + 1 /\ n + 1 < CountMod
    <3>1. LongerRun(n) < CountMod
      BY <2>1, Sizes
    <3>2. QED
      BY <1>3, <3>1, LongerRunCounts
  <2>3. n # 0
    BY <1>2, <1>3, <1>7 DEF BurstInv
  <2>4. n \in 1 .. CountMod - 1
    BY <1>3, <2>2, <2>3, Sizes
  <2>5. /\ burstEnd \in Places
        /\ since > n
        /\ Pos(burstEnd) = (Pos(burst) + (since - n)) % Ring
    BY <1>2, <1>4, <1>7, <2>4 DEF BurstInv
  <2>6. Pos(burstEnd)' = Pos(burstEnd)
    BY <2>1 DEF Pos
  <2>7. since' - current'[2] = since - n /\ since' > current'[2]
    BY <1>3, <1>4, <2>1, <2>2, <2>5, RingSize
  <2>8. QED
    BY <1>5, <2>1, <2>5, <2>6, <2>7
<1>8. QED
  BY <1>3, <1>6, <1>7 DEF Bit

LEMMA BurstNext ==
  ASSUME TypeInv, CountInv, MarkInv, BurstInv, [ReceiveNext]_receiveVars
  PROVE  BurstInv'
<1>1. CASE ScanSample
  <2>1. pc' # "parse"
    BY <1>1 DEF ScanSample
  <2>2. current' # <<0, 0>>
    <3>1. LongerRun(current[2]) # 0
      BY LongerRunType DEF TypeInv, TaskTypes
    <3>2. QED
      BY <1>1, <3>1 DEF ScanSample, RecordScan
  <2>3. CASE getBit(scan) = 1
    <3>1. current'[1] = 1
      BY <1>1, <2>3, HighScan
    <3>2. QED
      BY <2>1, <2>2, <3>1 DEF BurstInv
  <2>4. CASE getBit(scan) = 0
    BY <1>1, <2>1, <2>2, <2>4, EndKept DEF BurstInv
  <2>5. QED
    BY <2>3, <2>4, ScannedBit DEF Bit
<1>2. CASE ~ ScanSample
  <2>1. /\ UNCHANGED <<startSilence, stopSilence, gap, burst, burstEnd, since,
                       current>>
        /\ ~ parsed' => parsed' = parsed
        /\ pc' = "parse" => pc = "parse" \/ (pc = "found" /\ Found)
    BY <1>2, StaysUnlessScanned DEF scanHistory
  <2>2. ~ parsed' => ~ parsed
    BY <2>1
  <2>3. /\ GapSeen' = GapSeen
        /\ Pos(burst)' = Pos(burst) /\ Pos(burstEnd)' = Pos(burstEnd)
        /\ calculateDistance(stopSilence[1], startSilence[1])' =
             calculateDistance(stopSilence[1], startSilence[1])
    BY <2>1 DEF GapSeen, Pos, calculateDistance
  <2>4. Found /\ pc' = "parse" =>
          calculateDistance(stopSilence[1], startSilence[1])
            \notin 0 .. MinDist - 1
    BY DEF Found
  <2>5. QED
    BY <2>1, <2>2, <2>3, <2>4 DEF BurstInv
<1>3. QED
  BY <1>1, <1>2

\* Two places that are at least MinDist bytes apart have more than MinDist - 1
\* bytes of samples between them.
LEMMA BytesApart ==
  ASSUME NEW p \in Places, NEW q \in Places, NEW n \in 1 .. Ring - 1,
         Pos(q) = (Pos(p) + n) % Ring,
         calculateDistance(p[1], q[1]) \notin 0 .. MinDist - 1
  PROVE  n > (MinDist - 1) * ByteBits
<1> DEFINE b == p[1]
           i == p[2]
           e == q[1]
           j == q[2]
           B == ByteBits
           D == DataBytes
           d == calculateDistance(b, e)
<1>1. /\ b \in 0 .. D - 1 /\ e \in 0 .. D - 1 /\ i \in 1 .. B /\ j \in 1 .. B
      /\ B \in Nat \ {0} /\ D \in Nat \ {0} /\ n \in Int /\ n > 0
      /\ d = IF e >= b THEN e - b ELSE D - b + e
      /\ d \notin 0 .. MinDist - 1
  BY Sizes, RingSize DEF Places, Slots, calculateDistance
<1>2. /\ Pos(p) = b * B + (i - 1) /\ Pos(q) = e * B + (j - 1) /\ Ring = D * B
      /\ Pos(p) \in 0 .. Ring - 1 /\ Pos(q) \in 0 .. Ring - 1
  BY PosType DEF Pos, Ring
<1>3. Pos(q) = Pos(p) + n \/ Pos(q) = Pos(p) + (n - Ring)
  <2> DEFINE x == Pos(p)
             y == Pos(q)
             m == x + n
  <2>1. x \in 0 .. Ring - 1 /\ y = m % Ring
    BY <1>2
  <2> HIDE DEF x, y
  <2>2. m \in 0 .. 2 * Ring - 1
    BY <2>1, RingSize
  <2> HIDE DEF m
  <2>3. CASE m < Ring
    <3>1. m \in 0 .. Ring - 1
      BY <2>2, <2>3, RingSize
    <3>2. m % Ring = m
      BY <3>1, RingSize, NearMod
    <3>3. y = m
      BY <2>1, <3>2
    <3>4. QED
      BY <3>3 DEF m, x, y
  <2>4. CASE m >= Ring
    <3>1. m \in Ring .. 2 * Ring - 1
      BY <2>2, <2>4, RingSize
    <3>2. m % Ring = m - Ring
      BY <3>1, RingLap
    <3>3. y = x + (n - Ring)
      BY <2>1, <3>2, RingSize DEF m
    <3>4. QED
      BY <3>3 DEF x, y
  <2>5. QED
    BY <2>2, <2>3, <2>4, RingSize
<1> HIDE DEF b, i, e, j, d, B, D
<1>4. n = (e - b) * B + (j - i) \/ n = (e - b + D) * B + (j - i)
  <2>1. (e - b) * B = e * B - b * B /\ (e - b + D) * B = e * B - b * B + D * B
        /\ e * B \in Int /\ b * B \in Int /\ D * B \in Int
    BY <1>1
  <2>2. QED
    BY <1>1, <1>2, <1>3, <2>1
<1>5. n > (d - 1) * B /\ d >= 0
  <2>1. (d - 1) * B = d * B - B /\ d * B \in Int
    BY <1>1
  <2>2. CASE n = (e - b) * B + (j - i)
    <3>1. e >= b
      <4>1. CASE e - b <= -1
        <5>1. (e - b) * B <= (-1) * B
          BY <1>1, <4>1, RingProduct
        <5>2. QED
          BY <1>1, <2>2, <5>1
      <4>2. QED
        BY <1>1, <4>1
    <3>2. d = e - b
      BY <1>1, <3>1
    <3>3. QED
      BY <1>1, <2>1, <2>2, <3>1, <3>2
  <2>3. CASE n = (e - b + D) * B + (j - i)
    <3>1. CASE e < b
      <4>1. d = e - b + D
        BY <1>1, <3>1
      <4>2. QED
        BY <1>1, <2>1, <2>3, <3>1, <4>1
    <3>2. CASE e >= b
      <4>1. d >= 0 /\ d = e - b
        BY <1>1, <3>2
      <4>2. d * B <= (e - b + D) * B
        BY <1>1, <4>1, RingProduct
      <4>3. QED
        BY <1>1, <2>1, <2>3, <4>1, <4>2
    <3>3. QED
      BY <1>1, <3>1, <3>2
  <2>4. QED
    BY <1>4, <2>2, <2>3
<1>6. (MinDist - 1) * B <= (d - 1) * B
  BY <1>1, <1>5, Sizes, RingProduct
<1>7. (MinDist - 1) * B \in Int /\ (d - 1) * B \in Int
  BY <1>1, Sizes
<1>8. QED
  BY <1>1, <1>5, <1>6, <1>7 DEF B

LEMMA BurstSkips ==
  ASSUME TypeInv, CountInv, LongInv, GapInv, MarkInv, BurstInv
  PROVE  MarksTheBurst /\ ShortBurstsSkipped
<1>1. SUFFICES ASSUME pc = "parse", GapSeen, current[2] = RequiredSilence
               PROVE  /\ startSilence = burstEnd
                      /\ \/ since = Ring /\ stopSilence[1] = -1
                         \/ /\ stopSilence = burst
                            /\ since - RequiredSilence > (MinDist - 1) * ByteBits
  BY DEF MarksTheBurst, ShortBurstsSkipped
<1>2. ~ parsed /\ current[1] = 0 /\ current[2] \in 1 .. CountMod - 1
  BY <1>1, FoundSilence, Sizes DEF LongInv
<1>3. startSilence = burstEnd /\ since \in 1 .. Ring
  BY <1>1, <1>2 DEF GapInv, MarkInv
<1>4. CASE since = Ring
  BY <1>1, <1>2, <1>3, <1>4 DEF MarkInv
<1>5. CASE since < Ring
  <2>1. stopSilence = burst /\ burst \in Places
    BY <1>1, <1>2, <1>5 DEF MarkInv
  <2>2. /\ burstEnd \in Places /\ since > RequiredSilence
        /\ Pos(burstEnd) = (Pos(burst) + (since - RequiredSilence)) % Ring
        /\ calculateDistance(burst[1], burstEnd[1]) \notin 0 .. MinDist - 1
    BY <1>1, <1>2, <1>3, <1>5, <2>1 DEF BurstInv
  <2>3. since - RequiredSilence \in 1 .. Ring - 1
    BY <1>3, <1>5, <2>2, Sizes, RingSize
  <2>4. since - RequiredSilence > (MinDist - 1) * ByteBits
    BY <2>1, <2>2, <2>3, BytesApart
  <2>5. QED
    BY <1>3, <2>1, <2>4
<1>6. QED
  BY <1>3, <1>4, <1>5, RingSize

-----------------------------------------------------------------------------
ReceiveInv ==
  /\ TypeInv /\ ParsedInv
  /\ TestInv /\ WindowInv
  /\ CountInv /\ LongInv /\ GapInv
  /\ MarkInv /\ BurstInv

LEMMA ReceiveInvInit == ReceiveInit => ReceiveInv
  BY TypeInit, ParsedInit, TestInit, WindowInit, CountInit, LongInit,
     SilenceInit, MarkInit, BurstInit DEF ReceiveInv

LEMMA ReceiveInvNext == ReceiveInv /\ [ReceiveNext]_receiveVars => ReceiveInv'
  BY TypeNext, ParsedNext, TestNext, WindowNext, CountNext, LongNext,
     SilenceNext, MarkNext, BurstNext DEF ReceiveInv

\* The scan stays in the ring, the counters are bytes, the marks are places or
\* one of their two special values.
THEOREM ReceiveTypes == ReceiveSpec => []ReceiveTypeOK
<1>1. TypeInv /\ ParsedInv => ReceiveTypeOK
  <2> SUFFICES ASSUME TypeInv, ParsedInv PROVE ReceiveTypeOK
    OBVIOUS
  <2>1. (seen = <<>>) = (pc \notin {"testOther", "resetOther"})
    BY DEF TypeInv, TaskTypes
  <2>2. (startSilence \in Places) = (startSilence # <<-1, 0>>)
    <3>1. <<-1, 0>> \notin Places
      BY Sizes DEF Places, Slots
    <3>2. QED
      BY <3>1 DEF TypeInv, TaskTypes
  <2>3. QED
    BY <2>1, <2>2
       DEF TypeInv, TaskTypes, ParsedInv, ReceiveTypeOK, ByteCounts
<1>2. QED
  BY <1>1, ReceiveInvInit, ReceiveInvNext, PTL DEF ReceiveSpec, ReceiveInv

\* A loop test that reads dataP while the interrupt moves it never lets the
\* scan enter a slot that was not filled; nor does a reset, but for one that the
\* interrupt falls into.
THEOREM ReadsStored == ReceiveSpec => []ReadsWhatWasStored
<1>1. ReceiveInv => ReadsWhatWasStored
  BY WindowReads DEF ReceiveInv
<1>2. QED
  BY <1>1, ReceiveInvInit, ReceiveInvNext, PTL DEF ReceiveSpec

\* The stream decoders are told every run, once, with its length.
THEOREM RunsTold == ReceiveSpec => []ToldTheRuns
<1>1. ReceiveInv => ToldTheRuns
  BY CountTells DEF ReceiveInv
<1>2. QED
  BY <1>1, ReceiveInvInit, ReceiveInvNext, PTL DEF ReceiveSpec

\* The block decoders are called with the two ends of the burst, wherever it
\* lies in the ring.
THEOREM BurstMarked == ReceiveSpec => []MarksTheBurst
<1>1. ReceiveInv => MarksTheBurst
  BY BurstSkips DEF ReceiveInv
<1>2. QED
  BY <1>1, ReceiveInvInit, ReceiveInvNext, PTL DEF ReceiveSpec

\* The block decoders are not called for a burst of less than MinDist bytes.
THEOREM ShortSkipped == ReceiveSpec => []ShortBurstsSkipped
<1>1. ReceiveInv => ShortBurstsSkipped
  BY BurstSkips DEF ReceiveInv
<1>2. QED
  BY <1>1, ReceiveInvInit, ReceiveInvNext, PTL DEF ReceiveSpec

-----------------------------------------------------------------------------
(* The filter and the ring it fills: the invariant.                         *)

\* The slot that is q slots behind the write position, the oldest first.
SlotAt(q) == (dataP + q) % DataBytes

Samples == 1 .. Ring

\* RingInOrder by bytes: the j-th bit of the slot q slots behind the write
\* position, but for those of the oldest byte that passed has lost.
OrderInv ==
  /\ passed \in [Samples -> Bit]
  /\ \A k \in 1 .. Len(buffer) : buffer[k] = passed[Ring - Len(buffer) + k]
  /\ \A q \in Slots, j \in 1 .. ByteBits :
       q * ByteBits + j > Len(buffer) =>
         data[SlotAt(q)][j] = passed[(q * ByteBits + j) - Len(buffer)]

\* FilterOpens at tap k, for lengths of runs r: the sample is followed, j samples
\* later and within the filter, by one of its run at which the counter has
\* reached the level that opens it.
Follows(r, k, j) ==
  /\ r[k] % CountMod > 0
  /\ r[k] > 0 /\ r[k - j] = r[k] + j
  /\ (r[k] % CountMod) + j \in TriggerLevel .. CountMod - 1

Opened(r, k) == \E j \in 0 .. k - 1 : Follows(r, k, j)

TapInv ==
  /\ run \in [Taps -> Nat]
  /\ preFilterBuffer \in [Taps -> Bit]
  /\ preFilterCnt = run[1] % CountMod
  /\ \A k \in Taps : k <= run[1] => run[k] + k = run[1] + 1
  /\ \A k \in Taps : preFilterBuffer[k] = 1 <=> Opened(run, k)

-----------------------------------------------------------------------------
(* The types.                                                              *)

LEMMA FilterSizes ==
  /\ ByteBits \in Nat \ {0} /\ DataBytes \in Nat \ {0, 1}
  /\ CountMod \in Nat \ {0}
  /\ FilterBits \in Nat /\ TriggerLevel \in Nat
  /\ TriggerLevel >= 1 /\ TriggerLevel <= FilterBits
  /\ TriggerLevel < CountMod
  BY StreamBitsAssumption, RingAssumption, FilterAssumption

\* What Pack does with a sample: the byte has room for it, or is full and stored.
LEMMA PackCases ==
  ASSUME RingTypeOK, NEW sample \in Bit, Pack(sample)
  PROVE  \E packed \in Seq(Bit) :
           /\ Len(packed) = Len(buffer) + 1
           /\ \A k \in 1 .. Len(buffer) : packed[k] = buffer[k]
           /\ packed[Len(buffer) + 1] = sample
           /\ \/ /\ Len(packed) < ByteBits /\ buffer' = packed
                 /\ data' = data /\ dataP' = dataP
              \/ /\ Len(packed) = ByteBits /\ buffer' = <<>>
                 /\ data' = [data EXCEPT ![dataP] = packed]
                 /\ dataP' = (dataP + 1) % DataBytes
<1> DEFINE packed == Append(buffer, sample)
<1>1. buffer \in Seq(Bit) /\ Len(buffer) \in Nat /\ Len(buffer) < ByteBits
  BY DEF RingTypeOK
<1>2. /\ packed \in Seq(Bit) /\ Len(packed) = Len(buffer) + 1
      /\ \A k \in 1 .. Len(buffer) : packed[k] = buffer[k]
      /\ packed[Len(buffer) + 1] = sample
  BY <1>1, AppendProperties
<1>3. IF Len(packed) = ByteBits
        THEN /\ buffer' = <<>> /\ data' = [data EXCEPT ![dataP] = packed]
             /\ dataP' = (dataP + 1) % DataBytes
        ELSE buffer' = packed /\ data' = data /\ dataP' = dataP
  BY DEF Pack
<1> HIDE DEF packed
<1>4. Len(packed) = ByteBits \/ Len(packed) < ByteBits
  BY <1>1, <1>2, FilterSizes
<1>5. QED
  BY <1>2, <1>3, <1>4

LEMMA RingTypesInit == FilterInit => RingTypeOK
  BY FilterSizes DEF FilterInit, RingInit, RingTypeOK, Slots, Bit

\* The sample that leaves the filter is a bit.
LEMMA FilterBit ==
  ASSUME TapInv, NEW antenna \in Bit, PreFilter(antenna)
  PROVE  /\ preFilterBuffer' \in [Taps -> Bit]
         /\ preFilterBuffer'[FilterBits] \in Bit
<1>1. 1 \in Taps /\ FilterBits \in Taps
  BY FilterSizes DEF Taps
<1>2. \A k \in Taps : k # 1 => k - 1 \in Taps
  BY FilterSizes DEF Taps
<1>3. Shifted \in [Taps -> Bit]
  BY <1>1, <1>2 DEF Shifted, TapInv, Bit
<1>4. preFilterBuffer' \in [Taps -> Bit]
  BY <1>1, <1>3 DEF PreFilter, Bit
<1>5. QED
  BY <1>1, <1>4

LEMMA RingTypesNext ==
  ASSUME RingTypeOK, TapInv, [FilterNext]_filterVars
  PROVE  RingTypeOK'
<1>1. ASSUME NEW antenna \in Bit, TakeSample(antenna) PROVE RingTypeOK'
  <2>1. PreFilter(antenna) /\ Pack(preFilterBuffer'[FilterBits])
    BY <1>1 DEF TakeSample, rfReceiveUpdate
  <2>2. QED
    BY <2>1, FilterBit, PackTypes
<1>2. CASE UNCHANGED filterVars
  BY <1>2 DEF filterVars, ringVars, RingTypeOK
<1>3. QED
  BY <1>1, <1>2 DEF FilterNext

-----------------------------------------------------------------------------
(* The filter.                                                             *)

\* A counter that does not wrap between two samples.
LEMMA NoWrap ==
  ASSUME NEW n \in Nat, NEW i \in Int, (n % CountMod) + i \in 0 .. CountMod - 1
  PROVE  (n + i) % CountMod = (n % CountMod) + i
<1> DEFINE q == n \div CountMod
           r == n % CountMod
<1>1. n = CountMod * q + r /\ q \in Int /\ r \in Int
  BY FilterSizes, DivMod
<1> HIDE DEF q, r
<1>2. r + i \in 0 .. CountMod - 1
  BY DEF r
<1>3. (CountMod * q + (r + i)) % CountMod = r + i
  BY <1>1, <1>2, FilterSizes, DivModUnique
<1>4. n + i = CountMod * q + (r + i)
  BY <1>1, FilterSizes
<1>5. QED
  BY <1>3, <1>4 DEF r

\* When the samples have moved on by one tap, a tap is opened by what had opened
\* it before, or by the sample that came in.
LEMMA OpenedLater ==
  ASSUME NEW r \in [Taps -> Nat], NEW s \in [Taps -> Nat],
         \A k \in Taps : k > 1 => s[k] = r[k - 1],
         NEW k \in Taps, k > 1
  PROVE  Opened(s, k) <=> Opened(r, k - 1) \/ Follows(s, k, k - 1)
<1>1. k \in Nat /\ k - 1 \in Taps /\ s[k] = r[k - 1]
  BY FilterSizes DEF Taps
<1>2. ASSUME NEW j \in 0 .. (k - 1) - 1
      PROVE  Follows(s, k, j) <=> Follows(r, k - 1, j)
  <2>1. k - j \in Taps /\ k - j > 1 /\ (k - j) - 1 = (k - 1) - j
    BY <1>1, <1>2, FilterSizes DEF Taps
  <2>2. s[k - j] = r[(k - 1) - j]
    BY <2>1
  <2>3. QED
    BY <1>1, <2>2 DEF Follows
<1>3. \A j : j \in 0 .. k - 1 <=> j \in 0 .. (k - 1) - 1 \/ j = k - 1
  BY <1>1
<1>4. QED
  BY <1>2, <1>3 DEF Opened

LEMMA FollowsFirst ==
  ASSUME NEW s \in [Taps -> Nat], NEW k \in Taps
  PROVE  Follows(s, k, k - 1) <=>
           /\ s[k] % CountMod > 0
           /\ s[k] > 0 /\ s[1] = s[k] + (k - 1)
           /\ (s[k] % CountMod) + (k - 1) \in TriggerLevel .. CountMod - 1
<1>1. k - (k - 1) = 1
  BY DEF Taps
<1>2. s[k - (k - 1)] = s[1]
  BY <1>1
<1>3. QED
  BY <1>2, Zenon DEF Follows

LEMMA TapInit == FilterInit => TapInv
<1> SUFFICES ASSUME FilterInit PROVE TapInv
  OBVIOUS
<1>1. 1 \in Taps /\ 0 \in 0 .. CountMod - 1 /\ \A k \in Taps : k \in Nat /\ k > 0
  BY FilterSizes DEF Taps
<1>2. 0 % CountMod = 0
  BY <1>1, FilterSizes, NearMod
<1>3. /\ run = [k \in Taps |-> 0] /\ preFilterBuffer = [k \in Taps |-> 0]
      /\ preFilterCnt = 0
  BY DEF FilterInit
<1>4. \A k \in Taps : ~ Opened(run, k)
  BY <1>2, <1>3 DEF Opened, Follows
<1>5. QED
  BY <1>1, <1>2, <1>3, <1>4 DEF TapInv, Bit

\* A low sample.
LEMMA LowTap ==
  ASSUME TapInv, TakeSample(0)
  PROVE  TapInv'
<1>1. /\ preFilterCnt' = 0 /\ preFilterBuffer' = Shifted
      /\ run' = [k \in Taps |-> IF k > 1 THEN run[k - 1] ELSE 0]
  BY DEF TakeSample, rfReceiveUpdate, PreFilter
<1>2. /\ 1 \in Taps /\ 0 \in 0 .. CountMod - 1
      /\ \A k \in Taps : /\ k \in Nat /\ k >= 1
                         /\ k > 1 => k - 1 \in Taps
  BY FilterSizes DEF Taps
<1>3. 0 % CountMod = 0
  BY <1>2, FilterSizes, NearMod
<1>4. run' \in [Taps -> Nat] /\ run'[1] = 0
      /\ \A k \in Taps : k > 1 => run'[k] = run[k - 1]
  BY <1>1, <1>2 DEF TapInv
<1>5. preFilterBuffer' \in [Taps -> Bit]
  BY FilterBit DEF TakeSample, rfReceiveUpdate, Bit
<1>6. ASSUME NEW k \in Taps
      PROVE  preFilterBuffer'[k] = 1 <=> Opened(run', k)
  <2>1. CASE k = 1
    <3>1. preFilterBuffer'[k] = 0
      BY <1>1, <2>1 DEF Shifted
    <3>2. ~ Opened(run', k)
      BY <1>3, <1>4, <2>1 DEF Opened, Follows
    <3>3. QED
      BY <3>1, <3>2
  <2>2. CASE k > 1
    <3>1. preFilterBuffer'[k] = preFilterBuffer[k - 1]
      BY <1>1, <1>2, <2>2 DEF Shifted
    <3>2. Opened(run', k) <=> Opened(run, k - 1) \/ Follows(run', k, k - 1)
      BY <1>4, <2>2, OpenedLater DEF TapInv
    <3>3. ~ Follows(run', k, k - 1)
      <4>1. run'[k] \in Nat /\ k - 1 > 0
        BY <1>2, <1>4, <2>2
      <4>2. Follows(run', k, k - 1) => run'[1] = run'[k] + (k - 1)
        BY <1>4, FollowsFirst
      <4>3. QED
        BY <1>2, <1>4, <4>1, <4>2
    <3>4. QED
      BY <1>2, <2>2, <3>1, <3>2, <3>3 DEF TapInv
  <2>3. QED
    BY <1>2, <2>1, <2>2
<1>7. QED
  BY <1>1, <1>2, <1>3, <1>4, <1>5, <1>6 DEF TapInv

\* A high sample.
LEMMA HighTap ==
  ASSUME TapInv, TakeSample(1)
  PROVE  TapInv'
<1> DEFINE n == run[1] + 1
           c == n % CountMod
<1>1. /\ 1 \in Taps
      /\ \A k \in Taps : /\ k \in Nat /\ k >= 1
                         /\ k > 1 => k - 1 \in Taps
  BY FilterSizes DEF Taps
<1>2. run \in [Taps -> Nat] /\ n \in Nat /\ n >= 1
      /\ preFilterCnt = run[1] % CountMod
  BY <1>1 DEF TapInv
<1>3. (preFilterCnt + 1) % CountMod = c
  <2>1. CountMod \in Nat \ {0} /\ run[1] \in Int /\ 1 \in Int
    BY <1>1, <1>2, FilterSizes
  <2>2. QED
    BY <1>2, <2>1, ModAdd
<1>4. c \in 0 .. CountMod - 1
  <2>1. n \in Int
    BY <1>2
  <2>2. QED
    BY <2>1, FilterSizes, DivMod
<1>5. /\ preFilterCnt' = c
      /\ preFilterBuffer' =
           IF c = TriggerLevel
             THEN [k \in Taps |-> IF k <= TriggerLevel THEN 1 ELSE Shifted[k]]
           ELSE IF c > TriggerLevel THEN [Shifted EXCEPT ![1] = 1]
           ELSE Shifted
      /\ run' = [k \in Taps |-> IF k > 1 THEN run[k - 1] ELSE run[1] + 1]
  <2>1. PreFilter(1) /\ (preFilterCnt + 1) % CountMod = c
    BY <1>3 DEF TakeSample, rfReceiveUpdate
  <2>2. run' = [k \in Taps |-> IF k > 1 THEN run[k - 1] ELSE run[1] + 1]
    BY DEF TakeSample
  <2> HIDE DEF c
  <2>3. PreFilter(1) =>
          /\ preFilterCnt' = c
          /\ preFilterBuffer' =
               CASE c = TriggerLevel ->
                      [k \in Taps |->
                         IF k <= TriggerLevel THEN 1 ELSE Shifted[k]]
                 [] c > TriggerLevel -> [Shifted EXCEPT ![1] = 1]
                 [] OTHER -> Shifted
    BY <2>1 DEF PreFilter
  <2>4. ~ (c = TriggerLevel /\ c > TriggerLevel)
    BY <1>4, FilterSizes
  <2>5. QED
    BY <2>1, <2>2, <2>3, <2>4
<1>6. /\ run' \in [Taps -> Nat] /\ run'[1] = n
      /\ \A k \in Taps : k > 1 => run'[k] = run[k - 1]
  BY <1>1, <1>2, <1>5
<1>7. preFilterBuffer' \in [Taps -> Bit]
  BY FilterBit DEF TakeSample, rfReceiveUpdate, Bit
<1> HIDE DEF n, c
<1>8. ASSUME NEW k \in Taps, k <= n
      PROVE  run'[k] + k = n + 1
  <2>1. CASE k = 1
    BY <1>2, <1>6, <2>1
  <2>2. CASE k > 1
    <3>1. k - 1 \in Taps /\ k - 1 <= run[1]
      BY <1>1, <1>2, <1>8, <2>2 DEF n
    <3>2. run[k - 1] + (k - 1) = run[1] + 1
      BY <3>1 DEF TapInv
    <3>3. run[k - 1] \in Nat
      BY <1>2, <3>1
    <3>4. QED
      BY <1>1, <1>2, <1>6, <2>2, <3>2, <3>3 DEF n
  <2>3. QED
    BY <1>1, <2>1, <2>2
<1>9. ASSUME NEW k \in Taps
      PROVE  preFilterBuffer'[k] = 1 <=> Opened(run', k)
  <2>1. CASE k = 1
    <3>1. preFilterBuffer'[k] = 1 <=> c >= TriggerLevel
      <4>1. Shifted[1] = 0 /\ Shifted \in [Taps -> {Shifted[i] : i \in Taps}]
        BY <1>1 DEF Shifted
      <4>2. QED
        BY <1>1, <1>5, <1>4, <2>1, <4>1, FilterSizes
    <3>2. Opened(run', 1) <=> Follows(run', 1, 1 - 1)
      BY DEF Opened
    <3>3. Follows(run', 1, 1 - 1) <=>
            c > 0 /\ c + (1 - 1) \in TriggerLevel .. CountMod - 1
      BY <1>1, <1>2, <1>6, FollowsFirst DEF c
    <3>4. QED
      BY <1>4, <2>1, <3>1, <3>2, <3>3, FilterSizes
  <2>2. CASE k > 1
    <3> DEFINE m == run[k - 1]
               f == m % CountMod
    <3>1. /\ k \in Nat /\ k - 1 \in Taps /\ m \in Nat /\ run'[k] = m
          /\ f \in 0 .. CountMod - 1
      <4>1. /\ k \in Nat /\ k - 1 \in Taps /\ m \in Nat /\ m \in Int
            /\ run'[k] = m
        BY <1>1, <1>2, <1>6, <2>2
      <4>2. f \in 0 .. CountMod - 1
        BY <4>1, FilterSizes, DivMod
      <4>3. QED
        BY <4>1, <4>2
    <3>2. Opened(run', k) <=> Opened(run, k - 1) \/ Follows(run', k, k - 1)
      BY <1>2, <1>6, <2>2, OpenedLater
    <3>3. Follows(run', k, k - 1) <=>
            /\ f > 0 /\ m > 0 /\ n = m + (k - 1)
            /\ f + (k - 1) \in TriggerLevel .. CountMod - 1
      BY <1>6, <3>1, FollowsFirst
    <3>4. Opened(run, k - 1) <=> preFilterBuffer[k - 1] = 1
      BY <3>1 DEF TapInv
    <3>5. Shifted[k] = preFilterBuffer[k - 1]
      BY <2>2 DEF Shifted
    <3>6. preFilterBuffer'[k] = IF c = TriggerLevel /\ k <= TriggerLevel THEN 1
                                ELSE preFilterBuffer[k - 1]
      <4>1. Shifted \in [Taps -> {Shifted[i] : i \in Taps}]
        BY DEF Shifted
      <4>2. QED
        BY <1>5, <2>2, <3>5, <4>1
    <3>7. ASSUME Follows(run', k, k - 1)
          PROVE  c = f + (k - 1)
      <4>1. /\ f + (k - 1) \in 0 .. CountMod - 1 /\ n = m + (k - 1)
            /\ k - 1 \in Int
        BY <3>1, <3>3, <3>7, FilterSizes
      <4>2. (m + (k - 1)) % CountMod = f + (k - 1)
        BY <3>1, <4>1, NoWrap
      <4>3. QED
        BY <4>1, <4>2 DEF c
    <3>8. ASSUME c = TriggerLevel, k <= TriggerLevel
          PROVE  Follows(run', k, k - 1)
      <4>1. c <= n
        <5>1. CASE n < CountMod
          <6>1. n \in 0 .. CountMod - 1
            BY <1>2, <5>1, FilterSizes
          <6>2. c = n
            BY <6>1, FilterSizes, NearMod DEF c
          <6>3. QED
            BY <1>2, <6>2
        <5>2. QED
          BY <1>2, <1>4, <5>1, FilterSizes
      <4>2. m + k = n + 1
        BY <1>2, <1>4, <1>8, <3>1, <3>8, <4>1, FilterSizes
      <4>3. c + (1 - k) \in 0 .. CountMod - 1 /\ 1 - k \in Int
        BY <1>4, <2>2, <3>1, <3>8, FilterSizes
      <4>4. (n + (1 - k)) % CountMod = c + (1 - k)
        BY <1>2, <4>3, NoWrap DEF c
      <4>5. m = n + (1 - k)
        BY <1>2, <3>1, <4>2
      <4>6. f = c + (1 - k)
        BY <4>4, <4>5
      <4>7. QED
        BY <1>2, <1>4, <2>2, <3>1, <3>3, <3>8, <4>1, <4>5, <4>6, FilterSizes
    <3> HIDE DEF m, f
    <3>9. ASSUME Follows(run', k, k - 1), ~ (c = TriggerLevel /\ k <= TriggerLevel)
          PROVE  Opened(run, k - 1)
      <4>1. /\ f > 0 /\ m > 0 /\ n = m + (k - 1) /\ c = f + (k - 1)
            /\ c \in TriggerLevel .. CountMod - 1
        BY <3>3, <3>7, <3>9
      <4>2. c > TriggerLevel
        BY <1>4, <2>2, <3>1, <3>9, <4>1, FilterSizes
      <4>3. run[1] = m + (k - 2) /\ f + (k - 2) \in TriggerLevel .. CountMod - 1
        BY <1>1, <1>2, <2>2, <3>1, <4>1, <4>2, FilterSizes DEF n
      <4>4. (k - 1) - 1 = k - 2
        BY <3>1
      <4>5. Follows(run, k - 1, (k - 1) - 1)
        <5>1. Follows(run, k - 1, (k - 1) - 1) <=>
                /\ run[k - 1] % CountMod > 0
                /\ run[k - 1] > 0 /\ run[1] = run[k - 1] + ((k - 1) - 1)
                /\ (run[k - 1] % CountMod) + ((k - 1) - 1)
                     \in TriggerLevel .. CountMod - 1
          BY <1>2, <3>1, FollowsFirst, Zenon
        <5>2. QED
          BY <4>1, <4>3, <4>4, <5>1 DEF m, f
      <4>6. (k - 1) - 1 \in 0 .. (k - 1) - 1
        BY <2>2, <3>1
      <4>7. QED
        BY <4>5, <4>6 DEF Opened
    <3>10. QED
      BY <3>2, <3>4, <3>6, <3>8, <3>9
  <2>3. QED
    BY <1>1, <2>1, <2>2
<1>10. /\ preFilterCnt' = run'[1] % CountMod
       /\ \A k \in Taps : k <= run'[1] => run'[k] + k = run'[1] + 1
  BY <1>5, <1>6, <1>8 DEF c
<1>11. QED
  BY <1>6, <1>7, <1>9, <1>10 DEF TapInv

LEMMA TapNext ==
  ASSUME TapInv, [FilterNext]_filterVars
  PROVE  TapInv'
<1>1. CASE UNCHANGED filterVars
  BY <1>1 DEF filterVars, TapInv
<1>2. QED
  BY <1>1, LowTap, HighTap DEF FilterNext, Bit

LEMMA TapOpens == TapInv => FilterOpens
<1> SUFFICES ASSUME TapInv PROVE FilterOpens
  OBVIOUS
<1>1. FilterBits \in Taps
  BY FilterSizes DEF Taps
<1>2. preFilterBuffer[FilterBits] = 1 <=> Opened(run, FilterBits)
  BY <1>1 DEF TapInv
<1>3. run[FilterBits] % CountMod \in Int
  BY <1>1, FilterSizes, DivMod DEF TapInv
<1>4. QED
  BY <1>2, <1>3, FilterSizes DEF FilterOpens, SameRun, Opened, Follows

-----------------------------------------------------------------------------
(* The ring.                                                               *)

\* The history of the samples that passed, when another one has passed.
LEMMA ShiftIn ==
  ASSUME NEW f \in [Samples -> Bit], NEW b \in Bit
  PROVE  /\ Append(Tail(f), b) \in [Samples -> Bit]
         /\ Append(Tail(f), b)[Ring] = b
         /\ \A k \in 1 .. Ring - 1 : Append(Tail(f), b)[k] = f[k + 1]
<1> DEFINE t == Tail(f)
           g == Append(t, b)
<1>1. f \in Seq(Bit) /\ Len(f) = Ring /\ f # <<>>
  <2>1. f \in Seq(Bit)
    BY RingSize, IsASeq DEF Samples
  <2>2. DOMAIN f = 1 .. Ring
    BY DEF Samples
  <2>3. Len(f) = Ring
    BY <2>1, <2>2, RingSize, LenProperties
  <2>4. QED
    BY <2>1, <2>3, RingSize, EmptySeq
<1>2. /\ t \in Seq(Bit) /\ Len(t) = Ring - 1
      /\ \A k \in 1 .. Ring - 1 : t[k] = f[k + 1]
  <2>1. /\ t \in Seq(Bit) /\ Len(t) = Len(f) - 1
        /\ \A k \in 1 .. Len(t) : t[k] = f[k + 1]
    BY <1>1, HeadTailProperties
  <2>2. QED
    BY <1>1, <2>1, RingSize
<1> HIDE DEF t
<1>3. /\ g \in Seq(Bit) /\ Len(g) = Len(t) + 1 /\ g[Len(t) + 1] = b
      /\ \A k \in 1 .. Len(t) : g[k] = t[k]
  BY <1>2, AppendProperties
<1> HIDE DEF g
<1>4. Len(g) = Ring /\ g[Ring] = b
  BY <1>2, <1>3, RingSize
<1>5. g \in [Samples -> Bit]
  BY <1>3, <1>4, LenProperties DEF Samples
<1>6. \A k \in 1 .. Ring - 1 : g[k] = f[k + 1]
  BY <1>2, <1>3
<1>7. QED
  BY <1>4, <1>5, <1>6 DEF g, t

\* The samples of a slot, as places in the history.
LEMMA SlotSamples ==
  ASSUME NEW q \in Slots
  PROVE  /\ q * ByteBits \in Nat
         /\ q * ByteBits + ByteBits <= Ring
         /\ (q + 1) * ByteBits = q * ByteBits + ByteBits
         /\ q = DataBytes - 1 => q * ByteBits + ByteBits = Ring
<1>1. q \in Nat /\ (DataBytes - 1) - q \in Nat /\ Ring = DataBytes * ByteBits
  BY FilterSizes DEF Slots, Ring
<1>2. ((DataBytes - 1) - q) * ByteBits \in Nat /\ q * ByteBits \in Nat
  BY <1>1, FilterSizes
<1>3. ((DataBytes - 1) - q) * ByteBits = Ring - (q * ByteBits + ByteBits)
  BY <1>1, FilterSizes
<1>4. (q + 1) * ByteBits = q * ByteBits + ByteBits
  BY <1>1, FilterSizes
<1>5. q = DataBytes - 1 => q * ByteBits + ByteBits = Ring
  BY <1>1, FilterSizes
<1>6. Ring \in Int
  BY RingSize
<1>7. QED
  BY <1>2, <1>3, <1>4, <1>5, <1>6, FilterSizes

LEMMA SlotAtType ==
  ASSUME RingTypeOK, NEW q \in Slots
  PROVE  SlotAt(q) \in Slots
<1>1. dataP + q \in Int
  BY DEF RingTypeOK, Slots
<1>2. QED
  BY <1>1, FilterSizes, DivMod DEF SlotAt, Slots

\* When the write position has moved on, every slot is one less behind it.
LEMMA SlotAtNext ==
  ASSUME NEW p \in Slots, NEW q \in Slots
  PROVE  /\ q = DataBytes - 1 => (((p + 1) % DataBytes) + q) % DataBytes = p
         /\ q # DataBytes - 1 =>
              /\ (((p + 1) % DataBytes) + q) % DataBytes
                   = (p + (q + 1)) % DataBytes
              /\ (p + (q + 1)) % DataBytes # p
<1>1. /\ p \in 0 .. DataBytes - 1 /\ q \in 0 .. DataBytes - 1
      /\ DataBytes \in Nat \ {0} /\ p + 1 \in Int /\ q \in Int
  BY FilterSizes DEF Slots
<1>2. (((p + 1) % DataBytes) + q) % DataBytes = ((p + 1) + q) % DataBytes
  BY <1>1, ModAdd
<1> DEFINE m == p + (q + 1)
<1>3. (p + 1) + q = m /\ m \in Int
  BY <1>1
<1>4. m \in 0 .. 2 * DataBytes - 1
  BY <1>1
<1> HIDE DEF m
<1>5. CASE m < DataBytes
  <2>1. m \in 0 .. DataBytes - 1
    BY <1>1, <1>4, <1>5
  <2>2. m % DataBytes = m
    BY <1>1, <2>1, NearMod
  <2>3. QED
    BY <1>1, <1>2, <1>3, <1>5, <2>2 DEF m
<1>6. CASE m >= DataBytes
  <2>1. m \in DataBytes .. 2 * DataBytes - 1
    BY <1>1, <1>4, <1>6
  <2>2. m % DataBytes = m - DataBytes
    BY <1>1, <1>3, <2>1, NearMod
  <2>3. QED
    BY <1>1, <1>2, <1>3, <2>2 DEF m
<1>7. QED
  BY <1>1, <1>3, <1>5, <1>6

LEMMA OrderInit == FilterInit => OrderInv
<1> SUFFICES ASSUME FilterInit PROVE OrderInv
  OBVIOUS
<1>1. /\ buffer = <<>> /\ passed = [k \in Samples |-> 0]
      /\ data = [slot \in Slots |-> [b \in 1 .. ByteBits |-> 0]]
  BY DEF FilterInit, RingInit, Samples
<1>2. RingTypeOK
  BY RingTypesInit
<1>3. ASSUME NEW q \in Slots, NEW j \in 1 .. ByteBits
      PROVE  data[SlotAt(q)][j] = passed[(q * ByteBits + j) - Len(buffer)]
  <2>1. (q * ByteBits + j) - Len(buffer) \in Samples
    <3> DEFINE x == q * ByteBits
    <3>1. x \in Nat /\ x + ByteBits <= Ring
      BY SlotSamples
    <3> HIDE DEF x
    <3>2. x + j \in Samples
      BY <3>1, RingSize, FilterSizes DEF Samples
    <3>3. (x + j) - Len(buffer) = x + j
      BY <1>1, <3>1
    <3>4. QED
      BY <3>2, <3>3 DEF x
  <2>2. SlotAt(q) \in Slots
    BY <1>2, SlotAtType
  <2>3. QED
    BY <1>1, <2>1, <2>2
<1>4. Len(buffer) = 0
  BY <1>1
<1>5. passed \in [Samples -> Bit]
  BY <1>1 DEF Bit
<1>6. QED
  BY <1>3, <1>4, <1>5 DEF OrderInv

\* A sample goes into the byte being packed.
LEMMA OrderPacked ==
  ASSUME OrderInv, RingTypeOK, NEW b \in Bit,
         passed' = Append(Tail(passed), b),
         NEW packed \in Seq(Bit), Len(packed) = Len(buffer) + 1,
         \A k \in 1 .. Len(buffer) : packed[k] = buffer[k],
         packed[Len(buffer) + 1] = b,
         Len(packed) < ByteBits, buffer' = packed, data' = data, dataP' = dataP
  PROVE  OrderInv'
<1> DEFINE h == Len(buffer)
           R == Ring
<1>1. /\ passed' \in [Samples -> Bit] /\ passed'[R] = b
      /\ \A k \in 1 .. R - 1 : passed'[k] = passed[k + 1]
  BY ShiftIn DEF OrderInv
<1>2. h \in Nat /\ h + 1 < ByteBits /\ R \in Nat /\ R >= ByteBits
      /\ Len(buffer') = h + 1
  BY RingSize DEF RingTypeOK
<1>3. /\ \A k \in 1 .. h : buffer[k] = passed[R - h + k]
      /\ \A q \in Slots, j \in 1 .. ByteBits :
           q * ByteBits + j > h =>
             data[SlotAt(q)][j] = passed[(q * ByteBits + j) - h]
  BY DEF OrderInv
<1> HIDE DEF h, R
<1>4. ASSUME NEW k \in 1 .. h + 1
      PROVE  buffer'[k] = passed'[R - (h + 1) + k]
  <2>1. CASE k = h + 1
    <3>1. R - (h + 1) + k = R
      BY <1>2, <2>1
    <3>2. QED
      BY <1>1, <2>1, <3>1 DEF h
  <2>2. CASE k # h + 1
    <3>1. /\ k \in 1 .. h /\ R - (h + 1) + k \in 1 .. R - 1
          /\ (R - (h + 1) + k) + 1 = R - h + k
      BY <1>2, <2>2, FilterSizes
    <3>2. buffer'[k] = passed[R - h + k]
      BY <1>3, <3>1 DEF h
    <3>3. QED
      BY <1>1, <3>1, <3>2
  <2>3. QED
    BY <2>1, <2>2
<1>5. ASSUME NEW q \in Slots, NEW j \in 1 .. ByteBits,
             q * ByteBits + j > h + 1
      PROVE  data'[SlotAt(q)'][j] = passed'[(q * ByteBits + j) - (h + 1)]
  <2> DEFINE x == q * ByteBits
  <2>1. x \in Nat /\ x + ByteBits <= R
    BY SlotSamples DEF R
  <2>2. SlotAt(q)' = SlotAt(q)
    BY DEF SlotAt
  <2>3. x + j > h /\ x + j > h + 1
    BY <1>2, <1>5, <2>1, FilterSizes
  <2>4. data[SlotAt(q)][j] = passed[(x + j) - h]
    BY <1>3, <2>3
  <2> HIDE DEF x
  <2>5. (x + j) - (h + 1) \in 1 .. R - 1
        /\ ((x + j) - (h + 1)) + 1 = (x + j) - h
    BY <1>2, <2>1, <2>3, FilterSizes
  <2>6. data'[SlotAt(q)'][j] = passed'[(x + j) - (h + 1)]
    BY <1>1, <2>2, <2>4, <2>5
  <2>7. QED
    BY <2>6 DEF x
<1>6. QED
  BY <1>1, <1>2, <1>4, <1>5, ZenonT(60) DEF OrderInv, R

\* A sample completes a byte, which is stored.
LEMMA OrderStored ==
  ASSUME OrderInv, RingTypeOK, NEW b \in Bit,
         passed' = Append(Tail(passed), b),
         NEW packed \in Seq(Bit), Len(packed) = Len(buffer) + 1,
         \A k \in 1 .. Len(buffer) : packed[k] = buffer[k],
         packed[Len(buffer) + 1] = b,
         Len(packed) = ByteBits, buffer' = <<>>,
         data' = [data EXCEPT ![dataP] = packed],
         dataP' = (dataP + 1) % DataBytes
  PROVE  OrderInv'
<1> DEFINE h == Len(buffer)
           R == Ring
<1>1. /\ passed' \in [Samples -> Bit] /\ passed'[R] = b
      /\ \A k \in 1 .. R - 1 : passed'[k] = passed[k + 1]
  BY ShiftIn DEF OrderInv
<1>2. h \in Nat /\ h + 1 = ByteBits /\ R \in Nat /\ R >= ByteBits
  BY RingSize DEF RingTypeOK
<1>3. /\ \A k \in 1 .. h : buffer[k] = passed[R - h + k]
      /\ \A q \in Slots, j \in 1 .. ByteBits :
           q * ByteBits + j > h =>
             data[SlotAt(q)][j] = passed[(q * ByteBits + j) - h]
  BY DEF OrderInv
<1>4. dataP \in Slots /\ data \in [Slots -> [1 .. ByteBits -> Bit]]
  BY DEF RingTypeOK
<1>5. /\ \A k \in 1 .. h : packed[k] = buffer[k]
      /\ packed[h + 1] = b
  OBVIOUS
<1> HIDE DEF h, R
<1>6. ASSUME NEW q \in Slots, NEW j \in 1 .. ByteBits
      PROVE  data'[SlotAt(q)'][j] = passed'[q * ByteBits + j]
  <2> DEFINE x == q * ByteBits
  <2>1. x \in Nat /\ x + ByteBits <= R /\ (q + 1) * ByteBits = x + ByteBits
        /\ (q = DataBytes - 1 => x + ByteBits = R)
    BY SlotSamples DEF R
  <2>2. SlotAt(q)' = (((dataP + 1) % DataBytes) + q) % DataBytes
    BY DEF SlotAt
  <2>3. CASE q = DataBytes - 1
    <3>1. SlotAt(q)' = dataP
      BY <1>4, <2>2, <2>3, SlotAtNext
    <3>2. data'[SlotAt(q)'] = packed
      BY <1>4, <3>1
    <3>3. x + ByteBits = R
      BY <2>1, <2>3
    <3> HIDE DEF x
    <3>4. CASE j = h + 1
      <4>1. x + j = R
        BY <1>2, <3>3, <3>4
      <4>2. data'[SlotAt(q)'][j] = passed'[x + j]
        BY <1>1, <1>5, <3>2, <3>4, <4>1
      <4>3. QED
        BY <4>2 DEF x
    <3>5. CASE j # h + 1
      <4>1. j \in 1 .. h /\ x + j \in 1 .. R - 1 /\ (x + j) + 1 = R - h + j
        BY <1>2, <2>1, <3>3, <3>5, SMTT(30)
      <4>2. packed[j] = passed[R - h + j]
        BY <1>3, <1>5, <4>1
      <4>3. passed'[x + j] = passed[(x + j) + 1]
        BY <1>1, <4>1
      <4>4. data'[SlotAt(q)'][j] = passed'[x + j]
        BY <3>2, <4>1, <4>2, <4>3
      <4>5. QED
        BY <4>4 DEF x
    <3>6. QED
      BY <3>4, <3>5
  <2>4. CASE q # DataBytes - 1
    <3>1. q + 1 \in Slots
      BY <2>4, FilterSizes DEF Slots
    <3>2. SlotAt(q)' = SlotAt(q + 1) /\ SlotAt(q + 1) # dataP
      BY <1>4, <2>2, <2>4, SlotAtNext DEF SlotAt
    <3>3. SlotAt(q + 1) \in Slots
      BY <3>1, SlotAtType
    <3>4. data'[SlotAt(q)'] = data[SlotAt(q + 1)]
      BY <1>4, <3>2, <3>3
    <3> DEFINE y == (q + 1) * ByteBits
    <3>5. y = x + ByteBits /\ y \in Nat /\ y <= R
      <4>1. (q + 1) * ByteBits + ByteBits <= R /\ (q + 1) * ByteBits \in Nat
        BY <3>1, SlotSamples DEF R
      <4>2. QED
        BY <1>2, <2>1, <4>1, FilterSizes
    <3>6. y + j > h => data[SlotAt(q + 1)][j] = passed[(y + j) - h]
      BY <1>3, <3>1
    <3> HIDE DEF x, y
    <3>7. y + j > h /\ (y + j) - h = (x + j) + 1 /\ x + j \in 1 .. R - 1
      <4>1. y + ByteBits <= R
        BY <3>1, SlotSamples DEF R, y
      <4>2. QED
        BY <1>2, <2>1, <3>5, <4>1, FilterSizes
    <3>8. passed'[x + j] = passed[(x + j) + 1]
      BY <1>1, <3>7
    <3>9. data'[SlotAt(q)'][j] = passed'[x + j]
      BY <3>4, <3>6, <3>7, <3>8
    <3>10. QED
      BY <3>9 DEF x
  <2>5. QED
    BY <2>3, <2>4
<1>7. Len(buffer') = 0
  OBVIOUS
<1>8. ASSUME NEW q \in Slots, NEW j \in 1 .. ByteBits
      PROVE  data'[SlotAt(q)'][j] = passed'[(q * ByteBits + j) - Len(buffer')]
  <2>1. q * ByteBits \in Int
    BY SlotSamples
  <2>2. (q * ByteBits + j) - Len(buffer') = q * ByteBits + j
    BY <1>7, <2>1
  <2>3. data'[SlotAt(q)'][j] = passed'[q * ByteBits + j]
    BY <1>6
  <2>4. QED
    BY <2>2, <2>3, Zenon
<1>9. \A k \in 1 .. Len(buffer') :
        buffer'[k] = passed'[Ring - Len(buffer') + k]
  BY <1>7
<1>10. QED
  BY <1>1, <1>8, <1>9 DEF OrderInv

LEMMA OrderNext ==
  ASSUME RingTypeOK, TapInv, OrderInv, [FilterNext]_filterVars
  PROVE  OrderInv'
<1>1. ASSUME NEW antenna \in Bit, TakeSample(antenna) PROVE OrderInv'
  <2> DEFINE b == preFilterBuffer'[FilterBits]
  <2>1. PreFilter(antenna) /\ Pack(b) /\ passed' = Append(Tail(passed), b)
    BY <1>1 DEF TakeSample, rfReceiveUpdate
  <2>2. b \in Bit
    BY <2>1, FilterBit
  <2> HIDE DEF b
  <2>3. PICK packed \in Seq(Bit) :
           /\ Len(packed) = Len(buffer) + 1
           /\ \A k \in 1 .. Len(buffer) : packed[k] = buffer[k]
           /\ packed[Len(buffer) + 1] = b
           /\ \/ /\ Len(packed) < ByteBits /\ buffer' = packed
                 /\ data' = data /\ dataP' = dataP
              \/ /\ Len(packed) = ByteBits /\ buffer' = <<>>
                 /\ data' = [data EXCEPT ![dataP] = packed]
                 /\ dataP' = (dataP + 1) % DataBytes
    BY <2>1, <2>2, PackCases
  <2>4. QED
    BY <2>1, <2>2, <2>3, OrderPacked, OrderStored
<1>2. CASE UNCHANGED filterVars
  BY <1>2 DEF filterVars, ringVars, OrderInv, SlotAt
<1>3. QED
  BY <1>1, <1>2 DEF FilterNext

LEMMA OrderRing ==
  ASSUME RingTypeOK, OrderInv
  PROVE  RingInOrder
<1> DEFINE h == Len(buffer)
<1>1. SUFFICES ASSUME NEW r \in (h + 1) .. Ring
               PROVE  data[(dataP + (r - 1) \div ByteBits) % DataBytes]
                          [((r - 1) % ByteBits) + 1] = passed[r - h]
  BY DEF RingInOrder, OrderInv
<1>2. h \in Nat
  BY DEF RingTypeOK
<1> DEFINE q == (r - 1) \div ByteBits
           i == (r - 1) % ByteBits
<1>3. /\ r \in Int /\ r >= 1 /\ r > h /\ r <= Ring /\ q \in Int
      /\ i \in 0 .. ByteBits - 1 /\ r - 1 = ByteBits * q + i
  <2>1. r - 1 \in Int /\ r \in Int /\ r >= 1 /\ r > h /\ r <= Ring
    BY <1>2, RingSize
  <2>2. QED
    BY <2>1, FilterSizes, DivMod
<1> HIDE DEF q, i, h
<1>4. q >= 0 /\ q <= DataBytes - 1
  <2>1. CASE q < 0
    <3>1. ((-1) - q) * ByteBits \in Nat
      <4>1. (-1) - q \in Nat
        BY <1>3, <2>1
      <4>2. QED
        BY <4>1, FilterSizes
    <3>2. ((-1) - q) * ByteBits = -ByteBits - (ByteBits * q)
      BY <1>3, FilterSizes
    <3>3. ByteBits * q \in Int
      BY <1>3, FilterSizes
    <3>4. QED
      BY <1>3, <3>1, <3>2, <3>3, FilterSizes
  <2>2. CASE q > DataBytes - 1
    <3>1. (q - DataBytes) * ByteBits \in Nat
      <4>1. q - DataBytes \in Nat
        BY <1>3, <2>2, FilterSizes
      <4>2. QED
        BY <4>1, FilterSizes
    <3>2. (q - DataBytes) * ByteBits = ByteBits * q - Ring
      BY <1>3, FilterSizes DEF Ring
    <3>3. ByteBits * q \in Int
      BY <1>3, FilterSizes
    <3>4. QED
      BY <1>3, <3>1, <3>2, <3>3, FilterSizes, RingSize
  <2>3. QED
    BY <1>3, <2>1, <2>2, FilterSizes
<1>5. q \in Slots /\ i + 1 \in 1 .. ByteBits
  BY <1>3, <1>4, FilterSizes DEF Slots
<1>6. q * ByteBits + (i + 1) = r
  BY <1>3, FilterSizes
<1>7. (q * ByteBits + (i + 1)) - h = r - h
  BY <1>2, <1>3, <1>6, FilterSizes
<1>8. data[SlotAt(q)][i + 1] = passed[(q * ByteBits + (i + 1)) - h]
  BY <1>3, <1>5, <1>6 DEF OrderInv, h
<1>9. QED
  BY <1>7, <1>8 DEF SlotAt, q, i, h

-----------------------------------------------------------------------------
LEMMA FilterInvInit == FilterInit => RingTypeOK /\ TapInv /\ OrderInv
  BY RingTypesInit, TapInit, OrderInit

LEMMA FilterInvNext ==
  RingTypeOK /\ TapInv /\ OrderInv /\ [FilterNext]_filterVars =>
    (RingTypeOK /\ TapInv /\ OrderInv)'
  BY RingTypesNext, TapNext, OrderNext

\* The write position stays in the ring and the counter of the filter a byte.
THEOREM FilterTypes == FilterSpec => []FilterTypeOK
<1>1. RingTypeOK /\ TapInv => FilterTypeOK
  <2> SUFFICES ASSUME RingTypeOK, TapInv PROVE FilterTypeOK
    OBVIOUS
  <2>1. run[1] \in Int
    BY FilterSizes DEF TapInv, Taps
  <2>2. preFilterCnt \in 0 .. CountMod - 1
    BY <2>1, FilterSizes, DivMod DEF TapInv
  <2>3. QED
    BY <2>2 DEF FilterTypeOK, TapInv
<1>2. QED
  BY <1>1, FilterInvInit, FilterInvNext, PTL DEF FilterSpec

\* The filter passes whole every run of TriggerLevel samples, by the counter, and
\* nothing of a shorter one.
THEOREM FilterPasses == FilterSpec => []FilterOpens
  BY TapOpens, FilterInvInit, FilterInvNext, PTL DEF FilterSpec

\* The ring has the latest samples that passed the filter, in their order.
THEOREM RingKeepsOrder == FilterSpec => []RingInOrder
<1>1. RingTypeOK /\ OrderInv => RingInOrder
  BY OrderRing
<1>2. QED
  BY <1>1, FilterInvInit, FilterInvNext, PTL DEF FilterSpec
=============================================================================
