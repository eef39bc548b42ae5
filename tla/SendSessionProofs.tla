------------------------- MODULE SendSessionProofs -------------------------
(***************************************************************************)
(* Proofs about RfTransmit for every packet buffer, every set of packets   *)
(* and every speed of rfSend; and about the session that calls it, for     *)
(* every set of packets and counts and every interleaving of the main loop *)
(* with the interrupts of timers 2 and 3.                                  *)
(***************************************************************************)
EXTENDS SendSession, SequenceTheorems, TLAPS

IInv == TypeOK /\ HandshakeInv

\* What a step leaves alone is visible in every proof.
USE DEF packet, mainVars, historyVars

-----------------------------------------------------------------------------
(***************************************************************************)
(* Copying a packet into the buffer, over whatever was there, leaves a     *)
(* terminated string that can be sent on time if the packet can: neither   *)
(* the terminator nor the bytes behind it belong to a pulse of the packet. *)
(***************************************************************************)
LEMMA TakePacketType ==
  ASSUME TypeOK, string[MaxLen] = Terminator, NEW p \in Packets, TakePacket(p)
  PROVE  /\ string' \in [0 .. MaxLen -> Byte]
         /\ string'[MaxLen] = Terminator
         /\ Len(p) > 0 => string'[0] # Terminator
<1>1. p \in Seq(1 .. MaxByte) /\ Len(p) \in 0 .. MaxLen
  BY TransmitAssumption
<1>2. \A k \in 1 .. Len(p) : p[k] \in 1 .. MaxByte
  BY <1>1, ElementOfSeq
<1>3. \A k \in 0 .. MaxLen : k < Len(p) => p[k + 1] \in 1 .. MaxByte
  BY <1>1, <1>2
<1>4. QED
  BY <1>1, <1>3, TransmitAssumption
     DEF TakePacket, TypeOK, DataOK, Terminator, Byte

LEMMA TakePacketTimely ==
  ASSUME TypeOK, Timely, NEW p \in Packets, TakePacket(p)
  PROVE  BufferTimely'
<1> DEFINE s == string'
<1>1. /\ p \in Seq(1 .. MaxByte) /\ Len(p) \in 1 .. MaxLen
      /\ MaxLen \in Nat /\ MainQuota \in Nat /\ MaxByte \in Nat
  BY TransmitAssumption DEF Timely, PacketTimely
<1>2. \A k \in 0 .. MaxLen : k < Len(p) => s[k] = p[k + 1]
  BY DEF TakePacket
<1>3. s[Len(p)] = Terminator
  BY <1>1 DEF TakePacket
<1>4. SUFFICES ASSUME NEW m \in 0 .. MaxLen, NEW n \in 0 .. MaxLen,
                      \A k \in 0 .. m : s[k] # Terminator,
                      m = 0 \/ s[m] # Marker,
                      Follows(s, m, n)
               PROVE  n - m + 2 <= s[m] * MainQuota
  BY DEF BufferTimely, Follows, Train!Follows, Train!IsPulse
<1>5. /\ n \in (m + 1) .. MaxLen
      /\ s[n] \notin {Terminator, Marker}
      /\ \A k \in (m + 1) .. (n - 1) : s[k] = Marker
  BY <1>4 DEF Follows, Train!Follows, Train!IsPulse, Train!Terminator,
              Train!Marker, Terminator, Marker
<1>6. m < Len(p)
  BY <1>1, <1>3, <1>4
<1>7. n < Len(p)
  <2>1. n # Len(p)
    BY <1>3, <1>5
  <2>2. ~ (n > Len(p))
    BY <1>1, <1>3, <1>5, <1>6 DEF Marker, Terminator
  <2>3. QED
    BY <1>1, <2>1, <2>2
<1>8. s[m] = p[m + 1] /\ s[n] = p[n + 1]
  BY <1>2, <1>6, <1>7
<1>9. \A k \in (m + 2) .. n : p[k] = Marker
  <2>1. SUFFICES ASSUME NEW k \in (m + 2) .. n
                 PROVE  p[k] = Marker
    OBVIOUS
  <2>2. k - 1 \in (m + 1) .. (n - 1) /\ k - 1 \in 0 .. MaxLen /\ k - 1 < Len(p)
    BY <1>1, <1>7
  <2>3. s[k - 1] = p[(k - 1) + 1]
    BY <1>2, <2>2
  <2>4. QED
    BY <1>5, <2>2, <2>3
<1>10. PacketTimely(p)
  BY DEF Timely
<1>11. (n + 1) - (m + 1) + 2 <= p[m + 1] * MainQuota
  <2>1. m + 1 \in 1 .. Len(p) /\ n + 1 \in 1 .. Len(p) /\ m + 1 < n + 1
    BY <1>1, <1>5, <1>6, <1>7
  <2>2. p[n + 1] # Marker
    BY <1>5, <1>8
  <2>3. \A k \in ((m + 1) + 1) .. ((n + 1) - 1) : p[k] = Marker
    BY <1>9
  <2>4. m + 1 = 1 \/ p[m + 1] # Marker
    BY <1>4, <1>8
  <2>5. QED
    BY <1>10, <2>1, <2>2, <2>3, <2>4 DEF PacketTimely
<1>12. QED
  BY <1>8, <1>11

-----------------------------------------------------------------------------
\* The constants as the arithmetic of the proofs needs them.
LEMMA Constants ==
  /\ MaxLen \in Nat \ {0} /\ MaxByte \in Nat \ {0} /\ MainQuota \in Nat
BY TransmitAssumption

\* A step that leaves the buffer alone leaves its deadlines alone.
LEMMA SameBuffer ==
  ASSUME BufferTimely, UNCHANGED string
  PROVE  BufferTimely'
BY DEF BufferTimely, Follows, Train!Follows, Train!IsPulse, Train!Terminator,
       Train!Marker, Terminator, Marker

\* The string goes on after every byte that is not its terminator.
LEMMA StringGoesOn ==
  ASSUME TypeOK, string[MaxLen] = Terminator,
         NEW k \in 0 .. MaxLen, string[k] # Terminator
  PROVE  k + 1 \in 0 .. MaxLen
BY Constants DEF TypeOK, DataOK

\* The pulse that rfSend has reached is the one after the pulse on the air.
LEMMA ReachedPulse ==
  ASSUME TypeOK, OnlyMarkersSince, string[i] \notin {Terminator, Marker},
         NEW j \in 0 .. MaxLen
  PROVE  Follows(string, onAir, j) <=> j = i
BY Constants
   DEF TypeOK, DataOK, OnlyMarkersSince, Follows, Train!Follows, Train!IsPulse,
       Train!Terminator, Train!Marker, Terminator, Marker

\* When rfSend has reached the terminator, the pulse on the air is the last.
LEMMA ReachedEnd ==
  ASSUME TypeOK, OnlyMarkersSince, string[i] = Terminator
  PROVE  Train!IsLast(string, onAir)
BY Constants
   DEF TypeOK, DataOK, OnlyMarkersSince, Train!Follows, Train!IsPulse, Train!IsLast,
       Train!Terminator, Train!Marker, Terminator, Marker

\* The invariant holds before the first packet.
LEMMA InitInv ==
  ASSUME Init
  PROVE  IInv
<1>1. FlagsOK
  BY DEF Init, FlagsOK
<1>2. DataOK
  BY Constants DEF Init, DataOK, Byte, Bit, Terminator
<1>3. BufferInv
  BY Constants DEF Init, BufferInv, BufferTimely
<1>4. QED
  BY <1>1, <1>2, <1>3
     DEF Init, IInv, TypeOK, HandshakeInv, IdleInv, FirstInv, FetchInv,
         StoreInv, AwaitInv, DrainInv, AirInv, DeadlineInv
-----------------------------------------------------------------------------
(***************************************************************************)
(* Every step preserves the invariant.  First the steps of rfSend.         *)
(***************************************************************************)

\* A step of rfSend keeps the deadline if it pays off one of the steps owed,
\* or leaves none.
LEMMA DeadlineKept ==
  ASSUME DataOK, DeadlineInv, MainStep, pc # "idle",
         UNCHANGED <<string, onAir, currentTime>>,
         \A j \in 0 .. MaxLen :
           /\ Owes(j) \in Int /\ Owes(j)' \in Int
           /\ Follows(string, onAir, j)
                => Owes(j)' <= 0 \/ Owes(j)' <= Owes(j) - 1
  PROVE  DeadlineInv'
<1> DEFINE left == currentTime * MainQuota
<1>1. left \in Nat /\ ran \in 0 .. MainQuota /\ MainQuota \in Nat
  BY Constants DEF DataOK, Byte
<1>2. SUFFICES ASSUME onAir >= 0, NEW j \in 0 .. MaxLen,
                      Follows(string, onAir, j)
               PROVE  Owes(j)' <= (left + (MainQuota - ran))'
  BY DEF DeadlineInv, Follows, Train!Follows, Train!IsPulse, Train!Marker,
         Train!Terminator
<1>3. Owes(j) <= left + (MainQuota - ran)
  BY <1>2 DEF DeadlineInv
<1>4. left' = left
  OBVIOUS
<1> HIDE DEF left
<1>5. Owes(j)' <= 0 \/ Owes(j)' <= Owes(j) - 1
  BY <1>2
<1>6. Owes(j)' <= left + (MainQuota - ran')
  BY <1>1, <1>3, <1>5 DEF MainStep
<1>7. QED
  BY <1>4, <1>6, <1>1

LEMMA FirstLoadedInv ==
  ASSUME IInv, FirstLoaded
  PROVE  IInv'
<1> USE DEF IInv, TypeOK, HandshakeInv, FirstLoaded
<1>1. FlagsOK'
  BY DEF FlagsOK
<1>2. DataOK'
  BY Constants DEF DataOK, Byte, Bit, MainStep
<1>3. BufferInv'
  <2>1. BufferTimely'
    BY SameBuffer DEF BufferInv
  <2>2. QED
    BY <2>1, Constants DEF DataOK, BufferInv
<1>4. (FetchInv /\ FirstInv /\ IdleInv /\ StoreInv /\ AwaitInv /\ DrainInv)'
  BY Constants
     DEF FirstInv, FetchInv, IdleInv, StoreInv, AwaitInv, DrainInv, DataOK,
         OnlyMarkersSince, MarkerNoted, NoneOffered
<1>5. AirInv'
  BY DEF AirInv, Train!IsLast, Train!Follows, Train!IsPulse, Train!Marker,
         Train!Terminator, Marker, Terminator
<1>6. DeadlineInv'
  <2>1. \A j \in 0 .. MaxLen :
          Owes(j) \in Int /\ Owes(j)' \in Int /\ Owes(j)' <= Owes(j) - 1
    BY Constants DEF Owes, DataOK, FirstInv
  <2>2. QED
    BY DeadlineKept, <2>1
<1>7. QED
  BY <1>1, <1>2, <1>3, <1>4, <1>5, <1>6

LEMMA NewPacketInv ==
  ASSUME Timely, IInv, NEW p \in Packets, NewPacket(p)
  PROVE  IInv'
<1> USE DEF IInv, TypeOK, HandshakeInv, NewPacket
<1>1. FlagsOK'
  BY DEF FlagsOK
<1>2. string' \in [0 .. MaxLen -> Byte] /\ string'[MaxLen] = Terminator
      /\ string'[0] # Terminator
  BY TakePacketType DEF BufferInv, Timely, PacketTimely
<1>3. DataOK'
  BY <1>2 DEF DataOK
<1>4. BufferTimely'
  BY TakePacketTimely
<1>5. BufferInv'
  BY <1>2, <1>4 DEF BufferInv
<1>6. (IdleInv /\ FirstInv /\ FetchInv /\ StoreInv /\ AwaitInv /\ DrainInv)'
  BY DEF IdleInv, FirstInv, FetchInv, StoreInv, AwaitInv, DrainInv
<1>7. (AirInv /\ DeadlineInv)'
  BY DEF AirInv, DeadlineInv, IdleInv
<1>8. QED
  BY <1>1, <1>3, <1>5, <1>6, <1>7

LEMMA StartInv ==
  ASSUME IInv, Start
  PROVE  IInv'
<1> USE DEF IInv, TypeOK, HandshakeInv, Start
<1>1. FlagsOK'
  BY DEF FlagsOK
<1>2. DataOK'
  BY Constants DEF DataOK, Byte, Bit
<1>3. BufferInv'
  <2>1. BufferTimely'
    BY SameBuffer DEF BufferInv
  <2>2. QED
    BY <2>1, Constants DEF DataOK, BufferInv
<1>4. (FetchInv /\ FirstInv /\ IdleInv /\ StoreInv /\ AwaitInv /\ DrainInv)'
  BY DEF FirstInv, FetchInv, IdleInv, StoreInv, AwaitInv, DrainInv
<1>5. (AirInv /\ DeadlineInv)'
  BY DEF AirInv, DeadlineInv
<1>6. QED
  BY <1>1, <1>2, <1>3, <1>4, <1>5

LEMMA FetchMarkerInv ==
  ASSUME IInv, FetchMarker
  PROVE  IInv'
<1> USE DEF IInv, TypeOK, HandshakeInv, FetchMarker
<1>1. FlagsOK'
  BY DEF FlagsOK
<1>2. i + 1 \in 0 .. MaxLen
  BY StringGoesOn DEF DataOK, BufferInv, Marker, Terminator
<1>3. DataOK'
  BY <1>2, Constants DEF DataOK, Byte, Bit, MainStep
<1>4. BufferInv'
  <2>1. BufferTimely'
    BY SameBuffer DEF BufferInv
  <2>2. QED
    BY <2>1, Constants
       DEF DataOK, BufferInv, Marker, Terminator
<1>5. FetchInv'
  BY Constants
     DEF FetchInv, DataOK, OnlyMarkersSince, MarkerNoted, NoneOffered
<1>6. (FirstInv /\ IdleInv /\ StoreInv /\ AwaitInv /\ DrainInv)'
  BY DEF FirstInv, IdleInv, StoreInv, AwaitInv, DrainInv
<1>7. AirInv'
  BY DEF AirInv, Train!IsLast, Train!Follows, Train!IsPulse, Train!Marker,
         Train!Terminator, Marker, Terminator
<1>8. DeadlineInv'
  <2>1. \A j \in 0 .. MaxLen :
          Owes(j) = j - i + 2 /\ Owes(j)' = j - (i + 1) + 2
    BY DEF Owes
  <2>2. \A j \in 0 .. MaxLen :
          Owes(j) \in Int /\ Owes(j)' \in Int /\ Owes(j)' <= Owes(j) - 1
    BY <2>1, Constants DEF DataOK
  <2>3. QED
    BY DeadlineKept, <2>2
<1>9. QED
  BY <1>1, <1>3, <1>4, <1>5, <1>6, <1>7, <1>8

LEMMA FetchPulseInv ==
  ASSUME IInv, FetchPulse
  PROVE  IInv'
<1> USE DEF IInv, TypeOK, HandshakeInv, FetchPulse
<1>1. FlagsOK'
  BY DEF FlagsOK
<1>2. DataOK'
  BY Constants DEF DataOK, Byte, Bit, MainStep
<1>3. BufferInv'
  <2>1. BufferTimely'
    BY SameBuffer DEF BufferInv
  <2>2. QED
    BY <2>1 DEF BufferInv
<1>4. StoreInv'
  BY DEF StoreInv, FetchInv, DataOK, OnlyMarkersSince, MarkerNoted,
         NoneOffered
<1>5. (FirstInv /\ IdleInv /\ FetchInv /\ AwaitInv /\ DrainInv)'
  BY DEF FirstInv, IdleInv, FetchInv, AwaitInv, DrainInv
<1>6. AirInv'
  BY DEF AirInv, Train!IsLast, Train!Follows, Train!IsPulse, Train!Marker,
         Train!Terminator, Marker, Terminator
<1>7. DeadlineInv'
  <2>1. \A j \in 0 .. MaxLen : Follows(string, onAir, j) => j = i
    BY ReachedPulse DEF FetchInv
  <2>2. \A j \in 0 .. MaxLen :
          /\ Owes(j) \in Int /\ Owes(j)' \in Int
          /\ j = i => Owes(j)' <= Owes(j) - 1
    BY Constants, SMTT(30) DEF Owes, DataOK
  <2>3. QED
    BY DeadlineKept, <2>1, <2>2
<1>8. QED
  BY <1>1, <1>2, <1>3, <1>4, <1>5, <1>6, <1>7

LEMMA StoreStepInv ==
  ASSUME IInv, Store
  PROVE  IInv'
<1> USE DEF IInv, TypeOK, HandshakeInv, Store
<1>1. FlagsOK'
  BY DEF FlagsOK
<1>2. DataOK'
  BY Constants DEF DataOK, Byte, Bit, MainStep
<1>3. BufferInv'
  <2>1. BufferTimely'
    BY SameBuffer DEF BufferInv
  <2>2. QED
    BY <2>1 DEF BufferInv
<1>4. AwaitInv'
  BY DEF StoreInv, AwaitInv, DataOK, OnlyMarkersSince, MarkerNoted
<1>5. (FirstInv /\ IdleInv /\ FetchInv /\ StoreInv /\ DrainInv)'
  BY DEF FirstInv, IdleInv, FetchInv, StoreInv, DrainInv
<1>6. AirInv'
  BY DEF AirInv, Train!IsLast, Train!Follows, Train!IsPulse, Train!Marker,
         Train!Terminator, Marker, Terminator
<1>7. DeadlineInv'
  <2>1. \A j \in 0 .. MaxLen :
          Owes(j) \in Int /\ Owes(j)' \in Int /\ Owes(j)' <= 0
    BY DEF Owes, StoreInv
  <2>2. QED
    BY DeadlineKept, <2>1
<1>8. QED
  BY <1>1, <1>2, <1>3, <1>4, <1>5, <1>6, <1>7

LEMMA LoadedInv ==
  ASSUME IInv, Loaded
  PROVE  IInv'
<1> USE DEF IInv, TypeOK, HandshakeInv, Loaded
<1>1. FlagsOK'
  BY DEF FlagsOK
<1>2. i + 1 \in 0 .. MaxLen
  BY StringGoesOn DEF DataOK, BufferInv, AwaitInv
<1>3. DataOK'
  BY <1>2, Constants DEF DataOK, Byte, Bit, MainStep
<1>4. BufferInv'
  <2>1. BufferTimely'
    BY SameBuffer DEF BufferInv
  <2>2. QED
    BY <2>1, Constants DEF DataOK, BufferInv, AwaitInv
<1>5. FetchInv'
  BY Constants
     DEF FetchInv, AwaitInv, DataOK, OnlyMarkersSince, MarkerNoted,
         NoneOffered
<1>6. (FirstInv /\ IdleInv /\ StoreInv /\ AwaitInv /\ DrainInv)'
  BY DEF FirstInv, IdleInv, StoreInv, AwaitInv, DrainInv
<1>7. AirInv'
  BY DEF AirInv, Train!IsLast, Train!Follows, Train!IsPulse, Train!Marker,
         Train!Terminator, Marker, Terminator
<1>8. DeadlineInv'
  <2>1. \A j \in 0 .. MaxLen :
          Owes(j) = j - i + 2 /\ Owes(j)' = j - (i + 1) + 2
    BY DEF Owes
  <2>2. \A j \in 0 .. MaxLen :
          Owes(j) \in Int /\ Owes(j)' \in Int /\ Owes(j)' <= Owes(j) - 1
    BY <2>1, Constants DEF DataOK
  <2>3. QED
    BY DeadlineKept, <2>2
<1>9. QED
  BY <1>1, <1>3, <1>4, <1>5, <1>6, <1>7, <1>8

LEMMA FetchEndInv ==
  ASSUME IInv, FetchEnd
  PROVE  IInv'
<1> USE DEF IInv, TypeOK, HandshakeInv, FetchEnd
<1>1. FlagsOK'
  BY DEF FlagsOK
<1>2. DataOK'
  BY Constants DEF DataOK, Byte, Bit, MainStep
<1>3. BufferInv'
  <2>1. BufferTimely'
    BY SameBuffer DEF BufferInv
  <2>2. QED
    BY <2>1 DEF BufferInv
<1>4. DrainInv'
  BY DEF FetchInv, DrainInv, OnlyMarkersSince, NoneOffered
<1>5. (FirstInv /\ IdleInv /\ FetchInv /\ StoreInv /\ AwaitInv)'
  BY DEF FirstInv, IdleInv, FetchInv, StoreInv, AwaitInv
<1>6. AirInv'
  BY DEF AirInv, Train!IsLast, Train!Follows, Train!IsPulse, Train!Marker,
         Train!Terminator, Marker, Terminator
<1>7. DeadlineInv'
  <2>1. \A j \in 0 .. MaxLen :
          Owes(j) \in Int /\ Owes(j)' \in Int /\ Owes(j)' <= 0
    BY DEF Owes, DataOK
  <2>2. QED
    BY DeadlineKept, <2>1
<1>8. QED
  BY <1>1, <1>2, <1>3, <1>4, <1>5, <1>6, <1>7

LEMMA FinishInv ==
  ASSUME IInv, Finish
  PROVE  IInv'
<1> USE DEF IInv, TypeOK, HandshakeInv, Finish
<1>1. FlagsOK'
  BY DEF FlagsOK
<1>2. DataOK'
  BY Constants DEF DataOK, Byte, Bit, MainStep
<1>3. BufferInv'
  <2>1. BufferTimely'
    BY SameBuffer DEF BufferInv
  <2>2. QED
    BY <2>1 DEF BufferInv
<1>4. (FirstInv /\ IdleInv /\ FetchInv /\ StoreInv /\ AwaitInv /\ DrainInv)'
  BY DEF FirstInv, IdleInv, FetchInv, StoreInv, AwaitInv, DrainInv
<1>5. (AirInv /\ DeadlineInv)'
  BY DEF AirInv, DeadlineInv
<1>6. QED
  BY <1>1, <1>2, <1>3, <1>4, <1>5

-----------------------------------------------------------------------------
(***************************************************************************)
(* Then the three ways through the interrupt handler.                      *)
(***************************************************************************)

\* When the pulse on the air is over and nothing is on offer, it was the last:
\* otherwise rfSend would still owe a step that it had no time left for.
LEMMA NothingOwed ==
  ASSUME IInv, rfTransmitUpdate, NothingToLoad, NEW j \in 0 .. MaxLen
  PROVE  onAir >= 0 => ~ Follows(string, onAir, j)
<1>1. SUFFICES ASSUME onAir >= 0, Follows(string, onAir, j)
               PROVE  FALSE
  OBVIOUS
<1> USE DEF IInv, TypeOK, HandshakeInv
<1>2. pc # "idle" /\ (Spinning \/ ran >= MainQuota)
  BY DEF rfTransmitUpdate, IdleInv
<1>3. Owes(j) <= MainQuota - ran
  <2>1. Owes(j) <= currentTime * MainQuota + (MainQuota - ran)
    BY <1>1, <1>2 DEF DeadlineInv
  <2>2. currentTime * MainQuota = 0
    BY Constants DEF NothingToLoad
  <2>3. Owes(j) \in Int /\ ran \in 0 .. MainQuota
    BY Constants DEF Owes, DataOK
  <2>4. QED
    BY <2>1, <2>2, <2>3, Constants
<1>4. j > onAir /\ string[j] \notin {Terminator, Marker}
  BY <1>1, Constants
     DEF Follows, Train!Follows, Train!IsPulse, Train!Terminator, Train!Marker,
         Terminator, Marker, DataOK
<1>5. CASE pc \in {"first", "await"}
  <2>1. newTime /\ j > i
    BY <1>4, <1>5
       DEF FirstInv, AwaitInv, NothingToLoad, Terminator, BufferInv
  <2>2. Owes(j) >= 1 /\ ~ Spinning
    BY <1>5, <2>1, Constants DEF Owes, DataOK, Spinning
  <2>3. QED
    BY <1>2, <1>3, <2>2, Constants, SMTT(30) DEF DataOK, Owes
<1>6. CASE pc = "fetch"
  <2>1. j >= i
    BY <1>4, <1>6, Constants DEF FetchInv, OnlyMarkersSince, DataOK
  <2>2. Owes(j) >= 1 /\ ~ Spinning
    BY <1>6, <2>1, Constants DEF Owes, DataOK, Spinning
  <2>3. QED
    BY <1>2, <1>3, <1>6, <2>2, Constants, SMTT(30) DEF DataOK, Owes
<1>7. CASE pc = "store"
  BY <1>2, <1>3, <1>7, Constants DEF DataOK, Owes, Spinning
<1>8. CASE pc = "drain"
  BY <1>1, <1>8, ReachedEnd DEF DrainInv, Train!IsLast, Follows
<1>9. QED
  BY <1>2, <1>5, <1>6, <1>7, <1>8 DEF DataOK

LEMMA NothingToLoadInv ==
  ASSUME IInv, rfTransmitUpdate, NothingToLoad
  PROVE  IInv'
<1> USE DEF IInv, TypeOK, HandshakeInv, rfTransmitUpdate, NothingToLoad
<1>1. FlagsOK'
  BY DEF FlagsOK
<1>2. onAir >= 0 => Train!IsLast(string, onAir)
  BY NothingOwed DEF Train!IsLast, Follows
<1>3. onAir >= 0 => age >= string[onAir] /\ age' = string[onAir] + 1
  BY Constants DEF AirInv, AgePulse, DataOK, Byte
<1>4. DataOK'
  BY <1>3, Constants DEF DataOK, Byte, Bit, AgePulse
<1>5. BufferInv'
  <2>1. BufferTimely'
    BY SameBuffer DEF BufferInv
  <2>2. QED
    BY <2>1 DEF BufferInv
<1>6. (IdleInv /\ FirstInv)'
  BY DEF IdleInv, FirstInv, NoneOffered, BufferInv, Terminator
<1>7. FetchInv'
  BY DEF FetchInv, NoneOffered, OnlyMarkersSince, MarkerNoted
<1>8. pc # "store"
  <2>1. SUFFICES ASSUME pc = "store" PROVE FALSE
    OBVIOUS
  <2>2. Follows(string, onAir, i)
    BY <2>1, ReachedPulse DEF StoreInv, DataOK
  <2>3. QED
    BY <2>1, <2>2, NothingOwed, Constants
       DEF StoreInv, OnlyMarkersSince, DataOK
<1>9. (StoreInv /\ AwaitInv)'
  BY <1>8 DEF StoreInv, AwaitInv, NoneOffered, OnlyMarkersSince, MarkerNoted,
              Terminator
<1>10. DrainInv'
  BY <1>3, Constants DEF DrainInv, NoneOffered, OnlyMarkersSince, DataOK
<1>11. AirInv'
  BY <1>2, <1>3, Constants
     DEF AirInv, DataOK, Byte, Train!IsLast, Train!Follows, Train!IsPulse,
         Train!Terminator, Train!Marker, Terminator, Marker
<1>12. DeadlineInv'
  BY <1>2 DEF DeadlineInv, Train!IsLast, Follows, Train!Follows, Train!IsPulse,
              Train!Terminator, Train!Marker
<1>13. QED
  BY <1>1, <1>4, <1>5, <1>6, <1>7, <1>9, <1>10, <1>11, <1>12

LEMMA CountDownInv ==
  ASSUME IInv, rfTransmitUpdate, CountDown
  PROVE  IInv'
<1> USE DEF IInv, TypeOK, HandshakeInv, rfTransmitUpdate, CountDown
<1>1. FlagsOK'
  BY DEF FlagsOK
<1>2. onAir >= 0 /\ age + currentTime = string[onAir] /\ age' = age + 1
  BY Constants
     DEF AirInv, IdleInv, FirstInv, FetchInv, StoreInv, AwaitInv, DrainInv,
         OnlyMarkersSince, AgePulse, DataOK, Byte
<1>3. DataOK'
  BY <1>2, Constants DEF DataOK, Byte, Bit
<1>4. BufferInv'
  <2>1. BufferTimely'
    BY SameBuffer DEF BufferInv
  <2>2. QED
    BY <2>1 DEF BufferInv
<1>5. (IdleInv /\ FirstInv /\ FetchInv /\ StoreInv /\ AwaitInv)'
  BY <1>2 DEF IdleInv, FirstInv, FetchInv, StoreInv, AwaitInv, NoneOffered,
              OnlyMarkersSince, MarkerNoted
<1>6. DrainInv'
  BY DEF DrainInv, NoneOffered, OnlyMarkersSince
<1>7. AirInv'
  BY <1>2, Constants DEF AirInv, DataOK, Byte
<1>8. DeadlineInv'
  <2>1. SUFFICES ASSUME pc # "idle", NEW j \in 0 .. MaxLen,
                        Follows(string, onAir, j)
                 PROVE  Owes(j)' <= (currentTime * MainQuota + (MainQuota - ran))'
    BY DEF DeadlineInv, Follows, Train!Follows, Train!IsPulse, Train!Marker,
           Train!Terminator
  <2>2. Owes(j) <= currentTime * MainQuota + (MainQuota - ran)
    BY <1>2, <2>1 DEF DeadlineInv
  <2>3. Owes(j)' = Owes(j) /\ Owes(j) \in Int
    BY Constants DEF Owes, DataOK
  <2>4. currentTime * MainQuota \in Nat
        /\ currentTime * MainQuota
             = (currentTime - 1) * MainQuota + MainQuota
    BY Constants DEF DataOK, Byte
  <2>5. Owes(j) <= currentTime * MainQuota
    <3>1. CASE Spinning
      BY <2>4, <3>1 DEF Spinning, Owes
    <3>2. CASE ran >= MainQuota
      BY <2>2, <2>3, <2>4, <3>2, Constants DEF DataOK
    <3>3. QED
      BY <3>1, <3>2
  <2>6. QED
    BY <2>3, <2>4, <2>5, Constants DEF DataOK, Byte
<1>9. QED
  BY <1>1, <1>3, <1>4, <1>5, <1>6, <1>7, <1>8

\* The pulse that is loaded is the one rfSend has stored and waits for.
LEMMA LoadedPulse ==
  ASSUME IInv, rfTransmitUpdate, LoadNext
  PROVE  /\ pc \in {"first", "await"} /\ ~ newTime
         /\ nextPos = i /\ nextTime = string[i] /\ onAir < i
BY Constants
   DEF IInv, TypeOK, HandshakeInv, rfTransmitUpdate, LoadNext, Load, IdleInv,
       FirstInv, FetchInv, StoreInv, AwaitInv, DrainInv, NoneOffered,
       OnlyMarkersSince, DataOK

LEMMA LoadNextInv ==
  ASSUME IInv, rfTransmitUpdate, LoadNext
  PROVE  IInv'
<1> USE DEF IInv, TypeOK, HandshakeInv, rfTransmitUpdate, LoadNext, Load
<1>1. FlagsOK'
  BY DEF FlagsOK
<1>2. /\ pc \in {"first", "await"} /\ ~ newTime
      /\ nextPos = i /\ nextTime = string[i] /\ onAir < i
  BY LoadedPulse
<1>3. age' = 1
  BY <1>2, Constants DEF AgePulse, DataOK
<1>4. DataOK'
  BY <1>3, Constants DEF DataOK, Byte, Bit
<1>5. BufferInv'
  <2>1. BufferTimely'
    BY SameBuffer DEF BufferInv
  <2>2. QED
    BY <2>1 DEF BufferInv
<1>6. (FirstInv /\ AwaitInv)'
  BY <1>2 DEF FirstInv, AwaitInv, NoneOffered
<1>7. (IdleInv /\ FetchInv /\ StoreInv /\ DrainInv)'
  BY <1>2 DEF IdleInv, FetchInv, StoreInv, DrainInv
<1>8. AirInv'
  BY <1>2, <1>3, Constants DEF AirInv, FirstInv, AwaitInv, BufferInv, DataOK,
                             Byte, Terminator, Marker
<1>9. DeadlineInv'
  <2>1. SUFFICES ASSUME NEW j \in 0 .. MaxLen, Follows(string, i, j)
                 PROVE  Owes(j)' <= (currentTime * MainQuota + (MainQuota - ran))'
    BY <1>2 DEF DeadlineInv, Follows, Train!Follows, Train!IsPulse,
                Train!Marker, Train!Terminator
  <2>2. j - i + 2 <= string[i] * MainQuota
    <3>1. \A k \in 0 .. i : string[k] # Terminator
      BY <1>2, Constants DEF BufferInv, FirstInv, AwaitInv, DataOK
    <3>2. i = 0 \/ string[i] # Marker
      BY <1>2 DEF FirstInv, AwaitInv
    <3>3. QED
      BY <2>1, <3>1, <3>2 DEF BufferInv, BufferTimely, DataOK
  <2>3. Owes(j)' = j - i + 2
    BY <1>2 DEF Owes
  <2>4. (string[i] - 1) * MainQuota + MainQuota = string[i] * MainQuota
        /\ (string[i] - 1) * MainQuota \in Int
    BY Constants DEF DataOK, Byte
  <2>5. (currentTime * MainQuota)' = (string[i] - 1) * MainQuota
    BY <1>2
  <2>6. QED
    BY <2>2, <2>3, <2>4, <2>5, Constants DEF DataOK
<1>10. QED
  BY <1>1, <1>4, <1>5, <1>6, <1>7, <1>8, <1>9

-----------------------------------------------------------------------------
LEMMA NextInv ==
  ASSUME Timely, IInv, [Next]_vars
  PROVE  IInv'
<1>1. CASE UNCHANGED vars
  BY <1>1
     DEF vars, IInv, TypeOK, FlagsOK, DataOK,
         HandshakeInv, BufferInv, BufferTimely, IdleInv, FirstInv, FetchInv,
         StoreInv, AwaitInv, DrainInv, AirInv, DeadlineInv, NoneOffered,
         OnlyMarkersSince, MarkerNoted, Owes, Follows, Train!Follows,
         Train!IsPulse, Train!IsLast, Train!Terminator, Train!Marker
<1>2. ASSUME NEW p \in Packets, NewPacket(p) PROVE IInv'
  BY <1>2, NewPacketInv
<1>3. CASE rfSend
  BY <1>3, StartInv, FirstLoadedInv, FetchMarkerInv, FetchPulseInv,
     StoreStepInv, LoadedInv, FetchEndInv, FinishInv DEF rfSend
<1>4. CASE rfTransmitUpdate
  BY <1>4, NothingToLoadInv, LoadNextInv, CountDownInv DEF rfTransmitUpdate
<1>5. QED
  BY <1>1, <1>2, <1>3, <1>4 DEF Next

\* When rfSend is on time, it and the interrupt agree at every moment on the
\* pulse on the air, the pulse on offer, the level of the next pulse and the
\* time left until rfSend must have stored another.
THEOREM Handshake ==
  ASSUME Timely
  PROVE  Spec => []HandshakeInv
<1>1. Init => IInv
  BY InitInv
<1>2. IInv /\ [Next]_vars => IInv'
  BY NextInv
<1>3. IInv => HandshakeInv
  BY DEF IInv
<1>4. QED
  BY <1>1, <1>2, <1>3, PTL DEF Spec

-----------------------------------------------------------------------------
(***************************************************************************)
(* rfSend and the interrupt together implement PulseTrain.                 *)
(***************************************************************************)
LEMMA InitImplements ==
  ASSUME Init
  PROVE  Train!Init
<1>1. string \in [0 .. MaxLen -> 0 .. MaxByte]
  BY Constants DEF Init, Terminator
<1>2. QED
  BY <1>1 DEF Init, Train!Init

LEMMA SendImplements ==
  ASSUME IInv, rfSend
  PROVE  [Train!Next]_Train!trainVars
<1> USE DEF IInv, TypeOK, HandshakeInv
<1>1. CASE Start
  BY <1>1 DEF Start, IdleInv, Train!Begin, Train!Next
<1>2. CASE FirstLoaded \/ FetchMarker \/ FetchPulse \/ Store \/ Loaded \/ FetchEnd
  <2>1. UNCHANGED Train!trainVars
    BY <1>2 DEF FirstLoaded, FetchMarker, FetchPulse, Store, Loaded, FetchEnd,
                Train!trainVars
  <2>2. QED
    BY <2>1
<1>3. CASE Finish
  <2>1. onAir >= 0 /\ Train!IsLast(string, onAir) /\ age >= string[onAir]
    BY <1>3, ReachedEnd, Constants
       DEF Finish, DrainInv, OnlyMarkersSince, DataOK, Byte
  <2>2. Train!End
    BY <1>3, <2>1 DEF Finish, Train!End
  <2>3. QED
    BY <2>2 DEF Train!Next, Train!Play
<1>4. QED
  BY <1>1, <1>2, <1>3 DEF rfSend

LEMMA InterruptImplements ==
  ASSUME IInv, rfTransmitUpdate
  PROVE  [Train!Next]_Train!trainVars
<1> USE DEF IInv, TypeOK, HandshakeInv
<1>1. pc # "idle" /\ pc' # "idle" /\ UNCHANGED string
  BY DEF rfTransmitUpdate, IdleInv
<1>2. CASE NothingToLoad
  <2>1. onAir >= 0 => Train!IsLast(string, onAir)
    BY <1>2, NothingOwed DEF Train!IsLast, Follows
  <2>2. CASE onAir < 0
    BY <1>2, <2>2, Constants
       DEF rfTransmitUpdate, NothingToLoad, IdleInv, FirstInv, FetchInv,
           StoreInv, AwaitInv, DrainInv, OnlyMarkersSince, DataOK, BufferInv,
           Terminator, NoneOffered
  <2>3. CASE onAir >= 0 /\ age = string[onAir]
    <3>1. Train!Linger
      BY <1>1, <1>2, <2>1, <2>3, Constants
         DEF rfTransmitUpdate, NothingToLoad, AgePulse, DataOK, Train!Linger
    <3>2. QED
      BY <3>1 DEF Train!Next
  <2>4. CASE onAir >= 0 /\ age # string[onAir]
    <3>1. age = string[onAir] + 1
      BY <1>2, <2>4, Constants DEF AirInv, NothingToLoad, DataOK, Byte
    <3>2. UNCHANGED Train!trainVars
      BY <1>1, <1>2, <3>1, Constants
         DEF rfTransmitUpdate, NothingToLoad, AgePulse, DataOK, Byte,
             Train!trainVars
    <3>3. QED
      BY <3>2
  <2>5. QED
    BY <2>2, <2>3, <2>4 DEF DataOK
<1>3. CASE LoadNext
  <2>1. /\ pc \in {"first", "await"} /\ ~ newTime
        /\ nextPos = i /\ nextTime = string[i] /\ onAir < i
    BY <1>3, LoadedPulse
  <2>2. age' = 1 /\ onAir' = i
    BY <1>3, <2>1, Constants
       DEF rfTransmitUpdate, LoadNext, Load, AgePulse, DataOK
  <2>3. CASE pc = "first"
    <3>1. Train!FirstPulse
      BY <1>1, <1>3, <2>1, <2>2, <2>3
         DEF LoadNext, Load, FirstInv, Train!FirstPulse
    <3>2. QED
      BY <3>1 DEF Train!Next, Train!Play
  <2>4. CASE pc = "await"
    <3>1. Follows(string, onAir, i) /\ onAir >= 0
      BY <2>1, <2>4, ReachedPulse, Constants
         DEF AwaitInv, DataOK, OnlyMarkersSince
    <3>2. age = string[onAir]
      BY <1>3, <3>1, Constants
         DEF AirInv, LoadNext, Load, DataOK, Byte, Train!IsLast, Follows
    <3>3. sender' = IF i = onAir + 1 THEN 1 - sender ELSE sender
      BY <1>3, <2>1, <2>4, <3>1, Constants
         DEF LoadNext, Load, AwaitInv, MarkerNoted, OnlyMarkersSince, DataOK
    <3>4. Train!NextPulse
      BY <1>1, <2>2, <3>1, <3>2, <3>3 DEF Train!NextPulse, Follows, DataOK
    <3>5. QED
      BY <3>4 DEF Train!Next, Train!Play
  <2>5. QED
    BY <2>1, <2>3, <2>4
<1>4. CASE CountDown
  <2>1. onAir >= 0 /\ age + currentTime = string[onAir] /\ age' = age + 1
    BY <1>4, Constants
       DEF rfTransmitUpdate, CountDown, AirInv, IdleInv, FirstInv, FetchInv,
           StoreInv, AwaitInv, DrainInv, OnlyMarkersSince, AgePulse, DataOK,
           Byte
  <2>2. Train!Hold
    BY <1>1, <1>4, <2>1, Constants DEF CountDown, Train!Hold, DataOK, Byte
  <2>3. QED
    BY <2>2 DEF Train!Next, Train!Play
<1>5. QED
  BY <1>2, <1>3, <1>4 DEF rfTransmitUpdate

\* The safety part of PlaysThePacket for every set of timely packets: the
\* pulses go on the air in order, none left out, each for exactly its length.
THEOREM PlaysInOrder ==
  ASSUME Timely
  PROVE  Spec => Train!Spec
<1>1. Init => IInv
  BY InitInv
<1>2. IInv /\ [Next]_vars => IInv'
  BY NextInv
<1>3. Init => Train!Init
  BY InitImplements
<1>4. IInv /\ [Next]_vars => [Train!Next]_Train!trainVars
  <2>1. SUFFICES ASSUME IInv, [Next]_vars
                 PROVE  [Train!Next]_Train!trainVars
    OBVIOUS
  <2>2. ASSUME NEW p \in Packets, NewPacket(p)
        PROVE  [Train!Next]_Train!trainVars
    <3>1. string' \in [0 .. MaxLen -> 0 .. MaxByte]
      BY <2>1, <2>2, TakePacketType
         DEF IInv, HandshakeInv, BufferInv, NewPacket, Byte
    <3>2. Train!ChangePacket
      BY <2>2, <3>1 DEF NewPacket, Train!ChangePacket
    <3>3. QED
      BY <3>2 DEF Train!Next
  <2>3. CASE UNCHANGED vars
    BY <2>3 DEF vars, Train!trainVars
  <2>4. QED
    BY <2>1, <2>2, <2>3, SendImplements, InterruptImplements DEF Next
<1>5. QED
  BY <1>1, <1>2, <1>3, <1>4, PTL DEF Spec, Train!Spec

-----------------------------------------------------------------------------
(***************************************************************************)
(* What holds however late rfSend is.                                      *)
(***************************************************************************)
SafeInv == TypeOK /\ LateInv

LEMMA SafeInit ==
  ASSUME Init
  PROVE  SafeInv
<1>1. TypeOK
  BY InitInv DEF IInv
<1>2. LateInv
  BY Constants DEF Init, LateInv
<1>3. QED
  BY <1>1, <1>2 DEF SafeInv

LEMMA SafeSend ==
  ASSUME SafeInv, rfSend
  PROVE  SafeInv'
<1> USE DEF SafeInv, TypeOK
<1>1. FlagsOK'
  BY DEF FlagsOK, rfSend, Start, FirstLoaded, FetchMarker, FetchPulse, Store,
         Loaded, FetchEnd, Finish
<1>2. ran' \in 0 .. MainQuota
  BY Constants
     DEF DataOK, rfSend, Start, FirstLoaded, FetchMarker, FetchPulse, Store,
         Loaded, FetchEnd, Finish, MainStep
<1>3. i' \in 0 .. MaxLen
  <2>1. string[i] # Terminator => i + 1 \in 0 .. MaxLen
    BY StringGoesOn DEF DataOK, LateInv
  <2>2. QED
    BY <2>1, Constants
       DEF DataOK, LateInv, rfSend, Start, FirstLoaded, FetchMarker,
           FetchPulse, Store, Loaded, FetchEnd, Finish, Marker, Terminator
<1>4. CASE Start
  BY <1>1, <1>2, <1>3, <1>4, Constants
     DEF DataOK, LateInv, Start, Byte, Bit
<1>5. CASE FirstLoaded \/ FetchMarker \/ FetchPulse \/ Loaded \/ FetchEnd
  <2>1. DataOK'
    BY <1>2, <1>3, <1>5
       DEF DataOK, FirstLoaded, FetchMarker, FetchPulse, Loaded, FetchEnd
  <2>2. LateInv'
    BY <1>5
       DEF LateInv, FirstLoaded, FetchMarker, FetchPulse, Loaded, FetchEnd
  <2>3. QED
    BY <1>1, <2>1, <2>2
<1>6. CASE Store
  <2>1. DataOK'
    BY <1>2, <1>3, <1>6 DEF DataOK, Store
  <2>2. LateInv'
    BY <1>6 DEF LateInv, Store
  <2>3. QED
    BY <1>1, <2>1, <2>2
<1>7. CASE Finish
  BY <1>1, <1>2, <1>3, <1>7, Constants DEF DataOK, LateInv, Finish, Bit, Byte
<1>8. QED
  BY <1>1, <1>4, <1>5, <1>6, <1>7 DEF rfSend

LEMMA SafeInterrupt ==
  ASSUME SafeInv, rfTransmitUpdate
  PROVE  SafeInv'
<1> USE DEF SafeInv, TypeOK
<1>1. FlagsOK'
  BY DEF FlagsOK, rfTransmitUpdate, NothingToLoad, LoadNext, Load, CountDown
<1>2. pc # "idle"
  BY DEF LateInv, rfTransmitUpdate
<1>3. age' \in 0 .. MaxByte + 1
  BY Constants
     DEF DataOK, rfTransmitUpdate, AgePulse, NothingToLoad, LoadNext, Load,
         CountDown, Byte
<1>4. CASE NothingToLoad
  BY <1>1, <1>2, <1>3, <1>4, Constants
     DEF DataOK, LateInv, rfTransmitUpdate, NothingToLoad, AgePulse, Byte
<1>5. CASE LoadNext
  BY <1>1, <1>2, <1>3, <1>5, Constants, SMTT(30)
     DEF DataOK, LateInv, rfTransmitUpdate, LoadNext, Load, AgePulse, Byte, Bit
<1>6. CASE CountDown
  BY <1>1, <1>2, <1>3, <1>6, Constants
     DEF DataOK, LateInv, rfTransmitUpdate, CountDown, AgePulse, Byte
<1>7. QED
  BY <1>4, <1>5, <1>6 DEF rfTransmitUpdate

LEMMA SafeNext ==
  ASSUME SafeInv, [Next]_vars
  PROVE  SafeInv'
<1>1. ASSUME NEW p \in Packets, NewPacket(p) PROVE SafeInv'
  <2> USE DEF SafeInv, TypeOK, NewPacket
  <2>1. FlagsOK'
    BY <1>1 DEF FlagsOK
  <2>2. string' \in [0 .. MaxLen -> Byte] /\ string'[MaxLen] = Terminator
    BY <1>1, TakePacketType DEF LateInv
  <2>3. DataOK' /\ LateInv'
    BY <1>1, <2>2 DEF DataOK, LateInv
  <2>4. QED
    BY <2>1, <2>3
<1>2. CASE UNCHANGED vars
  BY <1>2 DEF SafeInv, TypeOK, FlagsOK, DataOK, LateInv, vars
<1>3. QED
  BY <1>1, <1>2, SafeSend, SafeInterrupt DEF Next

\* The bytes of a packet stay bytes: the index of rfSend never leaves the
\* packet buffer and the counter of the interrupt never falls below zero.
THEOREM TypeCorrect == Spec => []TypeOK
<1>1. SafeInv => TypeOK
  BY DEF SafeInv
<1>2. QED
  BY <1>1, SafeInit, SafeNext, PTL DEF Spec

\* However late rfSend is: it does not run off the end of the packet, what it
\* offers is a pulse of the packet, and the pulse on the air has had its length or
\* still has it before it.
THEOREM LateHandshake == Spec => []LateInv
<1>1. SafeInv => LateInv
  BY DEF SafeInv
<1>2. QED
  BY <1>1, SafeInit, SafeNext, PTL DEF Spec

\* What a call of rfSend leaves behind: a low antenna, a stopped transmit
\* interrupt and an unmasked pwm interrupt.
THEOREM LeavesQuiet == Spec => []QuietWhenIdle
<1>1. SafeInv => QuietWhenIdle
  BY DEF SafeInv, LateInv, QuietWhenIdle
<1>2. QED
  BY <1>1, SafeInit, SafeNext, PTL DEF Spec

\* The race between rfSend and the interrupt on rfNewTime never cuts a pulse
\* short when another one follows it.
THEOREM PulsesLast == Spec => NeverCutShort
<1> DEFINE Cut == onAir # -1 /\ onAir' \notin {onAir, -1} => age >= string[onAir]
<1>1. SafeInv /\ [Next]_vars => [Cut]_vars
  <2>1. SUFFICES ASSUME SafeInv, Next, onAir # -1, onAir' \notin {onAir, -1}
                 PROVE  age >= string[onAir]
    OBVIOUS
  <2>2. currentTime = 0
    BY <2>1 DEF Next, NewPacket, rfSend, Start, FirstLoaded, FetchMarker,
                FetchPulse, Store, Loaded, FetchEnd, Finish, rfTransmitUpdate,
                NothingToLoad, LoadNext, Load, CountDown
  <2>3. QED
    BY <2>1, <2>2, Constants DEF SafeInv, TypeOK, DataOK, LateInv, Byte
<1>2. QED
  BY <1>1, SafeInit, SafeNext, PTL DEF Spec, NeverCutShort

HIDE DEF packet, mainVars, historyVars

-----------------------------------------------------------------------------
(***************************************************************************)
(* The session: the antennas, the receiver's timer, the key and the LED    *)
(* while it sends and pauses.                                              *)
(***************************************************************************)
\* The steps between the two that switch a register.
TxAntennaOn == {"rxAntOff", "next", "call", "sending", "key", "pause",
                "txAntOff"}
RxAntennaOff == {"next", "call", "sending", "key", "pause", "txAntOff",
                 "rxAntOn"}
Steps == TxAntennaOn \cup RxAntennaOff
           \cup {"listen", "startTransmit", "txAntOn", "tmr3Off", "tmr4On"}

\* Which registers hold what, by the step the session has reached: the
\* interrupt and rfSend run in "sending" only, and the SENDER pin is high in
\* "sending" and in "key" only.
RadioInv ==
  /\ step \in Steps
  /\ sender \in Bit /\ txAnt \in Bit /\ rxAnt \in Bit
  /\ tmr4On => step \in {"listen", "startTransmit"}
  /\ txAnt = 1 <=> step \in TxAntennaOn
  /\ step \in RxAntennaOff => rxAnt = 0
  /\ sender = 1 => step \in {"sending", "key"}
  /\ tmr3On => step = "sending"
  /\ pc # "idle" <=> step = "sending"

\* The loop has calls left while it sends or pauses, and counts the pause
\* only there.
LoopInv ==
  /\ repeats \in 0 .. ByteMod - 1
  /\ pause \in 0 .. ByteMod - 1
  /\ calls \in 0 .. repeats
  /\ waited \in 0 .. pause
  /\ step # "pause" => waited = 0
  /\ step \in {"call", "sending", "key", "pause"} => calls < repeats
  /\ step \notin {"next", "call", "sending", "key", "pause"} => calls = 0

FlagsInv == {keyed, tmr4On} \subseteq BOOLEAN

\* The LED climbs below its peak and descends above the dark; what it shows is
\* its duty, also after new pulses have come while it was lit.
LedInv ==
  /\ txd \in TxLed!Led
  /\ CCPR1L = txd.duty
  /\ txd.dir = 1 => txd.duty < Peak
  /\ txd.dir = -1 => txd.duty > 0
  /\ txd.pulses = 0 => txd.duty = 0

-----------------------------------------------------------------------------
LEMMA SessionConstants ==
  /\ ByteMod \in Nat /\ ByteMod > 2
  /\ Peak \in 1 .. ByteMod - 1
  /\ Counts \subseteq Nat
  /\ DefaultRepeats \in 0 .. ByteMod - 1
  /\ DefaultPause \in 0 .. ByteMod - 1
BY SessionAssumption

LEMMA InitSession ==
  ASSUME SessionInit
  PROVE  RadioInv /\ LoopInv /\ FlagsInv /\ LedInv
<1>1. RadioInv
  BY DEF SessionInit, Init, RadioInv, Steps, TxAntennaOn, RxAntennaOff, Bit
<1>2. LoopInv
  BY SessionConstants DEF SessionInit, LoopInv
<1>3. LedInv
  BY SessionConstants DEF SessionInit, LedInv, TxLed!Init, TxLed!Led
<1>4. FlagsInv
  BY DEF SessionInit, FlagsInv
<1>5. QED
  BY <1>1, <1>2, <1>3, <1>4

-----------------------------------------------------------------------------
(***************************************************************************)
(* The registers of the radio.                                             *)
(***************************************************************************)

\* A step of rfSend that does not end the call leaves rfSend running; the one
\* that ends it stops the interrupt and leaves the pin low.
LEMMA SendingStep ==
  ASSUME rfSend, pc # "idle"
  PROVE  /\ pc' # "idle" => UNCHANGED sender
         /\ pc' = "idle" => sender' = 0 /\ ~ tmr3On'
BY DEF rfSend, Start, FirstLoaded, FetchMarker, FetchPulse, Store, Loaded,
       FetchEnd, Finish

\* The interrupt only sets the pin, and only while timer 3 runs.
LEMMA InterruptStep ==
  ASSUME rfTransmitUpdate, sender \in Bit
  PROVE  tmr3On /\ sender' \in Bit /\ UNCHANGED <<pc, tmr3On>>
BY DEF rfTransmitUpdate, NothingToLoad, LoadNext, Load, CountDown, mainVars,
       Bit

\* A register of the antenna or of a timer is set to one of its values.
LEMMA FlagsStep ==
  ASSUME FlagsInv, [SessionNext]_allVars
  PROVE  FlagsInv'
<1> USE DEF FlagsInv
<1>1. CASE \/ \E p \in Packets, r \in Counts \cup {DefaultRepeats},
                 w \in Counts \cup {DefaultPause} : TakeSend(p, r, w)
           \/ TakeCommand
  BY <1>1 DEF TakeSend, TakeCommand, radioVars
<1>2. CASE rfStartTransmit
  BY <1>2 DEF rfStartTransmit, SetRegister, requestVars, radioVars
<1>3. CASE rfStopTransmit
  BY <1>3 DEF rfStopTransmit, SetRegister, requestVars, radioVars
<1>4. ASSUME UNCHANGED <<requestVars, radioVars>>
      PROVE  FlagsInv'
  BY <1>4 DEF requestVars, radioVars
<1>5. CASE NextRepeat \/ CallSend \/ Sending \/ Pause \/ sendArctechCommand
  BY <1>4, <1>5
     DEF NextRepeat, CallSend, Sending, Pause, sendArctechCommand, KeyPin
<1>6. CASE TransmitInterrupt \/ LedInterrupt \/ UNCHANGED allVars
  BY <1>4, <1>6 DEF TransmitInterrupt, LedInterrupt, allVars, sessionVars
<1>7. QED
  BY <1>1, <1>2, <1>3, <1>5, <1>6 DEF SessionNext, MainLoop, Progress

LEMMA RadioStep ==
  ASSUME RadioInv, [SessionNext]_allVars
  PROVE  RadioInv'
<1> USE DEF RadioInv, Steps, TxAntennaOn, RxAntennaOff
<1>1. ASSUME NEW p \in Packets, NEW r \in Counts \cup {DefaultRepeats},
             NEW w \in Counts \cup {DefaultPause}, TakeSend(p, r, w)
      PROVE  RadioInv'
  BY <1>1 DEF TakeSend, NewPacket, radioVars
<1>2. CASE TakeCommand
  BY <1>2 DEF TakeCommand, radioVars, vars, mainVars
<1>3. CASE rfStartTransmit
  BY <1>3 DEF rfStartTransmit, SetRegister, radioVars, vars, mainVars, Bit
<1>4. CASE rfStopTransmit
  BY <1>4 DEF rfStopTransmit, SetRegister, radioVars, vars, mainVars, Bit
<1>5. CASE NextRepeat
  BY <1>5 DEF NextRepeat, radioVars, vars, mainVars
<1>6. CASE CallSend
  BY <1>6 DEF CallSend, Start, radioVars
<1>7. CASE Sending
  BY <1>7, SendingStep DEF Sending, radioVars, Bit
<1>8. CASE sendArctechCommand
  BY <1>8 DEF sendArctechCommand, KeyPin, radioVars, mainVars, Bit
<1>9. CASE Pause
  BY <1>9 DEF Pause, radioVars, vars, mainVars
<1>10. CASE TransmitInterrupt
  BY <1>10, InterruptStep DEF TransmitInterrupt, sessionVars, radioVars
<1>11. CASE LedInterrupt
  BY <1>11 DEF LedInterrupt, radioVars, vars, mainVars
<1>12. CASE UNCHANGED allVars
  BY <1>12 DEF allVars, sessionVars, radioVars, vars, mainVars
<1>13. QED
  BY <1>1, <1>2, <1>3, <1>4, <1>5, <1>6, <1>7, <1>8, <1>9, <1>10, <1>11, <1>12
     DEF SessionNext, MainLoop, Progress

-----------------------------------------------------------------------------
(***************************************************************************)
(* The loop over the repeats and the pauses.                               *)
(***************************************************************************)

\* A count of a message is cut to a byte.
LEMMA CutToByte ==
  ASSUME NEW n \in Counts \cup {DefaultRepeats, DefaultPause}
  PROVE  n % ByteMod \in 0 .. ByteMod - 1
BY SessionConstants

LEMMA LoopStep ==
  ASSUME LoopInv, [SessionNext]_allVars
  PROVE  LoopInv'
<1> USE SessionConstants DEF LoopInv, requestVars, loopVars
<1>1. ASSUME NEW p \in Packets, NEW r \in Counts \cup {DefaultRepeats},
             NEW w \in Counts \cup {DefaultPause}, TakeSend(p, r, w)
      PROVE  LoopInv'
  <2>1. repeats' \in 0 .. ByteMod - 1 /\ pause' \in 0 .. ByteMod - 1
    BY <1>1, CutToByte DEF TakeSend
  <2>2. QED
    BY <1>1, <2>1 DEF TakeSend
<1>2. CASE TakeCommand
  BY <1>2 DEF TakeCommand
<1>3. CASE rfStartTransmit
  BY <1>3 DEF rfStartTransmit, SetRegister
<1>4. CASE rfStopTransmit
  BY <1>4 DEF rfStopTransmit, SetRegister
<1>5. CASE NextRepeat
  BY <1>5 DEF NextRepeat
<1>6. CASE CallSend
  BY <1>6 DEF CallSend
<1>7. CASE Sending
  BY <1>7 DEF Sending
<1>8. CASE sendArctechCommand
  BY <1>8 DEF sendArctechCommand, KeyPin
<1>9. CASE Pause
  BY <1>9 DEF Pause
<1>10. CASE TransmitInterrupt
  BY <1>10 DEF TransmitInterrupt, sessionVars
<1>11. CASE LedInterrupt
  BY <1>11 DEF LedInterrupt
<1>12. CASE UNCHANGED allVars
  BY <1>12 DEF allVars, sessionVars
<1>13. QED
  BY <1>1, <1>2, <1>3, <1>4, <1>5, <1>6, <1>7, <1>8, <1>9, <1>10, <1>11, <1>12
     DEF SessionNext, MainLoop, Progress

-----------------------------------------------------------------------------
(***************************************************************************)
(* The LED.                                                                *)
(***************************************************************************)

\* The step up or down never leaves the range of the LED, so that the cut to
\* a byte changes nothing.
LEMMA DutyStep ==
  ASSUME LedInv
  PROVE  /\ (txd.duty + txd.dir) % ByteMod = txd.duty + txd.dir
         /\ txd.duty + txd.dir \in 0 .. Peak
         /\ txd.dir \in {-1, 1}
         /\ txd.duty \in 0 .. Peak
         /\ txd.pulses \in 0 .. ByteMod - 1
<1>1. /\ txd.dir \in {-1, 1}
      /\ txd.duty \in 0 .. Peak
      /\ txd.pulses \in 0 .. ByteMod - 1
  BY DEF LedInv, TxLed!Led
<1>2. txd.duty + txd.dir \in 0 .. Peak
  BY <1>1, SessionConstants DEF LedInv
<1>3. \A n \in 0 .. Peak : n % ByteMod = n
  BY SessionConstants
<1>4. QED
  BY <1>1, <1>2, <1>3

LEMMA RampStep ==
  ASSUME LedInv, txd.pulses > 0, TxLed!Ramp
  PROVE  LedInv' /\ CCPR1L' - CCPR1L \in {-1, 1}
<1> DEFINE duty == txd.duty + txd.dir
<1>1. /\ CCPR1L' = duty
      /\ txd' = CASE duty >= Peak -> [txd EXCEPT !.duty = duty, !.dir = -1]
                  [] duty = 0 -> [duty |-> 0, dir |-> 1,
                                  pulses |-> txd.pulses - 1]
                  [] OTHER -> [txd EXCEPT !.duty = duty]
  BY DutyStep DEF TxLed!Ramp
<1>2. /\ duty \in 0 .. Peak /\ txd.duty \in 0 .. Peak /\ txd.dir \in {-1, 1}
      /\ txd.pulses \in 1 .. ByteMod - 1
      /\ txd \in TxLed!Led
  BY DutyStep, SessionConstants DEF LedInv
<1>3. CASE duty = Peak
  <2>1. txd' = [txd EXCEPT !.duty = duty, !.dir = -1]
    BY <1>1, <1>2, <1>3, SessionConstants
  <2>2. /\ txd' \in TxLed!Led
        /\ txd'.duty = Peak /\ txd'.dir = -1 /\ txd'.pulses = txd.pulses
    BY <1>2, <1>3, <2>1, SessionConstants DEF TxLed!Led
  <2>3. QED
    BY <1>1, <1>2, <1>3, <2>2, SessionConstants DEF LedInv
<1>4. CASE duty = 0
  <2>1. txd' = [duty |-> 0, dir |-> 1, pulses |-> txd.pulses - 1]
    BY <1>1, <1>2, <1>4, SessionConstants
  <2>2. QED
    BY <1>1, <1>2, <1>4, <2>1, SessionConstants DEF LedInv, TxLed!Led
<1>5. CASE duty \notin {0, Peak}
  <2>1. txd' = [txd EXCEPT !.duty = duty]
    BY <1>1, <1>2, <1>5, SessionConstants
  <2>2. QED
    BY <1>1, <1>2, <1>5, <2>1, SessionConstants DEF LedInv, TxLed!Led
<1>6. QED
  BY <1>3, <1>4, <1>5

LEMMA LedInterruptStep ==
  ASSUME LedInv, LedInterrupt
  PROVE  LedInv' /\ (CCPR1L' = CCPR1L \/ CCPR1L' - CCPR1L \in {-1, 1})
<1>1. CASE txd.pulses > 0
  BY <1>1, RampStep DEF LedInterrupt, TxLed!pwmUpdate
<1>2. CASE ~ (txd.pulses > 0)
  <2>1. txd.pulses = 0
    BY <1>2, DutyStep, SessionConstants
  <2>2. CCPR1L' = 0 /\ UNCHANGED txd
    BY <1>2 DEF LedInterrupt, TxLed!pwmUpdate, TxLed!Dark
  <2>3. QED
    BY <2>1, <2>2 DEF LedInv
<1>3. QED
  BY <1>1, <1>2

\* New pulses leave the brightness as it is.
LEMMA NewPulses ==
  ASSUME LedInv, NextRepeat
  PROVE  LedInv' /\ CCPR1L' = CCPR1L
<1>1. CASE calls < repeats
  <2>1. txd' = [txd EXCEPT !.pulses = 2] /\ UNCHANGED CCPR1L
    BY <1>1 DEF NextRepeat, TxLed!setTXPulses
  <2>2. QED
    BY <2>1, SessionConstants DEF LedInv, TxLed!Led
<1>2. CASE ~ (calls < repeats)
  BY <1>2 DEF NextRepeat, ledVars, LedInv
<1>3. QED
  BY <1>1, <1>2

\* Nothing else writes the LED.
LEMMA LedStep ==
  ASSUME LedInv, [SessionNext]_allVars
  PROVE  LedInv' /\ (CCPR1L' = CCPR1L \/ CCPR1L' - CCPR1L \in {-1, 1})
<1>1. CASE LedInterrupt
  BY <1>1, LedInterruptStep
<1>2. CASE NextRepeat
  BY <1>2, NewPulses
<1>3. ASSUME UNCHANGED ledVars
      PROVE  LedInv' /\ CCPR1L' = CCPR1L
  BY <1>3 DEF LedInv, ledVars
<1>4. CASE TransmitInterrupt \/ UNCHANGED allVars
  BY <1>3, <1>4 DEF TransmitInterrupt, allVars, sessionVars
<1>5. CASE \/ \E p \in Packets, r \in Counts \cup {DefaultRepeats},
                 w \in Counts \cup {DefaultPause} : TakeSend(p, r, w)
           \/ TakeCommand
  BY <1>3, <1>5 DEF TakeSend, TakeCommand
<1>6. CASE rfStartTransmit \/ rfStopTransmit
  BY <1>3, <1>6 DEF rfStartTransmit, rfStopTransmit, SetRegister
<1>7. CASE CallSend \/ Sending \/ Pause
  BY <1>3, <1>7 DEF CallSend, Sending, Pause
<1>8. CASE sendArctechCommand
  BY <1>3, <1>8 DEF sendArctechCommand, KeyPin
<1>9. QED
  BY <1>1, <1>2, <1>4, <1>5, <1>6, <1>7, <1>8 DEF SessionNext, MainLoop, Progress

-----------------------------------------------------------------------------
\* The four parts are invariants of every session.
LEMMA SessionSafe == SessionSpec => [](RadioInv /\ LoopInv /\ FlagsInv /\ LedInv)
<1>1. SessionInit => RadioInv /\ LoopInv /\ FlagsInv /\ LedInv
  BY InitSession
<1>2. RadioInv /\ LoopInv /\ FlagsInv /\ LedInv /\ [SessionNext]_allVars
        => (RadioInv /\ LoopInv /\ FlagsInv /\ LedInv)'
  BY RadioStep, LoopStep, FlagsStep, LedStep
<1>3. QED
  BY <1>1, <1>2, PTL DEF SessionSpec

\* The registers, counts and fields of the LED keep their types: a count of a
\* message is cut to a byte, and the loops of send() never pass their counts.
THEOREM SessionTypes == SessionSpec => []SessionTypeOK
<1>1. RadioInv /\ LoopInv /\ FlagsInv /\ LedInv => SessionTypeOK
  <2>1. RadioInv => /\ step \in Steps
                    /\ {txAnt, rxAnt} \subseteq Bit
    BY DEF RadioInv
  <2>2. LoopInv => /\ repeats \in 0 .. ByteMod - 1
                   /\ pause \in 0 .. ByteMod - 1
                   /\ waited \in 0 .. pause
                   /\ calls \in 0 .. repeats
    BY DEF LoopInv
  <2>3. LedInv => txd \in TxLed!Led /\ CCPR1L \in 0 .. Peak
    BY DEF LedInv, TxLed!Led
  <2>4. QED
    BY <2>1, <2>2, <2>3
       DEF SessionTypeOK, FlagsInv, Steps, TxAntennaOn, RxAntennaOff
<1>2. QED
  BY <1>1, SessionSafe, PTL

\* While the receiver is sampled nothing is sent: the interrupt is stopped, the
\* SENDER pin low and its antenna off, in every interleaving of the registers
\* that rfStartTransmit and rfStopTransmit write one by one.
THEOREM HearsNothingOwn == SessionSpec => []NeverHearsItself
<1>1. RadioInv => NeverHearsItself
  BY DEF RadioInv, NeverHearsItself, Bit, TxAntennaOn
<1>2. QED
  BY <1>1, SessionSafe, PTL

\* The SENDER pin is high only while the antenna belongs to the transmitter.
THEOREM KeysIntoAntenna == SessionSpec => []KeyedIntoAntenna
<1>1. RadioInv => KeyedIntoAntenna
  BY DEF RadioInv, KeyedIntoAntenna, TxAntennaOn, RxAntennaOff
<1>2. QED
  BY <1>1, SessionSafe, PTL

\* The brightness of the LED moves by single steps, although new pulses may
\* come while it is lit and rfSend masks the interrupt that moves it.
THEOREM LedClimbs == SessionSpec => LedNeverJumps
<1>1. LedInv /\ [SessionNext]_allVars => [CCPR1L' - CCPR1L \in {-1, 1}]_CCPR1L
  BY LedStep
<1>2. QED
  BY <1>1, SessionSafe, PTL DEF SessionSpec, LedNeverJumps
=============================================================================
