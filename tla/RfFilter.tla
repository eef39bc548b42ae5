------------------------------ MODULE RfFilter ------------------------------
(***************************************************************************)
(* The handler of the timer 4 interrupt, rfReceiveUpdate of rf/receive.c:  *)
(* it takes a sample of the receiver's level, removes high runs that are   *)
(* too short, and packs what is left into the ring.  Two histories record  *)
(* what the handler has been given and what it passed on.                  *)
(***************************************************************************)
EXTENDS RfRing

CONSTANTS
  TriggerLevel, (* the shortest run of high samples that counts, 3         *)
  FilterBits,   (* the bits of preFilterBuffer, 8                          *)
  MaxCarrier    (* bound: the longest run of high samples                  *)

ASSUME FilterAssumption ==
  /\ FilterBits \in Nat
  /\ TriggerLevel \in 1 .. FilterBits
  /\ TriggerLevel < CountMod

VARIABLES
  preFilterBuffer, (* the latest samples, the newest first                 *)
  preFilterCnt,    (* high samples in a row                                *)
  run,             (* history: how many samples its run had, up to and     *)
                   (* with each of the latest samples; 0 for a low one     *)
  passed           (* history: the latest samples that left the filter     *)

filterVars == <<ringVars, preFilterBuffer, preFilterCnt, run, passed>>

Taps == 1 .. FilterBits

FilterInit ==
  /\ RingInit
  /\ preFilterBuffer = [k \in Taps |-> 0]
  /\ preFilterCnt = 0
  /\ run = [k \in Taps |-> 0]
  /\ passed = [k \in 1 .. Ring |-> 0]

Shifted == [k \in Taps |-> IF k = 1 THEN 0 ELSE preFilterBuffer[k - 1]]

\* Mutant of PreFilter: the samples that made the trigger level are lost.
PreFilterLate(antenna) ==
  LET cnt == (preFilterCnt + 1) % CountMod
  IN  IF antenna = 0
        THEN preFilterCnt' = 0 /\ preFilterBuffer' = Shifted
        ELSE /\ preFilterCnt' = cnt
             /\ preFilterBuffer' =
                  IF cnt >= TriggerLevel
                    THEN [Shifted EXCEPT ![1] = 1]
                    ELSE Shifted

\* A high sample enters as a low one; when the run has reached the trigger
\* level its samples so far are made high, and later ones enter high.
PreFilter(antenna) ==
  LET cnt == (preFilterCnt + 1) % CountMod
  IN  IF antenna = 0
        THEN preFilterCnt' = 0 /\ preFilterBuffer' = Shifted
        ELSE /\ preFilterCnt' = cnt
             /\ preFilterBuffer' =
                  CASE cnt = TriggerLevel ->
                         [k \in Taps |->
                            IF k <= TriggerLevel THEN 1 ELSE Shifted[k]]
                    [] cnt > TriggerLevel -> [Shifted EXCEPT ![1] = 1]
                    [] OTHER -> Shifted

\* The oldest sample leaves the filter for the ring.
rfReceiveUpdate(antenna) ==
  /\ PreFilter(antenna)
  /\ Pack(preFilterBuffer'[FilterBits])

TakeSample(antenna) ==
  /\ antenna = 1 => run[1] < MaxCarrier
  /\ rfReceiveUpdate(antenna)
  /\ run' = [k \in Taps |-> IF k > 1 THEN run[k - 1]
                            ELSE IF antenna = 1 THEN run[1] + 1 ELSE 0]
  /\ passed' = Append(Tail(passed), preFilterBuffer'[FilterBits])

FilterNext == \E antenna \in Bit : TakeSample(antenna)

FilterSpec == FilterInit /\ [][FilterNext]_filterVars

-----------------------------------------------------------------------------
\* The oldest sample and the one j samples later are in the same run.
SameRun(j) ==
  /\ run[FilterBits] > 0
  /\ run[FilterBits - j] = run[FilterBits] + j

FilterTypeOK ==
  /\ RingTypeOK
  /\ preFilterBuffer \in [Taps -> Bit]
  /\ preFilterCnt \in 0 .. CountMod - 1

\* Exactly the high runs of TriggerLevel samples or more pass the filter, and
\* pass whole, although the filter decides on a sample long before it leaves;
\* the counter, a byte, loses one sample of a carrier each time it wraps, and
\* the samples behind it count as a run of their own.
FilterOpens ==
  LET first == run[FilterBits] % CountMod
  IN  preFilterBuffer[FilterBits] = 1 <=>
        /\ first > 0
        /\ \E j \in 0 .. FilterBits - 1 :
             SameRun(j) /\ first + j >= TriggerLevel /\ first + j < CountMod

\* The ring and the byte being packed hold the latest samples that passed, in
\* their order, across the wrap of the write position.
RingInOrder ==
  LET held == Len(buffer)
      Slot(r) == (dataP + (r - 1) \div ByteBits) % DataBytes
      InRing(r) == data[Slot(r)][((r - 1) % ByteBits) + 1]
  IN  /\ \A k \in 1 .. held : buffer[k] = passed[Ring - held + k]
      /\ \A r \in (held + 1) .. Ring : InRing(r) = passed[r - held]
=============================================================================
