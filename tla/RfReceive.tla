----------------------------- MODULE RfReceive -----------------------------
(***************************************************************************)
(* rf/receive.c: rfReceiveTask, called by the main loop, follows the timer *)
(* interrupt around the ring, measures its runs, and when it has counted   *)
(* enough silence hands what came before to the block decoders.  dataP has *)
(* two bytes, and the interrupt may come between the task's accesses to    *)
(* them.  The block decoders only answer whether they recognised a         *)
(* message; the stream decoders are only told the runs.                    *)
(***************************************************************************)
EXTENDS RfRing

CONSTANTS
  LoMod,           (* the values of the low byte of dataP, 256             *)
  RequiredSilence, (* REQUIRED_SILENCE, 150 samples                        *)
  MinDist,         (* the fewest bytes worth decoding, 50                  *)
  MaxLag           (* bound: the bytes the task may be behind, fewer than  *)
                   (* the ring has                                         *)

ASSUME ReceiveAssumption ==
  /\ LoMod \in Nat \ {0}
  /\ RequiredSilence \in 1 .. CountMod - 1
  /\ MinDist \in Nat
  /\ MaxLag \in 1 .. DataBytes - 1

VARIABLES
  pc,            (* where the task is                                      *)
  seen,          (* the half of dataP that the loop test has read          *)
  scan,          (* scanP, scanBit                                         *)
  startSilence,  (* startSilenceP, startSilenceBit                         *)
  stopSilence,   (* stopSilenceP, stopSilenceBit                           *)
  count0, count1,(* low and high samples in a row                          *)
  parsed,        (* this silence has been decoded                          *)
  fresh,         (* history: the slots stored and not scanned to the end   *)
  torn,          (* history: a byte was stored between the two writes of   *)
                 (* the task's dataP = 0, and the task has not caught up   *)
  current,       (* history: level and length of the run being scanned     *)
  gap,           (* history: length of the latest long silence             *)
  burst,         (* history: where the first high sample after it is       *)
  burstEnd,      (* history: where the latest low run began                *)
  since          (* history: samples scanned from burst, at most a lap    *)

taskVars == <<scan, startSilence, stopSilence, count0, count1, parsed>>
scanHistory == <<current, gap, burst, burstEnd, since>>
receiveVars == <<ringVars, taskVars, pc, seen, fresh, torn, scanHistory>>

Halves == {"low", "high"}
Half(h, word) == IF h = "low" THEN word % LoMod ELSE word \div LoMod
Other(h) == IF h = "low" THEN "high" ELSE "low"
Cleared(h, word) == word - Half(h, word) * (IF h = "low" THEN 1 ELSE LoMod)

Places == Slots \X (1 .. ByteBits)
Nowhere == <<-1, 1>>

getBit(place) == data[place[1]][place[2]]

Advanced(place) ==
  IF place[2] < ByteBits THEN <<place[1], place[2] + 1>>
                         ELSE <<(place[1] + 1) % DataBytes, 1>>

\* Mutant of calculateDistance: the wrap of the ring is not considered.
DistanceUnwrapped(start, stop) ==
  CASE start = -1 -> -1
    [] start # -1 /\ stop >= start -> stop - start
    [] OTHER -> start - stop

calculateDistance(start, stop) ==
  CASE start = -1 -> -1
    [] start # -1 /\ stop >= start -> stop - start
    [] OTHER -> DataBytes - start + stop

ReceiveInit ==
  /\ RingInit
  /\ pc = "test" /\ seen = <<>>
  /\ scan = <<0, 1>>
  /\ startSilence = <<-1, 0>> /\ stopSilence = <<-13, 255>>
  /\ count0 = 0 /\ count1 = 0 /\ parsed = FALSE
  /\ fresh = {} /\ torn = FALSE
  /\ current = <<0, 0>> /\ gap = 0 /\ since = 0
  /\ burst = Nowhere /\ burstEnd = <<0, 1>>

-----------------------------------------------------------------------------
\* How far the interrupt is ahead of the task.
Lag == (dataP - scan[1]) % DataBytes

\* A sample leaves the filter of the timer interrupt and is packed.  Of the
\* samples any sequence is allowed, those the filter passes among them.
Sample(sample) ==
  /\ Pack(sample)
  /\ IF buffer' = <<>>
       THEN /\ Lag < MaxLag
            /\ fresh' = fresh \cup {dataP}
            /\ torn' = (torn \/ pc = "resetOther")
       ELSE UNCHANGED <<fresh, torn>>
  /\ UNCHANGED <<taskVars, pc, seen, scanHistory>>

-----------------------------------------------------------------------------
\* The loop test reads the two bytes of dataP one after the other.
ReadHalf(h) ==
  /\ pc = "test"
  /\ seen' = <<h, Half(h, dataP)>>
  /\ pc' = "testOther"
  /\ UNCHANGED <<ringVars, taskVars, fresh, torn, scanHistory>>

\* Mutant of ReadOther: the test compares bytes, not words.
ReadOtherNarrow ==
  /\ pc = "testOther"
  /\ pc' = IF Half("low", dataP) # Half("low", scan[1]) THEN "scan" ELSE "test"
  /\ seen' = <<>>
  /\ torn' = (torn /\ scan[1] # dataP)
  /\ UNCHANGED <<ringVars, taskVars, fresh, scanHistory>>

\* The task returns when there is nothing to scan; the main loop calls it again.
ReadOther ==
  LET h == seen[1]
      differs == \/ seen[2] # Half(h, scan[1])
                 \/ Half(Other(h), dataP) # Half(Other(h), scan[1])
  IN  /\ pc = "testOther"
      /\ pc' = IF differs THEN "scan" ELSE "test"
      /\ seen' = <<>>
      /\ torn' = (torn /\ scan[1] # dataP)
      /\ UNCHANGED <<ringVars, taskVars, fresh, scanHistory>>

-----------------------------------------------------------------------------
\* The run that the sample ends, as the stream decoders are told it.
Told ==
  CASE getBit(scan) = 1 /\ count0 > 0 -> <<0, count0>>
    [] getBit(scan) = 0 /\ count1 > 0 -> <<1, count1>>
    [] OTHER -> <<>>

\* A high sample ends a silence.
HighSample ==
  /\ count1' = (count1 + 1) % CountMod
  /\ count0' = 0
  /\ parsed' = FALSE
  /\ UNCHANGED startSilence

\* Mutant of LowSample: the start of the silence moves with every low sample.
LowSampleMoving ==
  /\ startSilence' = scan
  /\ count0' = (count0 + 1) % CountMod
  /\ count1' = 0
  /\ UNCHANGED parsed

\* Mutant of LowSample: the count of high samples is kept.
LowSampleKeepsCount ==
  /\ startSilence' = IF count0 = 0 THEN scan ELSE startSilence
  /\ count0' = (count0 + 1) % CountMod
  /\ UNCHANGED <<parsed, count1>>

\* Mutant of LowSample: the counter is wider than a byte.
LowSampleWide ==
  /\ startSilence' = IF count0 = 0 THEN scan ELSE startSilence
  /\ count0' = (count0 + 1) % (2 * CountMod)
  /\ count1' = 0
  /\ UNCHANGED parsed

LowSample ==
  /\ startSilence' = IF count0 = 0 THEN scan ELSE startSilence
  /\ count0' = (count0 + 1) % CountMod
  /\ count1' = 0
  /\ UNCHANGED parsed

\* Data starts at a high sample behind a long silence; a mark that the scan
\* meets again is a lap old.
Marked ==
  LET mark == IF getBit(scan) = 1 /\ count0 > RequiredSilence THEN scan
                                                              ELSE stopSilence
  IN  IF mark = scan' THEN <<-1, mark[2]>> ELSE mark

\* Runs are measured up to two turns of the counters.
LongerRun(n) == IF n + 1 < 2 * CountMod THEN n + 1 ELSE CountMod

RecordScan(level) ==
  /\ current' = IF level = current[1] THEN <<level, LongerRun(current[2])>>
                                      ELSE <<level, 1>>
  /\ burstEnd' = IF level = 0 /\ current[1] = 1 THEN scan ELSE burstEnd
  /\ IF level = 1 /\ current[1] = 0 /\ current[2] >= RequiredSilence
       THEN gap' = current[2] /\ burst' = scan /\ since' = 1
       ELSE /\ since' = IF since < Ring THEN since + 1 ELSE since
            /\ UNCHANGED <<gap, burst>>
  /\ fresh' = IF scan'[1] = scan[1] THEN fresh ELSE fresh \ {scan[1]}

\* One iteration of the loop.
ScanSample ==
  /\ pc = "scan"
  /\ IF getBit(scan) = 1 THEN HighSample ELSE LowSample
  /\ scan' = Advanced(scan)
  /\ stopSilence' = Marked
  /\ pc' = IF count0' = RequiredSilence THEN "found" ELSE "test"
  /\ RecordScan(getBit(scan))
  /\ UNCHANGED <<ringVars, seen, torn>>

\* Enough silence, unless it has been decoded or ends too short a burst.
Found ==
  LET dist == calculateDistance(stopSilence[1], startSilence[1])
  IN  /\ pc = "found"
      /\ pc' = IF parsed \/ dist \in 0 .. MinDist - 1 THEN "test" ELSE "parse"
      /\ UNCHANGED <<ringVars, taskVars, seen, fresh, torn, scanHistory>>

\* Mutant of Parse: the scan is left where it is when the ring is reset.
ParseKeepsScan(matched) ==
  /\ pc = "parse"
  /\ parsed' = TRUE
  /\ pc' = IF matched THEN "reset" ELSE "test"
  /\ UNCHANGED <<ringVars, scan, startSilence, stopSilence, count0, count1,
                 seen, fresh, torn, scanHistory>>

\* The block decoders look at what is before the silence; if one of them
\* recognises a message, the scan starts over at the first slot.
Parse(matched) ==
  /\ pc = "parse"
  /\ parsed' = TRUE
  /\ IF matched THEN pc' = "reset" /\ scan' = <<0, scan[2]>>
                ELSE pc' = "test" /\ UNCHANGED scan
  /\ UNCHANGED <<ringVars, startSilence, stopSilence, count0, count1, seen,
                 fresh, torn, scanHistory>>

\* dataP is cleared, one byte after the other.
ResetHalf(h) ==
  /\ pc = "reset"
  /\ dataP' = Cleared(h, dataP)
  /\ seen' = <<h, 0>>
  /\ pc' = "resetOther"
  /\ UNCHANGED <<buffer, data, taskVars, fresh, torn, scanHistory>>

ResetOther ==
  /\ pc = "resetOther"
  /\ dataP' = Cleared(Other(seen[1]), dataP)
  /\ seen' = <<>>
  /\ fresh' = {}
  /\ pc' = "test"
  /\ UNCHANGED <<buffer, data, taskVars, torn, scanHistory>>

rfReceiveTask ==
  \/ \E h \in Halves : ReadHalf(h) \/ ResetHalf(h)
  \/ ReadOther \/ ScanSample \/ Found \/ ResetOther
  \/ \E matched \in BOOLEAN : Parse(matched)

ReceiveNext == rfReceiveTask \/ \E sample \in Bit : Sample(sample)

\* The main loop calls the task over and over.
ReceiveSpec ==
  ReceiveInit /\ [][ReceiveNext]_receiveVars /\ WF_receiveVars(rfReceiveTask)

-----------------------------------------------------------------------------
ReceiveTypeOK ==
  /\ RingTypeOK
  /\ pc \in {"test", "testOther", "scan", "found", "parse", "reset",
            "resetOther"}
  /\ (seen = <<>>) = (pc \notin {"testOther", "resetOther"})
  /\ scan \in Places
  /\ count0 \in 0 .. CountMod - 1 /\ count1 \in 0 .. CountMod - 1
  /\ (startSilence \in Places) = (startSilence # <<-1, 0>>)
  /\ stopSilence[1] \in Slots \cup {-1, -13}
  /\ parsed \in BOOLEAN

\* Although the test of the loop may see a dataP that never was, the scan only
\* enters a slot that the interrupt has filled since the scan left it; except
\* after a byte stored in the middle of dataP = 0, which leaves dataP ahead of
\* slots that were not filled, until the scan has caught up.
ReadsWhatWasStored == pc = "scan" /\ ~torn => scan[1] \in fresh

\* The length of a silence when the counter tells lengths: modulo a byte, and
\* more than RequiredSilence samples.
GapSeen == gap % CountMod > RequiredSilence

\* When a silence is long enough to decode what came before it, the marks are
\* the two ends of that burst, or the start is given up because the burst is
\* older than a lap.
MarksTheBurst ==
  pc = "parse" /\ GapSeen /\ current[2] = RequiredSilence =>
    /\ startSilence = burstEnd
    /\ stopSilence = burst \/ (stopSilence[1] = -1 /\ since = Ring)

\* What rf/receive.c:196 says of the marks, whatever the silence before the
\* burst was: stopSilence is the start of data.
StartOfDataMarked ==
  pc = "parse" /\ gap > 0 /\ since < Ring /\ current[2] = RequiredSilence =>
    stopSilence = burst

\* The block decoders never run on a burst that cannot be MinDist bytes long,
\* wherever it lies in the ring.
ShortBurstsSkipped ==
  pc = "parse" /\ GapSeen /\ current[2] = RequiredSilence =>
    since = Ring \/ since - RequiredSilence > (MinDist - 1) * ByteBits

\* The stream decoders are told exactly the runs scanned, one by one when they
\* end, with their lengths modulo a byte: across calls of the task, laps,
\* resets of the ring and runs as long as the counter.
ToldTheRuns ==
  pc = "scan" =>
    LET ended == getBit(scan) # current[1] /\ current[2] % CountMod > 0
    IN  Told = IF ended THEN <<current[1], current[2] % CountMod>> ELSE <<>>

\* A byte stored in the ring is eventually scanned, or dropped by a reset.
EveryByteScanned == \A slot \in Slots : slot \in fresh ~> slot \notin fresh
=============================================================================
