----------------------------- MODULE RfTransmit -----------------------------
(***************************************************************************)
(* The pulse transmitter of rf/transmit.c: rfSend, running in the main     *)
(* loop, hands one pulse length at a time to rfTransmitUpdate, the handler *)
(* of the timer 3 interrupt, through four shared variables and without any *)
(* lock.  The interrupt may come between any two steps of rfSend.          *)
(*                                                                         *)
(* Time is the sequence of interrupts.  MainQuota is the number of steps   *)
(* rfSend is sure to take between two interrupts when it is not spinning   *)
(* in one of its while(!rfNewTime) loops; 0 assumes nothing of its speed.  *)
(***************************************************************************)
EXTENDS Integers, Sequences

CONSTANTS
  MaxLen,     (* last index of sendPacket, 199 in the code                 *)
  MaxByte,    (* the largest byte, 255 in the code                         *)
  Packets,    (* the packets callers send, sequences of non-zero bytes     *)
  MainQuota   (* steps of rfSend between two interrupts, at least          *)

Byte == 0 .. MaxByte
Bit == {0, 1}

ASSUME TransmitAssumption ==
  /\ MaxLen \in Nat \ {0}
  /\ MaxByte \in Nat \ {0}
  /\ MainQuota \in Nat
  /\ \A p \in Packets : /\ p \in Seq(1 .. MaxByte)
                        /\ Len(p) \in 0 .. MaxLen

VARIABLES
  string,       (* sendPacket, indexed from 0 as in C                      *)
  taken,        (* send() has put a packet there                           *)
  pc,           (* where rfSend is                                         *)
  i,            (* the index rfSend works on                               *)
  nextTime,     (* rfNextTime: the pulse to load next, 0 for none          *)
  currentTime,  (* rfCurrentTime: what is left of the pulse on the air     *)
  newTime,      (* rfNewTime: the interrupt is ready for another pulse     *)
  nextIsZero,   (* rfNextIsZero: the next pulse keeps the level            *)
  sender,       (* the SENDER pin                                          *)
  tmr3On,       (* TMR3ON: the transmit interrupt runs                     *)
  tmr2ie,       (* TMR2IE: the pwm interrupt is enabled                    *)
  ran,          (* steps of rfSend since the last interrupt, to MainQuota  *)
  nextPos,      (* history: the index of the byte in nextTime              *)
  onAir,        (* history: the index of the pulse on the air, -1 if none  *)
  age           (* history: interrupts the pulse on the air has lasted     *)

packet == <<string, taken>>
mainVars == <<packet, pc, i, tmr3On, tmr2ie>>
historyVars == <<nextPos, onAir, age>>
vars == <<mainVars, nextTime, currentTime, newTime, nextIsZero, sender, ran,
          historyVars>>

Marker == 1
Terminator == 0

Spinning == pc \in {"first", "await", "drain"} /\ ~ newTime

\* Every step of rfSend counts towards its quota.
MainStep == ran' = IF ran < MainQuota THEN ran + 1 ELSE ran

Init ==
  /\ string = [k \in 0 .. MaxLen |-> Terminator]
  /\ taken = FALSE
  /\ pc = "idle"
  /\ i = 0
  /\ nextTime = 0
  /\ currentTime = 0
  /\ newTime = FALSE
  /\ nextIsZero = FALSE
  /\ sender = 0
  /\ tmr3On = FALSE
  /\ tmr2ie = TRUE
  /\ ran = 0
  /\ nextPos = 0
  /\ onAir = -1
  /\ age = 0

-----------------------------------------------------------------------------
\* LMTakeString copies a packet and its terminator over the buffer, whose
\* other bytes stay those of earlier packets.
TakePacket(p) ==
  string' = [k \in 0 .. MaxLen |-> IF k < Len(p) THEN p[k + 1]
                                   ELSE IF k = Len(p) THEN Terminator
                                   ELSE string[k]]

NewPacket(p) ==
  /\ pc = "idle"
  /\ TakePacket(p)
  /\ taken' = TRUE
  /\ UNCHANGED <<pc, i, tmr3On, tmr2ie, nextTime, currentTime, newTime,
                 nextIsZero, sender, ran, historyVars>>

\* The interrupt is off until the last statement of this step.  send() takes
\* a packet before it calls rfSend.
Start ==
  /\ pc = "idle"
  /\ taken
  /\ pc' = "first"
  /\ i' = 0
  /\ nextIsZero' = FALSE
  /\ currentTime' = 0
  /\ newTime' = FALSE
  /\ nextTime' = string[0]
  /\ tmr3On' = TRUE
  /\ nextPos' = 0
  /\ onAir' = -1
  /\ age' = 0
  /\ ran' = 0
  /\ UNCHANGED <<packet, sender, tmr2ie>>

\* The first wait is over: mask the pwm interrupt and enter the loop.
FirstLoaded ==
  /\ pc = "first"
  /\ newTime
  /\ pc' = "fetch"
  /\ i' = 1
  /\ tmr2ie' = FALSE
  /\ MainStep
  /\ UNCHANGED <<packet, tmr3On, nextTime, currentTime, newTime, nextIsZero,
                 sender, historyVars>>

FetchMarker ==
  /\ pc = "fetch"
  /\ string[i] = Marker
  /\ nextIsZero' = TRUE
  /\ i' = i + 1
  /\ MainStep
  /\ UNCHANGED <<packet, pc, tmr3On, tmr2ie, nextTime, currentTime, newTime,
                 sender, historyVars>>

\* Mutant of FetchPulse: rfNewTime is left set.
FetchPulseKeepsNewTime ==
  /\ pc = "fetch" /\ string[i] \notin {Terminator, Marker}
  /\ pc' = "store"
  /\ MainStep
  /\ UNCHANGED <<packet, i, tmr3On, tmr2ie, nextTime, currentTime, newTime,
                 nextIsZero, sender, historyVars>>

\* rfNewTime is cleared one step before the length is stored.
FetchPulse ==
  /\ pc = "fetch"
  /\ string[i] \notin {Terminator, Marker}
  /\ newTime' = FALSE
  /\ pc' = "store"
  /\ MainStep
  /\ UNCHANGED <<packet, i, tmr3On, tmr2ie, nextTime, currentTime, nextIsZero,
                 sender, historyVars>>

Store ==
  /\ pc = "store"
  /\ nextTime' = string[i]
  /\ nextPos' = i
  /\ pc' = "await"
  /\ MainStep
  /\ UNCHANGED <<packet, i, tmr3On, tmr2ie, currentTime, newTime, nextIsZero,
                 sender, onAir, age>>

Loaded ==
  /\ pc = "await"
  /\ newTime
  /\ pc' = "fetch"
  /\ i' = i + 1
  /\ MainStep
  /\ UNCHANGED <<packet, tmr3On, tmr2ie, nextTime, currentTime, newTime,
                 nextIsZero, sender, historyVars>>

\* Mutant of FetchEnd: the pwm interrupt stays masked.
FetchEndMasked ==
  /\ pc = "fetch" /\ string[i] = Terminator
  /\ newTime' = FALSE /\ pc' = "drain"
  /\ MainStep
  /\ UNCHANGED <<packet, i, tmr3On, tmr2ie, nextTime, currentTime, nextIsZero,
                 sender, historyVars>>

FetchEnd ==
  /\ pc = "fetch"
  /\ string[i] = Terminator
  /\ tmr2ie' = TRUE
  /\ newTime' = FALSE
  /\ pc' = "drain"
  /\ MainStep
  /\ UNCHANGED <<packet, i, tmr3On, nextTime, currentTime, nextIsZero, sender,
                 historyVars>>

\* Mutant of Finish: the level of the last pulse stays on the antenna.
FinishHigh ==
  /\ pc = "drain" /\ newTime
  /\ pc' = "idle" /\ tmr3On' = FALSE /\ onAir' = -1 /\ age' = 0
  /\ MainStep
  /\ UNCHANGED <<packet, i, tmr2ie, nextTime, currentTime, newTime, nextIsZero,
                 sender, nextPos>>

Finish ==
  /\ pc = "drain"
  /\ newTime
  /\ tmr3On' = FALSE
  /\ sender' = 0
  /\ pc' = "idle"
  /\ onAir' = -1
  /\ age' = 0
  /\ MainStep
  /\ UNCHANGED <<packet, i, tmr2ie, nextTime, currentTime, newTime, nextIsZero,
                 nextPos>>

rfSend == \/ Start \/ FirstLoaded \/ FetchMarker \/ FetchPulse \/ Store
          \/ Loaded \/ FetchEnd \/ Finish

-----------------------------------------------------------------------------
\* The three ways through rfTransmitUpdate.

\* Mutant of NothingToLoad: rfNewTime is set with a new pulse only.
NothingToLoadSilent ==
  /\ currentTime = 0 /\ nextTime = 0
  /\ UNCHANGED <<nextTime, currentTime, newTime, nextIsZero, sender, onAir>>

\* The pulse is over and no other is there: "try again next time".
NothingToLoad ==
  /\ currentTime = 0
  /\ nextTime = 0
  /\ newTime' = TRUE
  /\ UNCHANGED <<nextTime, currentTime, nextIsZero, sender, onAir>>

\* Mutant of Load: one interrupt is counted twice.
LoadCountedTwice ==
  /\ newTime' = TRUE
  /\ currentTime' = IF nextTime = 1 THEN 0 ELSE nextTime - 2
  /\ nextTime' = 0
  /\ sender' = IF nextIsZero THEN sender ELSE 1 - sender
  /\ onAir' = nextPos

Load ==
  /\ newTime' = TRUE
  /\ currentTime' = nextTime - 1
  /\ nextTime' = 0
  /\ sender' = IF nextIsZero THEN sender ELSE 1 - sender
  /\ onAir' = nextPos

\* Mutants of LoadNext: a pulse is loaded before the last is over; a marker is
\* not used up by the pulse after it.
LoadNextEarly == nextTime # 0 /\ Load /\ nextIsZero' = FALSE
LoadNextKeepsMarker ==
  currentTime = 0 /\ nextTime # 0 /\ Load /\ UNCHANGED nextIsZero

LoadNext == currentTime = 0 /\ nextTime # 0 /\ Load /\ nextIsZero' = FALSE

\* Mutant of CountDown: the counter is not compared with zero.
CountDownAlways ==
  /\ currentTime' = currentTime - 1
  /\ UNCHANGED <<nextTime, newTime, nextIsZero, sender, onAir>>

CountDown ==
  /\ currentTime # 0
  /\ currentTime' = currentTime - 1
  /\ UNCHANGED <<nextTime, newTime, nextIsZero, sender, onAir>>

\* age stops counting one period after the pulse is due to end.
AgePulse ==
  age' = IF onAir' # onAir THEN 1
         ELSE IF onAir = -1 \/ age > string[onAir] THEN age
         ELSE age + 1

rfTransmitUpdate ==
  /\ tmr3On
  /\ Spinning \/ ran >= MainQuota
  /\ NothingToLoad \/ LoadNext \/ CountDown
  /\ AgePulse
  /\ ran' = 0
  /\ UNCHANGED <<mainVars, nextPos>>

Next == (\E p \in Packets : NewPacket(p)) \/ rfSend \/ rfTransmitUpdate

Spec == Init /\ [][Next]_vars

\* Timer 3 keeps interrupting while it is on, and rfSend has the processor
\* whenever no interrupt handler runs.
Fairness == WF_vars(rfSend /\ pc # "idle") /\ WF_vars(rfTransmitUpdate)

FairSpec == Spec /\ Fairness

-----------------------------------------------------------------------------
FlagsOK == {taken, newTime, nextIsZero, tmr3On, tmr2ie} \subseteq BOOLEAN

DataOK ==
  /\ string \in [0 .. MaxLen -> Byte]
  /\ pc \in {"idle", "first", "fetch", "store", "await", "drain"}
  /\ i \in 0 .. MaxLen
  /\ nextTime \in Byte
  /\ currentTime \in Byte
  /\ sender \in Bit
  /\ ran \in 0 .. MainQuota
  /\ nextPos \in 0 .. MaxLen
  /\ onAir \in -1 .. MaxLen
  /\ age \in 0 .. MaxByte + 1

\* The bytes stay bytes, and rfSend stays within the packet buffer.
TypeOK == FlagsOK /\ DataOK

-----------------------------------------------------------------------------
(***************************************************************************)
(* rfSend is on time, and has something to send: while a pulse lasts       *)
(* rfSend can see that it was loaded, read the markers after it, and clear *)
(* and store the next pulse.                                               *)
(***************************************************************************)
PacketTimely(p) ==
  /\ Len(p) > 0
  /\ \A m, n \in 1 .. Len(p) :
       (/\ m < n
        /\ p[n] # Marker
        /\ \A k \in (m + 1) .. (n - 1) : p[k] = Marker
        /\ m = 1 \/ p[m] # Marker)
         => n - m + 2 <= p[m] * MainQuota

Timely == \A p \in Packets : PacketTimely(p)

\* A main loop that is on time plays every packet exactly as PulseTrain
\* promises: no pulse lost, reordered, shortened or stretched by the
\* handshake on rfNewTime and rfNextTime, and every packet comes to its end.
Train == INSTANCE PulseTrain WITH sending <- pc # "idle", level <- sender

PlaysThePacket == Train!FairSpec

\* However late rfSend is, no pulse follows another before the other has
\* lasted its length.  (A late rfSend may still cut the last pulse short, or
\* lose one, when it takes a rfNewTime that was set for nothing for its own.)
NeverCutShort ==
  [][onAir # -1 /\ onAir' \notin {onAir, -1} => age >= string[onAir]]_vars

\* However late rfSend is, none of its three waits for rfNewTime hangs: every
\* call of rfSend returns.
EveryCallReturns == pc # "idle" ~> pc = "idle"

\* Between calls the antenna is low, the transmit interrupt is stopped and
\* the pwm interrupt is enabled again, whatever the interrupt did last.
QuietWhenIdle == pc = "idle" => sender = 0 /\ ~ tmr3On /\ tmr2ie

\* "next time haven't been calculated yet, try again next time"
\* (rf/transmit.c:14): a length stored in rfNextTime stays there until the
\* interrupt has loaded it.
StoredTimeIsLoaded ==
  [][pc # "idle" /\ nextTime # 0 => nextTime' \in {nextTime, 0}]_vars

\* The inductive invariant behind NeverCutShort and QuietWhenIdle, whatever
\* the speed of rfSend: it never runs off the end of the buffer, what it offers
\* is a pulse of the packet, the pulse on the air has its length or still has
\* it before it, and the pwm interrupt is masked in the loop over the packet
\* only.
LateInv ==
  /\ string[MaxLen] = Terminator
  /\ pc \in {"store", "await"} => string[i] # Terminator
  /\ pc # "idle" /\ nextTime # 0 => nextTime = string[nextPos]
  /\ onAir >= 0 => age + currentTime >= string[onAir]
  /\ pc \in {"idle", "first", "drain"} => tmr2ie
  /\ pc = "idle" => ~ tmr3On /\ sender = 0 /\ onAir = -1

-----------------------------------------------------------------------------
(***************************************************************************)
(* The inductive invariant behind PlaysThePacket, in named parts.          *)
(***************************************************************************)
Follows(s, m, n) == Train!Follows(s, m, n)

\* The deadlines that PacketTimely gives, for the packet in the buffer.
BufferTimely ==
  \A m, n \in 0 .. MaxLen :
    (/\ \A k \in 0 .. m : string[k] # Terminator
     /\ m = 0 \/ string[m] # Marker
     /\ Follows(string, m, n))
      => n - m + 2 <= string[m] * MainQuota

BufferInv ==
  /\ string[MaxLen] = Terminator
  /\ BufferTimely
  /\ pc # "idle" => \A k \in 0 .. (i - 1) : string[k] # Terminator
  /\ pc # "idle" => taken
  /\ taken => string[0] # Terminator

\* rfSend has read nothing but markers since the pulse on the air.
OnlyMarkersSince ==
  /\ onAir \in 0 .. (i - 1)
  /\ \A k \in (onAir + 1) .. (i - 1) : string[k] = Marker

\* The level is to be kept exactly when a marker has been read.
MarkerNoted == nextIsZero <=> onAir + 1 < i

\* Nothing is on offer to the interrupt.
NoneOffered == nextTime = 0

IdleInv == pc = "idle" => onAir = -1 /\ age = 0 /\ sender = 0 /\ ~ tmr3On

FirstInv ==
  pc = "first" =>
    /\ tmr3On
    /\ i = 0
    /\ ~ nextIsZero
    /\ IF newTime
         THEN onAir = 0 /\ NoneOffered
         ELSE /\ onAir = -1 /\ age = 0 /\ sender = 0 /\ currentTime = 0
              /\ nextTime = string[0] /\ nextPos = 0

FetchInv ==
  pc = "fetch" =>
    tmr3On /\ newTime /\ NoneOffered /\ OnlyMarkersSince /\ MarkerNoted

StoreInv ==
  pc = "store" =>
    /\ tmr3On /\ ~ newTime /\ NoneOffered /\ OnlyMarkersSince /\ MarkerNoted
    /\ string[i] \notin {Terminator, Marker}

AwaitInv ==
  pc = "await" =>
    /\ tmr3On
    /\ string[i] \notin {Terminator, Marker}
    /\ IF newTime
         THEN onAir = i /\ NoneOffered /\ ~ nextIsZero
         ELSE /\ OnlyMarkersSince /\ MarkerNoted
              /\ nextTime = string[i] /\ nextPos = i

DrainInv ==
  pc = "drain" =>
    /\ tmr3On /\ NoneOffered /\ OnlyMarkersSince
    /\ string[i] = Terminator
    /\ newTime => currentTime = 0 /\ age = string[onAir] + 1

\* The pulse on the air has lasted its length but for currentTime; only the
\* last pulse of a packet lasts longer.
AirInv ==
  onAir >= 0 =>
    /\ onAir = 0 \/ string[onAir] # Marker
    /\ string[onAir] # Terminator
    /\ age >= 1
    /\ \/ age + currentTime = string[onAir]
       \/ /\ currentTime = 0
          /\ age = string[onAir] + 1
          /\ Train!IsLast(string, onAir)

\* The steps rfSend owes before the pulse at j is in rfNextTime.
Owes(j) ==
  CASE pc \in {"first", "await"} -> IF newTime THEN j - i + 2 ELSE 0
    [] pc = "fetch" -> j - i + 2
    [] pc = "store" -> 1
    [] OTHER -> 0

\* What rfSend owes fits into what is left of the pulse on the air.
DeadlineInv ==
  (pc # "idle" /\ onAir >= 0) =>
    \A j \in 0 .. MaxLen :
      Follows(string, onAir, j)
        => Owes(j) <= currentTime * MainQuota + (MainQuota - ran)

HandshakeInv ==
  /\ BufferInv
  /\ IdleInv /\ FirstInv /\ FetchInv /\ StoreInv /\ AwaitInv /\ DrainInv
  /\ AirInv
  /\ DeadlineInv
=============================================================================
