---------------------------- MODULE SendSession ----------------------------
(***************************************************************************)
(* A session of the radio: send() of tellsticknet.c switches the antenna   *)
(* from the receiver to the transmitter, sends a packet a number of times  *)
(* with a pause after each, and switches back.  sendArctechSelflearning    *)
(* does the same with a command it keys into the SENDER pin by hand.       *)
(*                                                                         *)
(* Sampling (timer 4), transmitting (timer 3) and the LED (timer 2) are    *)
(* interrupts: each register the session writes is a step of its own, and  *)
(* an interrupt whose timer is on may come between any two of them.        *)
(***************************************************************************)
EXTENDS RfTransmit

CONSTANTS
  Counts,     (* the integers a message may hold for "R" and "P"           *)
  DefaultRepeats, DefaultPause,
              (* the counts of a message without them, 10 and 11           *)
  ByteMod,    (* 256: both are kept in an unsigned char                    *)
  Peak        (* the peak brightness of the LED                            *)

ASSUME SessionAssumption ==
  /\ Counts \subseteq Nat
  /\ DefaultRepeats \in 0 .. ByteMod - 1
  /\ DefaultPause \in 0 .. ByteMod - 1
  /\ ByteMod \in Nat /\ ByteMod > 2
  /\ Peak \in 1 .. ByteMod - 1

VARIABLES
  step,       (* where the session is                                      *)
  repeats,    (* how often the packet is to be sent                        *)
  pause,      (* the length of the pause after a packet                    *)
  waited,     (* how much of the pause is over                             *)
  calls,      (* i of the loop: how often the packet was sent              *)
  keyed,      (* the session is one of sendArctechSelflearning             *)
  tmr4On,     (* TMR4ON: the receiver is sampled                           *)
  txAnt,      (* TX_ANT                                                    *)
  rxAnt,      (* RX_ANT                                                    *)
  txd,        (* the LED that tells of transmissions                       *)
  CCPR1L      (* its brightness                                            *)

requestVars == <<repeats, pause, keyed>>
radioVars == <<tmr4On, txAnt, rxAnt>>
ledVars == <<txd, CCPR1L>>
loopVars == <<waited, calls>>
sessionVars == <<step, requestVars, loopVars, radioVars, ledVars>>
allVars == <<vars, sessionVars>>

TxLed == INSTANCE Pwm

\* At boot initReceiver starts the sampling and both antenna pins are low.
SessionInit ==
  /\ Init
  /\ step = "listen"
  /\ repeats = 0
  /\ pause = 0
  /\ waited = 0
  /\ calls = 0
  /\ keyed = FALSE
  /\ tmr4On = TRUE
  /\ txAnt = 0
  /\ rxAnt = 0
  /\ TxLed!Init

-----------------------------------------------------------------------------
\* A message with a packet and its counts, which are cut to a byte.
TakeSend(p, r, w) ==
  /\ step = "listen"
  /\ NewPacket(p)
  /\ repeats' = r % ByteMod
  /\ pause' = w % ByteMod
  /\ keyed' = FALSE
  /\ step' = "startTransmit"
  /\ UNCHANGED <<loopVars, radioVars, ledVars>>

\* A message with a command, which has no counts of its own.
TakeCommand ==
  /\ step = "listen"
  /\ repeats' = DefaultRepeats
  /\ pause' = DefaultPause
  /\ keyed' = TRUE
  /\ step' = "startTransmit"
  /\ UNCHANGED <<vars, loopVars, radioVars, ledVars>>

\* The steps that write one register and go on.
SetRegister(from, to, registers) ==
  /\ step = from
  /\ step' = to
  /\ registers
  /\ UNCHANGED <<requestVars, loopVars, ledVars>>

\* Mutant of rfStartTransmit: the sampling goes on during a transmission.
StartTransmitSampling ==
  \/ SetRegister("startTransmit", "txAntOn", UNCHANGED <<vars, radioVars>>)
  \/ SetRegister("txAntOn", "rxAntOff",
                 txAnt' = 1 /\ UNCHANGED <<vars, tmr4On, rxAnt>>)
  \/ SetRegister("rxAntOff", "next",
                 rxAnt' = 0 /\ UNCHANGED <<vars, tmr4On, txAnt>>)

rfStartTransmit ==
  \/ SetRegister("startTransmit", "txAntOn",
                 tmr4On' = FALSE /\ UNCHANGED <<vars, txAnt, rxAnt>>)
  \/ SetRegister("txAntOn", "rxAntOff",
                 txAnt' = 1 /\ UNCHANGED <<vars, tmr4On, rxAnt>>)
  \/ SetRegister("rxAntOff", "next",
                 rxAnt' = 0 /\ UNCHANGED <<vars, tmr4On, txAnt>>)

\* tmr3On is off already after rfSend; rfStopTransmit clears it once more.
rfStopTransmit ==
  \/ SetRegister("txAntOff", "rxAntOn",
                 txAnt' = 0 /\ UNCHANGED <<vars, tmr4On, rxAnt>>)
  \/ SetRegister("rxAntOn", "tmr3Off",
                 rxAnt' = 1 /\ UNCHANGED <<vars, tmr4On, txAnt>>)
  \/ SetRegister("tmr3Off", "tmr4On",
                 /\ tmr3On' = FALSE
                 /\ UNCHANGED <<packet, pc, i, tmr2ie, nextTime, currentTime,
                                newTime, nextIsZero, sender, ran, historyVars,
                                radioVars>>)
  \/ SetRegister("tmr4On", "listen",
                 tmr4On' = TRUE /\ UNCHANGED <<vars, txAnt, rxAnt>>)

-----------------------------------------------------------------------------
\* The loop: light the LED, send, pause.
NextRepeat ==
  /\ step = "next"
  /\ IF calls < repeats
       THEN /\ TxLed!setTXPulses(2)
            /\ step' = IF keyed THEN "key" ELSE "call"
            /\ UNCHANGED loopVars
       ELSE step' = "txAntOff" /\ calls' = 0 /\ UNCHANGED <<ledVars, waited>>
  /\ UNCHANGED <<vars, requestVars, radioVars>>

CallSend ==
  /\ step = "call"
  /\ Start
  /\ step' = "sending"
  /\ UNCHANGED <<requestVars, loopVars, radioVars, ledVars>>

Sending ==
  /\ step = "sending"
  /\ pc # "idle"
  /\ rfSend
  /\ step' = IF pc' = "idle" THEN "pause" ELSE "sending"
  /\ UNCHANGED <<requestVars, loopVars, radioVars, ledVars>>

\* sendArctechCommand: pulses of the SENDER pin, low again at the end.
KeyPin(to, level) ==
  /\ sender' = level
  /\ step' = to
  /\ UNCHANGED <<mainVars, nextTime, currentTime, newTime, nextIsZero, ran,
                 historyVars, requestVars, loopVars, radioVars, ledVars>>

sendArctechCommand ==
  \/ step = "key" /\ KeyPin("key", 1 - sender)
  \/ step = "key" /\ KeyPin("pause", 0)

\* Mutant of Pause: one millisecond too many.
PauseTooLong ==
  /\ step = "pause"
  /\ IF waited <= pause
       THEN waited' = waited + 1 /\ UNCHANGED <<step, calls>>
       ELSE waited' = 0 /\ calls' = calls + 1 /\ step' = "next"
  /\ UNCHANGED <<vars, requestVars, radioVars, ledVars>>

Pause ==
  /\ step = "pause"
  /\ IF waited < pause
       THEN waited' = waited + 1 /\ UNCHANGED <<step, calls>>
       ELSE waited' = 0 /\ calls' = calls + 1 /\ step' = "next"
  /\ UNCHANGED <<vars, requestVars, radioVars, ledVars>>

\* The main loop has the processor whenever no interrupt does.
Progress ==
  \/ rfStartTransmit \/ rfStopTransmit
  \/ NextRepeat \/ CallSend \/ Sending \/ Pause

MainLoop ==
  \/ \E p \in Packets, r \in Counts \cup {DefaultRepeats},
         w \in Counts \cup {DefaultPause} : TakeSend(p, r, w)
  \/ TakeCommand
  \/ sendArctechCommand
  \/ Progress

TransmitInterrupt == rfTransmitUpdate /\ UNCHANGED sessionVars

LedInterrupt ==
  /\ tmr2ie
  /\ TxLed!pwmUpdate
  /\ UNCHANGED <<vars, step, requestVars, loopVars, radioVars>>

SessionNext == MainLoop \/ TransmitInterrupt \/ LedInterrupt

SessionSpec == SessionInit /\ [][SessionNext]_allVars

\* A command has finitely many pulses.
SessionFairness ==
  /\ WF_allVars(Progress)
  /\ SF_allVars(step = "key" /\ KeyPin("pause", 0))
  /\ WF_allVars(sendArctechCommand)
  /\ WF_allVars(TransmitInterrupt)
  /\ WF_allVars(LedInterrupt)

FairSessionSpec == SessionSpec /\ SessionFairness

-----------------------------------------------------------------------------
SessionTypeOK ==
  /\ step \in {"listen", "startTransmit", "txAntOn", "rxAntOff", "next", "call",
              "sending", "key", "pause", "txAntOff", "rxAntOn", "tmr3Off",
              "tmr4On"}
  /\ repeats \in 0 .. ByteMod - 1
  /\ pause \in 0 .. ByteMod - 1
  /\ waited \in 0 .. pause
  /\ calls \in 0 .. repeats
  /\ {keyed, tmr4On} \subseteq BOOLEAN
  /\ {txAnt, rxAnt} \subseteq Bit
  /\ txd \in TxLed!Led
  /\ CCPR1L \in 0 .. Peak

\* The receiver never samples what this radio sends: while timer 4 runs, the
\* transmit interrupt is stopped, the SENDER pin is low and its antenna off.
NeverHearsItself == tmr4On => sender = 0 /\ txAnt = 0 /\ ~ tmr3On

\* The SENDER pin is high only while the antenna belongs to the transmitter:
\* neither the interrupt nor a command keys into the receiver.
KeyedIntoAntenna == sender = 1 => txAnt = 1 /\ rxAnt = 0

\* Every session ends, with the receiver at the antenna and sampled, however
\* the waits of rfSend, the pauses and the interrupts interleave.
BackToListening ==
  step # "listen" ~> step = "listen" /\ tmr4On /\ rxAnt = 1 /\ txAnt = 0

\* New pulses for an LED that is still lit, or whose interrupt rfSend has
\* masked in between, never make its brightness jump.
LedNeverJumps == [][CCPR1L' - CCPR1L \in {-1, 1}]_CCPR1L

\* The LED does not stay lit after a session, although rfSend masks the
\* interrupt that dims it.
LedGoesDark == step = "listen" ~> CCPR1L = 0 \/ step # "listen"
=============================================================================
