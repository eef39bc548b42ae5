----------------------------- MODULE PulseTrain -----------------------------
(***************************************************************************)
(* What rfSend (rf/transmit.c) promises its caller.                        *)
(*                                                                         *)
(* A packet is a C string of pulse lengths.  Each byte keeps the antenna   *)
(* at one level for that many periods of timer 3; the level is inverted    *)
(* from one pulse to the next.  The byte 1 is not a pulse but a marker:    *)
(* the pulse after it keeps the level of the pulse before it, which is how *)
(* a length above 255 is written.  The first byte is always a pulse.       *)
(*                                                                         *)
(* The promise: the pulses go on the air in the order of the packet, none  *)
(* is left out, each lasts exactly its length, and the antenna is low once *)
(* the packet is over.  Only the last pulse may be stretched, until the    *)
(* caller's loop notices that it is over.                                  *)
(***************************************************************************)
EXTENDS Integers

CONSTANTS
  MaxLen,    (* the last index of the packet buffer, always a terminator   *)
  MaxByte    (* the largest byte, 255 in the code                          *)

VARIABLES
  string,    (* the packet buffer, a byte for each index                   *)
  sending,   (* a packet is being sent                                     *)
  onAir,     (* the index of the pulse on the air, -1 before the first     *)
  level,     (* the level of the antenna                                   *)
  age        (* periods the pulse on the air has lasted                    *)

trainVars == <<string, sending, onAir, level, age>>

Marker == 1
Terminator == 0

IsPulse(s, i) == s[i] \notin {Terminator, Marker}

\* The pulse at j follows the one at i: only markers lie between them.
Follows(s, i, j) ==
  /\ j \in (i + 1) .. MaxLen
  /\ IsPulse(s, j)
  /\ \A k \in (i + 1) .. (j - 1) : s[k] = Marker

IsLast(s, i) == \A j \in 0 .. MaxLen : ~ Follows(s, i, j)

Init ==
  /\ string \in [0 .. MaxLen -> 0 .. MaxByte]
  /\ sending = FALSE
  /\ onAir = -1
  /\ level = 0
  /\ age = 0

\* The packet may be replaced between two transmissions only.
ChangePacket ==
  /\ ~ sending
  /\ string' \in [0 .. MaxLen -> 0 .. MaxByte]
  /\ UNCHANGED <<sending, onAir, level, age>>

Begin ==
  /\ ~ sending
  /\ sending' = TRUE
  /\ UNCHANGED <<string, onAir, level, age>>

FirstPulse ==
  /\ sending
  /\ onAir = -1
  /\ onAir' = 0
  /\ level' = 1
  /\ age' = 1
  /\ UNCHANGED <<string, sending>>

Hold ==
  /\ sending
  /\ onAir >= 0
  /\ age < string[onAir]
  /\ age' = age + 1
  /\ UNCHANGED <<string, sending, onAir, level>>

NextPulse ==
  /\ sending
  /\ onAir >= 0
  /\ age = string[onAir]
  /\ \E j \in 0 .. MaxLen :
        /\ Follows(string, onAir, j)
        /\ onAir' = j
        /\ level' = IF j = onAir + 1 THEN 1 - level ELSE level
  /\ age' = 1
  /\ UNCHANGED <<string, sending>>

\* The last pulse is over and the sender has not noticed yet.
Linger ==
  /\ sending
  /\ onAir >= 0
  /\ IsLast(string, onAir)
  /\ age = string[onAir]
  /\ age' = age + 1
  /\ UNCHANGED <<string, sending, onAir, level>>

End ==
  /\ sending
  /\ onAir >= 0
  /\ IsLast(string, onAir)
  /\ age >= string[onAir]
  /\ sending' = FALSE
  /\ onAir' = -1
  /\ level' = 0
  /\ age' = 0
  /\ UNCHANGED string

Play == FirstPulse \/ Hold \/ NextPulse \/ End

Next == ChangePacket \/ Begin \/ Play \/ Linger

Spec == Init /\ [][Next]_trainVars

\* A packet that was begun is played to its end.
FairSpec == Spec /\ WF_trainVars(Play)
=============================================================================
