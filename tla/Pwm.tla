-------------------------------- MODULE Pwm --------------------------------
(***************************************************************************)
(* One LED of pwm.c.  An LED that was given pulses climbs from dark to     *)
(* bright and back, one step with each timer 2 interrupt, once for each    *)
(* pulse, and is dark in between.  Both LEDs run the same code.  The fixed *)
(* and the blinking type are left out: no caller sets them.                *)
(***************************************************************************)
EXTENDS Integers

CONSTANTS
  Peak,       (* the brightness a pulse climbs to, 0x7F in the code        *)
  ByteMod     (* 256: the fields of the LED are bytes                      *)

VARIABLES
  txd,        (* the fields of the LED that the pulses use                 *)
  CCPR1L      (* the brightness the hardware shows                         *)

ledVars == <<txd, CCPR1L>>

Led == [duty : 0 .. Peak, dir : {-1, 1}, pulses : 0 .. ByteMod - 1]

Init ==
  /\ txd = [duty |-> 0, dir |-> 1, pulses |-> 0]
  /\ CCPR1L = 0

\* Mutant of Ramp: a pulse is over at its peak.
RampToPeak ==
  LET duty == (txd.duty + txd.dir) % ByteMod
  IN  /\ txd' = IF duty >= Peak
                  THEN [duty |-> duty, dir |-> -1, pulses |-> txd.pulses - 1]
                  ELSE [txd EXCEPT !.duty = duty,
                                   !.dir = IF duty = 0 THEN 1 ELSE txd.dir]
      /\ CCPR1L' = duty

\* The part of pwmUpdate for an LED with pulses left: up to the peak, down to
\* dark, and one pulse less.
Ramp ==
  LET duty == (txd.duty + txd.dir) % ByteMod
  IN  /\ txd' = CASE duty >= Peak -> [txd EXCEPT !.duty = duty, !.dir = -1]
                  [] duty = 0 -> [duty |-> 0, dir |-> 1,
                                  pulses |-> txd.pulses - 1]
                  [] OTHER -> [txd EXCEPT !.duty = duty]
      /\ CCPR1L' = duty

Dark == CCPR1L' = 0 /\ UNCHANGED txd

pwmUpdate == IF txd.pulses > 0 THEN Ramp ELSE Dark

setTXPulses(count) == txd' = [txd EXCEPT !.pulses = count] /\ UNCHANGED CCPR1L
=============================================================================
