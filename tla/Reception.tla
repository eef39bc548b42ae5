----------------------------- MODULE Reception -----------------------------
(***************************************************************************)
(* The way of a radio message through the device, from the antenna to the  *)
(* report: the filter and the ring, the decoders told every run, those     *)
(* called on a whole burst, and the message a report is written into and a *)
(* client's message is taken from.  Each part takes whatever the one       *)
(* before it may give, so that a behaviour follows one of them and leaves  *)
(* the others where they start.                                            *)
(***************************************************************************)
EXTENDS StreamDecoders, RfFilter, BlockDecoders, LiveMessage

VARIABLE part  (* the part the behaviour follows                           *)

receptionVars == <<part, streamVars, filterVars, blockVars, messageVars>>

ReceptionInit ==
  /\ part \in {"filter", "streams", "blocks", "message"}
  /\ StreamInit /\ FilterInit /\ BlockInit /\ MessageInit
  /\ part # "streams" => followed = "hasta"

ReceptionNext ==
  /\ UNCHANGED part
  /\ \/ /\ part = "filter"
        /\ FilterNext /\ UNCHANGED <<streamVars, blockVars, messageVars>>
     \/ /\ part = "streams"
        /\ StreamNext /\ UNCHANGED <<filterVars, blockVars, messageVars>>
     \/ /\ part = "blocks"
        /\ BlockNext /\ UNCHANGED <<streamVars, filterVars, messageVars>>
     \/ /\ part = "message"
        /\ MessageNext /\ UNCHANGED <<streamVars, filterVars, blockVars>>

ReceptionSpec == ReceptionInit /\ [][ReceptionNext]_receptionVars

ReceptionTypeOK ==
  /\ FilterTypeOK
  /\ OregonTypeOK /\ V3TypeOK /\ HastaTypeOK
  /\ BlockTypeOK
  /\ MessageTypeOK
=============================================================================
