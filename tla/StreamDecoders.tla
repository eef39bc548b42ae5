--------------------------- MODULE StreamDecoders ---------------------------
(***************************************************************************)
(* The stream decoders as rfReceiveTask drives them: every run of samples  *)
(* of one level, its length modulo a byte, is told to each of the three    *)
(* (rf/receive.c:143-160), and runs of either level may follow each other, *)
(* for one whose length is 0 modulo a byte is not told.  They share no     *)
(* variable, so a behaviour follows one of them and leaves the others      *)
(* where they start.                                                       *)
(***************************************************************************)
EXTENDS OregonDecoder, OregonV3Decoder, HastaDecoder

VARIABLE followed  (* the decoder the behaviour follows                    *)

streamVars == <<followed, oregonVars, v3Vars, hastaVars>>

StreamInit ==
  /\ followed \in {"oregon", "oregonV3", "hasta"}
  /\ OregonInit /\ V3Init /\ HastaInit

StreamNext ==
  /\ UNCHANGED followed
  /\ \/ /\ followed = "oregon"
        /\ OregonNext /\ UNCHANGED <<v3Vars, hastaVars>>
     \/ /\ followed = "oregonV3"
        /\ V3Next /\ UNCHANGED <<oregonVars, hastaVars>>
     \/ /\ followed = "hasta"
        /\ HastaNext /\ UNCHANGED <<oregonVars, v3Vars>>

StreamSpec == StreamInit /\ [][StreamNext]_streamVars
=============================================================================
