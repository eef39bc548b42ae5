---------------------------- MODULE MCReception ----------------------------
(***************************************************************************)
(* Values for Reception: the counts of a burst are on both sides of every  *)
(* limit of the decoder, and commands have house codes and units that are  *)
(* longer than what is sent of them.                                       *)
(***************************************************************************)
EXTENDS Reception, MCStreamDecoders, MCLiveMessage

MCBlockCounts ==
  [d \in Decoders |->
     CASE d \in {"selflearning", "codeswitch"} -> {0, 9, 10, 15, 16}
       [] d = "everflourish" -> {0, 12, 13, 16, 17}
       [] d = "x10" -> {0, 12, 13, 24, 25}
       [] d = "pt2262" -> {5, 6, 14, 15, 20, 21, 29, 30}
       [] d = "mandolyn" -> {9, 10, 20, 21, 29, 30, 40, 41}
       [] d = "fineoffset" -> {0, 10, 11, 13, 14}]

\* The delays of transmit_arctech.c, and what its comments say they last, at
\* 52 us a sample.
MCPulses == [short |-> {5, 6}, long |-> {25, 29}, start |-> {52, 60}]

MCCommands == [house : {1, 2, 7}, unit : {0, 1, 6}, method : {1, 2}]
=============================================================================
