-------------------------- MODULE MCStreamDecoders --------------------------
(***************************************************************************)
(* Bytes of two bits; two ids of Oregon sensors, with one and two bytes of *)
(* data; runs on both sides of every limit of a pulse.                     *)
(***************************************************************************)
EXTENDS StreamDecoders

MCIds == {<< <<1, 0>>, <<0, 1>> >>, << <<1, 1>>, <<0, 0>> >>}
MCLength == [id \in MCIds |-> IF id[1] = <<1, 0>> THEN 1 ELSE 2]
=============================================================================
