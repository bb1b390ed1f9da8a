------------------------------- MODULE MCAgent -------------------------------
(* One game server; the outputs are one file format, the stream, or both. *)
EXTENDS Agent

MCChoices == {{"tape"}, {"ws"}, {"tape", "ws"}}
FileAndStream == {{"tape", "ws"}}
TapeOnly == {{"tape"}}
=============================================================================
