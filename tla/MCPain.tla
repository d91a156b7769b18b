------------------------------- MODULE MCPain --------------------------------
(* Pain.tla for TLC: a ring that is dark, found with the units. *)
EXTENDS Pain

OneAilment == {[level |-> "fault", code |-> "RING DARK", probe |-> "units"]}
=============================================================================
