------------------------------ MODULE MCMotion ------------------------------
(* Motion.tla for TLC; the configurations give the asks, the pipe and the bounds. *)
EXTENDS Motion
=============================================================================
