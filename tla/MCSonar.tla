------------------------------- MODULE MCSonar -------------------------------
(* Sonar.tla for TLC; the configuration gives the ranges, gate and bounds. *)
EXTENDS Sonar
=============================================================================
