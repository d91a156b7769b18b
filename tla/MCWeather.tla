------------------------------ MODULE MCWeather ------------------------------
(* Weather.tla for TLC: a room at rest, and pressures that creep under the gate. *)
EXTENDS Weather

MCAir == {[temp |-> 0, hum |-> 4]}
=============================================================================
