------------------------------- MODULE MCRing --------------------------------
(* Ring.tla for TLC: two scans and a glitch; scans of four steps, or of two   *)
(* with the console on.                                                       *)
EXTENDS Ring

MCRecord == {[kind |-> "scan", ts |-> 1], [kind |-> "scan", ts |-> 2],
             [kind |-> "glitch", ts |-> 2]}
MCLength == [k \in Kinds \X BOOLEAN |-> IF k = <<"scan", FALSE>> THEN 4
                                        ELSE IF k = <<"scan", TRUE>> THEN 2 ELSE 1]
=============================================================================
