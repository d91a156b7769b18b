------------------------------- MODULE MCGlass -------------------------------
(* Glass.tla for TLC; the configuration gives the wash's times and the bounds. *)
EXTENDS Glass

Says(m, p, d, f, w) == [mode |-> m, page |-> p, dim |-> d, flip |-> f, word |-> w]

(* a face, the bench on either page, the face off; each lit or dim, either way up *)
MCStateSays ==
    {Says("ecg", "sensors", FALSE, FALSE, "well"), Says("ecg", "sensors", TRUE, FALSE, "hurts"),
     Says("ripperdoc", "sensors", FALSE, TRUE, "hurts"), Says("off", "sensors", TRUE, TRUE, "well"),
     Says("off", "fault", FALSE, FALSE, "well")}
=============================================================================
