------------------------------ MODULE MCCortex ------------------------------
(* Cortex.tla for TLC: a sustained and a one-shot mood, a text on the glass, *)
(* the console, a page alone and a refused mode; a fresh store, and one an   *)
(* older body has written with a word and a shape of its own.                *)
EXTENDS Cortex

Feel(w)   == [cmd |-> "feel", feeling |-> w, next |-> FALSE]
NextMood  == [cmd |-> "feel", feeling |-> None, next |-> TRUE]
Say(t)    == [cmd |-> "display", mode |-> "text", text |-> t, dim |-> None, flip |-> None]
Show(m)   == [cmd |-> "display", mode |-> m, text |-> None, dim |-> None, flip |-> FALSE]
Console   == [cmd |-> "ripperdoc", on |-> TRUE, page |-> None]
Page      == [cmd |-> "ripperdoc", on |-> None, page |-> "pir"]

MCWord == Ours \cup {"hi", "static", "drowsy"}

MCCommands == {Feel("pleased"), Say("hi"), Show("static"), Page}
FewCommands == {NextMood, Console, Page}

Fresh == [k \in Keys |-> Absent]
Older == [Fresh EXCEPT !["mood"] = "drowsy", !["oled_dim"] = Foreign, !["snr_on"] = FALSE]

FreshRows == {Fresh}
OlderRows == {Older}
=============================================================================
