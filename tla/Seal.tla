-------------------------------- MODULE Seal --------------------------------
(***************************************************************************)
(* What the vault promises, with no files in it: a journal that is born    *)
(* once, only ever grows while it lives, and once destroyed stays so.      *)
(* Vault.tla, which works file by file through crashes and failed writes,  *)
(* implements this.                                                        *)
(***************************************************************************)
EXTENDS Sequences

CONSTANT Entry          \* what a journal line may say

VARIABLES phase,        \* "unborn", then "sealed", then "gone"
          journal       \* the entries the right token can read

vars == <<phase, journal>>

Init ==
    /\ phase = "unborn"
    /\ journal = <<>>

(* The first boot cuts an empty journal. *)
Create ==
    /\ phase = "unborn"
    /\ phase' = "sealed"
    /\ UNCHANGED journal

(* One entry at the end, whole or not at all. *)
Write(e) ==
    /\ phase = "sealed"
    /\ journal' = Append(journal, e)
    /\ UNCHANGED phase

(* The theft consumes the prize. *)
Destroy ==
    /\ phase' = "gone"
    /\ journal' = <<>>

Next == Create \/ (\E e \in Entry : Write(e)) \/ Destroy

Spec == Init /\ [][Next]_vars
=============================================================================
