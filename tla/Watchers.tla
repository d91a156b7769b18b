------------------------------ MODULE Watchers -------------------------------
(***************************************************************************)
(* The two that only watch the feed: the console of the bench              *)
(* (crates/ripperdoc) and the matrix that lights when the body hurts       *)
(* (alert.rs of rust/loa-matrix).  A field that a message does not carry   *)
(* is Silent.                                                              *)
(***************************************************************************)
EXTENDS Integers, Sequences, FiniteSets

CONSTANT Silent

Or(value, default) == IF value = Silent THEN default ELSE value

(* Model::default, by the fields that tell messages apart *)
Blank == [face |-> Silent, frames |-> 0, ring |-> Silent, mood |-> Silent, text |-> "",
          flip |-> FALSE, console |-> FALSE, condition |-> Silent,
          high |-> FALSE, cm |-> Silent, temp |-> Silent, hpa |-> Silent, v3 |-> Silent,
          throttled |-> Silent, faults |-> 0]

(* a frame of the wrong size is none *)
FACE == 1024
RING == 72

KeptForgotten(value, held) == value

(* what a message leaves out stays *)
Kept(value, held) == Or(value, held)

(* Model::apply.  The settings, the motion, the pressure and the condition *)
(* stay when a message leaves them out; the range, the air and the rails   *)
(* go; a text never goes.                                                  *)
apply(v, m) ==
    CASE m.topic = "ripperdoc" ->
            [v EXCEPT !.face = IF m.face = FACE THEN m.face ELSE @,
                      !.frames = IF m.face = FACE THEN @ + 1 ELSE @,
                      !.mood = Kept(m.mood, @), !.text = Kept(m.text, @), !.flip = Kept(m.flip, @),
                      !.console = Kept(m.console, @), !.condition = Kept(m.condition, @)]
      [] m.topic = "ring"    -> [v EXCEPT !.ring = IF m.ring = RING THEN m.ring ELSE @]
      [] m.topic = "pir"     -> [v EXCEPT !.high = Kept(m.high, @)]
      [] m.topic = "sonar"   -> [v EXCEPT !.cm = m.cm]
      [] m.topic = "weather" -> [v EXCEPT !.temp = m.temp, !.hpa = Kept(m.hpa, @)]
      [] m.topic = "power"   -> [v EXCEPT !.v3 = m.v3, !.throttled = m.throttled]
      [] m.topic = "fault"   -> [v EXCEPT !.condition = Kept(m.condition, @), !.faults = m.rows]
      [] OTHER               -> v

(* the status line: five seconds without a face is no feed *)
QUIET == 5
status(v, age) ==
    CASE age > QUIET                                         -> "NO FEED"
      [] age <= QUIET /\ v.v3 = Silent                       -> "PWR --"
      [] age <= QUIET /\ v.v3 # Silent /\ v.throttled # Silent /\ v.throttled % 2 = 1
                                                             -> "UV!"
      [] age <= QUIET /\ v.v3 # Silent /\ v.throttled # Silent /\ v.throttled % 2 = 0
            /\ (v.throttled \div 4) % 2 = 1                  -> "THR!"
      [] OTHER                                               -> "3V3"

CONSOLE_PAGES == [key \in {"1", "2", "3", "4", "5", "6", "7"} |->
    CASE key = "1" -> "sensors" [] key = "2" -> "pir" [] key = "3" -> "snr" [] key = "4" -> "temp"
      [] key = "5" -> "frag" [] key = "6" -> "power" [] key = "7" -> "fault"]

(* the key map: what a key asks of the door (a command of Verbs.tla); the   *)
(* toggles turn over what the body said last                                *)
command(v, key) ==
    CASE key = "r"   -> [cmd |-> "ripperdoc", on |-> ~v.console, page |-> Silent]
      [] key = "m"   -> [cmd |-> "feel", feeling |-> Silent, next |-> TRUE]
      [] key = "f"   -> [cmd |-> "display", mode |-> Silent, text |-> Silent, dim |-> Silent, flip |-> ~v.flip]
      [] key \in DOMAIN CONSOLE_PAGES -> [cmd |-> "ripperdoc", on |-> Silent, page |-> CONSOLE_PAGES[key]]
      [] OTHER       -> Silent

(* The words of a status line are the version, the code and the reason; a   *)
(* word that is no number counts as 0, and post_json takes the third.       *)
Parsed(answer, word) == IF word = 2 THEN answer.code ELSE 0
post_json(answer) == IF Parsed(answer, 3) >= 400 THEN "refused" ELSE "done"
-----------------------------------------------------------------------------
(* The matrix: Body::default, absorb, and the policy in its order. *)
Well == [faults |-> 0, warns |-> 0, condition |-> "", throttled |-> 0]

absorb(b, m) ==
    CASE m.topic = "fault" -> [b EXCEPT !.faults = m.faults, !.warns = m.warns,
                                        !.condition = Or(m.condition, @)]
      [] m.topic = "power" -> [b EXCEPT !.throttled = Or(m.throttled, @)]
      [] OTHER             -> b

sigil(b) ==
    LET hurt == b.faults > 0 \/ b.condition = "hurts"
        sag == b.throttled % 2 = 1
    IN  CASE hurt                                                                   -> "Fault"
          [] ~hurt /\ sag                                                           -> "Urgent"
          [] ~hurt /\ ~sag /\ (b.warns > 0 \/ b.condition = "niggle")               -> "Attention"
          [] OTHER                                                                  -> "Dark"

(* half a blink in milliseconds, 0 for a steady light; and how bright *)
half_period(s) == CASE s = "Attention" -> 700 [] s = "Urgent" -> 150 [] OTHER -> 0
level(s) == CASE s = "Dark" -> 0 [] s = "Attention" -> 4 [] s = "Urgent" -> 9 [] s = "Fault" -> 12

(* A turn of run, on [shown, lit, edge]: a new sigil shows at once, one     *)
(* that blinks turns at its edge.                                           *)
turn(p, s, now) ==
    CASE p.shown # s -> [shown |-> s, lit |-> TRUE, edge |-> now + half_period(s)]
      [] p.shown = s /\ half_period(s) > 0 /\ now >= p.edge
                     -> [shown |-> s, lit |-> ~p.lit, edge |-> now + half_period(s)]
      [] OTHER       -> p
=============================================================================
