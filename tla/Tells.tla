-------------------------------- MODULE Tells --------------------------------
(***************************************************************************)
(* The voices of the ring, crates/loa-ring: the ladder of tells.rs and the *)
(* shape of each voice in time (tells.rs, render.rs), in hundredths of a   *)
(* second from the start of the clock or of the record; of the colours,    *)
(* only what tells one voice from another.                                 *)
(***************************************************************************)
EXTENDS Naturals, Integers, Sequences

Voices == {"alarm", "hurts", "mute", "busy", "scan", "glitch", "home"}
Kinds == {"scan", "glitch"}
LEDS == 24
FPS == 30

(* Cond::parse: a word it does not know is well *)
Cond(word) == IF word \in {"hurts", "mute", "niggle"} THEN word ELSE "well"

(* "Fault report never heard reads as mute, never as well." *)
device_condition(seen, word, none) ==
    CASE ~seen                -> "mute"
      [] seen /\ word = none  -> "well"
      [] OTHER                -> Cond(word)

pick_tellBusyFirst(cond, ring_state, pending, none) ==
    CASE ring_state = "alarm"                        -> "alarm"
      [] ring_state = "busy"                         -> "busy"
      [] ring_state \notin {"alarm", "busy"} /\ cond \in {"hurts", "mute"} -> cond
      [] ring_state = "home" /\ cond \notin {"hurts", "mute"} /\ pending # none -> pending
      [] OTHER                                       -> "home"

(* The first that holds, from the top; a record plays only at home. *)
pick_tell(cond, ring_state, pending, none) ==
    CASE ring_state = "alarm"                        -> "alarm"
      [] ring_state # "alarm" /\ cond \in {"hurts", "mute"} -> cond
      [] ring_state = "busy" /\ cond \notin {"hurts", "mute"} -> "busy"
      [] ring_state = "home" /\ cond \notin {"hurts", "mute"} /\ pending # none -> pending
      [] OTHER                                       -> "home"

(* A body that hurts, or of which nothing is known, is not hidden by a busy *)
(* ring or a record, only by the alarm; a record plays only over a well or  *)
(* niggling body at home, and none waits while the ring is idle there.      *)
Heeded(seen, word, state, pending, none) ==
    LET cond == device_condition(seen, word, none)
        told == pick_tell(cond, state, pending, none)
    IN  /\ ~seen => cond = "mute"
        /\ told = "alarm" <=> state = "alarm"
        /\ cond \in {"hurts", "mute"} /\ state # "alarm" => told = cond
        /\ told \in Kinds => state = "home" /\ cond \in {"well", "niggle"} /\ told = pending
        /\ told = "home" => cond \in {"well", "niggle"} /\ (pending = none \/ state # "home")
-----------------------------------------------------------------------------
(* three red pulses of 0.4 s, 0.3 s apart, then dark for 2 s *)
ALARM_CYCLE == 3 * 70 + 200
alarm(t) == LET p == t % ALARM_CYCLE IN IF p < 210 /\ p % 70 < 40 THEN "red" ELSE "dark"

(* deep red, three steps bright and four dim, 0.28 s each, never dark *)
HURTS_STEP == 28
hurts(t) == IF (t % (7 * HURTS_STEP)) \div HURTS_STEP < 3 THEN "deep red" ELSE "dim red"

(* dark, one dim white blink in the last 0.4 s of ten *)
MUTE == 1000
BLINK == 40
mute(t) == IF t % MUTE >= MUTE - BLINK THEN "dim white" ELSE "dark"

(* a sequence sampled over its length, wrapping, the last frame at most *)
sample(len, t, total) ==
    LET i == ((t % total) * len) \div total IN IF i < len THEN i ELSE len - 1

Frames(hundredths) == (hundredths * FPS) \div 100

(* the breaths: inhale, hold, exhale, rest *)
Breath == [home |-> <<300, 80, 420, 50>>, busy |-> <<240, 50, 340, 40>>]
BreathFrames(v) == Frames(Breath[v][1]) + Frames(Breath[v][2]) + Frames(Breath[v][3])
                   + Frames(Breath[v][4])
BreathLength(v) == Breath[v][1] + Breath[v][2] + Breath[v][3] + Breath[v][4]
Phase(v, t) ==
    LET i == sample(BreathFrames(v), t, BreathLength(v))
        ends(n) == Frames(Breath[v][1]) + (IF n > 1 THEN Frames(Breath[v][2]) ELSE 0)
                   + (IF n > 2 THEN Frames(Breath[v][3]) ELSE 0)
    IN  CASE i < ends(1)                     -> "inhale"
          [] i >= ends(1) /\ i < ends(2)     -> "hold"
          [] i >= ends(2) /\ i < ends(3)     -> "exhale"
          [] i >= ends(3)                    -> "rest"

(* Whenever one looks, a mute ring blinks within 9.6 s and an alarm is red  *)
(* within 2.3, and a breath comes round after its length.                   *)
MuteSeen(t) == \E late \in 0..960 : mute(t + late) # "dark"
AlarmSeen(t) == \E late \in 0..230 : alarm(t + late) = "red"
BreathRound(v, t) == Phase(v, t) = Phase(v, t + BreathLength(v))
SeenInTime(t) == MuteSeen(t) /\ AlarmSeen(t) /\ \A v \in DOMAIN Breath : BreathRound(v, t)

(* lap and fade of a scan, by the console flag *)
scan_timings(ripperdoc) == IF ripperdoc THEN [lap |-> 90, fade |-> 30]
                           ELSE [lap |-> 160, fade |-> 50]
ScanLength(ripperdoc) == scan_timings(ripperdoc).lap + scan_timings(ripperdoc).fade
ScanFrames(ripperdoc) == Frames(scan_timings(ripperdoc).lap) + Frames(scan_timings(ripperdoc).fade)

(* The lit leds of a scan's frame: the head goes round in the lap and stays *)
(* where the lap left it for the fade; fewer than six steps behind it glow. *)
(* Positions are in lap frames times leds.                                  *)
comet(ripperdoc, frame) ==
    LET lap == Frames(scan_timings(ripperdoc).lap)
        head == LEDS * (IF frame < lap THEN frame ELSE lap - 1)
    IN  {i \in 0..(LEDS - 1) : (head - i * lap) % (LEDS * lap) < 6 * lap}

(* nine stutter frames and a dark one; a record of 0.3 s *)
GLITCH == 30
GLITCH_FRAMES == Frames(GLITCH) + 1
glitch(elapsed) ==
    LET i == (elapsed * GLITCH_FRAMES) \div GLITCH
    IN  IF i >= GLITCH_FRAMES - 1 THEN "dark" ELSE "split"
-----------------------------------------------------------------------------
(* encode.rs: a channel's bits, the high one first, each a whole SPI byte *)
ONE == 14
ZERO == 8
ws_byte(v) == [n \in 1..8 |-> IF (v \div 2^(8 - n)) % 2 = 1 THEN ONE ELSE ZERO]

(* green, red, blue of each led, then 24 bytes of low *)
encode_frame(pixels) ==
    LET Wire(p) == ws_byte(p.g) \o ws_byte(p.r) \o ws_byte(p.b)
        upto[n \in 0..Len(pixels)] == IF n = 0 THEN <<>> ELSE upto[n - 1] \o Wire(pixels[n])
    IN  upto[Len(pixels)] \o [n \in 1..24 |-> 0]
=============================================================================
