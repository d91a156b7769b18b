-------------------------------- MODULE Chips --------------------------------
(***************************************************************************)
(* What a daemon starts from, its settings (lib.rs of loa-sense), and from *)
(* the wires to a reading: the DHT's pulses (dht.rs of loa-weather),       *)
(* the sonar's echo (main.rs of loa-sonar), the trend the cortex makes of  *)
(* the pressures (state.rs of loa-cortex).  Microseconds; temperature and  *)
(* humidity in tenths; the trend in minutes and tenths of a hectopascal.   *)
(***************************************************************************)
EXTENDS Integers, Sequences

CONSTANT Nothing        \* no reading

DHT_ONE == 60
DHT_MAX_EDGES == 84

(* the value of eight widths, the high bit first; a long one is a 1 *)
Byte(widths) ==
    LET upto[n \in 0..8] == IF n = 0 THEN 0
                            ELSE 2 * upto[n - 1] + (IF widths[n] > DHT_ONE THEN 1 ELSE 0)
    IN  upto[8]

(* The five bytes of the window of forty that follows s pulses. *)
Window(pulses, s) == [b \in 0..4 |-> Byte(SubSeq(pulses, s + 8 * b + 1, s + 8 * b + 8))]

Checks(b) == (b[0] + b[1] + b[2] + b[3]) % 256 = b[4]

Reading(b) == [temp |-> 10 * b[2] + b[3], hum |-> 10 * b[0] + b[1]]


(* only a frame that checks is held to -40..80 degrees and 0..100 percent *)
Usable(b) == Checks(b) /\ Reading(b).temp \in -400..800 /\ Reading(b).hum \in 0..1000

(* decode: of every alignment, the first that is usable *)
decode(pulses) ==
    LET from[s \in Nat] ==
            CASE s + 40 > Len(pulses)       -> Nothing
              [] s + 40 <= Len(pulses) /\ Usable(Window(pulses, s))
                                            -> Reading(Window(pulses, s))
              [] OTHER                      -> from[s + 1]
    IN  from[0]

(* A rising edge and the edge after it make a pulse; a stray falling one *)
(* makes none.                                                            *)
highs_from_edges(edges) ==
    LET from[i \in Nat] ==
            CASE i + 1 > Len(edges)                      -> <<>>
              [] i + 1 <= Len(edges) /\ edges[i].rising  ->
                    <<edges[i + 1].at - edges[i].at>> \o from[i + 2]
              [] OTHER                                   -> from[i + 1]
    IN  from[1]

(* collect: the changes of level after the first sample, 84 at the most; *)
(* no change at all, or a pin that cannot be read, is no answer.         *)
collect(levels) ==
    LET edges == SubSeq(levels, 1, IF Len(levels) > DHT_MAX_EDGES THEN DHT_MAX_EDGES ELSE Len(levels))
    IN  IF levels = <<>> THEN Nothing ELSE highs_from_edges(edges)

(* Dht::read: [reading, fails]; a train that is no answer counts no failure *)
read(levels, fails) ==
    LET pulses == collect(levels)
        heard == IF pulses = Nothing THEN Nothing ELSE decode(pulses)
    IN  [reading |-> heard,
         fails   |-> CASE pulses = Nothing                     -> fails
                       [] pulses # Nothing /\ heard = Nothing  -> fails + 1
                       [] OTHER                                -> 0]
-----------------------------------------------------------------------------
(* The sensor, as its pulses are read: a high of 80 us before the forty     *)
(* bits, each a low of 50 us and a high of 27 or 70; before that the line   *)
(* itself is high for some 30 us if the first sample caught it still low.   *)
Bits(frame) == [n \in 1..40 |-> (frame[(n - 1) \div 8] \div 2^(7 - ((n - 1) % 8))) % 2]

Highs(frame, before) == before \o [n \in 1..40 |-> IF Bits(frame)[n] = 1 THEN 70 ELSE 27]

(* the edges of such a train; one that starts high starts with a fall *)
Train(highs, startsLow) ==
    LET begun[n \in 1..Len(highs)] == IF n = 1 THEN 50 ELSE begun[n - 1] + highs[n - 1] + 50
        pairs[n \in 0..Len(highs)] ==
            IF n = 0 THEN <<>>
            ELSE pairs[n - 1] \o <<[rising |-> TRUE, at |-> begun[n]],
                                   [rising |-> FALSE, at |-> begun[n] + highs[n]]>>
    IN  (IF startsLow THEN <<>> ELSE <<[rising |-> FALSE, at |-> 0]>>) \o pairs[Len(highs)]

Frame(hum, temp, tenths) == [b \in 0..4 |-> <<hum, 0, temp, tenths, (hum + temp + tenths) % 256>>[b + 1]]
-----------------------------------------------------------------------------
ECHO_TIMEOUT == 30000
US_PER_CM == 58

(* measure: how long until the echo rises, and how long it is high; a pin *)
(* that cannot be read, a wait too long and no width at all are nothing.  *)
measure(pin, rises, high) ==
    IF pin = "error" \/ rises > ECHO_TIMEOUT \/ high > ECHO_TIMEOUT \/ high = 0 THEN Nothing
    ELSE high \div US_PER_CM

(* A ping is the range of its echo, less than 5.2 m, or nothing at all. *)
EchoOrNothing(pin, rises, high) ==
    LET cm == measure(pin, rises, high)
    IN  IF pin # "error" /\ high # 0 /\ rises <= ECHO_TIMEOUT /\ high <= ECHO_TIMEOUT
        THEN cm \in 0..517 /\ high - US_PER_CM * cm \in 0..(US_PER_CM - 1)
        ELSE cm = Nothing
-----------------------------------------------------------------------------
BARO_SERIES_POINTS == 60

Sum(f, n) == LET upto[i \in 0..n] == IF i = 0 THEN 0 ELSE upto[i - 1] + f[i] IN upto[n]

(* the sums of the least squares, the slope in tenths of hPa an hour as a *)
(* numerator over a denominator                                           *)
Slope(window) ==
    LET n == Len(window)
        Of(F(_, _)) == Sum([i \in 1..n |-> F(window[i].t, window[i].p)], n)
        sx == Of(LAMBDA t, p : t)
        sy == Of(LAMBDA t, p : p)
        sxx == Of(LAMBDA t, p : t * t)
        sxy == Of(LAMBDA t, p : t * p)
    IN  [num |-> 60 * (n * sxy - sx * sy), den |-> n * sxx - sx * sx]

directionByLast(window) ==
    LET n == Len(window)
        rise == IF n < 2 THEN 0 ELSE window[n].p - window[n - 1].p
    IN  CASE rise > 0 -> "rising" [] rise < 0 -> "falling" [] OTHER -> "steady"

(* against a deadband of 0.3 hPa an hour *)
direction(window) ==
    LET slope == Slope(window)
    IN  CASE Len(window) >= 2 /\ slope.den # 0 /\ slope.num > 3 * slope.den   -> "rising"
          [] Len(window) >= 2 /\ slope.den # 0 /\ slope.num < -3 * slope.den  -> "falling"
          [] OTHER                                                           -> "steady"

baro_trend(window) ==
    LET n == Len(window)
        first == IF n > BARO_SERIES_POINTS THEN n - BARO_SERIES_POINTS + 1 ELSE 1
    IN  [dir |-> direction(window),
         series |-> IF n < 2 THEN <<>> ELSE [i \in 1..(n - first + 1) |-> window[first + i - 1].p]]
-----------------------------------------------------------------------------
(* A setting, from the environment, then loa.conf, then the default.  A     *)
(* text is [num, padded, off]: the number it is but for the blanks around   *)
(* it, whether it has blanks, whether it is one of the spellings of off; a  *)
(* value of the file is [kind, is], with a number's own spelling as a text. *)
truthy(text) == ~text.off

setting(env, conf, default) ==
    IF env # Nothing /\ env.num # Nothing THEN env.num
    ELSE CASE conf.kind = "number" -> conf.is
           [] conf.kind = "bool"   -> IF conf.is THEN 1 ELSE 0
           [] conf.kind = "text" /\ ~conf.is.padded /\ conf.is.num # Nothing -> conf.is.num
           [] OTHER                -> default

(* an empty word of the environment is an answer here *)
setting_bool(env, conf, default) ==
    IF env # Nothing THEN truthy(env)
    ELSE CASE conf.kind = "bool"   -> conf.is
           [] conf.kind = "text"   -> truthy(conf.is)
           [] conf.kind = "number" -> truthy(conf.spelt)
           [] OTHER                -> default

(* "A module that is deliberately unplugged" stays off by whatever spelling *)
(* of off and wherever it is written, unless the environment, which goes    *)
(* first, says on; and a word there that is no number is as none.           *)
OffStays(env, conf, default) ==
    LET on == setting_bool(env, conf, default)
        n(of) == setting(of, conf, 30)
        filed == CASE conf.kind = "text"   -> conf.is.off
                   [] conf.kind = "bool"   -> ~conf.is
                   [] conf.kind = "number" -> conf.spelt.off
                   [] OTHER                -> FALSE
    IN  /\ (IF env = Nothing THEN filed ELSE env.off) => ~on
        /\ env = Nothing /\ conf.kind = "other" => on = default /\ n(Nothing) = 30
        /\ env # Nothing => on = setting_bool(env, [kind |-> "other"], ~default)
        /\ n(env) = IF env # Nothing /\ env.num # Nothing THEN env.num ELSE n(Nothing)
=============================================================================
