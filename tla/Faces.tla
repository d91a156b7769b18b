-------------------------------- MODULE Faces --------------------------------
(***************************************************************************)
(* What the panel's faces say: what is held of the readings (rstate.rs of  *)
(* loa-oled), the bench's pages and the scope's blips (face.rs), and the   *)
(* rails as the cortex reads them (main.rs).  A field that a message does  *)
(* not carry is Silent.  Seconds, and tenths of a degree; placing and      *)
(* wording are left out (Pixels.tla has the drawing of it).                *)
(***************************************************************************)
EXTENDS Integers, Sequences, FiniteSets

CONSTANT Silent

Or(value, default) == IF value = Silent THEN default ELSE value

(* RenderState::default *)
Unheard ==
    [state |-> [mode |-> "", text |-> Silent, flip |-> FALSE, page |-> "sensors", mood |-> "calm",
                console |-> FALSE, condition |-> ""],
     pir   |-> [high |-> FALSE, count |-> 0, last |-> Silent, on |-> Silent, hold |-> 0],
     snr   |-> [cm |-> Silent, count |-> 0, ts |-> Silent],
     air   |-> [temp |-> Silent, hum |-> Silent, hpa |-> Silent, trend |-> ""],
     fault |-> Silent,
     power |-> [ts |-> Silent, rails |-> <<>>, throttled |-> Silent, seal |-> <<>>]]

(* a setting that a message leaves out stays, but no text is said by none *)
HoldState(h, m) ==
    [h EXCEPT !.state = [k \in DOMAIN @ |-> IF k = "text" THEN m.text ELSE Or(m[k], @[k])]]

HoldPir(h, m) ==
    [h EXCEPT !.pir = [high |-> Or(m.high, FALSE), count |-> Or(m.count, 0), last |-> m.last,
                       on |-> m.on, hold |-> Or(m.hold, 0)]]

(* a ping that heard nothing leaves the reading, and its time, alone *)
HoldSonar(h, m) ==
    IF m.cm = Silent THEN h
    ELSE [h EXCEPT !.snr = [cm |-> m.cm, count |-> Or(m.count, 0), ts |-> m.ts]]

HoldWeather(h, m) ==
    [h EXCEPT !.air = [temp |-> m.temp, hum |-> m.hum, hpa |-> m.hpa, trend |-> Or(m.trend, "")]]

HoldFault(h, m) == [h EXCEPT !.fault = [rows |-> m.rows, ts |-> Or(m.ts, 0)]]

Without(f, k) == [n \in DOMAIN f \ {k} |-> f[n]]

(* a word of the seal is taken for what it reads as *)
seal_value(word) == [kind |-> word.reads, is |-> word.is]

(* The rails and the seal are whole in each message; the throttle word is   *)
(* taken out of the rails if it is among them.                              *)
HoldPower(h, m) ==
    [h EXCEPT !.power =
        [ts |-> m.ts, rails |-> Without(m.rails, "throttled"),
         seal |-> [k \in DOMAIN m.seal |-> seal_value(m.seal[k])],
         throttled |-> IF "throttled" \in DOMAIN m.rails THEN m.rails["throttled"] ELSE @.throttled]]

(* by its topic; a frame or an event is none of the panel's *)
hold(h, m) ==
    CASE m.topic = "state"   -> HoldState(h, m)
      [] m.topic = "pir"     -> HoldPir(h, m)
      [] m.topic = "sonar"   -> HoldSonar(h, m)
      [] m.topic = "weather" -> HoldWeather(h, m)
      [] m.topic = "fault"   -> HoldFault(h, m)
      [] m.topic = "power"   -> HoldPower(h, m)
      [] OTHER               -> h

(* read_rails: the word of vcgencmd is read as bare digits *)
Hex(text) == IF text.prefix = "0x" THEN Silent ELSE text.bits

read_rails(volts, word) ==
    IF word = Silent \/ Hex(word) = Silent THEN volts
    ELSE [k \in DOMAIN volts \cup {"throttled"} |-> IF k = "throttled" THEN Hex(word) ELSE volts[k]]
-----------------------------------------------------------------------------
(* HH:MM:SS of a stamp, for an offset of the zone; before 1970 as after it *)
fmt_clock(ts, offset) ==
    LET r == (ts + offset) % 86400
    IN  [h |-> r \div 3600, m |-> (r % 3600) \div 60, s |-> r % 60]

(* The clock shows a time of day, and the one the stamp has there. *)
TimeOfDay(ts, offset) ==
    LET shown == fmt_clock(ts, offset)
    IN  /\ shown.h \in 0..23 /\ shown.m \in 0..59 /\ shown.s \in 0..59
        /\ (3600 * shown.h + 60 * shown.m + shown.s - offset - ts) % 86400 = 0

(* TZ if it spells an offset ... *)
parse_fixed_offset(tz) ==
    CASE tz.kind = "utc"    -> 0
      [] tz.kind = "signed" -> tz.sign * (tz.h * 3600 + tz.m * 60)
      [] OTHER              -> Silent

(* ... or the first local time of the zone file that is not a summer time *)
tzif_std_offset(types) ==
    LET standard == SelectSeq(types, LAMBDA type : ~type.isdst)
    IN  IF standard = <<>> THEN Silent ELSE Head(standard).gmtoff

local_offset(tz, types) == Or(parse_fixed_offset(tz), Or(tzif_std_offset(types), 0))

(* a zero stamp is none *)
Stamp(ts) == IF ts = Silent \/ ts = 0 THEN Silent ELSE fmt_clock(ts, 0)

Has(f, k) == k \in DOMAIN f

(* of the seal: a truth or a number; a value of another kind is as if absent *)
Said(h, k, kind, default) ==
    IF Has(h.power.seal, k) /\ h.power.seal[k].kind = kind THEN h.power.seal[k].is ELSE default

Sealed(h) == Said(h, "sealed", "bool", FALSE)
Num(h, k) == Said(h, k, "number", 0)

sensors(h) ==
    [lit |-> {l \in {"PIR", "SNR", "TMP", "BAR", "SEAL"} :
                CASE l = "PIR"  -> h.pir.high
                  [] l = "SNR"  -> h.snr.cm # Silent
                  [] l = "TMP"  -> h.air.temp # Silent
                  [] l = "BAR"  -> h.air.hpa # Silent
                  [] l = "SEAL" -> Sealed(h)},
     count |-> h.pir.count, cm |-> h.snr.cm]

pir(h, t) ==
    [lit |-> h.pir.high, count |-> h.pir.count, last |-> Stamp(h.pir.last),
     hold |-> IF h.pir.high THEN (IF Stamp(h.pir.on) = Silent THEN 0 ELSE t - h.pir.on)
              ELSE h.pir.hold]

snr(h) == [cm |-> h.snr.cm, count |-> h.snr.count, last |-> Stamp(h.snr.ts)]

Clamp(n, lo, hi) == IF n < lo THEN lo ELSE IF n > hi THEN hi ELSE n

(* the thermometer, 5 to 40 degrees over the 111 pixels of its stem *)
STEM == 111
gauge(temp) == IF temp = Silent THEN 0 ELSE (STEM * (Clamp(temp, 50, 400) - 50)) \div 350

trend_caret(trend) == CASE trend \in {"rising", "falling"} -> trend
                        [] OTHER                           -> "steady"

temp(h) ==
    [temp |-> h.air.temp, gauge |-> gauge(h.air.temp), hpa |-> h.air.hpa,
     hum |-> IF h.air.temp = Silent THEN Silent ELSE h.air.hum,
     caret |-> IF h.air.hpa = Silent THEN Silent ELSE trend_caret(h.air.trend)]

frag(h) == [word |-> IF Sealed(h) THEN "SEALED" ELSE "GONE", entries |-> Num(h, "entries"),
            access |-> Num(h, "access_count")]

Bit(word, mask) == word # Silent /\ (word \div mask) % 2 = 1
UV == 1
THR == 4
Shown == {"EXT5V_V", "3V3_SYS_V", "3V3_SYS_A", "VDD_CORE_V", "VDD_CORE_A"}

power(h) ==
    [lit |-> {l \in {"UV", "THR"} : Bit(h.power.throttled, IF l = "UV" THEN UV ELSE THR)},
     rails |-> [k \in Shown |-> IF Has(h.power.rails, k) THEN h.power.rails[k] ELSE Silent]]
-----------------------------------------------------------------------------
FAULTS_STALE == 300
ROWS == 5

(* the rows of a report by their code, those of one code as they came *)
ByCode(rows) ==
    LET before(i, j) == rows[i].code < rows[j].code \/ (rows[i].code = rows[j].code /\ i < j)
        place(i) == Cardinality({j \in DOMAIN rows : before(j, i)}) + 1
    IN  [n \in DOMAIN rows |-> rows[CHOOSE i \in DOMAIN rows : place(i) = n]]

Of(rows, level) == Cardinality({i \in DOMAIN rows : rows[i].level = level})

(* The count first, and of a report long dead as well. *)
headCounted(f, t) ==
    CASE Of(f.rows, "fault") > 0                                    -> "HURTS"
      [] Of(f.rows, "fault") = 0 /\ Of(f.rows, "warn") > 0          -> "NIGGLE"
      [] OTHER                                                      -> "ALL QUIET"

(* an unstamped report is a fresh one *)
head(f, t) ==
    LET age == IF f.ts = 0 THEN 0 ELSE t - f.ts
    IN  CASE age > FAULTS_STALE                                     -> "SENSE DEAD"
          [] age <= FAULTS_STALE /\ Of(f.rows, "fault") > 0         -> "HURTS"
          [] age <= FAULTS_STALE /\ Of(f.rows, "fault") = 0 /\ Of(f.rows, "warn") > 0
                                                                    -> "NIGGLE"
          [] OTHER                                                  -> "ALL QUIET"

(* the face of a row, or for want of one its code *)
label(row) == IF row.face = Silent THEN row.code ELSE row.face

fault(h, t) ==
    IF h.fault = Silent THEN [head |-> "NO SWEEP", rows |-> <<>>]
    ELSE LET rows == ByCode(h.fault.rows)
         IN  [head |-> head(h.fault, t),
              rows |-> [n \in 1..(IF Len(rows) > ROWS THEN ROWS ELSE Len(rows)) |-> label(rows[n])]]

(* the page a name draws; one it does not know is sensors *)
page(name) == IF name \in {"pir", "snr", "temp", "frag", "power", "fault"} THEN name ELSE "sensors"

(* the face a mode draws; one it does not know is a marquee of its name *)
make_renderer(mode, text) ==
    CASE mode \in {"off", "scope", "ecg", "ripple", "noise", "showoff", "ripperdoc"} ->
            [face |-> mode, says |-> Silent]
      [] mode = "text" -> [face |-> "marquee", says |-> Or(text, "LOA")]
      [] OTHER         -> [face |-> "marquee", says |-> "??"]
-----------------------------------------------------------------------------
(* The scope's blips, in tenths: one is drawn for 2.5 s from a flash on,    *)
(* the next flash 8 to 15 s after that.                                     *)
LIFE == 25
Gap == 80..150

(* the clock of a tick is that since the last frame drawn, wash or not;     *)
(* gap is how long the scope decides to wait if it flashes now              *)
tick(scope, dt, now, gap) ==
    LET alive == SelectSeq([n \in DOMAIN scope.blips |-> scope.blips[n] + dt], LAMBDA a : a < LIFE)
    IN  IF now >= scope.next
        THEN [blips |-> Append(alive, 0), next |-> now + gap]
        ELSE [blips |-> alive, next |-> scope.next]

(* The demo's loop of 17 s *)
showoff(t) ==
    LET c == t % 170
    IN  CASE c < 30              -> "sweep"
          [] c >= 30 /\ c < 110  -> "marquee"
          [] c >= 110 /\ c < 130 -> "glitch"
          [] OTHER               -> "message"

(* where text scrolled in from the right stands *)
marquee(t, speed, width) == 128 - (((t * speed) \div 10) % (width + 128))
=============================================================================
