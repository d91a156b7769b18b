------------------------------- MODULE Tables --------------------------------
(***************************************************************************)
(* The parts of the body that keep no state, each asked one question: what *)
(* may ride the wire, what a sweep finds, how a voice of the ring looks,   *)
(* what the wires of a chip say, how a line is drawn, what a page and the  *)
(* watchers show.  A behaviour is one question; the answers are compared   *)
(* with a definition that does not follow the code.                        *)
(***************************************************************************)
EXTENDS Integers, Sequences, FiniteSetsExt, TLC

CONSTANT None           \* nothing: no body, reading, report or field

W == INSTANCE Wire
F == INSTANCE Sweep WITH Absent <- None
R == INSTANCE Tells
C == INSTANCE Chips WITH Nothing <- None
P == INSTANCE Pixels
O == INSTANCE Faces WITH Silent <- None
V == INSTANCE Watchers WITH Silent <- None
L == INSTANCE Bodies
B == INSTANCE Verbs WITH Word <- {}, Absent <- "no row", Foreign <- "a foreign row"

VARIABLE asked
-----------------------------------------------------------------------------
(* The wire: an envelope on a topic, the topics of no consumer among them. *)
Envelopes ==
    [table : {"wire"}, topic : W!TOPICS \cup {"oled", "none such"},
     env : [parses : BOOLEAN, schema : {W!SCHEMA_VERSION, 10}, body : W!Bodies \cup {None}]]

(* The sweep: a machine that is well but for at most two things. *)
WellMachine ==
    [cortex |-> "active", listening |-> TRUE, door |-> TRUE, tree |-> TRUE,
     rail |-> {}, temp |-> 50, disk |-> 40, now |-> 1000,
     weather |-> [ts |-> 990, says |-> {"TEMP", "BARO"}],
     units |-> [u \in {F!UNITS[n] : n \in 1..7} |-> "active"],
     buses |-> [b \in {"FACE", "RING"} |-> "owner"]]

Set(i, field, value) == [i EXCEPT ![field] = value]

Ailing(i) ==
    {Set(i, "rail", F!probe_rail(said)) :
        said \in [ended : {TRUE}, rc : {0}, out : {{0}, {2}, {16}}] \cup [ended : {TRUE}, rc : {255}, out : {{}}]}
    \cup {Set(i, "temp", c) : c \in {None, 79, 80}} \cup {Set(i, "disk", F!probe_disk(free, total)) : free \in {0, 300, 301, 310}, total \in {0, 2000}}
    \cup {Set(i, "weather", w) : w \in {None, [ts |-> None, says |-> {"TEMP"}],
                                        [ts |-> 400, says |-> {"TEMP"}], [ts |-> 399, says |-> {"BARO"}]}}
    \cup {Set(i, field, FALSE) : field \in {"listening", "door", "tree"}}
    \cup {[Set(i, "units", [i.units EXCEPT ![u] = F!is_active(outcome)])
             EXCEPT !.cortex = IF u = "loa-cortex" THEN F!is_active(outcome) ELSE @] :
                u \in {"loa-cortex", "loa-ring"},
                outcome \in [ended : {TRUE}, rc : {0, 3}, out : {"failed", "inactive", "auto-restart"}]
                            \cup [ended : {FALSE}, rc : {0}, out : {""}]}
    \cup {Set(i, "buses", [i.buses EXCEPT !["RING"] = who]) : who \in {"missing", "others", "free"}}

Machines ==
    [table : {"sweep"}, age : {0, 300, 301},
     machine : {WellMachine} \cup Ailing(WellMachine) \cup UNION {Ailing(i) : i \in Ailing(WellMachine)}]

(* The ring: what its ladder chooses from, and a voice at a moment. *)
Ladders ==
    [table : {"ladder"}, seen : BOOLEAN, word : {"well", "niggle", "hurts", "mute", None},
     state : {"home", "busy", "alarm"}, pending : {"scan", "glitch", None}]
Moments == [table : {"moment"}, t : 0..1100]

(* The DHT: a room, at most one pulse that the poll slept through, with the *)
(* highs before the bits that the first sample left to be seen.             *)
Rooms ==
    [table : {"dht"}, hum : {0, 20, 41, 99}, temp : {0, 19, 22, 50}, tenths : {0, 5},
     before : {<<>>, <<80>>}, low : BOOLEAN, lost : 0..41]

Echoes == [table : {"echo"}, pin : {"read", "error"}, rises : {0, 30000, 30001},
           high : {0, 1, 57, 58, 29999, 30000, 30001}]

(* The settings: words of the environment, values of the file *)
Texts == [num : {0}, padded : BOOLEAN, off : BOOLEAN] \cup [num : {None}, padded : BOOLEAN, off : BOOLEAN]
         \cup [num : {7}, padded : BOOLEAN, off : {FALSE}]
Written == [kind : {"text"}, is : Texts] \cup [kind : {"bool"}, is : BOOLEAN] \cup {[kind |-> "other"]}
           \cup [kind : {"number"}, is : {0}, spelt : {t \in Texts : t.num = 0 /\ ~t.padded}]
           \cup [kind : {"number"}, is : {7}, spelt : {t \in Texts : t.num = 7 /\ ~t.padded}]
Words == [table : {"setting"}, env : Texts \cup {None}, conf : Written, default : BOOLEAN]

Pressures == [table : {"trend"}, dt : [1..3 -> 1..2], p : [1..4 -> {10129, 10130, 10131}]]

(* The panel: lines, the leds of the matrix, a fault page, a scope. *)
Lines == [table : {"line"}, x : -7..7, y : -7..7]
Rotations == [table : {"matrix"}, rotation : {0, 90, 180, 270, 450}]
Sweeps ==
    [table : {"page"}, ts : {None, 1000}, age : {0, 300, 301},
     rows : UNION {[1..n -> [code : {1, 2}, level : {"fault", "warn"}, face : {None, 7}]] : n \in 0..2}
            \cup [1..6 -> [code : {1, 2, 3}, level : {"warn"}, face : {None}]]]
(* A zone as its file has it: whole, from the local mean time on, or slim,  *)
(* with one blank type in the first block.                                  *)
Type(gmtoff, isdst) == [gmtoff |-> gmtoff, isdst |-> isdst]
Zones ==
    [table : {"zone"}, tz : [kind : {"utc", "name"}] \cup [kind : {"signed"}, sign : {-1, 1}, h : {5, 10}, m : {0, 30}],
     types : {<<Type(36292, FALSE), Type(39600, TRUE), Type(36000, FALSE)>>,
              <<Type(39600, TRUE), Type(36000, FALSE)>>, <<Type(0, FALSE)>>}]

Scopes == [table : {"scope"}, dt : [1..8 -> {13, 40}], wash : 0..8, gap : {80, 100}]

(* The watchers: two messages of the feed, one after the other. *)
Frames == [topic : {"ripperdoc"}, face : {1024, None}, mode : {None}, page : {None}, mood : {"idle", None}, text : {"hello", None},
           flip : {TRUE, None}, console : {TRUE, None}, condition : {"hurts", None}]
Said == [topic : {"fault"}, faults : {0, 1}, warns : {0, 1}, rows : {0},
         condition : {"well", "niggle", "hurts", None}]
        \cup [topic : {"power"}, throttled : {None, 0, 1, 4, 5}, v3 : {None, 33}]
(* A reading or the rails, in whole or in part, upon the one before it. *)
Upon == [pir     |-> [topic |-> "pir", high |-> TRUE, count |-> 1, last |-> 3661, on |-> 900, hold |-> 5],
         sonar   |-> [topic |-> "sonar", cm |-> 90, count |-> 1, ts |-> 900],
         weather |-> [topic |-> "weather", temp |-> 210, hum |-> 40, hpa |-> 10130, trend |-> "falling"],
         power   |-> [topic |-> "power", ts |-> 900, rails |-> [k \in {"3V3_SYS_V", "throttled"} |-> 1],
                      seal |-> [k \in {"entries"} |-> [reads |-> "number", is |-> 3]]]]

(* status.json as the vault writes it, and what is told in its place *)
Value(kind, is) == [kind |-> kind, is |-> is]
Null == Value("null", None)
Text(reads) == [kind |-> "text", reads |-> reads, is |-> "5d41"]
Statuses ==
    {[sealed |-> Value("bool", sealed), entries |-> Value("number", n), access_count |-> Value("number", 4),
      hash |-> hash, marker |-> marker] :
        sealed \in BOOLEAN, n \in {0, 7}, hash \in {Null, Text("text"), Text("number")}, marker \in {Null, Text("text")}}
    \cup {[sealed |-> Value("bool", FALSE), error |-> Text("text")]}
Seals == [table : {"seal"}, status : Statuses]

Parts(m) == {[f \in DOMAIN m |-> IF f \in said THEN m[f] ELSE None] : said \in {t \in SUBSET DOMAIN m : "topic" \in t}}
Fresh == Parts([topic |-> "pir", high |-> TRUE, count |-> 2, last |-> 99999, on |-> 990, hold |-> 7])
         \cup Parts([topic |-> "pir", high |-> FALSE, count |-> 2, last |-> 0, on |-> 990, hold |-> 7])
         \cup Parts([topic |-> "sonar", cm |-> 120, count |-> 2, ts |-> 1000])
         \cup UNION {Parts([topic |-> "weather", temp |-> temp, hum |-> 41, hpa |-> 10131, trend |-> "rising"]) :
                         temp \in {-5, 50, 53, 54, 400, 500}}
         \cup {L!build_power(rails, status, 1000) :
                  rails \in UNION {[keys -> {33}] : keys \in SUBSET {"3V3_SYS_V", "EXT5V_V", "throttled"}},
                  status \in Statuses}
Readings == [table : {"reading"}, upon : BOOLEAN, said : Fresh]

(* A key of the console, with the body in any mood. *)
Presses == [table : {"key"}, key : {"r", "m", "f"} \cup DOMAIN V!CONSOLE_PAGES, flip : BOOLEAN, console : BOOLEAN,
            mood : {B!MOODS[n].name : n \in DOMAIN B!MOODS}]

(* The status line of an answer of the door. *)
Answers == [table : {"answer"}, version : {"HTTP/1.1"}, code : {200, 400, 403}, reason : {"OK", "Error"}]

Feeds == [table : {"console"}, first : Frames, second : Frames]
         \cup [table : {"matrix body"}, first : Said, second : Said]

Init ==
    \/ asked \in Envelopes \/ asked \in Machines \/ asked \in Ladders \/ asked \in Moments
    \/ asked \in Rooms \/ asked \in Pressures \/ asked \in Lines \/ asked \in Rotations
    \/ asked \in Sweeps \/ asked \in Zones \/ asked \in Scopes \/ asked \in Feeds
    \/ asked \in Readings \/ asked \in Presses \/ asked \in Answers \/ asked \in Echoes
    \/ asked \in Words \/ asked \in Seals

Next == UNCHANGED asked

Spec == Init /\ [][Next]_asked

Asked(table) == asked.table = table
-----------------------------------------------------------------------------
(* Whatever is asked to ride the wire, a topic carries its one body.        *)
WireTrue == Asked("wire") => W!OneBody(asked.topic, asked.env)

(* What is wrong with a machine, of the causes a sweep is there to find *)
Wrong(i) ==
    \/ \E u \in DOMAIN i.units : i.units[u] # "active"
    \/ \E b \in DOMAIN i.buses : i.buses[b] \in {"others", "free"}
    \/ i.rail # None /\ i.rail \cap {0, 1, 2, 3} # {}
    \/ i.weather # None /\ i.weather.says # {} /\ (i.weather.ts = None \/ i.now > 600 + i.weather.ts)
    \/ i.disk # None /\ i.disk >= 85
    \/ ~i.listening \/ (i.tree /\ ~i.door)

(* "Silence is not health": a sweep has a row whenever something is wrong   *)
(* and none when nothing is; what hurts leads; the word of a report is that *)
(* of its rows for five minutes and mute from then on; --quiet hides only warns. *)
SweepTrue ==
    Asked("sweep") =>
        LET rows == F!evaluate(asked.machine)
            report == F!Report(rows, asked.machine.now)
            word == F!condition(report, asked.machine.now + asked.age)
        IN  /\ (rows # <<>>) = Wrong(asked.machine)
            /\ \A m, n \in DOMAIN rows : m < n =>
                    rows[m] # rows[n] /\ ~(rows[m].level = "warn" /\ rows[n].level = "fault")
            /\ word = IF asked.age > 300 THEN "mute" ELSE F!sweep_condition(rows)
            /\ F!sweep_condition(rows) = "well" <=> ~Wrong(asked.machine)
            /\ Len(F!format_report(report, TRUE)) = report.faults
            /\ F!condition(None, asked.machine.now) = "mute"

(* A body that hurts, or of which nothing is known, is not hidden by a busy *)
(* ring or a record, only by the alarm; a record plays only over a well or  *)
(* niggling body at home.  Whenever one looks, a mute ring blinks within    *)
(* 9.6 s, an alarm is red within 2.3; a breath comes round; and a scan's   *)
(* comet has its six or seven leds wherever in the lap or the fade it is.   *)
(* A frame is 600 bytes to the leds, of which each channel can be read.     *)
VoicesTrue ==
    /\ Asked("ladder") =>
        R!Heeded(asked.seen, asked.word, asked.state, asked.pending, None)
    /\ Asked("moment") =>
        /\ R!SeenInTime(asked.t)
        /\ \A fast \in BOOLEAN : LET lit == R!comet(fast, asked.t % R!ScanFrames(fast))
                                 IN  Cardinality(lit) \in 6..7
        /\ LET v == asked.t % 256
               bits == R!ws_byte(v)
           IN  /\ v = MapThenSumSet(LAMBDA n : IF bits[n] = R!ONE THEN 2^(8 - n) ELSE 0, 1..8)
               /\ Len(R!encode_frame([n \in 1..24 |-> [r |-> 0, g |-> v, b |-> 255]])) = 600
-----------------------------------------------------------------------------
(* "A misaligned read decodes to nothing rather than to a wrong room        *)
(* temperature", of a train as the chip sends it that is caught at its      *)
(* response or after it, with any one of its pulses slept through; and only *)
(* a train that made no room counts as a failed read.  A ping is the range  *)
(* of its echo, less than 5.2 m, or nothing at all.                         *)
Pulses(highs, lost) ==
    IF lost \in DOMAIN highs THEN SubSeq(highs, 1, lost - 1) \o SubSeq(highs, lost + 1, Len(highs)) ELSE highs

RoomTold(before) ==
    LET highs == C!Highs(C!Frame(asked.hum, asked.temp, asked.tenths), before)
        read == C!read(C!Train(Pulses(highs, asked.lost), asked.low), 3)
        room == [temp |-> 10 * asked.temp + asked.tenths, hum |-> 10 * asked.hum]
    IN  /\ read.reading \in {room, None}
        /\ asked.lost = 0 => read.reading = room
        /\ read.fails = IF read.reading = None THEN 4 ELSE 0

(* A daemon is set as the environment, the file and the default say.       *)
Settled == C!OffStays(asked.env, asked.conf, asked.default)


(* ... and of one caught before its response, while the line is still high. *)
DhtAligned == Asked("dht") /\ asked.lost = 0 => RoomTold(<<30, 80>>)

(* The trend is that of all the pressures, the mean of the slopes between   *)
(* any two weighed by the time between them, against the deadband; and a    *)
(* pressure that never falls is never said to be falling.                   *)
TrendTrue ==
    Asked("trend") =>
        LET at == <<0, asked.dt[1], asked.dt[1] + asked.dt[2], asked.dt[1] + asked.dt[2] + asked.dt[3]>>
            window == [i \in 1..4 |-> [t |-> at[i], p |-> asked.p[i]]]
            pairs == {<<i, j>> \in (1..4) \X (1..4) : i < j}
            rise == MapThenSumSet(LAMBDA e : (at[e[2]] - at[e[1]]) * (asked.p[e[2]] - asked.p[e[1]]), pairs)
            run == MapThenSumSet(LAMBDA e : (at[e[2]] - at[e[1]]) * (at[e[2]] - at[e[1]]), pairs)
            trend == C!baro_trend(window)
        IN  /\ trend.dir = CASE 60 * rise > 3 * run  -> "rising"
                             [] 60 * rise < -3 * run -> "falling"
                             [] OTHER                -> "steady"
            /\ (\A i \in 1..3 : asked.p[i] <= asked.p[i + 1]) => trend.dir # "falling"
            /\ trend.series = asked.p
-----------------------------------------------------------------------------
(* A line is as long as its longer side, has both its ends, strays half a   *)
(* pixel at the most, and off the screen nothing is drawn or broken; the    *)
(* console's picture is the panel's.  Turned by whatever angle, the matrix  *)
(* has an led of its own for each dot, and four quarter turns are none.     *)
LineTrue ==
    LET dx == asked.x
        dy == asked.y
        points == P!LinePoints(0, 0, dx, dy)
        longer == Max({P!Abs(dx), P!Abs(dy)})
        buf == P!line({}, 3, 3, 3 + dx, 3 + dy, TRUE)
    IN  /\ {<<0, 0>>, <<dx, dy>>} \subseteq points
        /\ Cardinality(points) = longer + 1
        /\ \A p \in points : 2 * P!Abs(p[1] * dy - p[2] * dx) <= longer
        /\ \A x \in 0..10, y \in 0..10 :
                LET cell == P!art(buf, y \div 2, x)
                IN  (IF y % 2 = 0 THEN cell.top ELSE cell.bottom) = (<<x - 3, y - 3>> \in points)
        /\ P!line(buf, 3, 3, 3 + dx, 3 + dy, FALSE) = {}
        /\ Cardinality(P!line({}, 124, 3, 124 + dx, 3 + dy, TRUE))
                = Cardinality({p \in points : p[1] <= 3 /\ p[2] >= -3})
        /\ buf = UNION {{<<page * P!WIDTH + b[1], b[2]>> : b \in P!Shown(buf)[page]} : page \in 0..7}

(* A word stays between its start and its width, no glyph over another. *)
TextTrue ==
    LET Box(width) == (0..(width - 1)) \X (0..4)
        widths == <<5, 3, 1>>
        points == P!TextPoints(asked.x, asked.y, [n \in 1..3 |-> Box(widths[n])], widths)
    IN  /\ Cardinality(points) = 5 * (5 + 3 + 1)
        /\ \A p \in points : p[1] - asked.x \in 0..(P!text_width(widths) - 2)

MatrixTrue ==
    /\ P!DotsTurned(asked.rotation)
    /\ P!set({}, 8, 0, asked.rotation, TRUE) = {}
    /\ Cardinality(P!glyph([n \in 1..8 |-> 2^n - 1], asked.rotation)) = 36

(* Lines, words and the dots of the matrix are drawn where they belong. *)
DrawnTrue == (Asked("line") => LineTrue /\ TextTrue) /\ (Asked("matrix") => MatrixTrue)

(* The fault page says ALL QUIET of a fresh report without a row and of no  *)
(* other, leaves a row out only for five of no higher code, and calls a     *)
(* dead sweep dead whatever it last said.  The scope shows one blip at a time, although     *)
(* its blips stand still through five seconds of wash.                      *)
FaultPage ==
    LET held == O!HoldFault(O!Unheard, [rows |-> asked.rows, ts |-> asked.ts])
        shown == O!fault(held, 1000 + asked.age)
    IN  /\ shown.head = "SENSE DEAD" <=> asked.ts # None /\ asked.age > 300
        /\ shown.head = "ALL QUIET" => asked.rows = <<>>
        /\ shown.head = "NIGGLE" => \A n \in DOMAIN asked.rows : asked.rows[n].level = "warn"
        /\ Len(shown.rows) <= 5
        /\ \A n \in DOMAIN asked.rows :
              \/ \E m \in DOMAIN shown.rows : shown.rows[m] = O!label(asked.rows[n])
              \/ Cardinality({m \in DOMAIN asked.rows : asked.rows[m].code <= asked.rows[n].code}) > 5
        /\ O!fault(O!Unheard, 1000).head = "NO SWEEP"

OneBlip ==
    LET run[n \in 0..8] ==
            IF n = 0 THEN [scope |-> [blips |-> <<>>, next |-> asked.gap], now |-> 0]
            ELSE LET now == run[n - 1].now + asked.dt[n] + (IF n = asked.wash THEN 50 ELSE 0)
                 IN  [scope |-> O!tick(run[n - 1].scope, asked.dt[n], now, asked.gap), now |-> now]
    IN  \A n \in 1..8 : Len(run[n].scope.blips) <= 1

(* A reading that is heard takes the place of the one before it as a whole, *)
(* but for a ping that heard nothing; the thermometer stays on its stem; a  *)
(* clock is a time of day, and scrolling text comes in and goes out whole.  *)
ReadingShown ==
    LET before == IF asked.upon THEN O!hold(O!Unheard, Upon[asked.said.topic]) ELSE O!Unheard
        alone == O!hold(O!Unheard, asked.said)
        after == O!hold(before, asked.said)
        Pages(h) == <<O!pir(h, 1000), O!snr(h), O!temp(h), O!frag(h), O!power(h).rails, O!sensors(h)>>
    IN  /\ Pages(after) = Pages(IF asked.said.topic = "sonar" /\ asked.said.cm = None THEN before ELSE alone)
        /\ O!temp(after).gauge \in 0..O!STEM
        /\ O!fmt_clock(99999, 0) = [h |-> 3, m |-> 46, s |-> 39]

Scrolled ==
    \A width \in {6, 90} :
        LET x(t) == O!marquee(t, 28, width)
        IN  /\ x(asked.t) \in (1 - width)..128
            /\ x(asked.t + 1) \in {x(asked.t) - 3, x(asked.t) - 2}
               \/ (x(asked.t) <= 3 - width /\ x(asked.t + 1) > 125)

ClockShown ==
    O!TimeOfDay(86399, O!local_offset(asked.tz, asked.types))

(* What the panel's faces show is what was heard: the fault page, the       *)
(* scope, the pages of the readings, the marquee and the clock.             *)
FacesTrue ==
    /\ Asked("page") => FaultPage
    /\ Asked("scope") => OneBlip
    /\ Asked("reading") => ReadingShown
    /\ Asked("moment") => Scrolled
    /\ Asked("zone") => ClockShown

(* The console keeps what a message leaves out of the settings, so the last *)
(* message that said a thing decides it; the panel, told the same, holds    *)
(* the same of each setting but the text, of which it holds the last word.  *)
(* A republish, which has no picture to show, takes none from the console.  *)
(* The matrix lights for the worst of what it was last told, and of a body  *)
(* nothing was wrong with in either message stays dark.                     *)
Settings == B!Default @@ [condition |-> "well"]

Watched ==
    LET before == V!apply(V!Blank, asked.first)
        after == V!apply(before, asked.second)
        panel == O!HoldState(O!HoldState(O!Unheard, asked.first), asked.second).state
        told == V!apply(V!apply(after, L!build_ripperdoc(Settings, None, 9)), L!build_ring(None, 9))
        Last(field) == IF asked.second[field] = None THEN before[field] ELSE asked.second[field]
    IN  /\ \A field \in {"mood", "text", "flip", "console", "condition"} : after[field] = Last(field)
        /\ after.frames = Cardinality({n \in 1..2 : <<asked.first, asked.second>>[n].face = V!FACE})
        /\ (after.face = None) = (after.frames = 0)
        /\ told.face = after.face /\ told.frames = after.frames /\ told.ring = after.ring
        /\ panel.text = asked.second.text
        /\ \A field \in {"mood", "flip", "console", "condition"} :
                {asked.first[field], asked.second[field]} # {None} => panel[field] = after[field]

Lit ==
    LET body == V!absorb(V!absorb(V!Well, asked.first), asked.second)
        sigil == V!sigil(body)
        said == {m \in {asked.first, asked.second} : m.topic = "fault"}
        sags == {m \in {asked.first, asked.second} : m.topic = "power" /\ m.throttled \in {1, 5}}
        dark == [shown |-> "Dark", lit |-> FALSE, edge |-> 0]
    IN  /\ asked.second.topic = "fault" /\ asked.second.faults > 0 => sigil = "Fault"
        /\ sigil = "Fault" => \E m \in said : m.faults > 0 \/ m.condition = "hurts"
        /\ sigil = "Urgent" => sags # {}
        /\ sags = {} /\ (\A m \in said : m.faults + m.warns = 0 /\ m.condition \in {"well", None})
                => sigil = "Dark"
        /\ sigil # "Dark" => V!turn(dark, sigil, 500).lit /\ V!level(sigil) > 0

(* The console and the panel show the same number of a message that has it. *)
Alike ==
    LET m == asked.said
        heard == O!hold(IF asked.upon THEN O!hold(O!Unheard, Upon[m.topic]) ELSE O!Unheard, m)
        Console(said) ==
            IF said.topic # "power" THEN said
            ELSE LET Rail(k) == IF k \in DOMAIN said.rails THEN said.rails[k] ELSE None
                 IN  [topic |-> "power", v3 |-> Rail("3V3_SYS_V"), throttled |-> Rail("throttled")]
        v == V!apply(IF asked.upon THEN V!apply(V!Blank, Console(Upon[m.topic])) ELSE V!Blank, Console(m))
    IN  /\ m.topic = "pir" /\ m.high # None => v.high = O!pir(heard, 1000).lit
        /\ m.topic = "sonar" /\ m.cm # None => v.cm = O!snr(heard).cm
        /\ m.topic = "weather" => v.temp = O!temp(heard).temp
        /\ m.topic = "weather" /\ m.hpa # None => v.hpa = O!temp(heard).hpa
        /\ m.topic = "power" => v.v3 = O!power(heard).rails["3V3_SYS_V"]
        /\ V!status(v, 6) = "NO FEED" /\ (V!status(v, 5) = "PWR --" <=> v.v3 = None)

(* What a daemon leaves out of a message does not go off the panel, which   *)
(* itself keeps nothing: the cortex keeps it and sends each reading whole,  *)
(* with a trend of its own.                                                 *)
Carried ==
    LET m == asked.said @@ [ts |-> 990, count |-> 5, trend |-> None]
        first == Upon[m.topic] @@ [ts |-> 980, count |-> 1]
        cx == L!merge(IF asked.upon THEN L!merge(L!Unread, first) ELSE L!Unread, m)
        leg == L!Leg(cx, m.topic, 1000)
        panel == O!hold(O!Unheard, leg)
        Last(field, default) ==
            CASE m[field] # None                -> m[field]
              [] m[field] = None /\ asked.upon  -> first[field]
              [] OTHER                          -> default
    IN  /\ O!hold(O!hold(O!Unheard, L!Leg(L!Unread, m.topic, 1)), leg) = panel
        /\ m.topic = "pir" =>
            /\ panel.pir.high = Last("high", FALSE) /\ panel.pir.count = Last("count", 0)
            /\ panel.pir.on = Last("on", None) /\ panel.pir.hold = Last("hold", 0)
            /\ panel.pir.last = 990
        /\ m.topic = "sonar" => O!snr(panel).cm = Last("cm", None)
        /\ m.topic = "weather" =>
            /\ O!temp(panel).temp = Last("temp", None) /\ O!temp(panel).hpa = Last("hpa", None)
            /\ panel.air.hum = Last("hum", None)
            /\ panel.air.trend = IF asked.upon /\ m.hpa = 10131 THEN "rising" ELSE "steady"

(* The seal crosses as words: the page says of it what the status said, and *)
(* every value but a text that reads as a number arrives as what it was.    *)
Sealed ==
    LET status == asked.status
        held == O!hold(O!Unheard, L!build_power(<<>>, status, 1000))
        noted == L!build_event("boot", status, 1000).detail
        shown == O!frag(held)
        Given(k) == IF k \in DOMAIN status THEN status[k].is ELSE 0
    IN  /\ shown = [word |-> IF status["sealed"].is THEN "SEALED" ELSE "GONE",
                    entries |-> Given("entries"), access |-> Given("access_count")]
        /\ \A k \in DOMAIN status : status[k].kind # "text" => held.power.seal[k] = status[k]
        /\ \A k \in DOMAIN status : k \in DOMAIN noted <=> status[k] # Null

(* A key of the console is a command that the body takes, and once its leg  *)
(* has come round the panel has done what the key says: the flag the body   *)
(* had is turned over, and each digit is a page of its own.                 *)
Pressed ==
    LET flipped == B!display(B!feel(B!Default, asked.mood, FALSE).st, None, None, None, asked.flip).st
        st == IF asked.console THEN B!ripperdoc(flipped, TRUE, None).st ELSE flipped
        Leg(settings) == settings @@ [condition |-> "well"]
        console == V!apply(V!Blank, L!build_ripperdoc(Leg(st), None, 1))
        answer == B!dispatch(st, V!command(console, asked.key))
        panel == O!hold(O!hold(O!Unheard, L!build_state(Leg(st), 1)), L!build_state(Leg(answer.st), 2)).state
        face == O!make_renderer(panel.mode, panel.text)
    IN  /\ answer.ok
        /\ asked.key = "r" => panel.console = ~asked.console /\ (face.face = "ripperdoc") = panel.console
        /\ asked.key = "f" => panel.flip = ~asked.flip
        /\ asked.key = "m" => panel.mood # asked.mood /\ (face.says # None <=> panel.mood = "alarmed")
        /\ asked.key \notin {"r", "f", "m"} => panel.page = V!CONSOLE_PAGES[asked.key]
        /\ Cardinality({O!page(V!CONSOLE_PAGES[key]) : key \in DOMAIN V!CONSOLE_PAGES}) = 7

(* What the watchers show is what was heard, the console shows what the     *)
(* panel shows, which is all that the daemons said, and its keys do what    *)
(* they say.                                                                *)
WatchersTrue ==
    /\ Asked("console") => Watched
    /\ Asked("matrix body") => Lit
    /\ Asked("reading") => Alike
    /\ Asked("reading") /\ asked.said.topic # "power" => Carried
    /\ Asked("seal") => Sealed
    /\ Asked("key") => Pressed

(* "The first ttinfo with its isdst bit clear is LOCAL's standard offset":  *)
(* the clock of a named zone is that of the standard time in force.         *)
ClockTold ==
    Asked("zone") /\ asked.tz.kind = "name" => O!local_offset(asked.tz, asked.types) = 36000

(* "door answered": the console reports a command that the door refused. *)
RefusalTold == Asked("answer") /\ asked.code >= 400 => V!post_json(asked) = "refused"

(* The rails' lamps show what vcgencmd says of the supply: the word comes   *)
(* as it prints it, "0x" first (main.rs of loa-fault strips it there).      *)
PowerTold ==
    Asked("matrix body") /\ asked.first.topic = "power" /\ asked.first.throttled # None =>
        LET rails == O!read_rails([k \in {"3V3_SYS_V"} |-> 33], [prefix |-> "0x", bits |-> asked.first.throttled])
            held == O!HoldPower(O!Unheard, [ts |-> 1, rails |-> rails, seal |-> <<>>])
        IN  "UV" \in O!power(held).lit <=> asked.first.throttled \in {1, 5}
=============================================================================
