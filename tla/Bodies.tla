-------------------------------- MODULE Bodies --------------------------------
(***************************************************************************)
(* What the cortex makes of what it is told: the merge of a reading into   *)
(* its state (state.rs) and the body of each topic built from that state   *)
(* (build.rs), both without a lock or a wire.  A field that a message does *)
(* not carry is None.  Tenths, and the stamps of the air in minutes.       *)
(***************************************************************************)
EXTENDS Integers, Sequences

CONSTANT None

Trend == INSTANCE Chips WITH Nothing <- None

Or(value, held) == IF value = None THEN held ELSE value

(* Cortex::default, of the readings *)
Unread ==
    [pir    |-> [high |-> FALSE, count |-> 0, last |-> None, hold |-> 0, on |-> None],
     sonar  |-> [cm |-> None, count |-> 0, ts |-> None],
     air    |-> [temp |-> None, hum |-> None, count |-> 0, ts |-> None, hpa |-> None],
     window |-> <<>>]

BaroWindow == 180

(* the front goes while it is older than the window *)
push_baro(window, ts, hpa) ==
    LET all == Append(window, [t |-> ts, p |-> hpa])
        Old(n) == ts - all[n].t > BaroWindow
    IN  SubSeq(all, CHOOSE n \in DOMAIN all : ~Old(n) /\ \A m \in 1..(n - 1) : Old(m), Len(all))

(* Presence is the only signal.  The stamp of a motion's message goes over  *)
(* the stamp of the motion; what a daemon says of the trend is ignored.     *)
(* No leg has the stamp and count of the pressure, which are in Weather.    *)
merge(cx, m) ==
    CASE m.topic = "pir" ->
            [cx EXCEPT !.pir = [high |-> Or(m.high, @.high), count |-> Or(m.count, @.count),
                                last |-> Or(m.ts, Or(m.last, @.last)),
                                hold |-> Or(m.hold, @.hold), on |-> Or(m.on, @.on)]]
      [] m.topic = "sonar" ->
            [cx EXCEPT !.sonar = [f \in DOMAIN @ |-> Or(m[f], @[f])]]
      [] m.topic = "weather" ->
            [cx EXCEPT !.air = [f \in DOMAIN @ |-> Or(m[f], @[f])],
                       !.window = IF m.hpa = None THEN @ ELSE push_baro(@, Or(m.ts, 0), m.hpa)]
      [] OTHER -> cx
-----------------------------------------------------------------------------
(* The legs; each is stamped with the time it is built at. *)
build_state(st, now) ==
    [topic |-> "state", mode |-> st.oled_mode, text |-> st.oled_text, flip |-> st.oled_flip,
     dim |-> st.oled_dim, page |-> st.page, mood |-> st.mood, ring_state |-> st.ring_state,
     console |-> st.ripperdoc, snr_on |-> st.snr_on, condition |-> st.condition,
     face |-> None, ts |-> now]

(* for the consumers: the same, and the pixels of the last frame relayed *)
build_ripperdoc(st, face, now) ==
    [build_state(st, now) EXCEPT !.topic = "ripperdoc", !.face = face]

build_ring(ring, now) == [topic |-> "ring", ring |-> ring, ts |-> now]

build_pir(cx, now) ==
    [topic |-> "pir", high |-> cx.pir.high, count |-> cx.pir.count, last |-> cx.pir.last,
     hold |-> cx.pir.hold, on |-> cx.pir.on, ts |-> now]

build_sonar(cx, now) == [topic |-> "sonar", cm |-> cx.sonar.cm, count |-> cx.sonar.count, ts |-> now]

build_weather(cx, now) ==
    LET trend == Trend!baro_trend(cx.window)
    IN  [topic |-> "weather", temp |-> cx.air.temp, hum |-> cx.air.hum, count |-> cx.air.count,
         hpa |-> cx.air.hpa, trend |-> trend.dir, series |-> trend.series, ts |-> now]

(* on_inbox: a reading that is merged is published whole *)
Leg(cx, topic, now) ==
    CASE topic = "pir"     -> build_pir(cx, now)
      [] topic = "sonar"   -> build_sonar(cx, now)
      [] topic = "weather" -> build_weather(cx, now)

(* A value of the vault's status is [kind, is]; a text also has what it     *)
(* would read as.  On the wire it is only a word: how it is spelt.          *)
Spelt(v) == [reads |-> IF v.kind = "text" THEN v.reads ELSE v.kind, is |-> v.is]

build_power(rails, status, now) ==
    [topic |-> "power", ts |-> now, rails |-> rails, seal |-> [k \in DOMAIN status |-> Spelt(status[k])]]

(* the detail of a record: the nulls are left out *)
build_event(kind, detail, ts) ==
    [topic |-> "event", kind |-> kind, ts |-> ts,
     detail |-> [k \in {d \in DOMAIN detail : detail[d].kind # "null"} |-> Spelt(detail[k])]]
=============================================================================
