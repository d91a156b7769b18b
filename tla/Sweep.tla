-------------------------------- MODULE Sweep --------------------------------
(***************************************************************************)
(* One sweep of crates/loa-fault: what each probe of main.rs makes of its  *)
(* command, the rows evaluate (lib.rs) makes of the probes, and the words  *)
(* that come of the rows.  A row is [level, code, of]; texts are left out. *)
(***************************************************************************)
EXTENDS Naturals, Integers, Sequences, SequencesExt

CONSTANT Absent         \* a probe, a reading or a report that is not there

UNITS == <<"loa-cortex", "loa-oled", "loa-ring", "loa-motion", "loa-sonar",
           "loa-weather", "loa-fault">>
BUSES == <<"FACE", "RING">>
SENSORS == <<"TEMP", "BARO">>
DISK_WARN_PCT == 85
HOT_C == 80
SENSOR_STALE_S == 600
FAULTS_STALE_S == 300

(* run: a command's output, empty when it fails, hangs for eight seconds or *)
(* cannot be started; 0 is the only good code.                              *)
Run(outcome) == IF outcome.ended THEN outcome ELSE [ended |-> FALSE, rc |-> 1, out |-> ""]

(* SvcState::parse of what systemctl said, nothing being "unknown" *)
SvcState(word) ==
    CASE word \in {"active", "inactive", "failed"}                  -> word
      [] word \in {"activating", "auto-restart", "reloading"}       -> "looping"
      [] OTHER                                                      -> "unknown"

is_active(outcome) == SvcState(Run(outcome).out)

(* int(100 * (1 - free/total)) truncates; no total, no reading *)
probe_disk(free, total) ==
    IF total = 0 THEN Absent ELSE (100 * (total - free)) \div total

(* of a vcgencmd that ended well *)
probe_rail(outcome) == IF Run(outcome).rc # 0 THEN Absent ELSE Run(outcome).out
-----------------------------------------------------------------------------
Row(level, code, of) == [level |-> level, code |-> code, of |-> of]
If(condition, row) == IF condition THEN <<row>> ELSE <<>>

UnitRow(unit, state) ==
    CASE state = "active"                            -> <<>>
      [] state = "looping"                           -> <<Row("fault", "LOOP", unit)>>
      [] state = "inactive" /\ unit = "loa-ring"     -> <<Row("warn", "RING STOPPED", unit)>>
      [] OTHER                                       -> <<Row("fault", "DOWN", unit)>>

(* A node: missing, held by its owner (and perhaps others), by others, free. *)
BusRow(bus, held) ==
    CASE held = "others" -> <<Row("fault", "BUS CLASH", bus)>>
      [] held = "free"   -> <<Row("fault", "DARK", bus)>>
      [] OTHER           -> <<>>

(* one row for each cause, an unreadable temperature counting as hot *)
RailRow(rail, temp) ==
    LET low == rail # Absent /\ 0 \in rail
        capped == rail # Absent /\ 0 \notin rail /\ rail \cap {1, 2, 3} # {}
        hot == temp = Absent \/ temp >= HOT_C
    IN  CASE low            -> <<Row("fault", "UNDERVOLT", "5V")>>
          [] capped /\ hot  -> <<Row("fault", "HOT", "SoC")>>
          [] capped /\ ~hot -> <<Row("fault", "THROTTLED", "SoC")>>
          [] OTHER          -> <<>>

SensorRowTrusting(sensor, reading, now) ==
    IF reading = Absent \/ reading.ts = Absent THEN <<>>
    ELSE If(now - reading.ts > SENSOR_STALE_S, Row("warn", "STALE", sensor))

(* a sensor that never spoke has no row *)
SensorRow(sensor, reading, now) ==
    CASE reading = Absent                         -> <<>>
      [] reading # Absent /\ reading.ts = Absent  -> <<Row("warn", "NO TS", sensor)>>
      [] OTHER                                    -> If(now - reading.ts > SENSOR_STALE_S,
                                                        Row("warn", "STALE", sensor))

(* the weather cache: both sensors under the one ts of the last message *)
readings(weather) ==
    [s \in {"TEMP", "BARO"} |->
        IF weather = Absent \/ ~(s \in weather.says) THEN Absent ELSE [ts |-> weather.ts]]

ApiRow(i) == If(i.cortex # "active" \/ ~i.listening, Row("fault", "API DEAD", "cortex"))
DoorRow(i) == If(~i.door /\ i.tree, Row("warn", "I2C NO DOOR", "i2c"))
DiskRow(i) == If(i.disk # Absent /\ i.disk >= DISK_WARN_PCT, Row("warn", "DISK", "root"))

(* evaluate: the rows in probe order, then a stable sort on the level alone *)
evaluate(i) ==
    LET found == FlattenSeq([n \in 1..7 |-> UnitRow(UNITS[n], i.units[UNITS[n]])])
                 \o FlattenSeq([n \in 1..2 |-> BusRow(BUSES[n], i.buses[BUSES[n]])])
                 \o RailRow(i.rail, i.temp)
                 \o FlattenSeq([n \in 1..2 |->
                        SensorRow(SENSORS[n], readings(i.weather)[SENSORS[n]], i.now)])
                 \o DiskRow(i) \o ApiRow(i) \o DoorRow(i)
        Of(level) == SelectSeq(found, LAMBDA row : row.level = level)
    IN  Of("fault") \o Of("warn")

Has(rows, level) == \E n \in DOMAIN rows : rows[n].level = level

(* sweep_condition, and condition_from of the cortex: never mute *)
sweep_condition(rows) ==
    CASE Has(rows, "fault")                        -> "hurts"
      [] ~Has(rows, "fault") /\ Has(rows, "warn")  -> "niggle"
      [] OTHER                                     -> "well"

(* condition of a report: no report and an old one are mute *)
condition(report, now) ==
    IF report = Absent THEN "mute"
    ELSE LET old == now - report.ts > FAULTS_STALE_S
         IN  CASE old                                                 -> "mute"
               [] ~old /\ report.faults > 0                           -> "hurts"
               [] ~old /\ ~(report.faults > 0) /\ report.warns > 0    -> "niggle"
               [] OTHER                                               -> "well"

Report(rows, now) ==
    [ts |-> now, rows |-> rows,
     faults |-> Len(SelectSeq(rows, LAMBDA row : row.level = "fault")),
     warns  |-> Len(SelectSeq(rows, LAMBDA row : row.level = "warn"))]

(* format_report: quiet leaves the warns out *)
format_report(report, quiet) ==
    IF quiet THEN SelectSeq(report.rows, LAMBDA row : row.level = "fault") ELSE report.rows
=============================================================================
