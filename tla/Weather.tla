------------------------------- MODULE Weather -------------------------------
(***************************************************************************)
(* The weather daemon, crates/loa-weather (state.rs and the loop of        *)
(* main.rs), on the harness of Sense.tla, up to what the cortex makes of   *)
(* its readings: the merge, and the window of pressures (state.rs).        *)
(* Numbers are in steps so small that Gate of them are a move; Chips.tla   *)
(* has how the two chips come to a number.  Time is counted in ticks.      *)
(***************************************************************************)
EXTENDS Sense, Integers, SequencesExt

CONSTANTS Air,          \* what the DHT can read: [temp, hum]
          Pressure,     \* what the barometer can read
          Gate,         \* half a quantisation step
          BaroWindow,   \* BARO_WINDOW_S
          MaxTicks      \* bound: ticks

WeatherField == {"temp", "hum", "ts", "count", "pressure"}
Number == {"temp", "hum", "pressure"}

ASSUME WeatherAssumption ==
    /\ Field = WeatherField /\ Gate \in Nat \ {0} /\ BaroWindow \in Nat /\ MaxTicks \in Nat
    /\ Air \subseteq [temp : Nat, hum : Nat] /\ None \notin Air
    /\ Pressure \subseteq Nat

VARIABLES
    now,
    air,        \* what the daemon measured, and its last stamp
    sent,       \* the gate's memory: the numbers it published last
    baro,       \* the cortex's baro_ts and baro_count
    window      \* the cortex's pressures: <<ts, pressure>>

vars == <<senseVars, now, air, sent, baro, window>>

Blank == [Silent EXCEPT !["count"] = 0]
NoBaro == [ts |-> None, count |-> 0]

Init ==
    /\ SenseInit(Blank)
    /\ now = 1 /\ air = Blank /\ sent = [n \in Number |-> None]
    /\ baro = NoBaro /\ window = <<>>
-----------------------------------------------------------------------------
(* an empty memory, told at once *)
Boot ==
    /\ Start(Blank, "up")
    /\ air' = Blank /\ sent' = [n \in Number |-> None]
    /\ UNCHANGED <<now, baro, window>>

Distance(a, b) == IF a > b THEN a - b ELSE b - a

(* the gate measured against the last number read *)
movedSinceRead(d, n, value) == d.air[n] = None \/ Distance(d.air[n], value) >= Gate

(* the first number is always news; then what moved since it was published *)
moved(d, n, value) == d.sent[n] = None \/ Distance(d.sent[n], value) >= Gate

(* dht and baro of state.rs: the memory has the reading in any case, the    *)
(* message only what is news, with the frames decoded since boot.           *)
Measure(d, reading, frames) ==
    LET news  == {n \in DOMAIN reading : moved(d, n, reading[n])}
        count == d.air["count"] + frames
        Said(f) == CASE f \in news                -> reading[f]
                     [] f = "ts"                  -> now
                     [] f = "count" /\ count > 0  -> count
                     [] OTHER                     -> None
    IN  [air  |-> [f \in Field |-> CASE f \in DOMAIN reading        -> reading[f]
                                     [] f = "count"                 -> count
                                     [] f = "ts" /\ news # {}       -> now
                                     [] OTHER                       -> d.air[f]],
         sent |-> [n \in Number |-> IF n \in news THEN reading[n] ELSE d.sent[n]],
         out  |-> d.out \o IF news = {} THEN <<>> ELSE <<Part([f \in Field |-> Said(f)])>>]

(* A tick reads the DHT, then the barometer; each may fail, or be disabled. *)
Tick(dht, pressure) ==
    LET d0 == [air |-> air, sent |-> sent, out |-> <<>>]
        d1 == IF dht = None THEN d0 ELSE Measure(d0, dht, 1)
        d2 == IF pressure = None THEN d1 ELSE Measure(d1, [pressure |-> pressure], 0)
    IN  /\ now < MaxTicks /\ now' = now + 1
        /\ Sample(d2.out)
        /\ air' = d2.air /\ sent' = d2.sent
        /\ UNCHANGED <<baro, window>>
-----------------------------------------------------------------------------
(* every sample kept *)
push_baroEver(samples, ts, pressure) == Append(samples, <<ts, pressure>>)

(* push_baro: the front goes while it is older than the window *)
push_baro(samples, ts, pressure) ==
    LET all == Append(samples, <<ts, pressure>>)
    IN  SubSeq(all, CHOOSE n \in DOMAIN all :
                        /\ ts - all[n][1] <= BaroWindow
                        /\ \A m \in 1..(n - 1) : ts - all[m][1] > BaroWindow,
               Len(all))

(* The pressure's own stamp and count are those of the message it came in. *)
TakeAir ==
    /\ Take
    /\ LET says == Head(pull).says
       IN  IF says["pressure"] = None THEN UNCHANGED <<baro, window>>
           ELSE /\ window' = push_baro(window, IF says["ts"] = None THEN 0 ELSE says["ts"],
                                       says["pressure"])
                /\ baro' = [ts    |-> IF says["ts"] = None THEN baro.ts ELSE says["ts"],
                            count |-> IF says["count"] = None THEN baro.count ELSE says["count"]]
    /\ UNCHANGED <<now, air, sent>>

CortexBoot ==
    /\ BodyBoot(Blank)
    /\ baro' = NoBaro /\ window' = <<>>
    /\ UNCHANGED <<now, air, sent>>

Next ==
    \/ CortexBoot \/ TakeAir
    \/ (Linked \/ Ask \/ Asked \/ Carry \/ BodyCrash \/ DaemonCrash \/ Answer(air))
       /\ UNCHANGED <<now, air, sent, baro, window>>
    \/ Boot
    \/ \E dht \in Air \cup {None}, pressure \in Pressure \cup {None} : Tick(dht, pressure)

Spec == Init /\ [][Next]_vars
-----------------------------------------------------------------------------
(* Types of the daemon's memory, the pipes, the picture and the window. *)
TypeOK ==
    /\ now \in Nat /\ air \in Reading /\ sent \in [Number -> Nat \cup {None}]
    /\ baro \in [ts : Nat \cup {None}, count : Nat]
    /\ window \in Seq(Nat \X Nat)
    /\ SenseTypes

Within(number, published) == published # None /\ Distance(number, published) < Gate

(* "Drift below the gate is noise, not weather": with nothing under way the *)
(* cortex has every number the daemon has measured, and both are within the *)
(* gate of the one published last, so within two of each other: an answer   *)
(* to init tells what the gate kept back, and the gate does not know.       *)
AirNear ==
    Quiet /\ ~owed => \A n \in Number : air[n] # None =>
        picture[n] # None /\ Within(air[n], sent[n]) /\ Within(picture[n], sent[n])

(* The window holds three hours and its end is the pressure on display,     *)
(* under the stamp on display, whatever was answered, lost or sent twice.   *)
WindowTrue ==
    /\ \A n \in DOMAIN window : window[Len(window)][1] - window[n][1] <= BaroWindow
    /\ IF window = <<>> THEN picture["pressure"] = None
       ELSE Last(window) = <<baro.ts, picture["pressure"]>>
-----------------------------------------------------------------------------
(* "10 min without a read: stop believing the number": what the sweep takes *)
(* for the age of the temperature, the stamp of the last message, is no     *)
(* older than a read that succeeded at this tick or the one before.         *)
ReadIsFresh ==
    [][air'["count"] > air["count"] => air'["ts"] = now]_vars
=============================================================================
