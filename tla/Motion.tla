-------------------------------- MODULE Motion -------------------------------
(***************************************************************************)
(* The PIR daemon, crates/loa-motion (state.rs and the loop of main.rs),   *)
(* on the harness of Sense.tla.  Time is counted in polls; the clock reads *)
(* at least the cooldown when the daemon starts, as seconds since 1970 do. *)
(***************************************************************************)
EXTENDS Sense

CONSTANTS Cooldown,     \* polls between two scans
          MaxPolls      \* bound: polls

PirField == {"high", "count", "last_ts", "last_hold", "on_ts"}

ASSUME MotionAssumption == Field = PirField /\ Cooldown \in Nat /\ MaxPolls \in Nat

VARIABLES
    now,
    remembered,     \* the accumulated payload
    last, pending, last_fire, on_ts,    \* the poll loop's cursor
    seen            \* history: what this daemon's last poll read

pirVars == <<remembered, last, pending, last_fire, on_ts, seen>>
vars == <<senseVars, now, pirVars>>

Level == {0, 1}

(* State::default, and Remembered::default *)
Blank == [f \in PirField |-> IF f \in {"high", "count", "last_hold"} THEN 0 ELSE None]
Born  == [f \in PirField |-> IF f \in {"high", "count"} THEN 0 ELSE None]

Fresh == /\ remembered' = Born
         /\ last' = 0 /\ pending' = 0 /\ last_fire' = 0 /\ on_ts' = None
         /\ seen' = "nothing"

Init ==
    /\ SenseInit(Blank)
    /\ now = Cooldown
    /\ remembered = Born
    /\ last = 0 /\ pending = 0 /\ last_fire = 0 /\ on_ts = None
    /\ seen = "nothing"
-----------------------------------------------------------------------------
Boot == Start(Born, "starting") /\ Fresh /\ UNCHANGED now

(* The level on our own start, if the pin reads: the memory and the message *)
(* have it, the poll loop's cursor does not.                                *)
Seed ==
    /\ daemon = "starting"
    /\ daemon' = "up"
    /\ \/ UNCHANGED <<push, owed, remembered, on_ts>>
       \/ \E level \in Level :
            LET since == IF level = 1 THEN now ELSE None
            IN  /\ Push(<<Part([Silent EXCEPT !["high"] = level, !["on_ts"] = since])>>)
                /\ remembered' = [remembered EXCEPT !["high"] = level,
                                                    !["on_ts"] = IF level = 1 THEN now ELSE @]
                /\ on_ts' = IF level = 1 THEN now ELSE on_ts
    /\ UNCHANGED <<bodyVars, link, inbox, crashes, now, last, pending, last_fire, seen>>

(* the hold of a fall: since the rise the loop has seen *)
Hold == IF on_ts = None THEN 0 ELSE now - on_ts

Rises(level) == level = 1 /\ last = 0
Falls(level) == level = 0 /\ last = 1
Streak(level) == IF level = 0 THEN 0 ELSE IF last = 1 THEN pending + 1 ELSE 1

(* pending >= 2 and the cooldown over *)
Fires(level) == Streak(level) >= 2 /\ now - last_fire >= Cooldown

(* tick: the edge, then the scan, each into the memory and into a message *)
Edge(level) ==
    CASE Rises(level) -> [Silent EXCEPT !["high"] = 1, !["on_ts"] = now]
      [] Falls(level) -> [Silent EXCEPT !["high"] = 0, !["last_hold"] = Hold]
      [] OTHER        -> Silent

Scan(level) == IF Fires(level)
               THEN [Silent EXCEPT !["count"] = remembered["count"] + 1, !["last_ts"] = now]
               ELSE Silent

News(level) ==
    (IF Rises(level) \/ Falls(level) THEN <<Part(Edge(level))>> ELSE <<>>)
    \o (IF Fires(level) THEN <<Part(Scan(level)), Event("sense"), Event("ring")>> ELSE <<>>)

(* the memory after a tick: the fall takes its open hold back *)
After(level) ==
    [f \in PirField |->
        CASE f = "on_ts" /\ Falls(level) -> None
          [] Edge(level)[f] # None       -> Edge(level)[f]
          [] Scan(level)[f] # None       -> Scan(level)[f]
          [] OTHER                       -> remembered[f]]

Poll(level) ==
    /\ now < Cooldown + MaxPolls
    /\ now' = now + 1
    /\ Sample(News(level))
    /\ remembered' = After(level)
    /\ on_ts' = IF Rises(level) THEN now ELSE IF Falls(level) THEN None ELSE on_ts
    /\ pending' = Streak(level)
    /\ last_fire' = IF Fires(level) THEN now ELSE last_fire
    /\ last' = level
    /\ seen' = IF level = 1 THEN "high" ELSE "low"

(* an unreadable pin leaves the streak as it was *)
PollErrorHeld ==
    /\ now < Cooldown + MaxPolls
    /\ now' = now + 1
    /\ Sample(<<>>)
    /\ seen' = "error"
    /\ UNCHANGED <<remembered, last, pending, last_fire, on_ts>>

(* The pin would not read: the claim is renewed, the streak ends. *)
PollError ==
    /\ now < Cooldown + MaxPolls
    /\ now' = now + 1
    /\ Sample(<<>>)
    /\ pending' = 0
    /\ seen' = "error"
    /\ UNCHANGED <<remembered, last, last_fire, on_ts>>

Next ==
    \/ BodyBoot(Blank) /\ UNCHANGED <<now, pirVars>>
    \/ (Wire \/ BodyCrash \/ DaemonCrash) /\ UNCHANGED <<now, pirVars>>
    \/ Boot \/ Seed
    \/ Answer(remembered) /\ UNCHANGED <<now, pirVars>>
    \/ (\E level \in Level : Poll(level)) \/ PollError

Spec == Init /\ [][Next]_vars
-----------------------------------------------------------------------------
(* Types of the daemon's memory and cursor, of the pipes and of the picture. *)
TypeOK ==
    /\ now \in Nat /\ remembered \in Reading
    /\ last \in Level /\ pending \in Nat /\ last_fire \in Nat /\ on_ts \in Nat \cup {None}
    /\ seen \in {"nothing", "high", "low", "error"}
    /\ SenseTypes

(* When both are well and nothing is under way, the cortex knows all the    *)
(* daemon remembers: after a crash of either, with messages lost in the     *)
(* inbox and an unheard ask, and while older partials still come in.  Only  *)
(* a reading refused by a full pipe can be missing, until the next answer.  *)
Agrees == Quiet /\ ~owed => Knows(remembered)

(* A scan is counted only on two polls in a row that both read the pin high, *)
(* an unreadable pin between them breaking the row.                          *)
ScanIsConfirmed ==
    [][remembered'["count"] > remembered["count"] => seen = "high" /\ seen' = "high"]_vars
-----------------------------------------------------------------------------
(* "The cortex hears everything rather than a change against a state it     *)
(* does not have": what the daemon says of the pin is what it last read.    *)
PinFollowed ==
    daemon = "up" /\ seen \in {"high", "low"} => (remembered["high"] = 1 <=> seen = "high")

(* "The ring hears it on the event topic and plays it": each scan whose     *)
(* messages the cortex has taken was put on the event topic.                *)
ScanHeard == crashes = 0 /\ Quiet /\ ~owed => aired >= remembered["count"]
=============================================================================
