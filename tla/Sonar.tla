-------------------------------- MODULE Sonar --------------------------------
(***************************************************************************)
(* The sonar daemon, crates/loa-sonar (state.rs and the loop of main.rs),  *)
(* on the harness of Sense.tla.  Time is counted in pings; Chips.tla has   *)
(* how an echo becomes a range.  A sonar that is disabled never pings.     *)
(***************************************************************************)
EXTENDS Sense, Integers

CONSTANTS Ranges,       \* what a ping can measure
          MoveCm,       \* snr_move_cm: 0, every ping is news
          QuietS,       \* snr_quiet_s: 0, never mind the silence
          MaxPings      \* bound: pings

SonarField == {"cm", "count", "ts"}

ASSUME SonarAssumption ==
    Field = SonarField /\ Ranges \subseteq Nat /\ MoveCm \in Nat /\ QuietS \in Nat /\ MaxPings \in Nat

VARIABLES
    now,
    snr,            \* what was measured, as an answer tells it
    last_pub,       \* the gate's memory: [cm, ts] of the last publish
    refused         \* history: when the pipe last refused a message

vars == <<senseVars, now, snr, last_pub, refused>>

Blank == [Silent EXCEPT !["count"] = 0]
NoPub == [cm |-> None, ts |-> None]

Init ==
    /\ SenseInit(Blank)
    /\ now = 1 /\ snr = Blank /\ last_pub = NoPub /\ refused = 0

Refusal(messages) == refused' = IF Len(messages) > Room THEN now ELSE refused

Boot ==
    /\ Start(Blank, "up")
    /\ snr' = Blank /\ last_pub' = NoPub
    /\ UNCHANGED <<now, refused>>

Distance(a, b) == IF a > b THEN a - b ELSE b - a

(* against the last range read *)
movedSinceRead(cm) == snr["cm"] = None \/ MoveCm = 0 \/ Distance(snr["cm"], cm) >= MoveCm

(* against the last range published *)
moved(cm) == last_pub.cm = None \/ MoveCm = 0 \/ Distance(last_pub.cm, cm) >= MoveCm

(* silence is not news *)
staleNever == last_pub.ts = None

stale == last_pub.ts = None \/ (QuietS > 0 /\ now - last_pub.ts >= QuietS)

(* A ping: measured counts it in any case and tells all of it if it is news. *)
Ping(cm) ==
    LET measured == [cm |-> cm, count |-> snr["count"] + 1, ts |-> now]
        news == moved(cm) \/ stale
        out == IF news THEN <<Full(measured)>> ELSE <<>>
    IN  /\ now < MaxPings /\ now' = now + 1
        /\ Sample(out) /\ Refusal(out)
        /\ snr' = measured
        /\ last_pub' = IF news THEN [cm |-> cm, ts |-> now] ELSE last_pub

(* nothing heard: no echo, or none that is a range *)
PingLost ==
    /\ now < MaxPings /\ now' = now + 1
    /\ Sample(<<>>)
    /\ UNCHANGED <<snr, last_pub, refused>>

Next ==
    \/ (BodyBoot(Blank) \/ Wire \/ BodyCrash \/ DaemonCrash) /\ UNCHANGED <<now, snr, last_pub, refused>>
    \/ Answer(snr) /\ Refusal(<<Full(snr)>>) /\ UNCHANGED <<now, snr, last_pub>>
    \/ Boot \/ PingLost \/ \E cm \in Ranges : Ping(cm)

Spec == Init /\ [][Next]_vars
-----------------------------------------------------------------------------
(* Types of the daemon's memory, the gate, the pipes and the picture. *)
TypeOK ==
    /\ now \in Nat /\ refused \in Nat /\ snr \in Reading
    /\ last_pub \in [cm : Nat \cup {None}, ts : Nat \cup {None}]
    /\ SenseTypes

(* Picture and memory both within a move of what was published last. *)
Within(cm) == last_pub.cm # None /\ (cm = last_pub.cm \/ Distance(cm, last_pub.cm) < MoveCm)
Told == snr["cm"] # None => picture["cm"] # None /\ Within(snr["cm"]) /\ Within(picture["cm"])

(* "Slow creep surfaces": with nothing under way the cortex's range is that *)
(* of the wall to a move or two, unless a full pipe has refused it.         *)
SonarNear == Quiet /\ ~owed => Told

(* "30 s of silence must republish": what a full pipe refused is made good  *)
(* by any ping that is heard that much later, in a room as still as ever.   *)
Heals == Quiet /\ QuietS > 0 /\ snr["ts"] # None /\ snr["ts"] >= refused + QuietS => Told
=============================================================================
