-------------------------------- MODULE Pain ---------------------------------
(***************************************************************************)
(* How the body comes to say that it hurts: the sweep daemon (main.rs of   *)
(* crates/loa-fault), the merge and the republishing of the cortex         *)
(* (main.rs, state.rs, build.rs), and what the ring and the panel hold of  *)
(* the feed (main.rs of crates/loa-ring, rstate.rs of crates/loa-oled).    *)
(*                                                                         *)
(* Rows are sets of ailments here; Sweep.tla has the probes and the rows   *)
(* one by one.  Time is left out: a sweep may be due at any moment.        *)
(***************************************************************************)
EXTENDS Wire

CONSTANTS Ailment,      \* rows the body can give cause for: [level, code, probe]
          Device,       \* of the ring and the panel, those the instance has
          Setting,      \* what a command can leave the settings at
          Asks,         \* times a starting cortex publishes init
          Hwm,          \* reports the PUSH pipe holds
          Window,       \* messages a subscriber's pipe holds
          MaxChanges,   \* bound: changes of the body, and of the store
          MaxCommands,  \* bound: commands
          MaxCrashes    \* bound: crashes of any of the four processes

ASSUME PainAssumption ==
    /\ \A a \in Ailment : a.level \in {"fault", "warn"} /\ a.probe \in {"units", "rest"}
    /\ Device \subseteq {"ring", "oled"}
    /\ Asks \in Nat /\ Hwm \in Nat \ {0} /\ Window \in Nat \ {0}
    /\ MaxChanges \in Nat /\ MaxCommands \in Nat /\ MaxCrashes \in Nat

VARIABLES
    body,       \* the ailments the machine has
    store,      \* the store takes a flush: "up" or "down"
    sweeper,    \* the daemon: [at, rows]
    asked,      \* init asks in its channel
    report,     \* /dev/shm/loa-faults.json, and the tmp beside it
    push,       \* its PUSH pipe and what the cortex's PULL holds
    cortex,     \* [at, asks, rows, word, setting]
    feed,       \* each device's pipe
    linked,     \* the subscribers this cortex's feed has found
    held,       \* what each device holds
    counts,     \* bounds: [changes, commands, crashes]
    told,       \* history: what the feed said last, of fault and state
    missed,     \* history: the topics of which a device lacks the last message
    owed        \* history: an ask no sweep begun after it has answered

sweepVars == <<sweeper, asked, report, push, owed>>
feedVars  == <<feed, linked, held, told, missed>>
vars == <<body, store, sweepVars, cortex, feedVars, counts>>

Topic == {"fault", "state"}

(* sweep_condition and condition_from *)
Word(rows) == CASE \E r \in rows : r.level = "fault" -> "hurts"
                [] \A r \in rows : r.level # "fault" -> IF rows = {} THEN "well" ELSE "niggle"

DbDown == [level |-> "fault", code |-> "DB DOWN"]
Injected == IF store = "down" THEN {DbDown} ELSE {}

(* Held::default and RenderState::default *)
Blank == [seen |-> FALSE, fault |-> None, word |-> None, dark |-> FALSE, setting |-> None]

(* "Has THIS process ever heard a fault": if not, mute; if so, the fault's  *)
(* own word before the state's.                                             *)
RingWord(h) ==
    CASE ~h.seen                    -> "mute"
      [] h.seen /\ h.fault # None   -> h.fault
      [] OTHER                      -> IF h.word = None THEN "well" ELSE h.word

Down == [at |-> "down", rows |-> {}]

Init ==
    /\ body = {} /\ store = "up"
    /\ sweeper = Down /\ asked = 0 /\ report = [is |-> "missing", rows |-> {}] /\ push = <<>> /\ owed = FALSE
    /\ \E s \in Setting :
            cortex = [at |-> "down", asks |-> 0, rows |-> {}, word |-> "well", setting |-> s]
    /\ feed = [d \in Device |-> <<>>] /\ linked = {} /\ held = [d \in Device |-> Blank]
    /\ told = [t \in Topic |-> None] /\ missed = [d \in Device |-> {}]
    /\ counts = [changes |-> 0, commands |-> 0, crashes |-> 0]
-----------------------------------------------------------------------------
Counted(kind, max) == counts[kind] < max /\ counts' = [counts EXCEPT ![kind] = @ + 1]

(* The machine gets better or worse; the flusher finds its store gone, or back. *)
Ail ==
    /\ Counted("changes", MaxChanges)
    /\ \/ body' \in SUBSET Ailment \ {body} /\ UNCHANGED store
       \/ store' \in {"up", "down"} \ {store} /\ UNCHANGED body
    /\ UNCHANGED <<sweepVars, cortex, feedVars>>

(* The daemon starts, an empty channel, and sweeps at once. *)
SweeperStart ==
    /\ sweeper.at = "down"
    /\ sweeper' = [at |-> "probing", rows |-> {}]
    /\ asked' = 0 /\ owed' = FALSE
    /\ UNCHANGED <<body, store, report, push, cortex, feedVars, counts>>

(* An ask from the channel, or sixty seconds since the last sweep. *)
Begin ==
    /\ sweeper.at = "idle"
    /\ sweeper' = [at |-> "probing", rows |-> {}]
    /\ \/ asked > 0 /\ asked' = asked - 1
       \/ asked = 0 /\ UNCHANGED asked
    /\ owed' = (asked' > 0)
    /\ UNCHANGED <<body, store, report, push, cortex, feedVars, counts>>

Found(probe) == {a \in body : a.probe = probe}

(* The probes run one after the other, each on the machine as it then is. *)
Probe ==
    /\ \/ sweeper.at = "probing"
          /\ sweeper' = [at |-> "probed", rows |-> Found("units")]
       \/ sweeper.at = "probed"
          /\ sweeper' = [at |-> "swept", rows |-> sweeper.rows \cup Found("rest")]
    /\ UNCHANGED <<body, store, asked, report, push, owed, cortex, feedVars, counts>>

(* the report written over the old one *)
FileInPlace ==
    /\ \/ sweeper.at = "swept" /\ sweeper' = [sweeper EXCEPT !.at = "filing"]
          /\ report' = [is |-> "torn", rows |-> {}]
       \/ sweeper.at = "filing" /\ sweeper' = [sweeper EXCEPT !.at = "filed"]
          /\ report' = [is |-> "whole", rows |-> sweeper.rows]
    /\ UNCHANGED <<body, store, asked, push, owed, cortex, feedVars, counts>>

(* write_report: the whole of it into a file of its own, then one rename *)
File ==
    /\ \/ sweeper.at = "swept" /\ sweeper' = [sweeper EXCEPT !.at = "filing"]
          /\ UNCHANGED report
       \/ sweeper.at = "filing" /\ sweeper' = [sweeper EXCEPT !.at = "filed"]
          /\ report' = [is |-> "whole", rows |-> sweeper.rows]
    /\ UNCHANGED <<body, store, asked, push, owed, cortex, feedVars, counts>>

(* one answer for all that was asked meanwhile *)
PushOnce ==
    /\ sweeper.at = "filed"
    /\ sweeper' = [at |-> "idle", rows |-> {}]
    /\ push' = Pushed(push, sweeper.rows, Hwm)
    /\ asked' = 0
    /\ UNCHANGED <<body, store, report, owed, cortex, feedVars, counts>>

(* publish: up to the cortex, DONTWAIT; a report that does not fit is lost. *)
Push ==
    /\ sweeper.at = "filed"
    /\ sweeper' = [at |-> "idle", rows |-> {}]
    /\ push' = Pushed(push, sweeper.rows, Hwm)
    /\ UNCHANGED <<body, store, asked, report, owed, cortex, feedVars, counts>>
-----------------------------------------------------------------------------
(* A message to every subscriber the feed has found. *)
Air(message) ==
    LET topic == message.topic
        gets(d) == d \in linked /\ Len(feed[d]) < Window
    IN  /\ feed' = [d \in Device |->
                        IF d \in linked THEN Publish(feed[d], message, Window) ELSE feed[d]]
        /\ told' = [told EXCEPT ![topic] = message]
        /\ missed' = [d \in Device |->
                        IF gets(d) THEN missed[d] \ {topic} ELSE missed[d] \cup {topic}]
        /\ UNCHANGED <<linked, held>>

(* build_fault: the injected row and the sweep's, the word made of them all *)
FaultMessage(rows) ==
    [topic |-> "fault", word |-> Word(rows \cup Injected),
     dark |-> \E r \in rows : r.code = "RING DARK"]

(* build_state: the settings, and the word as the last sweep had it *)
StateMessage == [topic |-> "state", word |-> cortex.word, setting |-> cortex.setting]

(* A cortex boots with no report in RAM and asks, six times a second apart; *)
(* what waits for it is not read before it is done asking.                  *)
CortexBoot ==
    /\ cortex.at = "down"
    /\ cortex' = [cortex EXCEPT !.at = "asking", !.asks = Asks, !.rows = {}, !.word = "well"]
    /\ UNCHANGED <<body, store, sweepVars, feedVars, counts>>

Ask ==
    /\ cortex.at = "asking" /\ cortex.asks > 0
    /\ cortex' = [cortex EXCEPT !.asks = @ - 1]
    /\ IF "sweep" \in linked
       THEN asked' = asked + 1 /\ owed' = TRUE
       ELSE UNCHANGED <<asked, owed>>
    /\ UNCHANGED <<body, store, sweeper, report, push, feedVars, counts>>

(* The asks are followed by a republish of what RAM holds, whoever answered. *)
Asked ==
    /\ cortex.at = "asking" /\ cortex.asks = 0
    /\ cortex' = [cortex EXCEPT !.at = "moved"]
    /\ UNCHANGED <<body, store, sweepVars, feedVars, counts>>

(* the sweep's own condition published in place of the rebuilt one *)
MergeForwarded ==
    /\ cortex.at = "loop" /\ push # <<>>
    /\ push' = Tail(push)
    /\ cortex' = [cortex EXCEPT !.rows = Head(push), !.word = Word(Head(push))]
    /\ Air([FaultMessage(Head(push)) EXCEPT !.word = Word(Head(push))])
    /\ UNCHANGED <<body, store, sweeper, asked, report, owed, counts>>

(* on_inbox of a report: rows and word replaced, the fault topic rebuilt; *)
(* the state topic is not.                                                *)
Merge ==
    /\ cortex.at = "loop" /\ push # <<>>
    /\ push' = Tail(push)
    /\ cortex' = [cortex EXCEPT !.rows = Head(push), !.word = Word(Head(push))]
    /\ Air(FaultMessage(Head(push)))
    /\ UNCHANGED <<body, store, sweeper, asked, report, owed, counts>>

(* A command moves a setting; republish sends state first and fault last. *)
Command ==
    /\ cortex.at = "loop" /\ Counted("commands", MaxCommands)
    /\ \E s \in Setting : cortex' = [cortex EXCEPT !.setting = s, !.at = "moved"]
    /\ UNCHANGED <<body, store, sweepVars, feedVars>>

Republish ==
    /\ \/ cortex.at = "moved" /\ cortex' = [cortex EXCEPT !.at = "stated"] /\ Air(StateMessage)
       \/ cortex.at = "stated" /\ cortex' = [cortex EXCEPT !.at = "loop"]
          /\ Air(FaultMessage(cortex.rows))
    /\ UNCHANGED <<body, store, sweepVars, counts>>
-----------------------------------------------------------------------------
Link ==
    /\ cortex.at # "down"
    /\ \E d \in (Device \cup {"sweep"}) \ linked :
            /\ d = "sweep" => sweeper.at # "down"
            /\ linked' = linked \cup {d}
    /\ UNCHANGED <<body, store, sweepVars, cortex, feed, held, told, missed, counts>>

OfTopic(batch, topic) == {i \in DOMAIN batch : batch[i].topic = topic}
Latest(batch, topic) ==
    batch[CHOOSE i \in OfTopic(batch, topic) : \A j \in OfTopic(batch, topic) : j <= i]

(* hold: the last message of each topic in the batch, fields and all *)
Hold(h, batch) ==
    LET fault == OfTopic(batch, "fault") # {}
        state == OfTopic(batch, "state") # {}
    IN  [seen    |-> h.seen \/ fault,
         fault   |-> IF fault THEN Latest(batch, "fault").word ELSE h.fault,
         dark    |-> IF fault THEN Latest(batch, "fault").dark ELSE h.dark,
         word    |-> IF state THEN Latest(batch, "state").word ELSE h.word,
         setting |-> IF state THEN Latest(batch, "state").setting ELSE h.setting]

(* the panel's next_state for both *)
TakenNewest(d, n) == Newest(feed[d], n)

(* The ring's loop takes every message that has arrived, in order; the      *)
(* panel's next_state hands over the newest, of whatever topic.             *)
Taken(d, n) == IF d = "oled" THEN Newest(feed[d], n) ELSE Each(feed[d], n)

Wakes(d) ==
    /\ \E n \in 1..Len(feed[d]) :
            /\ held' = [held EXCEPT ![d] = Hold(@, Taken(d, n))]
            /\ feed' = [feed EXCEPT ![d] = Left(@, n)]
    /\ UNCHANGED <<body, store, sweepVars, cortex, linked, told, missed, counts>>
-----------------------------------------------------------------------------
SweeperCrash ==
    /\ sweeper.at # "down" /\ Counted("crashes", MaxCrashes)
    /\ sweeper' = Down /\ linked' = linked \ {"sweep"}
    /\ asked' = 0 /\ owed' = FALSE /\ push' = <<>>
    /\ UNCHANGED <<body, store, report, cortex, feed, held, told, missed>>

(* With the cortex go the links, and some of the oldest of what was pushed. *)
CortexCrash ==
    /\ cortex.at # "down" /\ Counted("crashes", MaxCrashes)
    /\ cortex' = [cortex EXCEPT !.at = "down", !.asks = 0]
    /\ \E n \in 0..Len(push) : push' = Left(push, n)
    /\ linked' = {}
    /\ UNCHANGED <<body, store, sweeper, asked, report, owed, feed, held, told, missed>>

(* A device restarts: it holds nothing, and nothing waits for it. *)
DeviceCrash ==
    /\ Counted("crashes", MaxCrashes)
    /\ \E d \in Device :
            /\ held' = [held EXCEPT ![d] = Blank]
            /\ feed' = [feed EXCEPT ![d] = <<>>]
            /\ linked' = linked \ {d}
            /\ missed' = [missed EXCEPT ![d] = Topic]
    /\ UNCHANGED <<body, store, sweepVars, cortex, told>>

Sweeper == SweeperStart \/ Begin \/ Probe \/ File \/ Push
Cortex == CortexBoot \/ Ask \/ Asked \/ Merge \/ Republish
Crash == SweeperCrash \/ CortexCrash \/ DeviceCrash

Next == Ail \/ Sweeper \/ Cortex \/ Command \/ Link \/ (\E d \in Device : Wakes(d)) \/ Crash

Spec == Init /\ [][Next]_vars

(* systemd restarts what died, the clock comes round, the threads run. *)
FairSpec == Spec /\ WF_vars(Sweeper) /\ WF_vars(Cortex) /\ WF_vars(Link)
                 /\ \A d \in Device : WF_vars(Wakes(d))
-----------------------------------------------------------------------------
Words == {"well", "niggle", "hurts"}
Held == [seen : BOOLEAN, fault : Words \cup {None}, word : Words \cup {None},
         dark : BOOLEAN, setting : Setting \cup {None}]
Message == [topic : {"fault"}, word : Words, dark : BOOLEAN]
           \cup [topic : {"state"}, word : Words, setting : Setting]

(* Types of the processes, the pipes and what is held. *)
TypeOK ==
    /\ body \in SUBSET Ailment /\ store \in {"up", "down"}
    /\ sweeper \in [at : {"down", "idle", "probing", "probed", "swept", "filing", "filed"},
                    rows : SUBSET Ailment]
    /\ asked \in Nat /\ owed \in BOOLEAN
    /\ report \in [is : {"missing", "torn", "whole"}, rows : SUBSET Ailment]
    /\ push \in Seq(SUBSET Ailment)
    /\ cortex \in [at : {"down", "asking", "loop", "moved", "stated"}, asks : Nat,
                   rows : SUBSET Ailment, word : Words, setting : Setting]
    /\ feed \in [Device -> Seq(Message)] /\ linked \subseteq Device \cup {"sweep"}
    /\ held \in [Device -> Held]
    /\ told \in [Topic -> Message \cup {None}] /\ missed \in [Device -> SUBSET Topic]
    /\ counts \in [{"changes", "commands", "crashes"} -> Nat]

InStep(d, topic) ==
    LET last == told[topic]
    IN  feed[d] = <<>> /\ last # None /\ topic \notin missed[d] =>
            CASE topic = "fault" -> held[d].seen /\ held[d].fault = last.word
              [] topic = "state" -> held[d].setting = last.setting /\ held[d].word = last.word

(* "Every event record counts, the newest truth renders": once it has read  *)
(* its pipe, the ring has the last fault and the last state the feed told   *)
(* it, whichever came first and however many came at once.                  *)
RingInStep == "ring" \in Device => InStep("ring", "fault") /\ InStep("ring", "state")

(* "Every ask gets a fresh sweep, never a replay": a daemon at rest with an *)
(* empty channel has begun a sweep since the last ask it was sent.          *)
AskAnswered == sweeper.at = "idle" /\ asked = 0 => ~owed

(* "A reader never sees half a report": whatever the daemon died in, the    *)
(* file is one whole sweep or not there yet.                                *)
ReportWhole == report.is # "torn"

Settled(rows, s) == body = rows /\ store = s

(* The body's pain is shown: if machine and store stay as they are, the     *)
(* ring comes to show what a sweep says of them, the store's row among it,  *)
(* and goes on showing it, through lost asks, full pipes and restarts.      *)
PainShown ==
    "ring" \in Device => \A rows \in SUBSET Ailment, s \in {"up", "down"} :
        <>[]Settled(rows, s)
        => <>[](RingWord(held["ring"])
                    = Word(rows \cup IF s = "down" THEN {DbDown} ELSE {}))
-----------------------------------------------------------------------------
(* "The device's own knowledge that the sweep exists, silence is not        *)
(* health": a cortex that no sweep has reached does not have the ring say   *)
(* well, or the panel drop its fault page, over a body that hurts.          *)
SilenceIsNotHealth ==
    "ring" \in Device /\ RingWord(held["ring"]) = "well"
        => report.is # "missing"

(* "Holds the last message of each": with its pipe empty and nothing        *)
(* missed, the panel draws from the last state the feed told it.            *)
PanelInStep == "oled" \in Device => InStep("oled", "state")
=============================================================================
