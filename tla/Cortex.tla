------------------------------- MODULE Cortex -------------------------------
(***************************************************************************)
(* The cortex between its door, its store and its feed: main.rs, http.rs,  *)
(* store.rs of crates/loa-cortex.  Three threads and two queues:           *)
(*   - the door runs a verb under the lock, lets go of the lock and then   *)
(*     posts news, the event first;                                        *)
(*   - the main task, after the six-second init handshake, takes news and  *)
(*     whatever arrives on the inbox, and publishes;                       *)
(*   - the flusher blocks on the queue of writes, drains it, copies the    *)
(*     settings under the lock and writes everything to Postgres, one      *)
(*     statement after the other on one lazily made connection.            *)
(* The store may fall and come back, the process may crash between any two *)
(* steps and is restarted by systemd (Restart=always).                     *)
(* An event is the number of the command that logged it, a pressure sample *)
(* is 0.                                                                   *)
(***************************************************************************)
EXTENDS Verbs

CONSTANTS Commands,     \* the state verbs the clients send
          OldRows,      \* what an earlier body may have left in settings
          MaxCommands,  \* bound: commands
          MaxSamples,   \* bound: pressure samples
          MaxOutages,   \* bound: falls of the store
          MaxCrashes    \* bound: process crashes

ASSUME CommandAssumption == Commands \subseteq Command
ASSUME OldRowsAssumption == OldRows \subseteq Rows
ASSUME BoundsAssumption  ==
    MaxCommands \in Nat /\ MaxSamples \in Nat /\ MaxOutages \in Nat /\ MaxCrashes \in Nat

VARIABLES
    dsn,          \* LOA_PG_DSN is set
    phase,        \* the main task
    st,           \* the settings in RAM
    tosend,       \* news the door has decided on and not yet posted
    news,         \* posted news
    handling,     \* the event the main task has queued and not published, or 0
    writes,       \* the queue of records to the flusher
    flusher,      \* pc, batch, snap, at (the next statement), failed
    db_down,
    conn,         \* the flusher's connection
    db_up,
    rows, events, \* tables settings and events
    shown,        \* what the feed last said: the settings and the DB DOWN row
    published,    \* events on the event topic, in order
    commands, samples, outages, crashes

procVars  == <<phase, st, tosend, news, handling, writes, flusher, db_down, conn>>
storeVars == <<db_up, rows, events>>
feedVars  == <<shown, published>>
bounds    == <<commands, samples, outages, crashes>>
vars == <<dsn, procVars, storeVars, feedVars, bounds>>

Changed == 0      \* News::StateChanged; an event is its number
Sample  == 0      \* Write::Baro
Idle == [pc |-> "wait", batch |-> <<>>, snap |-> Default, at |-> 1, failed |-> FALSE]

Init ==
    /\ dsn \in BOOLEAN
    /\ phase = "down"
    /\ st = Default /\ tosend = <<>> /\ news = <<>> /\ handling = 0 /\ writes = <<>>
    /\ flusher = Idle
    /\ db_down = FALSE
    /\ conn = "none"
    /\ db_up \in BOOLEAN
    /\ rows \in OldRows /\ events = <<>>
    /\ shown = [st |-> Default, down |-> FALSE] /\ published = <<>>
    /\ commands = 0 /\ samples = 0 /\ outages = 0 /\ crashes = 0

Running == phase \in {"handshake", "loop"}
-----------------------------------------------------------------------------
(* Boot: RAM from the store if it answers, otherwise defaults and DB DOWN.  *)
(* Door and flusher run from here on, the main task asks the senses first.  *)
Boot ==
    /\ phase = "down"
    /\ phase' = "handshake"
    /\ IF dsn /\ db_up
       THEN st' = adopt_settings(rows) /\ db_down' = FALSE /\ conn' = "live"
       ELSE db_down' = TRUE /\ UNCHANGED <<st, conn>>
    /\ UNCHANGED <<dsn, tosend, news, handling, writes, flusher, storeVars, feedVars, bounds>>

(* The handshake is over: the first republish. *)
Join ==
    /\ phase = "handshake"
    /\ phase' = "loop"
    /\ shown' = [st |-> st, down |-> db_down]
    /\ UNCHANGED <<dsn, st, tosend, news, handling, writes, flusher, db_down, conn,
                   storeVars, published, bounds>>
-----------------------------------------------------------------------------
(* nothing said of a verb that logged nothing *)
newsQuietOnNoEvent(r, id) == IF r.event THEN <<id, Changed>> ELSE <<>>

(* What route posts after a verb: its event and then the change; a verb     *)
(* that logged nothing and was not refused still posts the change.          *)
newsOf(r, id) == IF ~r.ok THEN <<>>
                 ELSE IF r.event THEN <<id, Changed>> ELSE <<Changed>>

(* One request at a time: the verb, under the lock. *)
Ask(c) ==
    /\ Running
    /\ tosend = <<>>
    /\ commands < MaxCommands
    /\ commands' = commands + 1
    /\ LET r == dispatch(st, c)
       IN  st' = r.st /\ tosend' = newsOf(r, commands')
    /\ UNCHANGED <<dsn, phase, news, handling, writes, flusher, db_down, conn, storeVars,
                   feedVars, samples, outages, crashes>>

(* The lock is free again; news goes out one at a time. *)
Post ==
    /\ tosend # <<>>
    /\ news' = Append(news, Head(tosend))
    /\ tosend' = Tail(tosend)
    /\ UNCHANGED <<dsn, phase, st, handling, writes, flusher, db_down, conn, storeVars,
                   feedVars, bounds>>
-----------------------------------------------------------------------------
(* Without a DSN the flusher is gone and what is sent to it is dropped. *)
Queued(w) == IF dsn THEN Append(writes, w) ELSE writes

(* The main task: an event goes to the flusher first and then on the wire. *)
TakeEvent ==
    /\ phase = "loop" /\ handling = 0
    /\ news # <<>> /\ Head(news) # Changed
    /\ handling' = Head(news)
    /\ news' = Tail(news)
    /\ writes' = Queued(Head(news))
    /\ UNCHANGED <<dsn, phase, st, tosend, flusher, db_down, conn, storeVars, feedVars, bounds>>

PublishEvent ==
    /\ handling # 0
    /\ published' = Append(published, handling)
    /\ handling' = 0
    /\ UNCHANGED <<dsn, phase, st, tosend, news, writes, flusher, db_down, conn, storeVars,
                   shown, bounds>>

(* republish, under the lock, the fault rows rebuilt with the flusher's word. *)
Republish ==
    /\ phase = "loop" /\ handling = 0
    /\ news # <<>> /\ Head(news) = Changed
    /\ shown' = [st |-> st, down |-> db_down]
    /\ news' = Tail(news)
    /\ UNCHANGED <<dsn, phase, st, tosend, handling, writes, flusher, db_down, conn, storeVars,
                   published, bounds>>

(* the sweep's own rows alone *)
SweepForwarded ==
    /\ phase = "loop" /\ handling = 0
    /\ UNCHANGED vars

(* A fault report off the inbox rebuilds the fault topic, ours with it. *)
Sweep ==
    /\ phase = "loop" /\ handling = 0
    /\ shown' = [shown EXCEPT !.down = db_down]
    /\ UNCHANGED <<dsn, procVars, storeVars, published, bounds>>

(* A pressure off the inbox is a record too. *)
Weather ==
    /\ phase = "loop" /\ handling = 0
    /\ samples < MaxSamples
    /\ samples' = samples + 1
    /\ writes' = Queued(Sample)
    /\ UNCHANGED <<dsn, phase, st, tosend, news, handling, flusher, db_down, conn, storeVars,
                   feedVars, commands, outages, crashes>>

Main == TakeEvent \/ PublishEvent \/ Republish
-----------------------------------------------------------------------------
(* The flusher: wake on a record, take the rest, then copy the settings. *)
FlushDrain ==
    /\ dsn /\ Running
    /\ flusher.pc = "wait" /\ writes # <<>>
    /\ flusher' = [flusher EXCEPT !.pc = "drained", !.batch = writes]
    /\ writes' = <<>>
    /\ UNCHANGED <<dsn, phase, st, tosend, news, handling, db_down, conn, storeVars, feedVars,
                   bounds>>

FlushSnapshot ==
    /\ flusher.pc = "drained"
    /\ flusher' = [flusher EXCEPT !.pc = "write", !.snap = st]
    /\ UNCHANGED <<dsn, phase, st, tosend, news, handling, writes, db_down, conn, storeVars,
                   feedVars, bounds>>

(* The statements of a flush: the batch, then a row for each setting. *)
Records   == Len(flusher.batch)
Last      == Records + 9
Writing   == flusher.pc = "write" /\ flusher.at <= Last
RowKey    == KeyOrder[flusher.at - Records]

Written ==
    IF flusher.at <= Records
    THEN /\ events' = IF flusher.batch[flusher.at] = Sample THEN events
                      ELSE Append(events, flusher.batch[flusher.at])
         /\ UNCHANGED rows
    ELSE /\ rows' = [rows EXCEPT ![RowKey] = flusher.snap[RowKey]]
         /\ UNCHANGED events

(* with_conn over a connection it has or can make *)
StatementDone ==
    /\ Writing
    /\ db_up /\ conn # "dead"
    /\ conn' = "live"
    /\ Written
    /\ flusher' = [flusher EXCEPT !.at = @ + 1]
    /\ UNCHANGED <<dsn, phase, st, tosend, news, handling, writes, db_down, db_up, feedVars,
                   bounds>>

(* a record tried again after an error *)
FailedRetried == flusher' = [flusher EXCEPT !.at = IF @ <= Records THEN @ ELSE Last + 1,
                                            !.failed = TRUE]

(* only lost records count as a failure *)
FailedRecordsOnly == flusher' = [flusher EXCEPT !.at = IF @ <= Records THEN @ + 1 ELSE Last + 1,
                                                !.failed = @ \/ flusher.at <= Records]

(* An error drops the connection.  A lost record does not stop the next     *)
(* one; a row that fails ends save_settings, the rows before it stay.       *)
Failed == flusher' = [flusher EXCEPT !.at = IF @ <= Records THEN @ + 1 ELSE Last + 1,
                                     !.failed = TRUE]

StatementRefused ==
    /\ Writing
    /\ conn = "dead" \/ ~db_up
    /\ conn' = "none"
    /\ Failed
    /\ UNCHANGED <<dsn, phase, st, tosend, news, handling, writes, db_down, storeVars, feedVars,
                   bounds>>

(* The store falls after it has done the statement and before it says so. *)
StatementUnheard ==
    /\ Writing
    /\ db_up /\ conn # "dead" /\ outages < MaxOutages
    /\ outages' = outages + 1
    /\ db_up' = FALSE
    /\ conn' = "none"
    /\ Written
    /\ Failed
    /\ UNCHANGED <<dsn, phase, st, tosend, news, handling, writes, db_down, feedVars, commands,
                   samples, crashes>>

FlushDone ==
    /\ flusher.pc = "write" /\ flusher.at > Last
    /\ db_down' = flusher.failed
    /\ flusher' = Idle
    /\ UNCHANGED <<dsn, phase, st, tosend, news, handling, writes, conn, storeVars, feedVars,
                   bounds>>

Flush == FlushDrain \/ FlushSnapshot \/ StatementDone \/ StatementRefused \/ FlushDone
-----------------------------------------------------------------------------
StoreFalls ==
    /\ db_up
    /\ outages < MaxOutages
    /\ outages' = outages + 1
    /\ db_up' = FALSE
    /\ conn' = IF conn = "live" THEN "dead" ELSE conn
    /\ UNCHANGED <<dsn, phase, st, tosend, news, handling, writes, flusher, db_down, rows,
                   events, feedVars, commands, samples, crashes>>

StoreReturns ==
    /\ ~db_up
    /\ db_up' = TRUE
    /\ UNCHANGED <<dsn, procVars, rows, events, feedVars, bounds>>

Crash ==
    /\ Running
    /\ crashes < MaxCrashes
    /\ crashes' = crashes + 1
    /\ phase' = "down"
    /\ st' = Default /\ tosend' = <<>> /\ news' = <<>> /\ handling' = 0 /\ writes' = <<>>
    /\ flusher' = Idle
    /\ db_down' = FALSE
    /\ conn' = "none"
    /\ UNCHANGED <<dsn, storeVars, feedVars, commands, samples, outages>>

Next == \/ Boot \/ Join \/ (\E c \in Commands : Ask(c)) \/ Post
        \/ Main \/ Sweep \/ Weather
        \/ Flush \/ StatementUnheard
        \/ StoreFalls \/ StoreReturns \/ Crash

Spec == Init /\ [][Next]_vars

(* The threads run, systemd restarts the process, and loa-fault keeps       *)
(* sending its sweeps; nothing is assumed of the store or of the clients.   *)
FairSpec == /\ Spec
            /\ WF_vars(Boot) /\ WF_vars(Join) /\ WF_vars(Post)
            /\ WF_vars(Main) /\ WF_vars(Flush) /\ WF_vars(Sweep)
-----------------------------------------------------------------------------
Work == [pc : {"wait", "drained", "write"}, batch : Seq(Nat), snap : Settings, at : Nat,
         failed : BOOLEAN]

TypeRam ==
    /\ phase \in {"down", "handshake", "loop"}
    /\ st \in Settings
    /\ tosend \in Seq(Nat) /\ news \in Seq(Nat) /\ writes \in Seq(Nat)
    /\ handling \in Nat
    /\ flusher \in Work
    /\ db_down \in BOOLEAN
    /\ conn \in {"none", "live", "dead"}

TypeStore ==
    /\ dsn \in BOOLEAN /\ db_up \in BOOLEAN
    /\ rows \in Rows
    /\ events \in Seq(Nat)

TypeFeed ==
    /\ shown \in [st : Settings, down : BOOLEAN]
    /\ published \in Seq(Nat)

TypeBounds ==
    /\ commands \in Nat /\ samples \in Nat /\ outages \in Nat /\ crashes \in Nat

(* RAM, queues and tables hold what they should; the glass is only ever     *)
(* told settings the cortex may hold.                                       *)
TypeOK == TypeRam /\ TypeStore /\ TypeFeed /\ TypeBounds

(* A change is on its way to the store: its event is with the door, in the  *)
(* news, in the queue of writes or in a flush.                              *)
Has(queue)   == \E i \in 1..Len(queue) : queue[i] # Changed
OnItsWay     == Has(tosend) \/ Has(news) \/ writes # <<>> \/ flusher.pc # "wait"

(* While the fault rows do not say DB DOWN and no change is on its way, a   *)
(* reboot brings back every decision but the page, although the flusher     *)
(* copies the settings later than the events it writes them for, and a      *)
(* flush can stop half way.                                                 *)
RebootEquivalent ==
    dsn /\ Running /\ ~db_down /\ ~OnItsWay
      => \A k \in Keys \ {"page"} : adopt_settings(rows)[k] = st[k]

(* With nothing left to post or to take, the devices have been told the     *)
(* settings as they are: a no-op page set and a command that lands between  *)
(* two republishes included.                                                *)
FeedFresh == phase = "loop" /\ tosend = <<>> /\ news = <<>> => shown.st = st

(* Events reach the table and the topic in the order of their commands, and *)
(* none twice, through outages, unheard commits and crashes.                *)
Rising(queue) == \A i, j \in 1..Len(queue) : i < j => queue[i] < queue[j]
EventsInOrder == Rising(events) /\ Rising(published)

(* The feed catches up with RAM and with the flusher's last word on the     *)
(* store, the DB DOWN row at the latest with the next sweep.                *)
FeedConverges ==
    <>[](phase = "loop" => shown = [st |-> st, down |-> db_down])
-----------------------------------------------------------------------------
(* "A command lands, the flusher writes this": the page too.                *)
PageSurvives ==
    dsn /\ Running /\ ~db_down /\ ~OnItsWay => adopt_settings(rows).page = st.page

(* "Settings are the decisions that survive": while nobody decides          *)
(* anything, what the store would boot the body with stays.                 *)
DecisionsSurvive ==
    [][commands = 0 => adopt_settings(rows') = adopt_settings(rows)]_vars

(* "Records are capped in RAM while the store is down": as long as the      *)
(* process lives, an event the feed carried is in the store or still held   *)
(* for it.                                                                  *)
RecordsKept ==
    dsn /\ crashes = 0 =>
      \A i \in 1..Len(published) :
        \/ \E j \in 1..Len(events) : events[j] = published[i]
        \/ \E j \in 1..Len(writes) : writes[j] = published[i]
        \/ \E j \in 1..Len(flusher.batch) : flusher.batch[j] = published[i]
=============================================================================
