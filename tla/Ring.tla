-------------------------------- MODULE Ring ---------------------------------
(***************************************************************************)
(* The ring daemon, crates/loa-ring: the loop of main.rs that drains the   *)
(* feed, renders (render.rs) and hands the frame to the thread that owns   *)
(* the strip.  The clock is the daemon's own; a turn of the loop takes one *)
(* step of it or more.  What is held of the feed is the last of each topic *)
(* (Pain.tla); here a turn hears at most one message.                      *)
(***************************************************************************)
EXTENDS Tells, FiniteSets

CONSTANTS Nothing,      \* no record, no word, no tick yet
          Record,       \* the ring events the feed carries: [kind, ts]
          Length,       \* of a record's sequence, by kind and console flag
          Period, Tick, \* of the niggle
          MaxTime,      \* bound: the clock
          MaxNews,      \* bound: messages heard
          MaxQueue      \* bound: frames the strip thread has not taken

ASSUME RingAssumption ==
    /\ \A r \in Record : r.kind \in Kinds
    /\ Nothing \notin Nat \cup {"well", "niggle", "hurts"} \cup Kinds \cup [kind : Kinds, start : Nat]
    /\ Length \in [Kinds \X BOOLEAN -> Nat]
    /\ Period \in Nat /\ Tick \in 1..Period
    /\ MaxTime \in Nat /\ MaxNews \in Nat /\ MaxQueue \in Nat \ {0}

VARIABLES
    t,
    view,           \* what is held: [word, state, console]; word Nothing: no fault heard
    oneshot,        \* the pending record: [kind, start], or Nothing
    seen,           \* the records noted
    tell,           \* what spoke last
    niggle_next, niggle_until,
    queue,          \* frames for the strip thread, by the time of each
    shown,          \* the frame on the strip
    news,           \* bound: messages heard
    since,          \* history: when the record was noted or last kept waiting
    ticked,         \* history: when the last amber tick began
    notes           \* history: how often each record was made the pending one

rendered == <<oneshot, tell, niggle_next, niggle_until, since, ticked>>
ringVars == <<t, view, rendered, seen, queue, shown, news, notes>>

RingInit ==
    /\ t = 0
    /\ view = [word |-> Nothing, state |-> "home", console |-> FALSE]
    /\ oneshot = Nothing /\ seen = {} /\ tell = Nothing
    /\ niggle_next = 0 /\ niggle_until = 0
    /\ queue = <<>> /\ shown = 0 /\ news = 0
    /\ since = 0 /\ ticked = Nothing /\ notes = [r \in Record |-> 0]

(* only the newest of what was noted is told apart *)
FreshByNewest(record) == record \notin seen \/ \E r \in seen : r.ts > record.ts

(* deduped by kind and stamp, for as long as the daemon lives *)
Fresh(record) == record \notin seen

(* What the loop hears before it renders, at the time it renders at. *)
HearNothing == UNCHANGED <<view, seen, news, notes>>

Heard == news < MaxNews /\ news' = news + 1

HearState ==
    /\ Heard
    /\ \E state \in {"home", "busy", "alarm", "scan"}, console \in BOOLEAN :
            view' = [view EXCEPT !.state = state, !.console = console]
    /\ UNCHANGED <<seen, notes>>

HearFault ==
    /\ Heard
    /\ \E word \in {"well", "niggle", "hurts"} : view' = [view EXCEPT !.word = word]
    /\ UNCHANGED <<seen, notes>>

(* note_oneshot: the newest record waits to play, in place of any other *)
HearRecord(record) ==
    /\ Heard
    /\ seen' = seen \cup {record}
    /\ notes' = [notes EXCEPT ![record] = IF Fresh(record) THEN @ + 1 ELSE @]
    /\ UNCHANGED view
-----------------------------------------------------------------------------
(* the record noted keeps its time whatever speaks *)
StartAging(pending, kind, now) == pending

(* A record that has to wait is as young as the clock. *)
Start(pending, kind, now) ==
    IF pending # Nothing /\ kind \notin Kinds THEN [pending EXCEPT !.start = now] ELSE pending

(* the tick due again once the body is well *)
NextTickRearmed(cond, now) ==
    CASE cond # "niggle"                     -> 0
      [] cond = "niggle" /\ now >= niggle_next -> now + Period
      [] OTHER                               -> niggle_next

NextTick(cond, now) ==
    IF cond = "niggle" /\ now >= niggle_next THEN now + Period ELSE niggle_next

(* render, with pending the record after what was heard: the ladder, the    *)
(* voice, and a record spent once its length is over; then home speaks, and *)
(* of a niggle it shows one amber tick in a period.                         *)
Render(pending, now) ==
    LET cond == device_condition(view'.word # Nothing, view'.word, Nothing)
        kind == pick_tell(cond, view'.state, IF pending = Nothing THEN Nothing ELSE pending.kind, Nothing)
        kept == Start(pending, kind, now)
        spent == kind \in Kinds /\ now - kept.start > Length[kind, view'.console]
        spoke == IF spent THEN "home" ELSE kind
        begins == spoke = "home" /\ NextTick(cond, now) # niggle_next /\ cond = "niggle"
    IN  /\ oneshot' = IF spent THEN Nothing ELSE kept
        /\ tell' = spoke
        /\ niggle_next' = IF spoke = "home" THEN NextTick(cond, now) ELSE niggle_next
        /\ niggle_until' = IF begins THEN now + Tick ELSE niggle_until
        /\ ticked' = IF begins THEN now ELSE ticked
        /\ since' = IF kept # Nothing /\ (kind \notin Kinds \/ pending # oneshot) THEN now ELSE since
        /\ queue' = Append(queue, now)

(* one turn of the loop: drain, render, send *)
Turn ==
    /\ t < MaxTime /\ Len(queue) < MaxQueue
    /\ \E now \in {t + 1, t + 2} : t' = now
    /\ \/ (HearNothing \/ HearState \/ HearFault) /\ Render(oneshot, t')
       \/ \E record \in Record :
            /\ HearRecord(record)
            /\ Render(IF Fresh(record) THEN [kind |-> record.kind, start |-> t'] ELSE oneshot, t')
    /\ UNCHANGED shown

(* the frames shown in the order they were drawn *)
NextFrameOldest == Head(queue)

(* strip_worker: of all that waits, the newest *)
NextFrame == queue[Len(queue)]

(* ... on the strip, or refused by it: the frame is gone either way. *)
Strip ==
    /\ queue # <<>>
    /\ queue' = <<>>
    /\ shown' \in {NextFrame, shown}
    /\ UNCHANGED <<t, view, rendered, seen, news, notes>>

RingNext == Turn \/ Strip

RingSpec == RingInit /\ [][RingNext]_ringVars
-----------------------------------------------------------------------------
(* Types of the clock, the held view, the record and the strip. *)
RingTypes ==
    /\ t \in Nat /\ news \in Nat
    /\ view \in [word : {"well", "niggle", "hurts", Nothing},
                 state : {"home", "busy", "alarm", "scan"}, console : BOOLEAN]
    /\ oneshot \in [kind : Kinds, start : Nat] \cup {Nothing}
    /\ seen \subseteq Record /\ notes \in [Record -> Nat]
    /\ tell \in Voices \cup {Nothing}
    /\ niggle_next \in Nat /\ niggle_until \in Nat
    /\ queue \in Seq(Nat) /\ shown \in Nat
    /\ since \in Nat /\ ticked \in Nat \cup {Nothing}

(* "It plays its FULL sequence when the gate lifts": a record goes only     *)
(* when it has spoken for its whole length without a break, or to a newer   *)
(* record; no alarm, pain or command in between has eaten of it.            *)
PlaysInFull ==
    [][oneshot # Nothing /\ oneshot' = Nothing => t' - since > Length[oneshot.kind, view'.console]]_ringVars

(* "A feed replay of the same note must not re-fire a scan." *)
NotesOnce == \A r \in Record : notes[r] <= 1

(* "One rare amber tick": ticks begin a period apart however the condition  *)
(* flaps and whatever else speaks in between.                               *)
NiggleRare == [][ticked # Nothing /\ ticked' # ticked => ticked' - ticked >= Period]_ringVars

(* "A frame nobody has drawn yet supersedes every frame before it": the     *)
(* strip gets the newest frame there is, and never goes back.               *)
StripNewest == [][shown' # shown => shown' = t /\ shown' > shown]_ringVars
=============================================================================
