---------------------------- MODULE CortexProofs ----------------------------
(***************************************************************************)
(* What the cortex keeps of its decisions and what it tells the devices,   *)
(* for any commands, any earlier rows and any number of outages and        *)
(* crashes.                                                                *)
(***************************************************************************)
EXTENDS Cortex, TLAPS

(* Nine keys, each once. *)
LEMMA KeysAre ==
    Keys = {"mood", "ring_state", "oled_mode", "oled_text", "oled_dim", "oled_flip",
            "ripperdoc", "page", "snr_on"}
  BY DEF Keys, KeyOrder

(* The flusher's rows are rows of the table. *)
LEMMA RowKeyIsKey ==
    ASSUME NEW i \in 1..9
    PROVE  KeyOrder[i] \in Keys
  BY DEF Keys

(* The moods are words of the store. *)
LEMMA MoodsType ==
    ASSUME NEW i \in 1..Len(MOODS)
    PROVE  /\ MOODS[i].name \in Word /\ MOODS[i].ring \in Word
           /\ MOODS[i].oled_mode \in Word /\ MOODS[i].oled_text \in Word \cup {None}
           /\ MOODS[i].oled_dim \in BOOLEAN
  <1>1. MOODS[i].oled_dim \in BOOLEAN
    <2>1. Len(MOODS) = 6
      BY DEF MOODS
    <2>2. /\ MOODS[1].oled_dim = FALSE /\ MOODS[2].oled_dim = FALSE
          /\ MOODS[3].oled_dim = FALSE /\ MOODS[4].oled_dim = FALSE
          /\ MOODS[5].oled_dim = FALSE /\ MOODS[6].oled_dim = TRUE
      BY DEF MOODS
    <2>3. i = 1 \/ i = 2 \/ i = 3 \/ i = 4 \/ i = 5 \/ i = 6
      BY <2>1
    <2>4. QED
      BY <2>2, <2>3
  <1>2. /\ MOODS[i].name \in Ours /\ MOODS[i].ring \in Ours
        /\ MOODS[i].oled_mode \in Ours /\ MOODS[i].oled_text \in Ours \cup {None}
    BY DEF Ours
  <1>3. QED
    BY <1>1, <1>2, WordAssumption

(* So are the modes and the pages. *)
LEMMA TablesType == DISPLAY_MODES \subseteq Word /\ PAGES \subseteq Word
  BY WordAssumption DEF Ours

(* The defaults are settings. *)
LEMMA DefaultType == Default \in Settings
  <1>1. /\ 1 \in 1..Len(MOODS) /\ MOODS[1].name = "calm" /\ MOODS[1].ring = "home"
        /\ MOODS[1].oled_mode = "scope"
    BY DEF MOODS
  <1>2. "calm" \in Word /\ "home" \in Word /\ "scope" \in Word
    BY <1>1, MoodsType
  <1>3. "sensors" \in Word
    BY TablesType DEF PAGES
  <1>4. QED
    BY <1>2, <1>3 DEF Default, Settings

(* The rows of an upsert keep their keys' shapes. *)
LEMMA UpsertType ==
    ASSUME NEW r \in Rows, NEW s \in Settings, NEW k \in Keys
    PROVE  [r EXCEPT ![k] = s[k]] \in Rows
  BY KeysAre DEF Rows, Settings, Odd

(* What was saved is what boots, but for a null, which boots the default,   *)
(* and the default text is none.                                            *)
LEMMA AdoptSaved ==
    ASSUME NEW r \in Rows, NEW s \in Settings, NEW k \in Keys, r[k] = s[k]
    PROVE  adopt_settings(r)[k] = s[k]
  <1>1. CASE k = "oled_text"
    BY <1>1, ValueAssumption DEF adopt_settings, Default, Settings, Odd
  <1>2. CASE k # "oled_text"
    <2>1. s[k] \notin Odd
      BY <1>2, KeysAre, ValueAssumption DEF Settings, Odd
    <2>2. QED
      BY <2>1 DEF adopt_settings
  <1>3. QED
    BY <1>1, <1>2

(* Whatever is in the rows, what a boot adopts of them is settings. *)
LEMMA AdoptType ==
    ASSUME NEW r \in Rows
    PROVE  adopt_settings(r) \in Settings
  <1>1. ASSUME NEW k \in Keys, r[k] \notin Odd
        PROVE  r[k] \in IF k \in {"oled_dim", "oled_flip", "ripperdoc", "snr_on"}
                        THEN BOOLEAN ELSE Word
    BY <1>1, KeysAre DEF Rows
  <1>2. ASSUME NEW k \in Keys
        PROVE  adopt_settings(r)[k] \in IF k \in {"oled_dim", "oled_flip", "ripperdoc", "snr_on"}
                        THEN BOOLEAN ELSE IF k = "oled_text" THEN Word \cup {None} ELSE Word
    BY <1>1, KeysAre, DefaultType DEF adopt_settings, Settings
  <1>3. QED
    BY <1>2, KeysAre DEF adopt_settings, Settings
-----------------------------------------------------------------------------
(* A verb leaves settings of the right types; a refused one leaves them as  *)
(* they were, and one that logs no event leaves all but the page.           *)
LEMMA VerbDecides ==
    ASSUME NEW s \in Settings, NEW c \in Command
    PROVE  /\ dispatch(s, c).st \in Settings
           /\ ~dispatch(s, c).ok => dispatch(s, c).st = s
           /\ ~dispatch(s, c).event
                => \A k \in Keys \ {"page"} : dispatch(s, c).st[k] = s[k]
  <1> DEFINE Fine(r) == /\ r.st \in Settings
                        /\ ~r.ok => r.st = s
                        /\ ~r.event => \A k \in Keys \ {"page"} : r.st[k] = s[k]
  <1>1. Fine(Refused(s))
    BY DEF Refused
  <1>2. ASSUME c.cmd = "feel", c.feeling \in Word \cup {None}, c.next \in BOOLEAN
        PROVE  Fine(feel(s, c.feeling, c.next))
    <2> DEFINE found == IF c.next THEN next_from(s.mood) ELSE by_name(c.feeling)
    <2>1. found \subseteq 1..Len(MOODS)
      <3>1. Len(MOODS) = 6
        BY DEF MOODS
      <3>2. by_name(s.mood) \subseteq 1..6 /\ by_name(c.feeling) \subseteq 1..6
        BY <3>1 DEF by_name
      <3>3. ASSUME by_name(s.mood) # {}
            PROVE  (CHOOSE i \in by_name(s.mood) : TRUE) \in 1..6
        BY <3>2, <3>3
      <3>4. next_from(s.mood) \subseteq 1..6
        <4> DEFINE j == CHOOSE i \in by_name(s.mood) : TRUE
        <4>1. CASE by_name(s.mood) = {}
          BY <4>1 DEF next_from
        <4>2. CASE by_name(s.mood) # {}
          <5>1. j \in 1..6
            BY <3>3, <4>2
          <5>2. next_from(s.mood) = {(j % 6) + 1}
            BY <3>1, <4>2 DEF next_from
          <5> HIDE DEF j
          <5>3. (j % 6) + 1 \in 1..6
            BY <5>1
          <5>4. QED
            BY <5>2, <5>3
        <4>3. QED
          BY <4>1, <4>2
      <3>5. QED
        BY <3>1, <3>2, <3>4
    <2>2. CASE found = {}
      BY <1>1, <2>2 DEF feel
    <2>3. CASE found # {}
      <3> DEFINE i == CHOOSE i \in found : TRUE
      <3>1. i \in 1..Len(MOODS)
        BY <2>1, <2>3
      <3> HIDE DEF i
      <3>2. /\ MOODS[i].name \in Word /\ MOODS[i].ring \in Word
            /\ MOODS[i].oled_mode \in Word /\ MOODS[i].oled_text \in Word \cup {None}
            /\ MOODS[i].oled_dim \in BOOLEAN
        BY <3>1, MoodsType
      <3> DEFINE mood == MOODS[i]
                 after == [s EXCEPT !.mood = mood.name,
                             !.ring_state = IF mood.one_shot THEN @ ELSE mood.ring,
                             !.oled_mode = mood.oled_mode,
                             !.oled_text = mood.oled_text,
                             !.oled_dim = mood.oled_dim]
      <3>3. after \in Settings
        BY <3>2 DEF Settings
      <3>4. feel(s, c.feeling, c.next) = Said(after, TRUE)
        BY <2>3 DEF feel, i
      <3>5. QED
        BY <3>3, <3>4 DEF Said
    <2>4. QED
      BY <2>2, <2>3
  <1>3. ASSUME c.cmd = "display", c.mode \in Word \cup {None}, c.text \in Word \cup {None},
               c.dim \in BOOLEAN \cup {None}, c.flip \in BOOLEAN \cup {None}
        PROVE  Fine(display(s, c.mode, c.text, c.dim, c.flip))
    <2> DEFINE moded == IF c.mode = None THEN s
                        ELSE [s EXCEPT !.oled_mode = c.mode,
                                       !.oled_text = IF c.mode = "text" THEN c.text ELSE None]
               after == [moded EXCEPT !.oled_dim = IF c.dim = None THEN @ ELSE c.dim,
                                      !.oled_flip = IF c.flip = None THEN @ ELSE c.flip]
    <2>1. CASE c.mode # None /\ c.mode \notin DISPLAY_MODES
      BY <1>1, <2>1 DEF display
    <2>2. CASE ~(c.mode # None /\ c.mode \notin DISPLAY_MODES)
      <3>1. moded \in Settings
        BY <1>3 DEF Settings
      <3>2. after \in Settings
        <4>1. ASSUME NEW q \in Settings, NEW dim \in BOOLEAN, NEW flip \in BOOLEAN
              PROVE  [q EXCEPT !.oled_dim = dim, !.oled_flip = flip] \in Settings
          BY <4>1 DEF Settings
        <4>2. moded.oled_dim \in BOOLEAN /\ moded.oled_flip \in BOOLEAN
          BY <3>1 DEF Settings
        <4> HIDE DEF moded
        <4>3. QED
          BY <1>3, <3>1, <4>1, <4>2
      <3>3. display(s, c.mode, c.text, c.dim, c.flip)
              = IF {c.mode, c.dim, c.flip} = {None} THEN Said(after, FALSE) ELSE Said(after, TRUE)
        BY <2>2 DEF display
      <3>4. ASSUME {c.mode, c.dim, c.flip} = {None}
            PROVE  after = s
        <4>1. c.mode = None /\ c.dim = None /\ c.flip = None
          BY <3>4
        <4>2. QED
          BY <4>1 DEF Settings
      <3>5. QED
        BY <3>2, <3>3, <3>4 DEF Said
    <2>3. QED
      BY <2>1, <2>2
  <1>4. ASSUME c.cmd = "ripperdoc", c.on \in BOOLEAN \cup {None}, c.page \in Word \cup {None}
        PROVE  Fine(ripperdoc(s, c.on, c.page))
    <2> DEFINE paged == [s EXCEPT !.page = IF c.page = None THEN @ ELSE c.page]
               after == [paged EXCEPT !.ripperdoc = c.on,
                                      !.oled_mode = IF c.on THEN "ripperdoc" ELSE "scope"]
    <2>1. CASE c.page # None /\ c.page \notin PAGES
      BY <1>1, <2>1 DEF ripperdoc
    <2>2. CASE ~(c.page # None /\ c.page \notin PAGES)
      <3>1. paged \in Settings /\ \A k \in Keys \ {"page"} : paged[k] = s[k]
        BY <1>4, KeysAre DEF Settings
      <3>2. CASE c.on = None
        BY <2>2, <3>1, <3>2 DEF ripperdoc, Said
      <3>3. CASE c.on # None
        <4>1. after \in Settings
          <5>1. "ripperdoc" \in Word /\ "scope" \in Word
            BY TablesType DEF DISPLAY_MODES
          <5>2. (IF c.on THEN "ripperdoc" ELSE "scope") \in Word
            BY <5>1
          <5>3. QED
            BY <1>4, <3>1, <3>3, <5>2 DEF Settings
        <4>2. ripperdoc(s, c.on, c.page) = Said(after, TRUE)
          BY <2>2, <3>3 DEF ripperdoc
        <4>3. QED
          BY <4>1, <4>2 DEF Said
      <3>4. QED
        BY <3>2, <3>3
    <2>3. QED
      BY <2>1, <2>2
  <1>5. QED
    BY <1>2, <1>3, <1>4 DEF dispatch, Command
-----------------------------------------------------------------------------
(* The flusher's place: outside a flush its work is blank, in one its next  *)
(* statement is at most one past the last.                                  *)
Place ==
    /\ phase = "down" => flusher.pc = "wait"
    /\ flusher.pc # "write" => flusher.at = 1 /\ ~flusher.failed
    /\ 1 <= flusher.at /\ flusher.at <= Last + 1

(* The last thing the door posts is the change, so a change the devices     *)
(* have not been told has news of it waiting.                               *)
Told ==
    /\ tosend # <<>> => tosend[Len(tosend)] = Changed
    /\ tosend = <<>> /\ news # <<>> => news[Len(news)] = Changed
    /\ FeedFresh

(* Every key but the page: its change is on its way, or the flush in hand   *)
(* carries it and has written what it has passed, or it is saved, or the    *)
(* last flush is known to have failed.                                      *)
Queues == Has(tosend) \/ Has(news) \/ writes # <<>> \/ flusher.pc = "drained"

Carried(k) ==
    /\ flusher.pc = "write"
    /\ \/ flusher.failed
       \/ /\ flusher.snap[k] = st[k]
          /\ \A i \in 1..9 : KeyOrder[i] = k /\ i < flusher.at - Records => rows[k] = st[k]

Saved(k) ==
    /\ flusher.pc = "wait"
    /\ db_down \/ adopt_settings(rows)[k] = st[k]

Synced ==
    dsn /\ Running => \A k \in Keys \ {"page"} : Queues \/ Carried(k) \/ Saved(k)

(* The events of a queue, those of the batch still to be written, and the   *)
(* one between the flusher's queue and the topic.                           *)
Ids(queue) == {queue[i] : i \in 1..Len(queue)} \ {Changed}
Rest       == {flusher.batch[i] : i \in flusher.at..Records} \ {Sample}
Handled    == {handling} \ {Changed}

InOrder(queue) ==
    \A i, j \in 1..Len(queue) :
        i < j /\ queue[i] # Changed /\ queue[j] # Changed => queue[i] < queue[j]

Before(A, B) == \A a \in A, b \in B : a < b

(* From the door to the topic, and from the door to the table: each place   *)
(* holds events of commands before those of the places behind it.           *)
ToTopic ==
    /\ Before(Ids(published), Handled \cup Ids(news) \cup Ids(tosend))
    /\ Before(Handled, Ids(news) \cup Ids(tosend))
    /\ Before(Ids(news), Ids(tosend))

ToTable ==
    /\ Before(Ids(events), Rest \cup Ids(writes) \cup Ids(news) \cup Ids(tosend))
    /\ Before(Rest, Ids(writes) \cup Ids(news) \cup Ids(tosend))
    /\ Before(Ids(writes), Ids(news) \cup Ids(tosend))

Asked == \A n \in Ids(published) \cup Handled \cup Ids(events) \cup Rest \cup Ids(writes)
                    \cup Ids(news) \cup Ids(tosend) : n <= commands

QueuesInOrder == InOrder(flusher.batch) /\ InOrder(writes) /\ InOrder(news) /\ InOrder(tosend)

Order == EventsInOrder /\ QueuesInOrder /\ ToTopic /\ ToTable /\ Asked

Inv == Place /\ Told /\ Synced /\ Order

(* Every step of Next is one of these. *)
LEMMA Steps ==
    ASSUME Next
    PROVE  \/ Boot \/ Join \/ (\E c \in Commands : Ask(c)) \/ Post
           \/ TakeEvent \/ PublishEvent \/ Republish \/ Sweep \/ Weather
           \/ FlushDrain \/ FlushSnapshot \/ StatementDone \/ StatementRefused
           \/ FlushDone \/ StatementUnheard \/ StoreFalls \/ StoreReturns \/ Crash
  BY Zenon DEF Next, Main, Flush

(* A flusher at rest is one. *)
LEMMA IdleType == Idle \in Work
  <1>1. <<>> \in Seq(Nat)
    OBVIOUS
  <1>2. QED
    BY <1>1, DefaultType DEF Idle, Work

(* A flush counts its records and, after them, nine rows. *)
LEMMA RecordsType ==
    ASSUME flusher \in Work
    PROVE  Records \in Nat /\ Last \in Nat /\ Last = Records + 9
  BY DEF Records, Last, Work

(* A statement writes a record of the batch or the row of a key. *)
LEMMA WrittenType ==
    ASSUME flusher \in Work, Place, Writing, rows \in Rows, events \in Seq(Nat), Written
    PROVE  rows' \in Rows /\ events' \in Seq(Nat)
  <1>1. CASE flusher.at <= Records
    <2>1. flusher.batch[flusher.at] \in Nat
      BY <1>1 DEF Records, Work, Place
    <2>2. QED
      BY <1>1, <2>1 DEF Written
  <1>2. CASE flusher.at > Records
    <2>1. flusher.at - Records \in 1..9
      <3>1. flusher.at \in Nat /\ Records \in Nat /\ flusher.at <= Records + 9
        BY RecordsType DEF Writing, Work
      <3>2. ASSUME NEW a \in Nat, NEW r \in Nat, a > r, a <= r + 9
            PROVE  a - r \in 1..9
        BY <3>2
      <3>3. QED
        BY <1>2, <3>1, <3>2
    <2>2. RowKey \in Keys
      BY <2>1, RowKeyIsKey DEF RowKey
    <2>3. rows' = [rows EXCEPT ![RowKey] = flusher.snap[RowKey]] /\ UNCHANGED events
      BY <1>2, RecordsType DEF Written, Work
    <2>4. QED
      BY <2>2, <2>3, UpsertType DEF Work
  <1>3. QED
    BY <1>1, <1>2, RecordsType DEF Work

(* One more statement, done or failed, is in place. *)
LEMMA NextStatement ==
    ASSUME flusher \in Work, Place, Writing,
           \/ flusher' = [flusher EXCEPT !.at = @ + 1]
           \/ Failed
    PROVE  /\ flusher' \in Work
           /\ flusher'.pc = "write" /\ flusher'.batch = flusher.batch
           /\ flusher'.snap = flusher.snap
           /\ 1 <= flusher'.at /\ flusher'.at <= Last + 1
  <1>1. flusher.at \in Nat /\ Records \in Nat /\ Last = Records + 9 /\ flusher.at <= Last
    BY RecordsType DEF Work, Writing
  <1>2. CASE flusher' = [flusher EXCEPT !.at = @ + 1]
    BY <1>1, <1>2 DEF Work, Place, Writing
  <1>3. CASE Failed
    <2> DEFINE to == IF flusher.at <= Records THEN flusher.at + 1 ELSE Last + 1
    <2>1. to \in Nat /\ 1 <= to /\ to <= Last + 1
      BY <1>1
    <2>2. flusher' = [flusher EXCEPT !.at = to, !.failed = TRUE]
      BY <1>3 DEF Failed
    <2> HIDE DEF to
    <2>3. QED
      BY <2>1, <2>2 DEF Work, Writing
  <1>4. QED
    BY <1>2, <1>3

(* RAM and the door keep their types. *)
LEMMA TypeRamStep ==
    ASSUME TypeOK, Place, [Next]_vars
    PROVE  TypeRam'
  <1> USE DEF TypeOK, TypeRam
  <1>1. CASE UNCHANGED vars
    BY <1>1 DEF vars, procVars
  <1>2. CASE Boot
    <2>1. st' \in Settings
      BY <1>2, AdoptType DEF Boot, TypeStore
    <2>2. db_down' \in BOOLEAN /\ conn' \in {"none", "live", "dead"}
      BY <1>2 DEF Boot
    <2>3. QED
      BY <1>2, <2>1, <2>2 DEF Boot
  <1>3. CASE Join
    BY <1>3 DEF Join
  <1>4. CASE Post
    BY <1>4 DEF Post
  <1>5. CASE TakeEvent
    BY <1>5 DEF TakeEvent, Queued
  <1>6. CASE PublishEvent
    BY <1>6 DEF PublishEvent
  <1>7. CASE Republish
    BY <1>7 DEF Republish
  <1>8. CASE Sweep
    BY <1>8 DEF Sweep, procVars
  <1>9. CASE Weather
    BY <1>9 DEF Weather, Queued, Sample
  <1>10. CASE FlushDrain
    <2>1. flusher' \in Work
      BY <1>10 DEF FlushDrain, Work
    <2>2. <<>> \in Seq(Nat)
      OBVIOUS
    <2>3. QED
      BY <1>10, <2>1, <2>2 DEF FlushDrain
  <1>11. CASE FlushSnapshot
    BY <1>11 DEF FlushSnapshot, Work
  <1>12. CASE StatementDone
    BY <1>12, NextStatement DEF StatementDone
  <1>13. CASE StatementRefused
    BY <1>13, NextStatement DEF StatementRefused
  <1>14. CASE StatementUnheard
    BY <1>14, NextStatement DEF StatementUnheard
  <1>15. CASE FlushDone
    <2>1. flusher.failed \in BOOLEAN
      BY DEF Work
    <2>2. QED
      BY <1>15, <2>1, IdleType DEF FlushDone
  <1>16. CASE StoreFalls
    BY <1>16 DEF StoreFalls
  <1>17. CASE StoreReturns
    BY <1>17 DEF StoreReturns, procVars
  <1>18. CASE Crash
    <2>1. <<>> \in Seq(Nat)
      OBVIOUS
    <2>2. QED
      BY <1>18, <2>1, IdleType, DefaultType DEF Crash
  <1>19. ASSUME NEW c \in Commands, Ask(c)
        PROVE  TypeRam'
    <2> DEFINE r == dispatch(st, c)
    <2>1. r.st \in Settings
      BY VerbDecides, CommandAssumption
    <2> HIDE DEF r
    <2>2. newsOf(r, commands + 1) \in Seq(Nat)
      BY DEF newsOf, Changed, TypeBounds
    <2>3. QED
      BY <1>19, <2>1, <2>2 DEF Ask, r
  <1>20. QED
    BY <1>1, <1>2, <1>3, <1>4, <1>5, <1>6, <1>7, <1>8, <1>9, <1>10, <1>11, <1>12, <1>13, <1>14, <1>15, <1>16, <1>17, <1>18, <1>19, Steps, Zenon

(* So do the store and the flusher. *)
LEMMA TypeStoreStep ==
    ASSUME TypeOK, Place, [Next]_vars
    PROVE  TypeStore'
  <1> USE DEF TypeOK, TypeStore
  <1>1. CASE UNCHANGED vars
    BY <1>1 DEF vars, storeVars
  <1>2. CASE Boot \/ Join \/ Post \/ TakeEvent \/ PublishEvent \/ Republish
    BY <1>2 DEF Boot, Join, Post, TakeEvent, PublishEvent, Republish, storeVars
  <1>3. CASE Sweep \/ Weather \/ FlushDrain \/ FlushSnapshot \/ StatementRefused \/ FlushDone
    BY <1>3 DEF Sweep, Weather, FlushDrain, FlushSnapshot, StatementRefused, FlushDone, storeVars
  <1>4. CASE StatementDone
    BY <1>4, WrittenType DEF StatementDone, TypeRam
  <1>5. CASE StatementUnheard
    BY <1>5, WrittenType DEF StatementUnheard, TypeRam
  <1>6. CASE StoreFalls \/ StoreReturns \/ Crash
    BY <1>6 DEF StoreFalls, StoreReturns, Crash, storeVars
  <1>7. ASSUME NEW c \in Commands, Ask(c)
        PROVE  TypeStore'
    BY <1>7 DEF Ask, storeVars
  <1>8. QED
    BY <1>1, <1>2, <1>3, <1>4, <1>5, <1>6, <1>7, Steps, Zenon

(* So do the feed and the news. *)
LEMMA TypeFeedStep ==
    ASSUME TypeOK, [Next]_vars
    PROVE  TypeFeed'
  <1> USE DEF TypeOK, TypeRam, TypeFeed
  <1>1. CASE UNCHANGED vars
    BY <1>1 DEF vars, feedVars
  <1>2. CASE Join
    BY <1>2 DEF Join
  <1>3. CASE Republish
    BY <1>3 DEF Republish
  <1>4. CASE Sweep
    BY <1>4 DEF Sweep
  <1>5. CASE PublishEvent
    BY <1>5 DEF PublishEvent
  <1>6. CASE Boot \/ Post \/ TakeEvent \/ Weather \/ FlushDrain \/ FlushSnapshot
    BY <1>6 DEF Boot, Post, TakeEvent, Weather, FlushDrain, FlushSnapshot, feedVars
  <1>7. CASE StatementDone \/ StatementRefused \/ StatementUnheard \/ FlushDone
    BY <1>7 DEF StatementDone, StatementRefused, StatementUnheard, FlushDone, feedVars
  <1>8. CASE StoreFalls \/ StoreReturns \/ Crash
    BY <1>8 DEF StoreFalls, StoreReturns, Crash, feedVars
  <1>9. ASSUME NEW c \in Commands, Ask(c)
        PROVE  TypeFeed'
    BY <1>9 DEF Ask, feedVars
  <1>10. QED
    BY <1>1, <1>2, <1>3, <1>4, <1>5, <1>6, <1>7, <1>8, <1>9, Steps, Zenon

(* So do the counters. *)
LEMMA TypeBoundsStep ==
    ASSUME TypeOK, [Next]_vars
    PROVE  TypeBounds'
  <1> USE DEF TypeOK, TypeBounds, bounds
  <1>1. CASE UNCHANGED vars
    BY <1>1 DEF vars
  <1>2. CASE Boot \/ Join \/ Post \/ TakeEvent \/ PublishEvent \/ Republish
    BY <1>2 DEF Boot, Join, Post, TakeEvent, PublishEvent, Republish
  <1>3. CASE Sweep \/ Weather \/ FlushDrain \/ FlushSnapshot \/ StatementRefused \/ FlushDone
    BY <1>3 DEF Sweep, Weather, FlushDrain, FlushSnapshot, StatementRefused, FlushDone
  <1>4. CASE StatementDone \/ StatementUnheard \/ StoreFalls \/ StoreReturns \/ Crash
    BY <1>4 DEF StatementDone, StatementUnheard, StoreFalls, StoreReturns, Crash
  <1>5. ASSUME NEW c \in Commands, Ask(c)
        PROVE  TypeBounds'
    BY <1>5 DEF Ask
  <1>6. QED
    BY <1>1, <1>2, <1>3, <1>4, <1>5, Steps, Zenon

(* A step keeps the types of RAM, queues, tables and feed. *)
LEMMA TypeStep ==
    ASSUME TypeOK, Place, [Next]_vars
    PROVE  TypeOK'
  BY TypeRamStep, TypeStoreStep, TypeFeedStep, TypeBoundsStep DEF TypeOK
-----------------------------------------------------------------------------
(* The rest of the news ends as the news did, and keeps what was not its head. *)
LEMMA TailKeeps ==
    ASSUME NEW q \in Seq(Nat), q # <<>>
    PROVE  /\ Tail(q) # <<>> => Tail(q)[Len(Tail(q))] = q[Len(q)]
           /\ Tail(q) = <<>> => Head(q) = q[Len(q)]
           /\ Has(q) => Head(q) # Changed \/ Has(Tail(q))
  <1>1. Len(q) \in Nat /\ Len(q) >= 1 /\ Len(Tail(q)) = Len(q) - 1 /\ Head(q) = q[1]
    OBVIOUS
  <1>2. \A i \in 1..Len(q) - 1 : Tail(q)[i] = q[i + 1]
    OBVIOUS
  <1>3. ASSUME Tail(q) = <<>>
        PROVE  Len(q) = 1
    <2>1. Len(<<>>) = 0
      OBVIOUS
    <2>2. Len(Tail(q)) = 0
      BY <1>3, <2>1, Zenon
    <2>3. Len(q) - 1 = 0
      BY <1>1, <2>2
    <2>4. ASSUME NEW n \in Nat, n - 1 = 0
          PROVE  n = 1
      BY <2>4
    <2>5. QED
      BY <1>1, <2>3, <2>4
  <1>4. Tail(q) # <<>> => Tail(q)[Len(Tail(q))] = q[Len(q)]
    <2>1. ASSUME Tail(q) # <<>>
          PROVE  Len(q) - 1 \in 1..Len(q) - 1
      BY <1>1, <2>1
    <2>2. QED
      BY <1>1, <1>2, <2>1
  <1>5. ASSUME NEW i \in 1..Len(q), q[i] # Changed, Head(q) = Changed
        PROVE  Has(Tail(q))
    <2>1. i - 1 \in 1..Len(Tail(q))
      BY <1>1, <1>5
    <2>2. Tail(q)[i - 1] = q[i]
      BY <1>1, <1>2, <2>1
    <2>3. QED
      BY <1>5, <2>1, <2>2 DEF Has
  <1>6. QED
    BY <1>1, <1>3, <1>4, <1>5 DEF Has

(* News that is posted comes last, after all that was there. *)
LEMMA AppendKeeps ==
    ASSUME NEW q \in Seq(Nat), NEW x \in Nat
    PROVE  /\ Append(q, x) # <<>> /\ Append(q, x)[Len(Append(q, x))] = x
           /\ Has(q) \/ x # Changed => Has(Append(q, x))
  <1>1. Len(Append(q, x)) = Len(q) + 1 /\ Append(q, x)[Len(q) + 1] = x
    OBVIOUS
  <1>2. \A i \in 1..Len(q) : Append(q, x)[i] = q[i]
    OBVIOUS
  <1>3. Len(q) \in Nat
    OBVIOUS
  <1>4. QED
    BY <1>1, <1>2, <1>3 DEF Has

(* What the door posts of a verb ends in the change. *)
LEMMA NewsEndsInChange ==
    ASSUME NEW r, NEW id \in Nat
    PROVE  /\ newsOf(r, id) # <<>> => newsOf(r, id)[Len(newsOf(r, id))] = Changed
           /\ newsOf(r, id) = <<>> => ~r.ok
           /\ r.ok /\ r.event /\ id # Changed => Has(newsOf(r, id))
  BY DEF newsOf, Has, Changed

(* The flusher moves from place to place. *)
LEMMA PlaceStep ==
    ASSUME TypeOK, Place, [Next]_vars
    PROVE  Place'
  <1> USE DEF Place, Last, Records
  <1>1. CASE UNCHANGED vars
    BY <1>1 DEF vars, procVars
  <1>2. CASE Boot \/ Join \/ Post \/ TakeEvent \/ PublishEvent \/ Republish
    BY <1>2 DEF Boot, Join, Post, TakeEvent, PublishEvent, Republish
  <1>3. CASE Sweep \/ Weather \/ StoreFalls \/ StoreReturns
    BY <1>3 DEF Sweep, Weather, StoreFalls, StoreReturns, procVars
  <1>4. ASSUME NEW c \in Commands, Ask(c)
        PROVE  Place'
    BY <1>4 DEF Ask
  <1>5. CASE FlushDrain
    <2>1. Len(writes) \in Nat
      BY DEF TypeOK, TypeRam
    <2>2. QED
      BY <1>5, <2>1 DEF FlushDrain, Running, TypeOK, TypeRam, Work
  <1>6. CASE FlushSnapshot
    BY <1>6 DEF FlushSnapshot, TypeOK, TypeRam, Work
  <1>7. CASE StatementDone \/ StatementRefused \/ StatementUnheard
    <2>1. Writing /\ UNCHANGED phase
      BY <1>7 DEF StatementDone, StatementRefused, StatementUnheard
    <2>2. \/ flusher' = [flusher EXCEPT !.at = @ + 1]
          \/ Failed
      BY <1>7 DEF StatementDone, StatementRefused, StatementUnheard
    <2>3. QED
      BY <2>1, <2>2, NextStatement DEF Writing, TypeOK, TypeRam
  <1>8. CASE FlushDone
    BY <1>8 DEF FlushDone, Idle
  <1>9. CASE Crash
    BY <1>9 DEF Crash, Idle
  <1>10. QED
    BY <1>1, <1>2, <1>3, <1>4, <1>5, <1>6, <1>7, <1>8, <1>9, Steps, Zenon

(* The glass has, or has under way, what RAM holds. *)
LEMMA ToldStep ==
    ASSUME TypeOK, Told, [Next]_vars
    PROVE  Told'
  <1> USE DEF Told, FeedFresh, TypeOK, TypeRam
  <1>1. CASE UNCHANGED vars
    BY <1>1 DEF vars, procVars, feedVars
  <1>2. CASE Boot
    BY <1>2 DEF Boot
  <1>3. CASE Join
    BY <1>3 DEF Join
  <1>4. ASSUME NEW c \in Commands, Ask(c)
        PROVE  Told'
    <2> DEFINE r == dispatch(st, c)
    <2>1. ~r.ok => r.st = st
      BY VerbDecides, CommandAssumption
    <2>2. /\ newsOf(r, commands + 1) # <<>>
               => newsOf(r, commands + 1)[Len(newsOf(r, commands + 1))] = Changed
          /\ newsOf(r, commands + 1) = <<>> => ~r.ok
      BY NewsEndsInChange DEF TypeBounds
    <2>3. /\ st' = r.st /\ tosend' = newsOf(r, commands + 1) /\ tosend = <<>>
          /\ UNCHANGED <<phase, news, shown>>
      BY <1>4 DEF Ask, feedVars
    <2> HIDE DEF r
    <2>4. QED
      BY <2>1, <2>2, <2>3
  <1>5. CASE Post
    <2>1. /\ news' = Append(news, Head(tosend)) /\ tosend' = Tail(tosend) /\ tosend # <<>>
          /\ UNCHANGED <<phase, st, shown>>
      BY <1>5 DEF Post, feedVars
    <2>2. Head(tosend) \in Nat
      BY <2>1
    <2>3. QED
      BY <2>1, <2>2, TailKeeps, AppendKeeps
  <1>6. CASE TakeEvent
    <2>1. /\ news' = Tail(news) /\ news # <<>> /\ Head(news) # Changed
          /\ UNCHANGED <<phase, st, tosend, shown>>
      BY <1>6 DEF TakeEvent, feedVars
    <2>2. QED
      BY <2>1, TailKeeps
  <1>7. CASE Republish
    <2>1. /\ news' = Tail(news) /\ news # <<>> /\ shown'.st = st
          /\ UNCHANGED <<phase, st, tosend>>
      BY <1>7 DEF Republish
    <2>2. QED
      BY <2>1, TailKeeps
  <1>8. CASE Sweep
    BY <1>8 DEF Sweep, procVars, TypeFeed
  <1>9. CASE PublishEvent \/ Weather \/ FlushDrain \/ FlushSnapshot \/ FlushDone
    BY <1>9 DEF PublishEvent, Weather, FlushDrain, FlushSnapshot, FlushDone, feedVars
  <1>10. CASE StatementDone \/ StatementRefused \/ StatementUnheard
    BY <1>10 DEF StatementDone, StatementRefused, StatementUnheard, feedVars
  <1>11. CASE StoreFalls \/ StoreReturns
    BY <1>11 DEF StoreFalls, StoreReturns, procVars, feedVars
  <1>12. CASE Crash
    BY <1>12 DEF Crash
  <1>13. QED
    BY <1>1, <1>2, <1>3, <1>4, <1>5, <1>6, <1>7, <1>8, <1>9, <1>10, <1>11, <1>12, Steps,
       Zenon

(* No step moves a decision out of the books: it stays in a queue, in the   *)
(* flush, in the table, or the flusher knows it has failed.                 *)
LEMMA SyncedStep ==
    ASSUME TypeOK, Place, Synced, [Next]_vars
    PROVE  Synced'
  <1> SUFFICES ASSUME dsn', Running', NEW k \in Keys \ {"page"}
               PROVE  Queues' \/ Carried(k)' \/ Saved(k)'
    BY DEF Synced
  <1> USE DEF TypeOK, TypeRam, TypeStore, Running
  <1>1. ASSUME UNCHANGED <<dsn, st, writes, flusher, db_down, rows>>,
               phase # "down", Has(tosend) => Has(tosend)' \/ Has(news)',
               Has(news) => Has(news)'
        PROVE  Queues' \/ Carried(k)' \/ Saved(k)'
    BY <1>1 DEF Synced, Queues, Carried, Saved, Records
  <1>2. CASE UNCHANGED vars
    BY <1>1, <1>2 DEF vars, procVars, storeVars, Has
  <1>3. CASE Boot
    BY <1>3 DEF Boot, Place, Saved, storeVars
  <1>4. CASE Join \/ PublishEvent \/ Sweep \/ StoreReturns \/ StoreFalls
    BY <1>1, <1>4 DEF Join, PublishEvent, Sweep, StoreReturns, StoreFalls, procVars, storeVars, Has
  <1>5. ASSUME NEW c \in Commands, Ask(c)
        PROVE  Queues' \/ Carried(k)' \/ Saved(k)'
    <2> DEFINE r == dispatch(st, c)
    <2>1. /\ ~r.ok => r.st = st
          /\ ~r.event => r.st[k] = st[k]
      BY VerbDecides, CommandAssumption
    <2>2. r.ok /\ r.event => Has(newsOf(r, commands + 1))
      BY NewsEndsInChange DEF TypeBounds, Changed
    <2>3. /\ st' = r.st /\ tosend' = newsOf(r, commands + 1) /\ tosend = <<>>
          /\ UNCHANGED <<dsn, phase, news, writes, flusher, db_down, rows>>
      BY <1>5 DEF Ask, storeVars
    <2> HIDE DEF r
    <2>4. CASE r.ok /\ r.event
      BY <2>2, <2>3, <2>4 DEF Queues, Has
    <2>5. CASE ~(r.ok /\ r.event)
      <3>1. st'[k] = st[k]
        BY <2>1, <2>3, <2>5
      <3>2. ~Has(tosend)
        BY <2>3 DEF Has
      <3>3. QED
        BY <2>3, <3>1, <3>2 DEF Synced, Queues, Carried, Saved, Records, Has
    <2>6. QED
      BY <2>4, <2>5
  <1>6. CASE Post
    <2>1. /\ news' = Append(news, Head(tosend)) /\ tosend' = Tail(tosend) /\ tosend # <<>>
          /\ UNCHANGED <<dsn, phase, st, writes, flusher, db_down, rows>>
      BY <1>6 DEF Post, storeVars
    <2>2. Head(tosend) \in Nat
      BY <2>1
    <2>3. Has(tosend) => Has(tosend') \/ Has(news')
      BY <2>1, <2>2, TailKeeps, AppendKeeps
    <2>4. Has(news) => Has(news')
      BY <2>1, <2>2, AppendKeeps
    <2>5. Has(tosend') = Has(tosend)' /\ Has(news') = Has(news)'
      BY DEF Has
    <2>6. QED
      BY <1>1, <2>1, <2>3, <2>4, <2>5
  <1>7. CASE TakeEvent \/ Weather
    <2>1. writes' # <<>>
      <3>1. UNCHANGED dsn /\ (writes' = Queued(Head(news)) \/ writes' = Queued(Sample))
        BY <1>7 DEF TakeEvent, Weather
      <3>2. writes' = Append(writes, Head(news)) \/ writes' = Append(writes, Sample)
        BY <3>1 DEF Queued
      <3>3. QED
        BY <3>2
    <2>2. QED
      BY <2>1 DEF Queues
  <1>8. CASE Republish
    <2>1. /\ news' = Tail(news) /\ news # <<>> /\ Head(news) = Changed
          /\ UNCHANGED <<dsn, phase, st, tosend, writes, flusher, db_down, rows>>
      BY <1>8 DEF Republish, storeVars
    <2>2. Has(news) => Has(news')
      BY <2>1, TailKeeps
    <2>3. Has(news') = Has(news)' /\ Has(tosend)' = Has(tosend)
      BY <2>1 DEF Has
    <2>4. QED
      BY <1>1, <1>8, <2>1, <2>2, <2>3 DEF Republish
  <1>9. CASE FlushDrain
    BY <1>9 DEF FlushDrain, Queues, Work
  <1>10. CASE FlushSnapshot
    <2>1. flusher.at = 1 /\ flusher.pc = "drained"
      BY <1>10 DEF FlushSnapshot, Place
    <2>2. /\ flusher' = [flusher EXCEPT !.pc = "write", !.snap = st] /\ st' = st
      BY <1>10 DEF FlushSnapshot
    <2>3. flusher'.pc = "write" /\ flusher'.snap = st /\ flusher'.at = 1
      BY <2>1, <2>2 DEF Work
    <2>4. Records' \in Nat
      BY <2>2 DEF Records, Work
    <2>5. Carried(k)'
      BY <2>2, <2>3, <2>4 DEF Carried
    <2>6. QED
      BY <2>5
  <1>11. CASE StatementDone
    <2>1. /\ UNCHANGED <<dsn, phase, st, tosend, news, writes, db_down>> /\ Writing /\ Written
          /\ flusher' = [flusher EXCEPT !.at = @ + 1]
      BY <1>11 DEF StatementDone
    <2>2. flusher' \in Work /\ flusher'.pc = "write" /\ flusher'.snap = flusher.snap
      BY <2>1, NextStatement
    <2>3. /\ flusher'.at = flusher.at + 1 /\ flusher'.failed = flusher.failed
          /\ Records' = Records
      BY <2>1 DEF Work, Records
    <2>4. CASE Queues
      BY <2>1, <2>2, <2>4 DEF Queues, Has, Writing
    <2>5. CASE ~Queues
      <3>1. Carried(k)
        BY <2>1, <2>5 DEF Synced, Saved, Writing
      <3>2. CASE flusher.failed
        BY <2>2, <2>3, <3>2 DEF Carried
      <3>3. CASE ~flusher.failed
        <4>1. /\ flusher.snap[k] = st[k]
              /\ \A i \in 1..9 : KeyOrder[i] = k /\ i < flusher.at - Records => rows[k] = st[k]
          BY <3>1, <3>3 DEF Carried
        <4>2. flusher.at \in Nat /\ Records \in Nat
          BY RecordsType DEF Work
        <4>3. ASSUME NEW i \in 1..9, KeyOrder[i] = k, i < flusher.at + 1 - Records
              PROVE  rows'[k] = st[k]
          <5>1. CASE flusher.at <= Records
            BY <4>2, <4>3, <5>1
          <5>2. CASE flusher.at > Records
            <6>1. rows' = [rows EXCEPT ![RowKey] = flusher.snap[RowKey]]
              BY <2>1, <4>2, <5>2 DEF Written
            <6>2. k \in DOMAIN rows
              BY KeysAre DEF Rows
            <6>3. CASE i = flusher.at - Records
              BY <4>1, <4>3, <6>1, <6>2, <6>3 DEF RowKey
            <6>4. CASE i # flusher.at - Records
              <7>1. rows[k] = st[k]
                <8>1. ASSUME NEW a \in Nat, NEW n \in Nat, NEW j \in 1..9, j < a + 1 - n, j # a - n
                      PROVE  j < a - n
                  BY <8>1
                <8>2. i < flusher.at - Records
                  BY <4>2, <4>3, <6>4, <8>1
                <8>3. QED
                  BY <4>1, <4>3, <8>2
              <7>2. QED
                BY <4>1, <6>1, <6>2, <7>1
            <6>5. QED
              BY <6>3, <6>4
          <5>3. QED
            BY <4>2, <5>1, <5>2
        <4>4. ASSUME NEW i \in 1..9, KeyOrder[i] = k, i < flusher'.at - Records'
              PROVE  rows'[k] = st'[k]
          <5> DEFINE at == flusher'.at
                     n  == Records'
          <5>1. at = flusher.at + 1 /\ n = Records
            BY <2>3
          <5>2. i < at - n
            BY <4>4
          <5> HIDE DEF at, n
          <5>3. i < flusher.at + 1 - Records
            BY <4>2, <5>1, <5>2
          <5>4. QED
            BY <2>1, <4>3, <4>4, <5>3
        <4>5. flusher'.snap[k] = st'[k]
          BY <2>1, <2>2, <4>1
        <4>6. QED
          BY <2>2, <4>4, <4>5 DEF Carried
      <3>4. QED
        BY <3>2, <3>3
    <2>6. QED
      BY <2>4, <2>5
  <1>12. CASE StatementRefused \/ StatementUnheard
    <2>1. /\ Writing /\ Failed
      BY <1>12 DEF StatementRefused, StatementUnheard
    <2>2. flusher'.pc = "write" /\ flusher'.failed
      BY <2>1 DEF Writing, Failed, Work
    <2>3. QED
      BY <2>2 DEF Carried
  <1>13. CASE FlushDone
    <2>1. /\ UNCHANGED <<dsn, phase, st, tosend, news, writes, rows>>
          /\ flusher.pc = "write" /\ flusher.at > Last
          /\ db_down' = flusher.failed /\ flusher' = Idle
      BY <1>13 DEF FlushDone, storeVars
    <2>2. flusher'.pc = "wait"
      BY <2>1 DEF Idle
    <2>3. CASE Queues
      BY <2>1, <2>3 DEF Queues, Has
    <2>4. CASE ~Queues
      <3>1. Carried(k)
        BY <2>1, <2>4 DEF Synced, Saved
      <3>2. CASE flusher.failed
        BY <2>1, <2>2, <3>2 DEF Saved
      <3>3. CASE ~flusher.failed
        <4>1. PICK i \in 1..9 : KeyOrder[i] = k
          BY DEF Keys
        <4>2. i < flusher.at - Records
          <5>1. flusher.at \in Nat /\ Records \in Nat /\ flusher.at > Records + 9
            BY <2>1, RecordsType DEF Work
          <5>2. QED
            BY <5>1
        <4>3. rows[k] = st[k]
          BY <3>1, <3>3, <4>1, <4>2 DEF Carried
        <4>4. adopt_settings(rows)[k] = st[k]
          BY <4>3, AdoptSaved
        <4>5. adopt_settings(rows)' = adopt_settings(rows)
          BY <2>1
        <4>6. QED
          BY <2>1, <2>2, <4>4, <4>5 DEF Saved
      <3>4. QED
        BY <3>2, <3>3
    <2>5. QED
      BY <2>3, <2>4
  <1>14. CASE Crash
    BY <1>14 DEF Crash
  <1>15. QED
    BY <1>2, <1>3, <1>4, <1>5, <1>6, <1>7, <1>8, <1>9, <1>10, <1>11, <1>12, <1>13, <1>14,
       Steps, Zenon
-----------------------------------------------------------------------------
(* Taking the first of a queue, and putting one last. *)
LEMMA FirstTaken ==
    ASSUME NEW q \in Seq(Nat), q # <<>>, InOrder(q)
    PROVE  /\ InOrder(Tail(q)) /\ Ids(Tail(q)) \subseteq Ids(q)
           /\ Head(q) \in Nat
           /\ Head(q) # Changed => Head(q) \in Ids(q) /\ Before({Head(q)}, Ids(Tail(q)))
  <1>1. Len(q) \in Nat /\ Len(q) >= 1 /\ Len(Tail(q)) = Len(q) - 1 /\ Head(q) = q[1]
    OBVIOUS
  <1>2. \A i \in 1..Len(q) - 1 : Tail(q)[i] = q[i + 1] /\ i + 1 \in 1..Len(q)
    OBVIOUS
  <1>3. Ids(Tail(q)) \subseteq Ids(q)
    BY <1>1, <1>2 DEF Ids
  <1>4. InOrder(Tail(q))
    <2> SUFFICES ASSUME NEW i \in 1..Len(Tail(q)), NEW j \in 1..Len(Tail(q)), i < j,
                        Tail(q)[i] # Changed, Tail(q)[j] # Changed
                 PROVE  Tail(q)[i] < Tail(q)[j]
      BY DEF InOrder
    <2>1. /\ Tail(q)[i] = q[i + 1] /\ Tail(q)[j] = q[j + 1]
          /\ i + 1 \in 1..Len(q) /\ j + 1 \in 1..Len(q) /\ i + 1 < j + 1
      BY <1>1, <1>2
    <2> QED
      BY <2>1 DEF InOrder
  <1>5. ASSUME Head(q) # Changed, NEW n \in Ids(Tail(q))
        PROVE  Head(q) < n
    <2>1. PICK i \in 1..Len(Tail(q)) : Tail(q)[i] = n /\ n # Changed
      BY DEF Ids
    <2>2. q[i + 1] = n /\ i + 1 \in 1..Len(q) /\ 1 < i + 1 /\ 1 \in 1..Len(q)
      BY <1>1, <1>2, <2>1
    <2> QED
      BY <1>1, <1>5, <2>1, <2>2 DEF InOrder
  <1>6. Head(q) \in Nat /\ (Head(q) # Changed => Head(q) \in Ids(q))
    BY <1>1 DEF Ids
  <1> QED
    BY <1>3, <1>4, <1>5, <1>6 DEF Before

(* A record put last is there, and in order if it is the newest. *)
LEMMA LastPut ==
    ASSUME NEW q \in Seq(Nat), NEW x \in Nat
    PROVE  /\ Ids(Append(q, x)) = Ids(q) \cup ({x} \ {Changed})
           /\ InOrder(q) /\ (x # Changed => Before(Ids(q), {x})) => InOrder(Append(q, x))
           /\ Rising(q) /\ x # Changed /\ Before(Ids(q), {x}) => Rising(Append(q, x))
  <1> DEFINE s == Append(q, x)
  <1>1. Len(q) \in Nat /\ Len(s) = Len(q) + 1 /\ s[Len(q) + 1] = x
    OBVIOUS
  <1>2. \A i \in 1..Len(q) : s[i] = q[i] /\ q[i] \in Nat
    OBVIOUS
  <1> HIDE DEF s
  <1>3. \A i \in 1..Len(s) : i \in 1..Len(q) \/ i = Len(q) + 1
    BY <1>1
  <1>4. Ids(s) = Ids(q) \cup ({x} \ {Changed})
    <2>1. Ids(s) \subseteq Ids(q) \cup ({x} \ {Changed})
      BY <1>1, <1>2, <1>3 DEF Ids
    <2>2. Ids(q) \subseteq Ids(s)
      <3>1. 1..Len(q) \subseteq 1..Len(s)
        BY <1>1
      <3> QED
        BY <1>2, <3>1 DEF Ids
    <2>3. x # Changed => x \in Ids(s)
      <3>1. Len(q) + 1 \in 1..Len(s)
        BY <1>1
      <3> QED
        BY <1>1, <3>1 DEF Ids
    <2> QED
      BY <2>1, <2>2, <2>3
  <1>5. \A i, j \in 1..Len(s) : i < j => i \in 1..Len(q) /\ (j \in 1..Len(q) \/ j = Len(q) + 1)
    BY <1>1
  <1>6. ASSUME NEW i \in 1..Len(q), q[i] # Changed
        PROVE  q[i] \in Ids(q)
    BY <1>6 DEF Ids
  <1>7. ASSUME InOrder(q), x # Changed => Before(Ids(q), {x})
        PROVE  InOrder(s)
    <2> SUFFICES ASSUME NEW i \in 1..Len(s), NEW j \in 1..Len(s), i < j,
                        s[i] # Changed, s[j] # Changed
                 PROVE  s[i] < s[j]
      BY DEF InOrder
    <2>1. i \in 1..Len(q) /\ s[i] = q[i]
      BY <1>2, <1>5
    <2>2. CASE j \in 1..Len(q)
      BY <1>2, <1>7, <2>1, <2>2 DEF InOrder
    <2>3. CASE j = Len(q) + 1
      BY <1>1, <1>6, <1>7, <2>1, <2>3 DEF Before
    <2> QED
      BY <1>5, <2>2, <2>3
  <1>8. ASSUME Rising(q), x # Changed, Before(Ids(q), {x})
        PROVE  Rising(s)
    <2> SUFFICES ASSUME NEW i \in 1..Len(s), NEW j \in 1..Len(s), i < j
                 PROVE  s[i] < s[j]
      BY DEF Rising
    <2>1. i \in 1..Len(q) /\ s[i] = q[i] /\ q[i] \in Nat
      BY <1>2, <1>5
    <2>2. CASE j \in 1..Len(q)
      BY <1>2, <1>8, <2>1, <2>2 DEF Rising
    <2>3. CASE j = Len(q) + 1
      <3>1. q[i] = 0 => q[i] < x
        BY <1>8 DEF Changed
      <3>2. q[i] # 0 => q[i] < x
        BY <1>6, <1>8, <2>1 DEF Before, Changed
      <3> QED
        BY <1>1, <2>1, <2>3, <3>1, <3>2
    <2> QED
      BY <1>5, <2>2, <2>3
  <1> QED
    BY <1>4, <1>7, <1>8 DEF s

(* An empty queue holds no record and is in order. *)
LEMMA EmptyIds == Ids(<<>>) = {} /\ InOrder(<<>>) /\ Rising(<<>>)
  BY DEF Ids, InOrder, Rising

(* What the flusher has still to write is numbers of records. *)
LEMMA RestType ==
    ASSUME TypeOK, Place
    PROVE  Rest \subseteq Nat
  <1>1. flusher.batch \in Seq(Nat) /\ Records = Len(flusher.batch) /\ flusher.at \in Nat
        /\ flusher.at >= 1
    BY DEF TypeOK, TypeRam, Work, Records, Place
  <1> QED
    BY <1>1 DEF Rest

(* A statement takes the first event of the rest, if it takes one, from the *)
(* batch to the table.                                                      *)
LEMMA StatementOrder ==
    ASSUME TypeOK, Place, Order, Writing,
           \/ Written
           \/ UNCHANGED events,
           \/ flusher' = [flusher EXCEPT !.at = @ + 1]
           \/ Failed
    PROVE  /\ Rising(events') /\ flusher'.batch = flusher.batch /\ Rest' \subseteq Rest
           /\ Ids(events') \subseteq Ids(events) \cup Rest
           /\ Before(Ids(events'), Rest')
           /\ Before(Ids(events), Rest) /\ Before(Rest, Ids(writes) \cup Ids(news) \cup Ids(tosend))
  <1> DEFINE at == flusher.at
             batch == flusher.batch
             after == flusher'.at
  <1>1. /\ batch \in Seq(Nat) /\ events \in Seq(Nat) /\ Records = Len(batch)
        /\ at \in Nat /\ at >= 1 /\ InOrder(batch) /\ Rising(events)
    BY DEF TypeOK, TypeRam, TypeStore, Work, Order, QueuesInOrder, EventsInOrder, Records, Place
  <1>2. flusher'.batch = batch /\ Records' = Records
    BY NextStatement DEF TypeOK, TypeRam, Records
  <1>3. after \in Nat /\ after > at
    <2>1. Records \in Nat /\ Last = Records + 9 /\ at <= Last
      BY RecordsType DEF TypeOK, TypeRam, Writing
    <2>2. after = at + 1 \/ after = Last + 1
      BY DEF Failed, TypeOK, TypeRam, Work
    <2> HIDE DEF at, after
    <2> QED
      BY <1>1, <2>1, <2>2
  <1>4. /\ Rest = {batch[i] : i \in at..Records} \ {Sample}
        /\ Rest' = {batch[i] : i \in after..Records} \ {Sample}
    BY <1>2 DEF Rest
  <1>5. Records \in Nat
    BY <1>1
  <1> HIDE DEF at, batch, after
  <1>6. Rest' \subseteq Rest
    <2>1. after..Records \subseteq at..Records
      BY <1>1, <1>3, <1>5
    <2> QED
      BY <1>4, <2>1
  <1>7. /\ Before(Ids(events), Rest)
        /\ Before(Rest, Ids(writes) \cup Ids(news) \cup Ids(tosend))
    BY DEF Order, ToTable, Before
  <1>8. CASE UNCHANGED events
    BY <1>1, <1>2, <1>6, <1>7, <1>8 DEF Before, batch
  <1>9. CASE Written /\ ~UNCHANGED events
    <2>1. at <= Records /\ batch[at] # Sample /\ events' = Append(events, batch[at])
      BY <1>9 DEF Written, at, batch
    <2>2. at \in at..Records /\ at \in 1..Len(batch) /\ batch[at] \in Nat
      BY <1>1, <1>5, <2>1
    <2>3. batch[at] \in Rest
      BY <1>4, <2>1, <2>2
    <2>4. Before(Ids(events), {batch[at]})
      BY <1>7, <2>3 DEF Before
    <2>5. /\ Ids(events') = Ids(events) \cup {batch[at]} /\ Rising(events')
      <3>1. batch[at] # Changed
        BY <2>1 DEF Sample, Changed
      <3>2. PICK x \in Nat : x = batch[at]
        BY <2>2
      <3>3. /\ Ids(Append(events, x)) = Ids(events) \cup ({x} \ {Changed})
            /\ Rising(Append(events, x))
        BY <1>1, <2>4, <3>1, <3>2, LastPut
      <3>4. Ids(events') = Ids(events) \cup ({x} \ {Changed}) /\ Rising(events')
        BY <2>1, <3>2, <3>3
      <3> QED
        BY <3>1, <3>2, <3>4
    <2>6. ASSUME NEW n \in Rest'
          PROVE  batch[at] < n
      <3>1. PICK i \in after..Records : batch[i] = n /\ n # Sample
        BY <1>4
      <3>2. i \in 1..Len(batch) /\ at < i
        BY <1>1, <1>3, <1>5, <3>1
      <3> QED
        BY <1>1, <2>1, <2>2, <3>1, <3>2 DEF InOrder, Sample, Changed
    <2>7. Before(Ids(events'), Rest')
      BY <1>6, <1>7, <2>5, <2>6 DEF Before
    <2> QED
      BY <1>2, <1>6, <1>7, <2>3, <2>5, <2>7 DEF batch
  <1> QED
    BY <1>8, <1>9

(* The records of a queue in the next state are those of the next queue. *)
LEMMA IdsPrime ==
    /\ Ids(published)' = Ids(published') /\ Ids(events)' = Ids(events')
    /\ Ids(writes)' = Ids(writes') /\ Ids(news)' = Ids(news') /\ Ids(tosend)' = Ids(tosend')
  BY DEF Ids

(* What is first of a place may go to the end of the next one.              *)
LEMMA HandedOn ==
    ASSUME NEW A, NEW B, NEW C, NEW D, NEW M, NEW After,
           Before(A, B \cup C \cup D), Before(B, C \cup D), Before(C, D),
           M \subseteq D, After \subseteq D, Before(M, After)
    PROVE  /\ Before(A, B \cup (C \cup M) \cup After)
           /\ Before(B, (C \cup M) \cup After) /\ Before(C \cup M, After)
  BY DEF Before

(* What is handled may be published. *)
LEMMA HandledOn ==
    ASSUME NEW A, NEW B, NEW C, NEW D,
           Before(A, B \cup C \cup D), Before(B, C \cup D), Before(C, D)
    PROVE  Before(A \cup B, {} \cup C \cup D) /\ Before({}, C \cup D)
  BY DEF Before

(* No step overtakes: what moves on is the first of its place. *)
LEMMA OrderStep ==
    ASSUME TypeOK, Place, Order, [Next]_vars
    PROVE  Order'
  <1>1. ASSUME UNCHANGED <<published, events, flusher, handling, writes, news, tosend, commands>>
        PROVE  Order'
    <2>1. UNCHANGED <<Rest, Handled>>
      BY <1>1 DEF Rest, Records, Handled
    <2>2. ToTopic' /\ ToTable' /\ Asked'
      BY <1>1, <2>1, IdsPrime DEF Order, ToTopic, ToTable, Asked, Before
    <2> QED
      BY <1>1, <2>2 DEF Order, EventsInOrder, QueuesInOrder, Rising, InOrder
  <1>2. CASE UNCHANGED vars
    BY <1>1, <1>2 DEF vars, procVars, storeVars, feedVars, bounds
  <1>3. CASE Boot \/ Join \/ Sweep \/ StoreFalls \/ StoreReturns
    BY <1>1, <1>3 DEF Boot, Join, Sweep, StoreFalls, StoreReturns, procVars, storeVars, feedVars,
                      bounds
  <1>4. ASSUME NEW c \in Commands, Ask(c)
        PROVE  Order'
    <2> DEFINE r == dispatch(st, c)
    <2>1. /\ tosend' = newsOf(r, commands + 1) /\ commands' = commands + 1 /\ commands \in Nat
          /\ UNCHANGED <<published, events, flusher, handling, writes, news>>
      BY <1>4 DEF Ask, storeVars, feedVars, TypeOK, TypeBounds
    <2> HIDE DEF r
    <2>2. Ids(tosend') \subseteq {commands + 1} /\ InOrder(tosend')
      BY <2>1 DEF newsOf, Ids, InOrder, Changed
    <2>3. UNCHANGED <<Rest, Handled>>
      BY <2>1 DEF Rest, Records, Handled
    <2>4. \A n \in Ids(published) \cup Handled \cup Ids(events) \cup Rest \cup Ids(writes)
                     \cup Ids(news) : n \in Nat /\ n < commands + 1
      <3>1. \A n \in Ids(published) \cup Handled \cup Ids(events) \cup Rest \cup Ids(writes)
                     \cup Ids(news) : n \in Nat /\ n <= commands
        <4>1. Ids(published) \cup Handled \cup Ids(events) \cup Ids(writes) \cup Ids(news) \subseteq Nat
          BY SMTT(60) DEF Ids, Handled, TypeOK, TypeRam, TypeStore, TypeFeed
        <4>2. Rest \subseteq Nat
          BY RestType
        <4> QED
          BY <4>1, <4>2 DEF Order, Asked
      <3> QED
        BY <2>1, <3>1
    <2>5. ToTopic' /\ ToTable' /\ Asked'
      <3>1. ToTopic'
        BY <2>1, <2>2, <2>3, <2>4, IdsPrime, SMTT(60) DEF Order, ToTopic, ToTable, Before
      <3>2. ToTable'
        BY <2>1, <2>2, <2>3, <2>4, IdsPrime, SMTT(60) DEF Order, ToTopic, ToTable, Before
      <3>3. Asked'
        BY <2>1, <2>2, <2>3, <2>4, IdsPrime, SMTT(30) DEF Order, Asked
      <3> QED BY <3>1, <3>2, <3>3
    <2> QED
      BY <2>1, <2>2, <2>5 DEF Order, EventsInOrder, QueuesInOrder, Rising, InOrder
  <1>5. CASE Post
    <2>1. /\ news' = Append(news, Head(tosend)) /\ tosend' = Tail(tosend) /\ tosend # <<>>
          /\ UNCHANGED <<published, events, flusher, handling, writes, commands>>
          /\ tosend \in Seq(Nat) /\ news \in Seq(Nat) /\ InOrder(tosend)
      BY <1>5 DEF Post, storeVars, feedVars, bounds, TypeOK, TypeRam, Order, QueuesInOrder
    <2>2. /\ InOrder(tosend') /\ Ids(tosend') \subseteq Ids(tosend) /\ Head(tosend) \in Nat
          /\ Head(tosend) # Changed
               => Head(tosend) \in Ids(tosend) /\ Before({Head(tosend)}, Ids(tosend'))
      BY <2>1, FirstTaken
    <2>3. /\ Ids(news') = Ids(news) \cup ({Head(tosend)} \ {Changed})
          /\ InOrder(news')
      <3>1. Head(tosend) # Changed => Before(Ids(news), {Head(tosend)})
        BY <2>2 DEF Order, ToTopic, Before
      <3> QED
        BY <2>1, <2>2, <3>1, LastPut DEF Order, QueuesInOrder
    <2>4. UNCHANGED <<Rest, Handled>>
      BY <2>1 DEF Rest, Records, Handled
    <2>5. ToTopic' /\ ToTable' /\ Asked'
      <3>1. ToTopic'
        <4> DEFINE moved == {Head(tosend)} \ {Changed}
        <4>1. /\ Before(Ids(published), Handled \cup Ids(news) \cup Ids(tosend))
              /\ Before(Handled, Ids(news) \cup Ids(tosend)) /\ Before(Ids(news), Ids(tosend))
          BY DEF Order, ToTopic
        <4>2. Ids(tosend') \subseteq Ids(tosend)
          BY <2>2
        <4>3. moved \subseteq Ids(tosend) /\ Before(moved, Ids(tosend'))
          BY <2>2 DEF Before
        <4>4. /\ Ids(published)' = Ids(published) /\ Handled' = Handled
              /\ Ids(news)' = Ids(news) \cup moved /\ Ids(tosend)' = Ids(tosend')
          BY <2>1, <2>3, <2>4, IdsPrime
        <4> HIDE DEF moved
        <4>5. /\ Before(Ids(published), Handled \cup (Ids(news) \cup moved) \cup Ids(tosend'))
              /\ Before(Handled, (Ids(news) \cup moved) \cup Ids(tosend'))
              /\ Before(Ids(news) \cup moved, Ids(tosend'))
          BY <4>1, <4>2, <4>3, HandedOn
        <4> QED
          BY <4>4, <4>5, Zenon DEF ToTopic, Before
      <3>2. ToTable'
        BY <2>1, <2>2, <2>3, <2>4, IdsPrime, SMTT(60) DEF Order, ToTopic, ToTable, Before
      <3>3. Asked'
        BY <2>1, <2>2, <2>3, <2>4, IdsPrime, SMTT(30) DEF Order, Asked
      <3> QED BY <3>1, <3>2, <3>3
    <2> QED
      BY <2>1, <2>2, <2>3, <2>5 DEF Order, EventsInOrder, QueuesInOrder, Rising, InOrder
  <1>6. CASE TakeEvent
    <2> DEFINE e == Head(news)
    <2>1. /\ news' = Tail(news) /\ news # <<>> /\ e # Changed /\ handling = 0 /\ handling' = e
          /\ writes' = Append(writes, e) \/ writes' = writes
          /\ UNCHANGED <<published, events, flusher, tosend, commands>>
          /\ news \in Seq(Nat) /\ writes \in Seq(Nat) /\ InOrder(news)
      BY <1>6 DEF TakeEvent, Queued, storeVars, feedVars, bounds, TypeOK, TypeRam, Order, QueuesInOrder
    <2>2. /\ InOrder(news') /\ Ids(news') \subseteq Ids(news) /\ e \in Nat
          /\ e \in Ids(news) /\ Before({e}, Ids(news'))
      BY <2>1, FirstTaken
    <2> HIDE DEF e
    <2>3. Ids(writes') \subseteq Ids(writes) \cup {e} /\ InOrder(writes')
      <3>1. Before(Ids(writes), {e})
        BY <2>2 DEF Order, ToTable, Before
      <3> QED
        BY <2>1, <2>2, <3>1, LastPut DEF Order, QueuesInOrder
    <2>4. UNCHANGED Rest /\ Handled' = {e}
      BY <2>1 DEF Rest, Records, Handled
    <2>5. ToTopic' /\ ToTable' /\ Asked'
      <3>1. ToTopic'
        BY <2>1, <2>2, <2>3, <2>4, IdsPrime, SMTT(60) DEF Order, ToTopic, ToTable, Before
      <3>2. ToTable'
        BY <2>1, <2>2, <2>3, <2>4, IdsPrime, SMTT(60) DEF Order, ToTopic, ToTable, Before
      <3>3. Asked'
        BY <2>1, <2>2, <2>3, <2>4, IdsPrime, SMTT(30) DEF Order, Asked
      <3> QED BY <3>1, <3>2, <3>3
    <2> QED
      BY <2>1, <2>2, <2>3, <2>5 DEF Order, EventsInOrder, QueuesInOrder, Rising, InOrder
  <1>7. CASE PublishEvent
    <2>1. /\ published' = Append(published, handling) /\ handling # Changed /\ handling' = Changed
          /\ UNCHANGED <<events, flusher, writes, news, tosend, commands>>
          /\ published \in Seq(Nat) /\ handling \in Nat /\ Rising(published)
      BY <1>7 DEF PublishEvent, Changed, storeVars, bounds, TypeOK, TypeRam, TypeFeed, Order,
                  EventsInOrder
    <2>2. Handled = {handling} /\ Handled' = {} /\ UNCHANGED Rest
      BY <2>1 DEF Rest, Records, Handled
    <2>3. Ids(published') = Ids(published) \cup {handling} /\ Rising(published')
      <3>1. Before(Ids(published), {handling})
        BY <2>2 DEF Order, ToTopic, Before
      <3> QED
        BY <2>1, <3>1, LastPut
    <2>4. ToTopic' /\ ToTable' /\ Asked'
      <3>1. ToTopic'
        <4>1. /\ Before(Ids(published), Handled \cup Ids(news) \cup Ids(tosend))
              /\ Before(Handled, Ids(news) \cup Ids(tosend)) /\ Before(Ids(news), Ids(tosend))
          BY DEF Order, ToTopic
        <4>2. /\ Ids(published)' = Ids(published) \cup Handled /\ Handled' = {}
              /\ Ids(news)' = Ids(news) /\ Ids(tosend)' = Ids(tosend)
          BY <2>1, <2>2, <2>3, IdsPrime
        <4>3. /\ Before(Ids(published) \cup Handled, {} \cup Ids(news) \cup Ids(tosend))
              /\ Before({}, Ids(news) \cup Ids(tosend))
          BY <4>1, HandledOn
        <4> QED
          BY <4>1, <4>2, <4>3, Zenon DEF ToTopic, Before
      <3>2. ToTable'
        BY <2>1, <2>2, <2>3, IdsPrime, SMTT(60) DEF Order, ToTopic, ToTable, Before
      <3>3. Asked'
        BY <2>1, <2>2, <2>3, IdsPrime, SMTT(30) DEF Order, Asked
      <3> QED BY <3>1, <3>2, <3>3
    <2> QED
      BY <2>1, <2>3, <2>4 DEF Order, EventsInOrder, QueuesInOrder, Rising, InOrder
  <1>8. CASE Republish
    <2>1. /\ news' = Tail(news) /\ news # <<>>
          /\ UNCHANGED <<published, events, flusher, handling, writes, tosend, commands>>
          /\ news \in Seq(Nat) /\ InOrder(news)
      BY <1>8 DEF Republish, storeVars, bounds, TypeOK, TypeRam, Order, QueuesInOrder
    <2>2. InOrder(news') /\ Ids(news') \subseteq Ids(news)
      BY <2>1, FirstTaken
    <2>3. UNCHANGED <<Rest, Handled>>
      BY <2>1 DEF Rest, Records, Handled
    <2>4. ToTopic' /\ ToTable' /\ Asked'
      <3>1. ToTopic'
        BY <2>1, <2>2, <2>3, IdsPrime, SMTT(60) DEF Order, ToTopic, ToTable, Before
      <3>2. ToTable'
        BY <2>1, <2>2, <2>3, IdsPrime, SMTT(60) DEF Order, ToTopic, ToTable, Before
      <3>3. Asked'
        BY <2>1, <2>2, <2>3, IdsPrime, SMTT(30) DEF Order, Asked
      <3> QED BY <3>1, <3>2, <3>3
    <2> QED
      BY <2>1, <2>2, <2>4 DEF Order, EventsInOrder, QueuesInOrder, Rising, InOrder
  <1>9. CASE Weather
    <2>1. /\ writes' = Append(writes, Sample) \/ writes' = writes
          /\ UNCHANGED <<published, events, flusher, handling, news, tosend, commands>>
          /\ writes \in Seq(Nat)
      BY <1>9 DEF Weather, Queued, storeVars, feedVars, TypeOK, TypeRam
    <2>2. Ids(writes') = Ids(writes) /\ InOrder(writes')
      <3>1. CASE writes' = writes
        BY <3>1 DEF Order, QueuesInOrder
      <3>2. CASE writes' = Append(writes, Sample)
        BY <2>1, <3>2, LastPut DEF Sample, Changed, Order, QueuesInOrder
      <3> QED
        BY <2>1, <3>1, <3>2
    <2>3. UNCHANGED <<Rest, Handled>>
      BY <2>1 DEF Rest, Records, Handled
    <2>4. ToTopic' /\ ToTable' /\ Asked'
      <3>1. ToTopic'
        BY <2>1, <2>2, <2>3, IdsPrime, SMTT(60) DEF Order, ToTopic, ToTable, Before
      <3>2. ToTable'
        BY <2>1, <2>2, <2>3, IdsPrime, SMTT(60) DEF Order, ToTopic, ToTable, Before
      <3>3. Asked'
        BY <2>1, <2>2, <2>3, IdsPrime, SMTT(30) DEF Order, Asked
      <3> QED BY <3>1, <3>2, <3>3
    <2> QED
      BY <2>1, <2>2, <2>4 DEF Order, EventsInOrder, QueuesInOrder, Rising, InOrder
  <1>10. CASE FlushDrain
    <2>1. /\ flusher'.batch = writes /\ flusher'.at = 1 /\ writes' = <<>>
          /\ UNCHANGED <<published, events, handling, news, tosend, commands>>
      BY <1>10 DEF FlushDrain, storeVars, feedVars, bounds, TypeOK, TypeRam, Work, Place
    <2>2. Rest' = Ids(writes) /\ Ids(writes') = {} /\ InOrder(writes')
      BY <2>1, EmptyIds DEF Rest, Records, Ids, Sample, Changed
    <2>3. UNCHANGED Handled
      BY <2>1 DEF Handled
    <2>4. ToTopic' /\ ToTable' /\ Asked'
      <3>1. ToTopic'
        BY <2>1, <2>2, <2>3, IdsPrime, SMTT(60) DEF Order, ToTopic, ToTable, Before
      <3>2. ToTable'
        BY <2>1, <2>2, <2>3, IdsPrime, SMTT(60) DEF Order, ToTopic, ToTable, Before
      <3>3. Asked'
        BY <2>1, <2>2, <2>3, IdsPrime, SMTT(30) DEF Order, Asked
      <3> QED BY <3>1, <3>2, <3>3
    <2> QED
      BY <2>1, <2>2, <2>4 DEF Order, EventsInOrder, QueuesInOrder, Rising, InOrder
  <1>11. CASE FlushSnapshot
    <2>1. /\ flusher'.batch = flusher.batch /\ flusher'.at = flusher.at
          /\ UNCHANGED <<published, events, handling, writes, news, tosend, commands>>
      BY <1>11 DEF FlushSnapshot, storeVars, feedVars, bounds, TypeOK, TypeRam, Work
    <2>2. UNCHANGED <<Rest, Handled>>
      BY <2>1 DEF Rest, Records, Handled
    <2>3. ToTopic' /\ ToTable' /\ Asked'
      BY <2>1, <2>2, IdsPrime DEF Order, ToTopic, ToTable, Asked, Before
    <2> QED
      BY <2>1, <2>3 DEF Order, EventsInOrder, QueuesInOrder, Rising, InOrder
  <1>12. CASE StatementDone \/ StatementRefused \/ StatementUnheard
    <2>1. /\ Writing /\ (Written \/ UNCHANGED events)
          /\ flusher' = [flusher EXCEPT !.at = @ + 1] \/ Failed
          /\ UNCHANGED <<published, handling, writes, news, tosend, commands>>
      BY <1>12 DEF StatementDone, StatementRefused, StatementUnheard, storeVars, feedVars, bounds
    <2>2. /\ Rising(events') /\ flusher'.batch = flusher.batch /\ Rest' \subseteq Rest
          /\ Ids(events') \subseteq Ids(events) \cup Rest
          /\ Before(Ids(events'), Rest')
      BY <2>1, StatementOrder
    <2>3. UNCHANGED Handled
      BY <2>1 DEF Handled
    <2>4. ToTopic' /\ ToTable' /\ Asked'
      <3>1. ToTopic'
        BY <2>1, <2>2, <2>3, IdsPrime, SMTT(60) DEF Order, ToTopic, ToTable, Before
      <3>2. ToTable'
        BY <2>1, <2>2, <2>3, IdsPrime, SMTT(60) DEF Order, ToTopic, ToTable, Before
      <3>3. Asked'
        BY <2>1, <2>2, <2>3, IdsPrime, SMTT(30) DEF Order, Asked
      <3> QED BY <3>1, <3>2, <3>3
    <2> QED
      BY <2>1, <2>2, <2>4 DEF Order, EventsInOrder, QueuesInOrder, Rising, InOrder
  <1>13. CASE FlushDone
    <2>1. /\ flusher' = Idle
          /\ UNCHANGED <<published, events, handling, writes, news, tosend, commands>>
      BY <1>13 DEF FlushDone, storeVars, feedVars, bounds
    <2>2. Rest' = {} /\ UNCHANGED Handled /\ flusher'.batch = <<>>
      BY <2>1 DEF Rest, Records, Handled, Idle
    <2>3. ToTopic' /\ ToTable' /\ Asked'
      BY <2>1, <2>2, IdsPrime DEF Order, ToTopic, ToTable, Asked, Before
    <2> QED
      BY <2>1, <2>2, <2>3 DEF Order, EventsInOrder, QueuesInOrder, Rising, InOrder
  <1>14. CASE Crash
    <2>1. /\ tosend' = <<>> /\ news' = <<>> /\ handling' = 0 /\ writes' = <<>> /\ flusher' = Idle
          /\ UNCHANGED <<published, events, commands>>
      BY <1>14 DEF Crash, storeVars, feedVars
    <2>2. Rest' = {} /\ Handled' = {} /\ flusher'.batch = <<>>
      BY <2>1 DEF Rest, Records, Handled, Idle, Changed
    <2>3. /\ Ids(tosend') = {} /\ Ids(news') = {} /\ Ids(writes') = {}
          /\ InOrder(tosend') /\ InOrder(news') /\ InOrder(writes')
      BY <2>1, EmptyIds
    <2>4. ToTopic' /\ ToTable' /\ Asked'
      <3>1. ToTopic'
        BY <2>1, <2>2, <2>3, IdsPrime, SMTT(60) DEF Order, ToTopic, ToTable, Before
      <3>2. ToTable'
        BY <2>1, <2>2, <2>3, IdsPrime, SMTT(60) DEF Order, ToTopic, ToTable, Before
      <3>3. Asked'
        BY <2>1, <2>2, <2>3, IdsPrime, SMTT(30) DEF Order, Asked
      <3> QED BY <3>1, <3>2, <3>3
    <2> QED
      BY <2>1, <2>2, <2>3, <2>4 DEF Order, EventsInOrder, QueuesInOrder, Rising, InOrder
  <1> QED
    BY <1>2, <1>3, <1>4, <1>5, <1>6, <1>7, <1>8, <1>9, <1>10, <1>11, <1>12, <1>13, <1>14,
       Steps, Zenon
-----------------------------------------------------------------------------
(* The first state. *)
LEMMA InitInv ==
    ASSUME Init
    PROVE  TypeOK /\ Inv
  <1> USE DEF Init
  <1>1. TypeRam
    <2>1. <<>> \in Seq(Nat)
      OBVIOUS
    <2>2. QED
      BY <2>1, DefaultType, IdleType DEF TypeRam
  <1>2. TypeStore
    BY OldRowsAssumption DEF TypeStore
  <1>3. TypeFeed /\ TypeBounds
    BY DefaultType DEF TypeFeed, TypeBounds
  <1>4. Place
    <2>1. Records = 0
      BY DEF Records, Idle
    <2>2. QED
      BY <2>1 DEF Place, Last, Idle
  <1>5. Told /\ Synced
    BY DEF Told, FeedFresh, Synced, Running
  <1>6. Order
    <2>1. Rest = {} /\ Handled = {} /\ flusher.batch = <<>>
      BY DEF Rest, Records, Handled, Idle, Changed
    <2>2. Ids(tosend) = {} /\ Ids(news) = {} /\ Ids(writes) = {} /\ Ids(published) = {}
          /\ Ids(events) = {}
      BY EmptyIds
    <2> QED
      BY <2>1, <2>2, EmptyIds DEF Order, EventsInOrder, QueuesInOrder, ToTopic, ToTable, Asked, Before
  <1>7. QED
    BY <1>1, <1>2, <1>3, <1>4, <1>5, <1>6 DEF TypeOK, Inv

(* In every state the cortex can reach: what RAM, the queues, the flush and *)
(* the tables hold, who is where (Place), what the glass was told (Told),    *)
(* what the store will boot the body with (Synced) and in which order the   *)
(* events stand (Order).                                                    *)
THEOREM CortexInvariant == Spec => [](TypeOK /\ Inv)
  <1>1. Init => TypeOK /\ Inv
    BY InitInv
  <1>2. TypeOK /\ Inv /\ [Next]_vars => (TypeOK /\ Inv)'
    BY TypeStep, PlaceStep, ToldStep, SyncedStep, OrderStep DEF Inv
  <1>3. QED
    BY <1>1, <1>2, PTL DEF Spec

(* RAM, queues, tables and feed keep their types, whatever rows an older   *)
(* body left and whatever words it wrote in them.                          *)
THEOREM CortexTypes == Spec => []TypeOK
  BY CortexInvariant, PTL

(* No reboot loses a decision other than the page that the fault rows do   *)
(* not already confess to, at any point of any flush.                      *)
THEOREM RebootEquivalentHolds == Spec => []RebootEquivalent
  <1>1. Inv => RebootEquivalent
    BY DEF Inv, Synced, RebootEquivalent, OnItsWay, Queues, Carried, Saved
  <1>2. QED
    BY <1>1, CortexInvariant, PTL

(* When the news is handled the devices have the settings of RAM. *)
THEOREM FeedFreshHolds == Spec => []FeedFresh
  <1>1. Inv => FeedFresh
    BY DEF Inv, Told
  <1>2. QED
    BY <1>1, CortexInvariant, PTL

(* The table and the topic have the events in the order of their commands, *)
(* and none twice, through any outages, unheard commits and crashes.       *)
THEOREM EventsInOrderHolds == Spec => []EventsInOrder
  <1>1. Inv => EventsInOrder
    BY DEF Inv, Order
  <1>2. QED
    BY <1>1, CortexInvariant, PTL
=============================================================================
