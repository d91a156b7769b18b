---------------------------- MODULE MotionProofs ----------------------------
(***************************************************************************)
(* Types, the confirmed scan and the agreement of the PIR daemon with the  *)
(* cortex, for any cooldown, any number of asks, polls and crashes and a   *)
(* pipe of any length.                                                     *)
(***************************************************************************)
EXTENDS Motion, SenseProofs

(* A streak is running only while the last poll read the pin high. *)
Streaks == pending > 0 => seen = "high"

(* The open hold began in the past, and the counter is always a number. *)
Clock == /\ on_ts # None => on_ts <= now
         /\ remembered["count"] \in Nat

Inv == TypeOK /\ Streaks /\ Clock

-----------------------------------------------------------------------------
(* Everything a tick makes is a reading, and keeps the counter a number. *)
LEMMA TickTypes ==
    ASSUME Inv, NEW level \in Level
    PROVE  /\ News(level) \in Seq(Message)
           /\ After(level) \in Reading /\ After(level)["count"] \in Nat
           /\ After(level)["count"] > remembered["count"] => Fires(level)
           /\ Streak(level) \in Nat
<1> USE SenseAssumption, MotionAssumption DEF Inv, TypeOK, SenseTypes, Clock, Reading, Level
<1>1. Silent \in Reading
  BY DEF Silent
<1>2. Edge(level) \in Reading /\ Edge(level)["count"] = None
  <2>1. Hold \in Nat
    BY DEF Hold
  <2>2. CASE Rises(level)
    BY <2>2, <1>1, SMTT(60) DEF Edge, Silent, PirField, Rises, Falls
  <2>3. CASE ~Rises(level) /\ Falls(level)
    BY <2>1, <2>3, <1>1 DEF Edge, Silent, PirField
  <2>4. CASE ~Rises(level) /\ ~Falls(level)
    BY <2>4, <1>1 DEF Edge, Silent, PirField
  <2> QED BY <2>2, <2>3, <2>4
<1>3. /\ Scan(level) \in Reading
      /\ Fires(level) => Scan(level)["count"] = remembered["count"] + 1
      /\ ~Fires(level) => Scan(level)["count"] = None
  BY <1>1 DEF Scan, Silent, PirField
<1>4. News(level) \in Seq(Message)
  <2>1. /\ Part(Edge(level)) \in Message /\ Part(Scan(level)) \in Message
        /\ Event("sense") \in Message /\ Event("ring") \in Message
    BY <1>1, <1>2, <1>3 DEF Part, Event, Message
  <2>2. /\ <<Part(Edge(level))>> \in Seq(Message)
        /\ <<Part(Scan(level)), Event("sense"), Event("ring")>> \in Seq(Message)
        /\ <<>> \in Seq(Message)
    BY <2>1
  <2> HIDE DEF Inv, Reading
  <2> QED BY <2>2 DEF News
<1>5. After(level) \in Reading
  BY <1>2, <1>3 DEF After
<1>6. /\ After(level)["count"] \in Nat
      /\ After(level)["count"] > remembered["count"] => Fires(level)
  BY <1>2, <1>3 DEF After, PirField
<1>7. Streak(level) \in Nat
  BY DEF Streak
<1> QED BY <1>4, <1>5, <1>6, <1>7

-----------------------------------------------------------------------------
(* The first state. *)
LEMMA InvInit == ASSUME Init PROVE Inv
<1>1. Blank \in Reading /\ Born \in Reading /\ Born["count"] = 0
  BY MotionAssumption DEF Blank, Born, Reading, PirField
<1>2. pull \in Seq(Message) /\ push \in Seq(Message) /\ Len(push) <= Hwm
  BY SenseAssumption DEF Init, SenseInit
<1>3. owed \in BOOLEAN
  BY DEF Init, SenseInit
<1>4. asks \in 0..Asks /\ crashes \in 0..MaxCrashes
  BY SenseAssumption DEF Init, SenseInit
<1>5. SenseTypes
  BY <1>1, <1>2, <1>3, <1>4 DEF Init, SenseInit, SenseTypes
<1>6. TypeOK
  BY <1>1, <1>5, MotionAssumption DEF Init, TypeOK, Level
<1> QED BY <1>1, <1>6 DEF Init, Inv, Streaks, Clock

(* The cortex, the wire and the crashes leave the daemon's memory alone. *)
LEMMA HarnessStep ==
    ASSUME Inv, BodyBoot(Blank) \/ Wire \/ BodyCrash \/ DaemonCrash,
           UNCHANGED <<now, pirVars>>
    PROVE  Inv'
<1>1. Blank \in Reading
  BY MotionAssumption DEF Blank, Reading, PirField
<1>2. SenseTypes'
  BY <1>1, HarnessTypes DEF Inv, TypeOK
<1> QED BY <1>2 DEF Inv, TypeOK, Streaks, Clock, pirVars, Reading

(* Its answer to an ask does not either. *)
LEMMA AnswerStep == ASSUME Inv, Answer(remembered), UNCHANGED <<now, pirVars>> PROVE Inv'
<1> USE SenseAssumption, MotionAssumption
    DEF Inv, TypeOK, SenseTypes, pirVars, bodyVars, wireVars
<1>1. <<Full(remembered)>> \in Seq(Message)
  BY DEF Full, Message
<1>2. push' \in Seq(Message) /\ Len(push') <= Hwm /\ owed' \in BOOLEAN
  BY <1>1, PushTypes DEF Answer
<1> QED BY <1>2 DEF Answer, Streaks, Clock

(* A fresh daemon. *)
LEMMA BootStep == ASSUME Inv, Boot PROVE Inv'
<1> USE SenseAssumption, MotionAssumption
    DEF Inv, TypeOK, SenseTypes, bodyVars, wireVars, Boot, Start, Fresh
<1>1. Born \in Reading /\ Born["count"] \in Nat
  BY DEF Born, Reading, PirField
<1>2. <<Full(Born), Event("boot")>> \in Seq(Message)
  BY <1>1 DEF Full, Event, Silent, Message, Reading
<1>3. push' \in Seq(Message) /\ Len(push') <= Hwm /\ owed' \in BOOLEAN
  BY <1>2, PushTypes
<1> QED BY <1>1, <1>3 DEF Streaks, Clock, Level

(* The level on our own start. *)
LEMMA SeedStep == ASSUME Inv, Seed PROVE Inv'
<1> USE SenseAssumption, MotionAssumption
    DEF Inv, TypeOK, SenseTypes, bodyVars, wireVars
<1>1. CASE UNCHANGED <<push, owed, remembered, on_ts>>
  BY <1>1 DEF Seed, Streaks, Clock
<1>2. ASSUME NEW level \in Level,
             Push(<<Part([Silent EXCEPT !["high"] = level,
                                        !["on_ts"] = IF level = 1 THEN now ELSE None])>>),
             remembered' = [remembered EXCEPT !["high"] = level,
                                              !["on_ts"] = IF level = 1 THEN now ELSE @],
             on_ts' = IF level = 1 THEN now ELSE on_ts
      PROVE  Inv'
  <2> DEFINE said == [Silent EXCEPT !["high"] = level,
                                    !["on_ts"] = IF level = 1 THEN now ELSE None]
  <2>1. said \in Reading
    BY DEF Silent, Reading, Level, PirField
  <2>2. <<Part(said)>> \in Seq(Message)
    BY <2>1 DEF Part, Message
  <2>3. push' \in Seq(Message) /\ Len(push') <= Hwm /\ owed' \in BOOLEAN
    BY <1>2, <2>2, PushTypes
  <2>4. remembered' \in Reading /\ remembered'["count"] = remembered["count"]
    BY <1>2 DEF Reading, Level, PirField
  <2>5. on_ts' \in Nat \cup {None} /\ (on_ts' # None => on_ts' <= now)
    <3>1. on_ts' = now \/ on_ts' = on_ts
      BY <1>2
    <3> QED BY <3>1 DEF Clock
  <2> QED BY <2>3, <2>4, <2>5 DEF Seed, Streaks, Clock
<1> QED BY <1>1, <1>2 DEF Seed

(* A poll that reads the pin: the streak counts highs in a row. *)
LEMMA PollStep == ASSUME Inv, NEW level \in Level, Poll(level) PROVE Inv'
<1> USE SenseAssumption, MotionAssumption
    DEF Inv, TypeOK, SenseTypes, bodyVars, wireVars, Poll, Sample
<1>1. /\ News(level) \in Seq(Message)
      /\ After(level) \in Reading /\ After(level)["count"] \in Nat
      /\ Streak(level) \in Nat
  BY TickTypes
<1>2. push' \in Seq(Message) /\ Len(push') <= Hwm /\ owed' \in BOOLEAN
  BY <1>1, PushTypes
<1>3. SenseTypes'
  BY <1>2
<1>4. on_ts' \in Nat \cup {None} /\ (on_ts' # None => on_ts' <= now') /\ now' \in Nat
  <2>1. on_ts' \in {now, None, on_ts} /\ now' = now + 1
    OBVIOUS
  <2>2. now \in Nat /\ on_ts \in Nat \cup {None} /\ (on_ts # None => on_ts <= now)
    BY DEF Clock
  <2> HIDE DEF Inv, Poll
  <2> QED BY <2>1, <2>2
<1>5. Streaks'
  BY DEF Streaks, Streak, Level
<1>6. last' \in Level /\ last_fire' \in Nat /\ seen' \in {"nothing", "high", "low", "error"}
  OBVIOUS
<1> QED BY <1>1, <1>3, <1>4, <1>5, <1>6 DEF Clock

(* A poll that does not: no streak is left. *)
LEMMA PollErrorStep == ASSUME Inv, PollError PROVE Inv'
<1> USE SenseAssumption, MotionAssumption
    DEF Inv, TypeOK, SenseTypes, bodyVars, wireVars, PollError, Sample
<1>1. <<>> \in Seq(Message)
  OBVIOUS
<1>2. push' \in Seq(Message) /\ Len(push') <= Hwm /\ owed' \in BOOLEAN
  BY <1>1, PushTypes
<1> QED BY <1>2 DEF Streaks, Clock

-----------------------------------------------------------------------------
(* The invariant is inductive. *)
LEMMA InvNext == ASSUME Inv, [Next]_vars PROVE Inv'
<1>1. CASE UNCHANGED vars
  BY <1>1 DEF vars, senseVars, bodyVars, wireVars, pirVars, Inv, TypeOK, SenseTypes,
              Streaks, Clock
<1>2. CASE Next
  BY <1>2, HarnessStep, AnswerStep, BootStep, SeedStep, PollStep, PollErrorStep DEF Next
<1> QED BY <1>1, <1>2

(* A counter that grows was confirmed by this poll and by the one before. *)
LEMMA ScanStep ==
    ASSUME Inv, [Next]_vars
    PROVE  remembered'["count"] > remembered["count"] => seen = "high" /\ seen' = "high"
<1>1. ASSUME NEW level \in Level, Poll(level), remembered'["count"] > remembered["count"]
      PROVE  seen = "high" /\ seen' = "high"
  <2>1. Fires(level)
    BY <1>1, TickTypes DEF Poll
  <2>2. level = 1 /\ pending > 0
    BY <2>1 DEF Fires, Streak, Level, Inv, TypeOK
  <2> QED BY <1>1, <2>2 DEF Poll, Inv, Streaks
<1>2. CASE Boot
  BY <1>2 DEF Boot, Fresh, Born, PirField, Inv, Clock
<1>3. CASE Seed
  <2>1. remembered'["count"] = remembered["count"]
    BY <1>3, MotionAssumption DEF Seed, Inv, TypeOK, Reading, PirField
  <2> QED BY <2>1 DEF Inv, Clock
<1>4. CASE UNCHANGED remembered
  BY <1>4 DEF Inv, Clock
<1> QED BY <1>1, <1>2, <1>3, <1>4 DEF Next, PollError, vars, pirVars

-----------------------------------------------------------------------------
(* What the cortex ought to know: all that the daemon remembers. *)
Want == [f \in {g \in Field : remembered[g] # None} |-> {remembered[f]}]

InSync == EndsGone /\ Synced(Want)

(* An unchanged memory wants nothing new. *)
LEMMA WantSame == ASSUME UNCHANGED remembered PROVE Want' = Want
BY DEF Want

(* The whole memory tells all there is to know of it. *)
LEMMA FullTells ==
    ASSUME NEW reading \in Reading, NEW messages \in Seq(Message), messages # <<>>,
           messages[1] = Full(reading), \A i \in 1..Len(messages) : i > 1 => messages[i].says = Silent
    PROVE  TellsAll(messages, [f \in {g \in Field : reading[g] # None} |-> {reading[f]}])
<1> SUFFICES ASSUME NEW f \in Field, reading[f] # None PROVE Ends(messages, f, {reading[f]})
  BY DEF TellsAll
<1>1. messages[1].says[f] = reading[f]
  BY DEF Full
<1>2. \A i \in 1..Len(messages) : i > 1 => messages[i].says[f] = None
  BY DEF Silent
<1> QED BY <1>1, <1>2, FirstTells

(* Nothing before or after some messages leaves them. *)
LEMMA NothingJoined ==
    ASSUME NEW a, NEW b, NEW c
    PROVE  <<a>> \o <<>> = <<a>> /\ <<>> \o <<a, b, c>> = <<a, b, c>>
OBVIOUS

(* A tick tells what it changes of the memory, and nothing else: an edge    *)
(* and a scan never come in one tick.                                       *)
LEMMA TickTells ==
    ASSUME Inv, NEW level \in Level,
           NEW next, next = [f \in {g \in Field : After(level)[g] # None} |-> {After(level)[f]}]
    PROVE  /\ Telling(News(level)) /\ TellsNews(News(level), Want, next)
           /\ \A i \in 1..Len(News(level)) : News(level)[i].kind # "full"
<1> USE SenseAssumption, MotionAssumption
<1>1. /\ News(level) \in Seq(Message) /\ remembered \in Reading /\ After(level) \in Reading
      /\ now \in Nat
  BY TickTypes DEF Inv, TypeOK
<1>2. Fires(level) => ~Rises(level) /\ ~Falls(level)
  BY DEF Fires, Rises, Falls, Streak, Level, Inv, TypeOK
<1>3. Rises(level) => ~Falls(level)
  BY DEF Rises, Falls
<1>4. CASE Rises(level) \/ Falls(level)
  <2>1. News(level) = <<Part(Edge(level))>>
    BY <1>2, <1>4, NothingJoined DEF News
  <2>2. Telling(News(level)) /\ \A i \in 1..Len(News(level)) : News(level)[i].kind # "full"
    BY <2>1 DEF Telling, Part
  <2>3. ASSUME NEW f \in Field, After(level)[f] # None
        PROVE  \/ Edge(level)[f] # None /\ Edge(level)[f] = After(level)[f]
               \/ Edge(level)[f] = None /\ remembered[f] = After(level)[f]
    BY <1>2, <1>3, <1>4, <2>3 DEF After, Scan, Silent, Edge
  <2>4. ASSUME NEW f \in DOMAIN next
        PROVE  \/ Ends(News(level), f, next[f])
               \/ /\ Carrying(News(level), f) = {}
                  /\ f \in DOMAIN Want /\ Want[f] \subseteq next[f]
    <3>1. f \in Field /\ After(level)[f] # None /\ next[f] = {After(level)[f]}
      OBVIOUS
    <3>2. /\ News(level) # <<>> /\ News(level)[1].says[f] = Edge(level)[f]
          /\ \A i \in 1..Len(News(level)) : i > 1 => News(level)[i].says[f] = None
      BY <2>1 DEF Part
    <3>3. CASE Edge(level)[f] # None /\ Edge(level)[f] = After(level)[f]
      <4>1. Ends(News(level), f, {After(level)[f]})
        BY <1>1, <3>2, <3>3, FirstTells
      <4> QED BY <3>1, <4>1
    <3>4. CASE Edge(level)[f] = None /\ remembered[f] = After(level)[f]
      <4>1. Carrying(News(level), f) = {}
        BY <1>1, <3>2, <3>4, FirstTells
      <4> QED BY <3>1, <3>4, <4>1 DEF Want
    <3> QED BY <2>3, <3>1, <3>3, <3>4
  <2> QED BY <2>2, <2>4 DEF TellsNews
<1>5. CASE Fires(level)
  <2>1. News(level) = <<Part(Scan(level)), Event("sense"), Event("ring")>>
    BY <1>2, <1>5, NothingJoined DEF News
  <2>2. /\ Len(News(level)) = 3 /\ News(level)[1] = Part(Scan(level))
        /\ News(level)[2] = Event("sense") /\ News(level)[3] = Event("ring")
    BY <2>1
  <2>3. Telling(News(level)) /\ \A i \in 1..Len(News(level)) : News(level)[i].kind # "full"
    BY <2>2 DEF Telling, Part, Event
  <2>4. ASSUME NEW f \in Field, After(level)[f] # None
        PROVE  \/ Scan(level)[f] # None /\ Scan(level)[f] = After(level)[f]
               \/ Scan(level)[f] = None /\ remembered[f] = After(level)[f]
    BY <1>2, <1>5, <2>4 DEF After, Silent, Edge
  <2>5. ASSUME NEW f \in DOMAIN next
        PROVE  \/ Ends(News(level), f, next[f])
               \/ /\ Carrying(News(level), f) = {}
                  /\ f \in DOMAIN Want /\ Want[f] \subseteq next[f]
    <3>1. f \in Field /\ After(level)[f] # None /\ next[f] = {After(level)[f]}
      OBVIOUS
    <3>2. /\ News(level) # <<>> /\ News(level)[1].says[f] = Scan(level)[f]
          /\ \A i \in 1..Len(News(level)) : i > 1 => News(level)[i].says[f] = None
      <4>1. \A i \in 1..3 : i > 1 => i = 2 \/ i = 3
        OBVIOUS
      <4>2. /\ News(level)[1].says = Scan(level)
            /\ News(level)[2].says = Silent /\ News(level)[3].says = Silent
        BY <2>2 DEF Part, Event
      <4>3. Silent[f] = None
        BY <3>1 DEF Silent
      <4>4. News(level) # <<>>
        BY <2>2
      <4> QED BY <2>2, <4>1, <4>2, <4>3, <4>4
    <3>3. CASE Scan(level)[f] # None /\ Scan(level)[f] = After(level)[f]
      <4>1. Ends(News(level), f, {After(level)[f]})
        BY <1>1, <3>2, <3>3, FirstTells
      <4> QED BY <3>1, <4>1
    <3>4. CASE Scan(level)[f] = None /\ remembered[f] = After(level)[f]
      <4>1. Carrying(News(level), f) = {}
        BY <1>1, <3>2, <3>4, FirstTells
      <4> QED BY <3>1, <3>4, <4>1 DEF Want
    <3> QED BY <2>4, <3>1, <3>3, <3>4
  <2> QED BY <2>3, <2>5 DEF TellsNews
<1>6. CASE ~Rises(level) /\ ~Falls(level) /\ ~Fires(level)
  <2>1. News(level) = <<>>
    BY <1>6 DEF News
  <2>2. \A f \in Field : After(level)[f] = remembered[f]
    BY <1>6 DEF After, Edge, Scan, Silent
  <2>3. \A f : Carrying(News(level), f) = {}
    BY <2>1 DEF Carrying
  <2> QED BY <2>1, <2>2, <2>3 DEF TellsNews, Telling, Want
<1> QED BY <1>4, <1>5, <1>6

-----------------------------------------------------------------------------
(* Nothing is under way at first. *)
LEMMA SyncInit == ASSUME Init PROVE InSync
BY DEF Init, SenseInit, InSync, EndsGone, Synced

(* A fresh daemon tells the whole of an empty memory. *)
LEMMA BootSynced == ASSUME Inv, InSync, Boot PROVE InSync'
<1> DEFINE messages == <<Full(Born), Event("boot")>>
<1>1. Born \in Reading
  BY SenseAssumption, MotionAssumption DEF Born, Reading, PirField
<1>2. Silent \in Reading
  BY DEF Silent, Reading
<1>3. messages \in Seq(Message) /\ messages # <<>>
  BY <1>1, <1>2 DEF Full, Event, Message
<1>4. /\ Len(messages) = 2 /\ messages[1] = Full(Born) /\ messages[2].says = Silent
      /\ messages[1].kind = "full"
  BY DEF Full, Event
<1>5. Push(messages) /\ daemon' # "down" /\ UNCHANGED bodyVars /\ remembered' = Born
  BY DEF Boot, Start, Fresh
<1> HIDE DEF messages
<1>6. Telling(messages)
  BY <1>4 DEF Telling
<1>7. Want' = [f \in {g \in Field : Born[g] # None} |-> {Born[f]}]
  BY <1>5 DEF Want
<1>8. TellsAll(messages, Want')
  BY <1>1, <1>3, <1>4, <1>7, FullTells
<1>9. DOMAIN Want' \subseteq Field
  BY <1>7
<1> QED BY <1>3, <1>5, <1>6, <1>8, <1>9, PushSynced DEF InSync, Inv, TypeOK

(* So does an answer, of the memory as it is. *)
LEMMA AnswerSynced ==
    ASSUME Inv, InSync, Answer(remembered), UNCHANGED <<now, pirVars>>
    PROVE  InSync'
<1> DEFINE messages == <<Full(remembered)>>
<1>1. remembered \in Reading
  BY DEF Inv, TypeOK
<1>2. messages \in Seq(Message) /\ messages # <<>>
  BY <1>1 DEF Full, Message
<1>3. Len(messages) = 1 /\ messages[1] = Full(remembered) /\ messages[1].kind = "full"
  BY DEF Full
<1>4. /\ Push(messages) /\ daemon' # "down" /\ UNCHANGED bodyVars
      /\ remembered' = remembered
  BY DEF Answer, pirVars
<1> HIDE DEF messages
<1>5. Telling(messages)
  BY <1>3 DEF Telling
<1>6. Want' = [f \in {g \in Field : remembered[g] # None} |-> {remembered[f]}]
  BY <1>4 DEF Want
<1>7. TellsAll(messages, Want')
  BY <1>1, <1>2, <1>3, <1>6, FullTells
<1>8. DOMAIN Want' \subseteq Field
  BY <1>6
<1> QED BY <1>2, <1>4, <1>5, <1>7, <1>8, PushSynced DEF InSync, Inv, TypeOK

(* The level on our own start is in the memory and in the message. *)
LEMMA SeedSynced == ASSUME Inv, InSync, Seed PROVE InSync'
<1> USE SenseAssumption, MotionAssumption
<1>1. CASE UNCHANGED <<push, owed, remembered, on_ts>>
  <2>1. Want' = Want
    BY <1>1, WantSame
  <2> QED BY <1>1, <2>1 DEF Seed, InSync, EndsGone, Synced, UnderWay, Arrives, bodyVars
<1>2. ASSUME NEW level \in Level, NEW said,
             said = [Silent EXCEPT !["high"] = level,
                                   !["on_ts"] = IF level = 1 THEN now ELSE None],
             Push(<<Part(said)>>),
             remembered' = [remembered EXCEPT !["high"] = level,
                                              !["on_ts"] = IF level = 1 THEN now ELSE @]
      PROVE  InSync'
  <2> DEFINE messages == <<Part(said)>>
  <2>1. now \in Nat /\ remembered \in Reading
    BY DEF Inv, TypeOK
  <2>2. said \in Reading
    BY <1>2, <2>1 DEF Silent, Reading, Level, PirField
  <2>3. messages \in Seq(Message) /\ messages # <<>>
    BY <2>2 DEF Part, Message
  <2>4. Len(messages) = 1 /\ messages[1].says = said /\ messages[1].kind = "part"
    BY DEF Part
  <2>5. Push(messages) /\ daemon # "down" /\ daemon' # "down" /\ UNCHANGED <<bodyVars, link, inbox>>
    BY <1>2 DEF Seed
  <2> HIDE DEF messages
  <2>6. Telling(messages) /\ \A i \in 1..Len(messages) : messages[i].kind # "full"
    BY <2>4 DEF Telling
  <2>7. ASSUME NEW f \in Field, remembered'[f] # None
        PROVE  \/ said[f] # None /\ said[f] = remembered'[f]
               \/ said[f] = None /\ remembered[f] = remembered'[f]
    BY <1>2, <2>1, <2>7 DEF Silent, Level, Reading
  <2>8. ASSUME NEW f \in DOMAIN Want'
        PROVE  \/ Ends(messages, f, Want'[f])
               \/ Carrying(messages, f) = {} /\ f \in DOMAIN Want /\ Want[f] \subseteq Want'[f]
    <3>1. f \in Field /\ remembered'[f] # None /\ Want'[f] = {remembered'[f]}
      BY DEF Want
    <3>2. /\ messages[1].says[f] = said[f]
          /\ \A i \in 1..Len(messages) : i > 1 => messages[i].says[f] = None
      BY <2>4
    <3>3. CASE said[f] # None /\ said[f] = remembered'[f]
      <4>1. Ends(messages, f, {remembered'[f]})
        BY <2>3, <3>2, <3>3, FirstTells
      <4> QED BY <3>1, <4>1
    <3>4. CASE said[f] = None /\ remembered[f] = remembered'[f]
      <4>1. Carrying(messages, f) = {}
        BY <2>3, <3>2, <3>4, FirstTells
      <4> QED BY <3>1, <3>4, <4>1 DEF Want
    <3> QED BY <2>7, <3>1, <3>3, <3>4
  <2>9. TellsNews(messages, Want, Want') /\ DOMAIN Want' \subseteq Field
    BY <2>8 DEF TellsNews, Want
  <2> QED BY <2>3, <2>5, <2>6, <2>9, PushSynced DEF InSync, Inv, TypeOK
<1> QED BY <1>1, <1>2 DEF Seed

(* A poll that reads the pin tells what it learns. *)
LEMMA PollSynced == ASSUME Inv, InSync, NEW level \in Level, Poll(level) PROVE InSync'
<1>1. /\ Push(News(level)) /\ daemon # "down" /\ daemon' # "down"
      /\ UNCHANGED <<bodyVars, link, inbox>> /\ remembered' = After(level)
  BY DEF Poll, Sample
<1>2. Want' = [f \in {g \in Field : After(level)[g] # None} |-> {After(level)[f]}]
  BY <1>1 DEF Want
<1>3. /\ Telling(News(level)) /\ TellsNews(News(level), Want, Want')
      /\ \A i \in 1..Len(News(level)) : News(level)[i].kind # "full"
  BY <1>2, TickTells
<1>4. News(level) \in Seq(Message) /\ DOMAIN Want' \subseteq Field
  BY <1>2, TickTypes
<1> QED BY <1>1, <1>3, <1>4, PushSynced DEF InSync, Inv, TypeOK

(* A poll that does not has nothing to tell. *)
LEMMA PollErrorSynced == ASSUME Inv, InSync, PollError PROVE InSync'
<1>1. PICK messages \in Seq(Message) : messages = <<>>
  <2>1. <<>> \in Seq(Message)
    OBVIOUS
  <2> QED BY <2>1
<1>2. /\ Push(messages) /\ daemon # "down" /\ daemon' # "down"
      /\ UNCHANGED <<bodyVars, link, inbox>> /\ remembered' = remembered
  BY <1>1 DEF PollError, Sample
<1>3. Want' = Want /\ DOMAIN Want' \subseteq Field
  BY <1>2, WantSame DEF Want
<1>4. Telling(messages) /\ ~\E i \in 1..Len(messages) : messages[i].kind = "full"
  BY <1>1 DEF Telling
<1>5. TellsNews(messages, Want, Want')
  BY <1>1, <1>3 DEF TellsNews, Carrying
<1> QED BY <1>2, <1>3, <1>4, <1>5, PushSynced DEF InSync, Inv, TypeOK

(* Every step keeps the daemon in step with the cortex. *)
LEMMA SyncNext == ASSUME Inv, InSync, [Next]_vars PROVE InSync'
<1>1. CASE UNCHANGED vars
  <2>1. Want' = Want
    BY <1>1, WantSame DEF vars, pirVars
  <2> QED BY <1>1, <2>1 DEF vars, senseVars, bodyVars, wireVars, InSync, EndsGone, Synced,
                            UnderWay, Arrives
<1>2. CASE /\ BodyBoot(Blank) \/ Wire \/ BodyCrash \/ DaemonCrash
           /\ UNCHANGED <<now, pirVars>>
  <2>1. Want' = Want
    BY <1>2, WantSame DEF pirVars
  <2>2. DOMAIN Want \subseteq Field
    BY DEF Want
  <2>3. EndsGone' /\ Synced(Want)'
    BY <1>2, <2>1, <2>2, HarnessSynced DEF InSync, Inv, TypeOK
  <2> QED BY <2>3 DEF InSync
<1> QED BY <1>1, <1>2, BootSynced, AnswerSynced, SeedSynced, PollSynced, PollErrorSynced DEF Next

-----------------------------------------------------------------------------
(* In every state: types, running streaks and the clock. *)
THEOREM MotionInvariant == Spec => []Inv
BY InvInit, InvNext, PTL DEF Spec

(* Type correctness of the daemon, the pipes and the cortex's picture, for *)
(* every value of the constants: the pipe never holds more than Hwm.       *)
THEOREM MotionTypes == Spec => []TypeOK
<1>1. Inv => TypeOK
  BY DEF Inv
<1> QED BY <1>1, MotionInvariant, PTL

(* No scan is ever counted on fewer than two polls in a row that read the  *)
(* pin high, whatever crashes, boots and unreadable polls come between.    *)
THEOREM ScanIsConfirmedHolds == Spec => ScanIsConfirmed
<1>1. Inv /\ [Next]_vars
      => [remembered'["count"] > remembered["count"] => seen = "high" /\ seen' = "high"]_vars
  BY ScanStep
<1> QED BY <1>1, MotionInvariant, PTL DEF Spec, ScanIsConfirmed

(* In every state an ask is on its way, or all the daemon remembers is.    *)
THEOREM MotionInSync == Spec => []InSync
BY SyncInit, SyncNext, MotionInvariant, PTL DEF Spec

(* "The cortex merges by presence": when both are well, nothing is under   *)
(* way and nothing was refused since the last full payload, the cortex     *)
(* knows all that the daemon remembers, after any crashes and lost asks.   *)
THEOREM AgreesHolds == Spec => []Agrees
<1>1. ASSUME InSync PROVE Agrees
  <2> SUFFICES ASSUME Quiet, ~owed, NEW f \in Field, remembered[f] # None
               PROVE  picture[f] = remembered[f]
    BY DEF Agrees, Knows
  <2>1. \A g \in DOMAIN Want : picture[g] \in Want[g]
    BY <1>1, Settled DEF InSync
  <2> QED BY <2>1 DEF Want
<1> QED BY <1>1, MotionInSync, PTL
=============================================================================
