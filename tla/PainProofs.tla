----------------------------- MODULE PainProofs -----------------------------
(***************************************************************************)
(* The way of the pain and what the ring makes of it, whatever ailments,   *)
(* settings and devices there are and however long the pipes: the report   *)
(* on the disk is whole, no ask is answered by an old sweep, the ring      *)
(* holds what the feed told it, plays each record once and in full, ticks  *)
(* no oftener than it may, and shows its newest frame.  Pain has the       *)
(* network and Ring the ring's clock; their states share no variable.      *)
(***************************************************************************)
EXTENDS Pain, Ring, SequenceTheorems, WellFoundedInduction, TLAPS

(* What a device that holds the message of the topic has of it. *)
HasOf(h, topic, message) ==
    CASE topic = "fault" -> h.seen /\ h.fault = message.word
      [] topic = "state" -> h.setting = message.setting /\ h.word = message.word

(* The newest message of the topic in the batch. *)
IsLatest(batch, topic, message) ==
    \E i \in OfTopic(batch, topic) :
        /\ batch[i] = message
        /\ \A j \in OfTopic(batch, topic) : j <= i

(* What the feed said last is the newest of its topic in the pipe, or, if   *)
(* none of the topic waits there, what the device holds; or it was missed.  *)
Follows(d, topic) ==
    told[topic] # None /\ topic \notin missed[d] =>
        \/ IsLatest(feed[d], topic, told[topic])
        \/ OfTopic(feed[d], topic) = {} /\ HasOf(held[d], topic, told[topic])

RingFollows == "ring" \in Device => \A topic \in Topic : Follows("ring", topic)

(* An ask no sweep has answered is still in the channel. *)
Waiting == owed => asked > 0

Inv == TypeOK /\ RingFollows /\ Waiting /\ ReportWhole

(* The first state. *)
LEMMA InvInit == Init => Inv
<1> SUFFICES ASSUME Init PROVE Inv
  OBVIOUS
<1> USE PainAssumption DEF Init
<1>1. TypeOK
  <2>1. sweeper \in [at : {"down", "idle", "probing", "probed", "swept", "filing", "filed"},
                    rows : SUBSET Ailment]
    BY DEF Down
  <2>2. cortex \in [at : {"down", "asking", "loop", "moved", "stated"}, asks : Nat,
                   rows : SUBSET Ailment, word : Words, setting : Setting]
    BY DEF Words
  <2>3. Blank \in Held
    BY DEF Blank, Held, Words
  <2>4. /\ feed \in [Device -> Seq(Message)] /\ held \in [Device -> Held]
        /\ told \in [Topic -> Message \cup {None}] /\ missed \in [Device -> SUBSET Topic]
    BY <2>3
  <2>5. counts \in [{"changes", "commands", "crashes"} -> Nat]
    OBVIOUS
  <2>6. report \in [is : {"missing", "torn", "whole"}, rows : SUBSET Ailment]
    OBVIOUS
  <2>7. /\ body \in SUBSET Ailment /\ store \in {"up", "down"} /\ asked \in Nat
        /\ owed \in BOOLEAN /\ push \in Seq(SUBSET Ailment)
        /\ linked \subseteq Device \cup {"sweep"}
    <3> HIDE PainAssumption
    <3>1. body = {} /\ store = "up" /\ asked = 0 /\ owed = FALSE /\ push = <<>> /\ linked = {}
      OBVIOUS
    <3> HIDE DEF Init
    <3>2. owed \in BOOLEAN
      BY <3>1, Zenon
    <3>3. body \in SUBSET Ailment /\ linked \subseteq Device \cup {"sweep"}
      BY <3>1
    <3>4. store \in {"up", "down"} /\ asked \in Nat /\ push \in Seq(SUBSET Ailment)
      BY <3>1
    <3> QED BY <3>2, <3>3, <3>4
  <2> HIDE DEF Init
  <2> QED BY <2>1, <2>2, <2>4, <2>5, <2>6, <2>7 DEF TypeOK
<1>2. RingFollows
  BY DEF RingFollows, Follows
<1>3. Waiting /\ ReportWhole
  BY DEF Waiting, ReportWhole
<1> QED BY <1>1, <1>2, <1>3 DEF Inv
-----------------------------------------------------------------------------
(* The word made of any rows is one of the three. *)
LEMMA WordType == \A rows : Word(rows) \in Words
BY DEF Word, Words

(* What is published of any rows is a message. *)
LEMMA FaultMessageType == \A rows : FaultMessage(rows) \in Message
BY WordType DEF FaultMessage, Message

(* So is what is published of the state. *)
LEMMA StateMessageType == Inv => StateMessage \in Message
BY DEF Inv, TypeOK, StateMessage, Message

(* A message that fits is the newest of its topic and moves no other. *)
LEMMA AppendLatest ==
    ASSUME NEW pipe \in Seq(Message), NEW message \in Message, NEW topic \in Topic
    PROVE  /\ Append(pipe, message) \in Seq(Message)
           /\ topic = message.topic => IsLatest(Append(pipe, message), topic, message)
           /\ topic # message.topic =>
                /\ OfTopic(Append(pipe, message), topic) = OfTopic(pipe, topic)
                /\ \A i \in OfTopic(pipe, topic) : Append(pipe, message)[i] = pipe[i]
<1> DEFINE longer == Append(pipe, message)
<1>1. /\ longer \in Seq(Message) /\ Len(longer) = Len(pipe) + 1
      /\ \A i \in 1..Len(pipe) : longer[i] = pipe[i]
      /\ longer[Len(pipe) + 1] = message
  BY AppendProperties
<1>2. /\ DOMAIN longer = 1..(Len(pipe) + 1) /\ DOMAIN pipe = 1..Len(pipe)
      /\ Len(pipe) \in Nat
  BY <1>1
<1> HIDE DEF longer
<1>3. topic = message.topic => IsLatest(longer, topic, message)
  BY <1>1, <1>2 DEF IsLatest, OfTopic
<1>4. topic # message.topic =>
        /\ OfTopic(longer, topic) = OfTopic(pipe, topic)
        /\ \A i \in OfTopic(pipe, topic) : longer[i] = pipe[i]
  BY <1>1, <1>2 DEF OfTopic
<1> QED BY <1>1, <1>3, <1>4 DEF longer

(* What is left of a pipe and what was taken of it, index by index. *)
LEMMA SplitAt ==
    ASSUME NEW pipe \in Seq(Message), NEW n \in 1..Len(pipe)
    PROVE  /\ Each(pipe, n) \in Seq(Message) /\ Left(pipe, n) \in Seq(Message)
           /\ DOMAIN Each(pipe, n) = 1..n
           /\ \A i \in 1..n : Each(pipe, n)[i] = pipe[i]
           /\ DOMAIN Left(pipe, n) = 1..(Len(pipe) - n)
           /\ \A i \in 1..(Len(pipe) - n) : Left(pipe, n)[i] = pipe[n + i]
<1>1. Len(pipe) \in Nat /\ n \in Int /\ \A i \in 1..Len(pipe) : pipe[i] \in Message
  OBVIOUS
<1>2. /\ SubSeq(pipe, 1, n) \in Seq(Message) /\ Len(SubSeq(pipe, 1, n)) = n
      /\ \A i \in 1..n : SubSeq(pipe, 1, n)[i] = pipe[i]
  <2>1. \A i \in 1..n : pipe[i] \in Message
    BY <1>1
  <2> QED BY <1>1, <2>1, SubSeqProperties
<1>3. /\ SubSeq(pipe, n + 1, Len(pipe)) \in Seq(Message)
      /\ Len(SubSeq(pipe, n + 1, Len(pipe))) = Len(pipe) - n
      /\ \A i \in 1..(Len(pipe) - n) : SubSeq(pipe, n + 1, Len(pipe))[i] = pipe[n + i]
  <2>1. \A i \in (n + 1)..Len(pipe) : pipe[i] \in Message
    BY <1>1
  <2> QED BY <1>1, <2>1, SubSeqProperties
<1> QED BY <1>1, <1>2, <1>3 DEF Each, Left

(* Indices that are there have a greatest. *)
LEMMA GreatestIndex ==
    ASSUME NEW n \in Nat, NEW S \in SUBSET (1..n), S # {}
    PROVE  \E i \in S : \A j \in S : j <= i
<1> DEFINE T == {n - i : i \in S}
<1>1. T \subseteq Nat /\ T # {}
  <2>1. \A i \in S : i \in Nat /\ n - i \in Nat
    OBVIOUS
  <2>2. PICK i \in S : TRUE
    OBVIOUS
  <2>3. n - i \in T
    OBVIOUS
  <2>4. T \subseteq Nat
    BY <2>1
  <2> QED BY <2>3, <2>4
<1>2. PICK x \in T : \A y \in T : ~ (<<y, x>> \in OpToRel(<, Nat))
  <2> HIDE DEF T
  <2> QED BY <1>1, NatLessThanWellFounded, WFMin
<1>3. \A y \in T : ~ (y < x)
  BY <1>1, <1>2 DEF OpToRel
<1>4. PICK i \in S : x = n - i
  BY <1>2
<1>5. \A j \in S : j <= i
  BY <1>3, <1>4
<1> QED BY <1>5

(* Of all that is taken the newest of the topic is held. *)
LEMMA TakesLatest ==
    ASSUME NEW batch, NEW topic, NEW message, IsLatest(batch, topic, message),
           DOMAIN batch \subseteq Nat
    PROVE  OfTopic(batch, topic) # {} /\ Latest(batch, topic) = message
<1>1. PICK i \in OfTopic(batch, topic) :
        /\ batch[i] = message
        /\ \A j \in OfTopic(batch, topic) : j <= i
  BY DEF IsLatest
<1>2. OfTopic(batch, topic) \subseteq Nat
  BY DEF OfTopic
<1>3. (CHOOSE k \in OfTopic(batch, topic) : \A j \in OfTopic(batch, topic) : j <= k) = i
  BY <1>1, <1>2
<1> QED BY <1>1, <1>3 DEF Latest

(* Where the topic is there is a newest of it. *)
LEMMA LatestThere ==
    ASSUME NEW batch \in Seq(Message), NEW topic, OfTopic(batch, topic) # {}
    PROVE  \E message \in Message : message.topic = topic /\ IsLatest(batch, topic, message)
<1>1. Len(batch) \in Nat /\ OfTopic(batch, topic) \in SUBSET (1..Len(batch))
  BY DEF OfTopic
<1>2. PICK i \in OfTopic(batch, topic) : \A j \in OfTopic(batch, topic) : j <= i
  BY <1>1, GreatestIndex
<1>3. batch[i] \in Message /\ batch[i].topic = topic
  BY <1>1, <1>2 DEF OfTopic
<1> QED BY <1>2, <1>3 DEF IsLatest

(* What a device holds after a batch is of its types. *)
LEMMA HoldType ==
    ASSUME NEW h \in Held, NEW batch \in Seq(Message)
    PROVE  Hold(h, batch) \in Held
<1>1. DOMAIN batch \subseteq Nat
  OBVIOUS
<1>2. ASSUME NEW topic, OfTopic(batch, topic) # {}
      PROVE  Latest(batch, topic) \in Message /\ Latest(batch, topic).topic = topic
  BY <1>1, <1>2, LatestThere, TakesLatest
<1>3. OfTopic(batch, "fault") # {}
      => Latest(batch, "fault").word \in Words /\ Latest(batch, "fault").dark \in BOOLEAN
  BY <1>2 DEF Message
<1>4. OfTopic(batch, "state") # {}
      => Latest(batch, "state").word \in Words /\ Latest(batch, "state").setting \in Setting
  BY <1>2 DEF Message
<1>5. Hold(h, batch) \in [seen : BOOLEAN, fault : Words \cup {None}, word : Words \cup {None},
                          dark : BOOLEAN, setting : Setting \cup {None}]
  BY <1>3, <1>4 DEF Hold, Held
<1> QED BY <1>5 DEF Held

(* A device that takes the oldest of its pipe in their order has, or still  *)
(* has before it, the newest message of each topic.                         *)
LEMMA TakenInOrder ==
    ASSUME NEW pipe \in Seq(Message), NEW n \in 1..Len(pipe), NEW h,
           NEW topic \in Topic, NEW message,
           \/ IsLatest(pipe, topic, message)
           \/ OfTopic(pipe, topic) = {} /\ HasOf(h, topic, message)
    PROVE  \/ IsLatest(Left(pipe, n), topic, message)
           \/ /\ OfTopic(Left(pipe, n), topic) = {}
              /\ HasOf(Hold(h, Each(pipe, n)), topic, message)
<1> DEFINE batch == Each(pipe, n)
           left == Left(pipe, n)
<1>1. /\ DOMAIN batch = 1..n /\ \A i \in 1..n : batch[i] = pipe[i]
      /\ DOMAIN left = 1..(Len(pipe) - n)
      /\ \A i \in 1..(Len(pipe) - n) : left[i] = pipe[n + i]
      /\ DOMAIN pipe = 1..Len(pipe) /\ Len(pipe) \in Nat
  BY SplitAt
<1> HIDE DEF batch, left
<1>2. CASE OfTopic(pipe, topic) = {} /\ HasOf(h, topic, message)
  <2>1. OfTopic(batch, topic) = {} /\ OfTopic(left, topic) = {}
    <3>1. \A i \in DOMAIN pipe : pipe[i].topic # topic
      BY <1>2 DEF OfTopic
    <3>2. \A i \in 1..n : i \in DOMAIN pipe
      BY <1>1
    <3>3. \A i \in 1..(Len(pipe) - n) : n + i \in DOMAIN pipe
      BY <1>1
    <3> QED BY <1>1, <3>1, <3>2, <3>3 DEF OfTopic
  <2>2. HasOf(Hold(h, batch), topic, message)
    BY <1>2, <2>1 DEF HasOf, Hold, Topic
  <2> QED BY <2>1, <2>2 DEF batch, left
<1>3. CASE IsLatest(pipe, topic, message)
  <2>1. PICK i \in OfTopic(pipe, topic) :
          pipe[i] = message /\ \A j \in OfTopic(pipe, topic) : j <= i
    BY <1>3 DEF IsLatest
  <2>2. i \in 1..Len(pipe) /\ pipe[i].topic = topic
    BY <1>1, <2>1 DEF OfTopic
  <2>3. CASE i <= n
    <3>1. OfTopic(left, topic) = {}
      <4> SUFFICES ASSUME NEW j \in 1..(Len(pipe) - n), left[j].topic = topic PROVE FALSE
        BY <1>1 DEF OfTopic
      <4>1. n + j \in OfTopic(pipe, topic)
        BY <1>1 DEF OfTopic
      <4>2. i \in Nat /\ n \in Nat /\ j \in Nat
        BY <1>1, <2>2
      <4>3. n + j <= i
        BY <2>1, <4>1
      <4> QED BY <2>3, <4>2, <4>3
    <3>2. IsLatest(batch, topic, message)
      <4>1. i \in OfTopic(batch, topic) /\ batch[i] = message
        BY <1>1, <2>1, <2>2, <2>3 DEF OfTopic
      <4>2. OfTopic(batch, topic) \subseteq OfTopic(pipe, topic)
        BY <1>1 DEF OfTopic
      <4> QED BY <2>1, <4>1, <4>2 DEF IsLatest
    <3>3. OfTopic(batch, topic) # {} /\ Latest(batch, topic) = message
      BY <1>1, <3>2, TakesLatest
    <3>4. HasOf(Hold(h, batch), topic, message)
      BY <3>3 DEF HasOf, Hold, Topic
    <3> QED BY <3>1, <3>4 DEF batch, left
  <2>4. CASE i > n
    <3>1. i - n \in OfTopic(left, topic) /\ left[i - n] = message
      BY <1>1, <2>1, <2>2, <2>4 DEF OfTopic
    <3>2. ASSUME NEW j \in OfTopic(left, topic) PROVE j <= i - n
      <4>1. j \in 1..(Len(pipe) - n) /\ left[j].topic = topic
        BY <1>1 DEF OfTopic
      <4>2. n + j \in OfTopic(pipe, topic)
        BY <1>1, <4>1 DEF OfTopic
      <4> QED BY <2>1, <2>2, <4>1, <4>2
    <3> QED BY <3>1, <3>2 DEF IsLatest, left
  <2> QED BY <2>2, <2>3, <2>4
<1> QED BY <1>2, <1>3
-----------------------------------------------------------------------------

(* A message on the air goes to each pipe that is linked and has room; for  *)
(* every other device it is missed.                                         *)
LEMMA AirStep ==
    ASSUME Inv, NEW message \in Message, Air(message)
    PROVE  /\ feed' \in [Device -> Seq(Message)] /\ told' \in [Topic -> Message \cup {None}]
           /\ missed' \in [Device -> SUBSET Topic] /\ linked' = linked /\ held' = held
           /\ RingFollows'
<1>1. /\ feed \in [Device -> Seq(Message)] /\ missed \in [Device -> SUBSET Topic]
      /\ told \in [Topic -> Message \cup {None}]
  BY DEF Inv, TypeOK
<1>2. message.topic \in Topic
  BY DEF Message, Topic
<1> DEFINE gets(d) == d \in linked /\ Len(feed[d]) < Window
<1>3. /\ \A d \in Device : feed'[d] = IF gets(d) THEN Append(feed[d], message) ELSE feed[d]
      /\ \A d \in Device : feed'[d] \in Seq(Message)
      /\ DOMAIN feed' = Device /\ feed' \in [Device -> Seq(Message)]
  <2>1. feed' = [d \in Device |-> IF gets(d) THEN Append(feed[d], message) ELSE feed[d]]
    BY DEF Air, Publish
  <2>2. \A d \in Device : Append(feed[d], message) \in Seq(Message)
    BY <1>1, <1>2, AppendLatest
  <2> HIDE DEF gets
  <2> QED BY <1>1, <2>1, <2>2
<1>4. told' = [told EXCEPT ![message.topic] = message] /\ linked' = linked /\ held' = held
  BY DEF Air
<1>5. /\ \A d \in Device : missed'[d] = IF gets(d) THEN missed[d] \ {message.topic}
                                        ELSE missed[d] \cup {message.topic}
      /\ missed' \in [Device -> SUBSET Topic]
  <2>1. missed' = [d \in Device |-> IF gets(d) THEN missed[d] \ {message.topic}
                                    ELSE missed[d] \cup {message.topic}]
    BY DEF Air
  <2> HIDE DEF gets
  <2> QED BY <1>1, <1>2, <2>1
<1>6. told' \in [Topic -> Message \cup {None}]
  BY <1>1, <1>2, <1>4
<1>7. ASSUME "ring" \in Device, NEW topic \in Topic
      PROVE  Follows("ring", topic)'
  <2> SUFFICES ASSUME told'[topic] # None, topic \notin missed'["ring"]
               PROVE  \/ IsLatest(feed'["ring"], topic, told'[topic])
                      \/ /\ OfTopic(feed'["ring"], topic) = {}
                         /\ HasOf(held'["ring"], topic, told'[topic])
    BY DEF Follows
  <2> DEFINE old == feed["ring"]
             new == feed'["ring"]
  <2>1. old \in Seq(Message)
    BY <1>1, <1>7
  <2>2. CASE topic = message.topic
    <3>1. gets("ring")
      BY <2>2, <1>5, <1>7
    <3>2. new = Append(old, message) /\ told'[topic] = message
      BY <3>1, <1>1, <1>3, <1>4, <1>7, <2>2
    <3> HIDE DEF old, new
    <3>3. IsLatest(new, topic, message)
      BY <2>1, <2>2, <3>2, AppendLatest
    <3> QED BY <3>2, <3>3 DEF new
  <2>3. CASE topic # message.topic
    <3>1. told'[topic] = told[topic] /\ topic \notin missed["ring"]
      BY <2>3, <1>1, <1>2, <1>4, <1>5, <1>7
    <3>2. \/ IsLatest(old, topic, told[topic])
          \/ OfTopic(old, topic) = {} /\ HasOf(held["ring"], topic, told[topic])
      BY <3>1, <1>7 DEF Inv, RingFollows, Follows
    <3>3. /\ OfTopic(new, topic) = OfTopic(old, topic)
          /\ \A i \in OfTopic(old, topic) : new[i] = old[i]
      <4>1. new = old \/ new = Append(old, message)
        BY <1>3, <1>7
      <4> HIDE DEF old, new
      <4>2. CASE new = Append(old, message)
        BY <2>1, <2>3, <4>2, AppendLatest
      <4> QED BY <4>1, <4>2
    <3> HIDE DEF old, new
    <3>4. IsLatest(old, topic, told[topic]) => IsLatest(new, topic, told[topic])
      BY <3>3 DEF IsLatest
    <3> QED BY <1>4, <3>1, <3>2, <3>3, <3>4 DEF new
  <2> QED BY <2>2, <2>3
<1> HIDE DEF gets
<1> QED BY <1>3, <1>4, <1>5, <1>6, <1>7 DEF RingFollows

(* A step that leaves feed, held view and history alone. *)
LEMMA QuietFeed == ASSUME Inv, UNCHANGED <<feed, held, told, missed>> PROVE RingFollows'
BY DEF Inv, RingFollows, Follows

(* The machine, the store and a starting daemon. *)
LEMMA BodyStep == ASSUME Inv, Ail \/ SweeperStart PROVE Inv'
<1> USE PainAssumption
<1>1. RingFollows'
  BY QuietFeed DEF Ail, SweeperStart, feedVars
<1>2. CASE Ail
  <2>1. /\ body' \in SUBSET Ailment /\ store' \in {"up", "down"}
        /\ counts' \in [{"changes", "commands", "crashes"} -> Nat]
    BY <1>2 DEF Ail, Counted, Inv, TypeOK
  <2> QED BY <1>1, <1>2, <2>1
    DEF Ail, sweepVars, feedVars, Inv, TypeOK, Waiting, ReportWhole
<1>3. CASE SweeperStart
  BY <1>1, <1>3 DEF SweeperStart, feedVars, Inv, TypeOK, Waiting, ReportWhole
<1> QED BY <1>2, <1>3

(* A sweep: begun, probed, filed. *)
LEMMA SweepStep == ASSUME Inv, Begin \/ Probe \/ File PROVE Inv'
<1> USE PainAssumption
<1>1. RingFollows'
  BY QuietFeed DEF Begin, Probe, File, feedVars
<1>2. CASE Begin
  <2>1. asked' \in Nat /\ owed' \in BOOLEAN /\ (owed' => asked' > 0)
    <3>1. asked \in Nat
      BY DEF Inv, TypeOK
    <3>2. asked' \in {asked, asked - 1} /\ owed' = (asked' > 0)
      BY <1>2 DEF Begin
    <3>3. asked' \in Nat
      <4>1. CASE asked > 0 /\ asked' = asked - 1
        BY <3>1, <4>1
      <4>2. CASE asked = 0 /\ asked' = asked
        BY <3>1, <4>2
      <4> QED BY <1>2, <4>1, <4>2 DEF Begin
    <3>4. owed' \in BOOLEAN /\ (owed' => asked' > 0)
      <4>1. (asked' > 0) \in BOOLEAN
        OBVIOUS
      <4> QED BY <3>2, <4>1, Zenon
    <3> QED BY <3>3, <3>4
  <2> QED BY <1>1, <1>2, <2>1 DEF Begin, feedVars, Inv, TypeOK, Waiting, ReportWhole
<1>3. CASE Probe
  <2>1. sweeper' \in [at : {"down", "idle", "probing", "probed", "swept", "filing", "filed"},
                      rows : SUBSET Ailment]
    BY <1>3 DEF Probe, Found, Inv, TypeOK
  <2> QED BY <1>1, <1>3, <2>1 DEF Probe, feedVars, Inv, TypeOK, Waiting, ReportWhole
<1>4. CASE File
  <2>1. sweeper' \in [at : {"down", "idle", "probing", "probed", "swept", "filing", "filed"},
                      rows : SUBSET Ailment]
    BY <1>4 DEF File, Inv, TypeOK
  <2>2. report' \in [is : {"missing", "torn", "whole"}, rows : SUBSET Ailment]
        /\ report'.is # "torn"
    BY <1>4 DEF File, Inv, TypeOK, ReportWhole
  <2> QED BY <1>1, <1>4, <2>1, <2>2 DEF File, feedVars, Inv, TypeOK, Waiting, ReportWhole
<1> QED BY <1>2, <1>3, <1>4

(* A report goes up to the cortex, or is lost. *)
LEMMA PushStep == ASSUME Inv, Push PROVE Inv'
<1>1. RingFollows'
  BY QuietFeed DEF Push, feedVars
<1>2. push' \in Seq(SUBSET Ailment)
  <2>1. sweeper.rows \in SUBSET Ailment /\ push \in Seq(SUBSET Ailment)
    BY DEF Inv, TypeOK
  <2> QED BY <2>1, AppendProperties DEF Push, Pushed
<1> QED BY <1>1, <1>2 DEF Push, feedVars, Inv, TypeOK, Waiting, ReportWhole

(* The cortex boots, asks and has asked. *)
LEMMA AskStep == ASSUME Inv, CortexBoot \/ Ask \/ Asked PROVE Inv'
<1> USE PainAssumption
<1>1. RingFollows'
  BY QuietFeed DEF CortexBoot, Ask, Asked, feedVars
<1>2. cortex' \in [at : {"down", "asking", "loop", "moved", "stated"}, asks : Nat,
                   rows : SUBSET Ailment, word : Words, setting : Setting]
  <2>1. cortex.asks > 0 => cortex.asks - 1 \in Nat
    BY DEF Inv, TypeOK
  <2>2. Asks \in Nat
    OBVIOUS
  <2> HIDE PainAssumption
  <2>3. CASE CortexBoot
    BY <2>2, <2>3 DEF CortexBoot, Inv, TypeOK, Words
  <2>4. CASE Ask
    BY <2>1, <2>4 DEF Ask, Inv, TypeOK
  <2>5. CASE Asked
    BY <2>5 DEF Asked, Inv, TypeOK
  <2> QED BY <2>3, <2>4, <2>5
<1>3. asked' \in Nat /\ owed' \in BOOLEAN /\ Waiting'
  <2>1. asked \in Nat /\ owed \in BOOLEAN /\ (owed => asked > 0)
    BY DEF Inv, TypeOK, Waiting
  <2>2. \/ asked' = asked /\ owed' = owed
        \/ asked' = asked + 1 /\ owed' = TRUE
    BY DEF CortexBoot, Ask, Asked, sweepVars
  <2> HIDE PainAssumption
  <2>3. asked + 1 \in Nat /\ asked + 1 > 0
    BY <2>1
  <2>4. owed' \in BOOLEAN
    BY <2>1, <2>2, Zenon
  <2>5. asked' \in Nat
    BY <2>1, <2>2, <2>3
  <2>6. Waiting'
    BY <2>1, <2>2, <2>3, Zenon DEF Waiting
  <2> QED BY <2>4, <2>5, <2>6
<1> QED BY <1>1, <1>2, <1>3, SMTT(60)
    DEF CortexBoot, Ask, Asked, sweepVars, feedVars, Inv, TypeOK, ReportWhole

(* A report is merged, a command taken, a word republished. *)
LEMMA LoopStep == ASSUME Inv, Merge \/ Command \/ Republish PROVE Inv'
<1>1. CASE Merge
  <2>1. push # <<>> /\ Head(push) \in SUBSET Ailment /\ push' \in Seq(SUBSET Ailment)
    BY <1>1, HeadTailProperties DEF Merge, Inv, TypeOK
  <2>2. cortex' \in [at : {"down", "asking", "loop", "moved", "stated"}, asks : Nat,
                     rows : SUBSET Ailment, word : Words, setting : Setting]
    BY <1>1, <2>1, WordType DEF Merge, Inv, TypeOK
  <2>3. Air(FaultMessage(Head(push)))
    BY <1>1 DEF Merge
  <2>4. /\ feed' \in [Device -> Seq(Message)] /\ told' \in [Topic -> Message \cup {None}]
        /\ missed' \in [Device -> SUBSET Topic] /\ linked' = linked /\ held' = held
        /\ RingFollows'
    BY <2>3, FaultMessageType, AirStep
  <2> QED BY <1>1, <2>1, <2>2, <2>4 DEF Merge, Inv, TypeOK, Waiting, ReportWhole
<1>2. CASE Command
  <2>1. RingFollows'
    BY <1>2, QuietFeed DEF Command, feedVars
  <2>2. counts' \in [{"changes", "commands", "crashes"} -> Nat]
    <3>1. counts' = [counts EXCEPT !["commands"] = @ + 1]
      BY <1>2 DEF Command, Counted
    <3> QED BY <3>1 DEF Inv, TypeOK
  <2>3. cortex' \in [at : {"down", "asking", "loop", "moved", "stated"}, asks : Nat,
                     rows : SUBSET Ailment, word : Words, setting : Setting]
    BY <1>2 DEF Command, Inv, TypeOK
  <2> QED BY <1>2, <2>1, <2>2, <2>3
    DEF Command, sweepVars, feedVars, Inv, TypeOK, Waiting, ReportWhole
<1>3. CASE Republish
  <2>1. cortex' \in [at : {"down", "asking", "loop", "moved", "stated"}, asks : Nat,
                     rows : SUBSET Ailment, word : Words, setting : Setting]
    BY <1>3 DEF Republish, Inv, TypeOK
  <2>2. PICK message \in Message : Air(message)
    BY <1>3, FaultMessageType, StateMessageType DEF Republish
  <2>3. /\ feed' \in [Device -> Seq(Message)] /\ told' \in [Topic -> Message \cup {None}]
        /\ missed' \in [Device -> SUBSET Topic] /\ linked' = linked /\ held' = held
        /\ RingFollows'
    BY <2>2, AirStep
  <2> QED BY <1>3, <2>1, <2>3 DEF Republish, sweepVars, Inv, TypeOK, Waiting, ReportWhole
<1> QED BY <1>1, <1>2, <1>3


(* A device takes what has arrived. *)
LEMMA WakesStep == ASSUME Inv, NEW d \in Device, Wakes(d) PROVE Inv'
<1>1. PICK n \in 1..Len(feed[d]) :
        /\ held' = [held EXCEPT ![d] = Hold(@, Taken(d, n))]
        /\ feed' = [feed EXCEPT ![d] = Left(@, n)]
  BY DEF Wakes
<1>2. /\ feed \in [Device -> Seq(Message)] /\ held \in [Device -> Held]
      /\ feed[d] \in Seq(Message) /\ held[d] \in Held
  BY DEF Inv, TypeOK
<1>3. Each(feed[d], n) \in Seq(Message) /\ Left(feed[d], n) \in Seq(Message)
  BY <1>2, SplitAt
<1>4. Taken(d, n) \in Seq(Message)
  BY <1>2, <1>3 DEF Taken, Newest
<1>5. feed' \in [Device -> Seq(Message)] /\ held' \in [Device -> Held]
  BY <1>1, <1>2, <1>3, <1>4, HoldType
<1>6. TypeOK'
  BY <1>5 DEF Wakes, sweepVars, Inv, TypeOK
<1>7. RingFollows'
  <2> SUFFICES ASSUME "ring" \in Device, NEW topic \in Topic,
                      told[topic] # None, topic \notin missed["ring"]
               PROVE  \/ IsLatest(feed'["ring"], topic, told[topic])
                      \/ /\ OfTopic(feed'["ring"], topic) = {}
                         /\ HasOf(held'["ring"], topic, told[topic])
    BY DEF RingFollows, Follows, Wakes
  <2>1. \/ IsLatest(feed["ring"], topic, told[topic])
        \/ OfTopic(feed["ring"], topic) = {} /\ HasOf(held["ring"], topic, told[topic])
    BY DEF Inv, RingFollows, Follows
  <2>2. CASE d # "ring"
    BY <1>1, <1>2, <2>1, <2>2
  <2>3. CASE d = "ring"
    <3>1. feed'["ring"] = Left(feed["ring"], n)
          /\ held'["ring"] = Hold(held["ring"], Each(feed["ring"], n))
      BY <1>1, <1>2, <2>3 DEF Taken
    <3>2. feed["ring"] \in Seq(Message) /\ n \in 1..Len(feed["ring"])
      BY <1>2, <2>3
    <3> QED BY <2>1, <3>1, <3>2, TakenInOrder
  <2> QED BY <2>2, <2>3
<1> QED BY <1>6, <1>7 DEF Wakes, sweepVars, Inv, Waiting, ReportWhole

(* The feed finds a subscriber. *)
LEMMA LinkStep == ASSUME Inv, Link PROVE Inv'
<1>1. RingFollows'
  BY QuietFeed DEF Link
<1> QED BY <1>1 DEF Link, sweepVars, Inv, TypeOK, Waiting, ReportWhole

(* A process dies. *)
LEMMA CrashStep == ASSUME Inv, Crash PROVE Inv'
<1>1. /\ counts' = [counts EXCEPT !["crashes"] = @ + 1]
      /\ counts' \in [{"changes", "commands", "crashes"} -> Nat]
  <2>1. counts' = [counts EXCEPT !["crashes"] = @ + 1]
    BY DEF Crash, SweeperCrash, CortexCrash, DeviceCrash, Counted
  <2> QED BY <2>1 DEF Inv, TypeOK
<1>2. CASE SweeperCrash
  <2>1. RingFollows'
    BY <1>2, QuietFeed DEF SweeperCrash
  <2>2. sweeper' \in [at : {"down", "idle", "probing", "probed", "swept", "filing", "filed"},
                      rows : SUBSET Ailment]
    BY <1>2 DEF SweeperCrash, Down
  <2>3. linked' \subseteq Device \cup {"sweep"}
    BY <1>2 DEF SweeperCrash, Inv, TypeOK
  <2>4. push' = <<>> /\ asked' = 0 /\ owed' = FALSE /\ push' \in Seq(SUBSET Ailment)
    BY <1>2 DEF SweeperCrash
  <2>5. owed' \in BOOLEAN /\ ~owed'
    BY <2>4, Zenon
  <2> HIDE DEF Topic
  <2> QED BY <1>1, <1>2, <2>1, <2>2, <2>3, <2>4, <2>5
      DEF SweeperCrash, Inv, TypeOK, Waiting, ReportWhole
<1>3. CASE CortexCrash
  <2>1. RingFollows'
    BY <1>3, QuietFeed DEF CortexCrash
  <2>2. push' \in Seq(SUBSET Ailment)
    <3>1. PICK n \in 0..Len(push) : push' = SubSeq(push, n + 1, Len(push))
      BY <1>3 DEF CortexCrash, Left
    <3>2. Len(push) \in Nat /\ \A i \in (n + 1)..Len(push) : push[i] \in SUBSET Ailment
      BY DEF Inv, TypeOK
    <3> QED BY <3>1, <3>2, SubSeqProperties
  <2>3. cortex' \in [at : {"down", "asking", "loop", "moved", "stated"}, asks : Nat,
                     rows : SUBSET Ailment, word : Words, setting : Setting]
    BY <1>3 DEF CortexCrash, Inv, TypeOK
  <2> QED BY <1>1, <1>3, <2>1, <2>2, <2>3 DEF CortexCrash, Inv, TypeOK, Waiting, ReportWhole
<1>4. CASE DeviceCrash
  <2>1. PICK d \in Device :
          /\ held' = [held EXCEPT ![d] = Blank] /\ feed' = [feed EXCEPT ![d] = <<>>]
          /\ linked' = linked \ {d} /\ missed' = [missed EXCEPT ![d] = Topic]
    BY <1>4 DEF DeviceCrash
  <2>2. Blank \in Held
    BY DEF Blank, Held
  <2>3. /\ feed' \in [Device -> Seq(Message)] /\ held' \in [Device -> Held]
        /\ missed' \in [Device -> SUBSET Topic] /\ linked' \subseteq Device \cup {"sweep"}
    BY <2>1, <2>2 DEF Inv, TypeOK
  <2>4. RingFollows'
    BY <1>4, <2>1 DEF DeviceCrash, Inv, TypeOK, RingFollows, Follows
  <2> QED BY <1>1, <1>4, <2>3, <2>4 DEF DeviceCrash, sweepVars, Inv, TypeOK, Waiting, ReportWhole
<1> QED BY <1>2, <1>3, <1>4 DEF Crash

(* The invariant is inductive. *)
LEMMA InvNext == ASSUME Inv, [Next]_vars PROVE Inv'
<1>1. CASE UNCHANGED vars
  <2>1. RingFollows'
    BY <1>1, QuietFeed DEF vars, feedVars
  <2> QED BY <1>1, <2>1
    DEF vars, sweepVars, feedVars, Inv, TypeOK, Waiting, ReportWhole
<1>2. CASE Next
  BY <1>2, BodyStep, SweepStep, PushStep, AskStep, LoopStep, WakesStep, LinkStep, CrashStep
  DEF Next, Sweeper, Cortex
<1> QED BY <1>1, <1>2

(* In every state: types, the ring's pipe in step with the feed, asks not   *)
(* lost between two sweeps, and a whole report.                             *)
THEOREM PainInvariant == Spec => []Inv
BY InvInit, InvNext, PTL DEF Spec
-----------------------------------------------------------------------------
(* Type correctness of the daemon, the cortex, the pipes and the devices.   *)
THEOREM PainTypes == Spec => []TypeOK
<1>1. Inv => TypeOK
  BY DEF Inv
<1> QED BY <1>1, PainInvariant, PTL

(* A ring that has read its pipe has the last fault and the last state the  *)
(* feed told it, in whatever order and number they came (drain and hold of  *)
(* the ring's main.rs).                                                     *)
THEOREM RingInStepHolds == Spec => []RingInStep
<1>1. Inv => RingInStep
  <2> SUFFICES ASSUME Inv, "ring" \in Device, NEW topic \in Topic PROVE InStep("ring", topic)
    BY DEF RingInStep, Topic
  <2>1. feed["ring"] = <<>> => OfTopic(feed["ring"], topic) = {}
    BY DEF OfTopic
  <2> QED BY <2>1 DEF Inv, RingFollows, Follows, IsLatest, HasOf, InStep, Topic
<1> QED BY <1>1, PainInvariant, PTL

(* The daemon never rests with an ask it has not begun a sweep for.         *)
THEOREM AskAnsweredHolds == Spec => []AskAnswered
<1>1. Inv => AskAnswered
  BY DEF Inv, TypeOK, Waiting, AskAnswered
<1> QED BY <1>1, PainInvariant, PTL

(* Whatever the daemon dies in, the report on the disk is one whole sweep   *)
(* or not there (write_report: a file of its own, then one rename).         *)
THEOREM ReportWholeHolds == Spec => []ReportWhole
<1>1. Inv => ReportWhole
  BY DEF Inv
<1> QED BY <1>1, PainInvariant, PTL

-----------------------------------------------------------------------------
(* What was noted was made the pending record exactly once. *)
Noted == \A r \in Record : notes[r] = IF r \in seen THEN 1 ELSE 0

(* The record's start is the history's: noted, or last kept waiting. *)
Aged == oneshot # Nothing => since = oneshot.start

(* The next tick is a period off from the last that began. *)
Rearmed == ticked # Nothing => niggle_next >= ticked + Period

(* The newest frame waiting is of this turn, and later than the one shown. *)
Ascending ==
    /\ queue # <<>> => queue[Len(queue)] = t /\ shown < t
    /\ shown <= t

RingInv == RingTypes /\ Noted /\ Aged /\ Rearmed /\ Ascending

(* The first state. *)
LEMMA RingInvInit == RingInit => RingInv
<1> SUFFICES ASSUME RingInit PROVE RingInv
  OBVIOUS
<1> USE RingAssumption DEF RingInit
<1>1. RingTypes
  BY DEF RingTypes
<1>2. Noted /\ Aged /\ Rearmed /\ Ascending
  BY DEF Noted, Aged, Rearmed, Ascending
<1> QED BY <1>1, <1>2 DEF RingInv
-----------------------------------------------------------------------------
(* Whatever speaks is a voice, and only a pending record speaks as one. *)
LEMMA TellIsAVoice ==
    ASSUME NEW cond \in {"hurts", "mute", "niggle", "well"},
           NEW state \in {"home", "busy", "alarm", "scan"}, NEW kind \in Kinds \cup {Nothing}
    PROVE  /\ pick_tell(cond, state, kind, Nothing) \in Voices
           /\ pick_tell(cond, state, kind, Nothing) \in Kinds
              => kind # Nothing /\ pick_tell(cond, state, kind, Nothing) = kind
BY DEF pick_tell, Voices, Kinds

(* What is appended comes last. *)
LEMMA AppendLast ==
    ASSUME NEW s \in Seq(Nat), NEW n \in Nat
    PROVE  /\ Append(s, n) \in Seq(Nat) /\ Append(s, n) # <<>>
           /\ Append(s, n)[Len(Append(s, n))] = n
<1>1. /\ Append(s, n) \in Seq(Nat) /\ Append(s, n) # <<>>
      /\ Len(Append(s, n)) = Len(s) + 1 /\ Append(s, n)[Len(s) + 1] = n
  BY AppendProperties
<1> QED BY <1>1

(* A render keeps the record's age and the tick's, and drops a record only *)
(* when it has spoken for longer than its length since it last waited.     *)
LEMMA RenderKeeps ==
    ASSUME RingInv, NEW now \in Nat, now > t, NEW pending,
           \/ pending = oneshot
           \/ pending \in [kind : Kinds, start : {now}],
           view' \in [word : {"well", "niggle", "hurts", Nothing},
                      state : {"home", "busy", "alarm", "scan"}, console : BOOLEAN],
           Render(pending, now)
    PROVE  /\ oneshot' \in [kind : Kinds, start : Nat] \cup {Nothing}
           /\ tell' \in Voices /\ since' \in Nat /\ ticked' \in Nat \cup {Nothing}
           /\ niggle_next' \in Nat /\ niggle_until' \in Nat
           /\ queue' = Append(queue, now)
           /\ Aged' /\ Rearmed'
           /\ oneshot # Nothing /\ oneshot' = Nothing
              => now - since > Length[oneshot.kind, view'.console]
           /\ ticked # Nothing /\ ticked' # ticked => ticked' - ticked >= Period
<1> USE RingAssumption
<1> DEFINE cond == device_condition(view'.word # Nothing, view'.word, Nothing)
           said == IF pending = Nothing THEN Nothing ELSE pending.kind
           kind == pick_tell(cond, view'.state, said, Nothing)
           kept == Start(pending, kind, now)
           spent == kind \in Kinds /\ now - kept.start > Length[kind, view'.console]
           spoke == IF spent THEN "home" ELSE kind
           begins == spoke = "home" /\ NextTick(cond, now) # niggle_next /\ cond = "niggle"
<1>1. /\ oneshot \in [kind : Kinds, start : Nat] \cup {Nothing} /\ since \in Nat
      /\ niggle_next \in Nat /\ niggle_until \in Nat /\ ticked \in Nat \cup {Nothing}
      /\ oneshot # Nothing => since = oneshot.start
      /\ ticked # Nothing => niggle_next >= ticked + Period
  BY DEF RingInv, RingTypes, Aged, Rearmed
<1>2. pending \in [kind : Kinds, start : Nat] \cup {Nothing}
  BY <1>1
<1>3. cond \in {"hurts", "mute", "niggle", "well"}
  BY DEF device_condition, Cond
<1>4. said \in Kinds \cup {Nothing} /\ view'.state \in {"home", "busy", "alarm", "scan"}
  BY <1>2
<1>5. kind \in Voices /\ (kind \in Kinds => pending # Nothing /\ kind = pending.kind)
  BY <1>3, <1>4, TellIsAVoice
<1>6. /\ oneshot' = IF spent THEN Nothing ELSE kept
      /\ tell' = spoke
      /\ niggle_next' = IF spoke = "home" THEN NextTick(cond, now) ELSE niggle_next
      /\ niggle_until' = IF begins THEN now + Tick ELSE niggle_until
      /\ ticked' = IF begins THEN now ELSE ticked
      /\ since' = IF kept # Nothing /\ (kind \notin Kinds \/ pending # oneshot) THEN now ELSE since
      /\ queue' = Append(queue, now)
  BY DEF Render
<1>7. /\ kept \in [kind : Kinds, start : Nat] \cup {Nothing}
      /\ kind \in Kinds => kept = pending
      /\ kind \notin Kinds /\ kept # Nothing => kept.start = now
  BY <1>2 DEF Start
<1>8. /\ NextTick(cond, now) \in Nat
      /\ NextTick(cond, now) # niggle_next
         => now >= niggle_next /\ NextTick(cond, now) = now + Period
  BY <1>1 DEF NextTick
<1> HIDE DEF cond, said, kind, kept
<1>9. oneshot' \in [kind : Kinds, start : Nat] \cup {Nothing} /\ since' \in Nat /\ tell' \in Voices
  BY <1>1, <1>5, <1>6, <1>7 DEF Voices
<1>10. /\ ticked' \in Nat \cup {Nothing} /\ niggle_next' \in Nat /\ niggle_until' \in Nat
       /\ Rearmed'
       /\ ticked # Nothing /\ ticked' # ticked => ticked' - ticked >= Period
  <2>1. now + Tick \in Nat /\ Period \in Nat /\ now + Period \in Nat
    OBVIOUS
  <2>2. /\ begins => ticked' = now /\ niggle_next' = now + Period /\ now >= niggle_next
        /\ ~begins => ticked' = ticked
        /\ niggle_next' # niggle_next => now >= niggle_next /\ niggle_next' = now + Period
    BY <1>6, <1>8
  <2>3. ticked' \in Nat \cup {Nothing} /\ niggle_next' \in Nat /\ niggle_until' \in Nat
    BY <1>1, <1>6, <2>1, <2>2
  <2> HIDE DEF begins
  <2>4. ticked' # Nothing => niggle_next' >= ticked' + Period
    <3>1. CASE begins
      BY <3>1, <2>1, <2>2
    <3>2. CASE ~begins
      BY <3>2, <1>1, <2>1, <2>2, <2>3
    <3> QED BY <3>1, <3>2
  <2>5. ticked # Nothing /\ ticked' # ticked => ticked' - ticked >= Period
    BY <1>1, <2>1, <2>2
  <2> QED BY <2>3, <2>4, <2>5 DEF Rearmed
<1>11. Aged'
  <2> SUFFICES ASSUME oneshot' # Nothing PROVE since' = oneshot'.start
    BY DEF Aged
  <2>1. oneshot' = kept /\ kept # Nothing
    BY <1>6
  <2>2. CASE kind \notin Kinds
    BY <2>1, <2>2, <1>6, <1>7
  <2>3. CASE kind \in Kinds /\ pending # oneshot
    BY <2>1, <2>3, <1>6, <1>7
  <2>4. CASE kind \in Kinds /\ pending = oneshot
    BY <2>1, <2>4, <1>1, <1>6, <1>7
  <2> QED BY <2>2, <2>3, <2>4
<1>12. ASSUME oneshot # Nothing, oneshot' = Nothing
       PROVE  now - since > Length[oneshot.kind, view'.console]
  <2>1. kind \in Kinds /\ kept = pending /\ pending # Nothing
    <3>1. CASE spent
      BY <3>1, <1>5, <1>7
    <3>2. CASE ~spent
      <4>1. kept = Nothing
        BY <3>2, <1>6, <1>12
      <4>2. pending = Nothing
        BY <4>1, <1>2 DEF kept, Start
      <4>3. oneshot = Nothing
        BY <4>2
      <4> QED BY <4>3, <1>12
    <3> QED BY <3>1, <3>2
  <2>2. now - pending.start > Length[kind, view'.console] /\ kind = pending.kind
    BY <2>1, <1>5, <1>6, <1>7, <1>12
  <2>3. pending = oneshot
    <3> SUFFICES ASSUME pending \in [kind : Kinds, start : {now}] PROVE FALSE
      OBVIOUS
    <3>1. <<kind, view'.console>> \in Kinds \X BOOLEAN
      BY <2>1
    <3> DEFINE length == Length[kind, view'.console]
    <3>2. length \in Nat
      <4>1. Length \in [Kinds \X BOOLEAN -> Nat]
        OBVIOUS
      <4> HIDE RingAssumption
      <4> QED BY <3>1, <4>1, Zenon
    <3>3. now - pending.start = 0
      OBVIOUS
    <3>4. 0 > length
      BY <3>3, <2>2
    <3> HIDE DEF length
    <3> QED BY <3>2, <3>4
  <2> QED BY <2>2, <2>3, <1>1, <1>12
<1> QED BY <1>6, <1>9, <1>10, <1>11, <1>12

(* A turn of the loop. *)
LEMMA TurnStep ==
    ASSUME RingInv, Turn
    PROVE  /\ RingInv'
           /\ oneshot # Nothing /\ oneshot' = Nothing => t' - since > Length[oneshot.kind, view'.console]
           /\ ticked # Nothing /\ ticked' # ticked => ticked' - ticked >= Period
<1> USE RingAssumption
<1>1. t' \in Nat /\ t' > t /\ shown' = shown /\ t \in Nat
  BY DEF Turn, RingInv, RingTypes
<1>2. PICK pending :
        /\ pending = oneshot \/ pending \in [kind : Kinds, start : {t'}]
        /\ view' \in [word : {"well", "niggle", "hurts", Nothing},
                      state : {"home", "busy", "alarm", "scan"}, console : BOOLEAN]
        /\ seen' \subseteq Record /\ notes' \in [Record -> Nat] /\ news' \in Nat
        /\ Noted'
        /\ Render(pending, t')
  <2>1. CASE (HearNothing \/ HearState \/ HearFault) /\ Render(oneshot, t')
    <3>1. seen' = seen /\ notes' = notes /\ news' \in Nat
      <4>1. news \in Nat
        BY DEF RingInv, RingTypes
      <4>2. news + 1 \in Nat
        BY <4>1
      <4>3. HearState \/ HearFault => seen' = seen /\ notes' = notes /\ news' = news + 1
        BY DEF HearState, HearFault, Heard
      <4> QED BY <2>1, <4>1, <4>2, <4>3 DEF HearNothing
    <3>2. view' \in [word : {"well", "niggle", "hurts", Nothing},
                     state : {"home", "busy", "alarm", "scan"}, console : BOOLEAN]
      BY <2>1 DEF HearNothing, HearState, HearFault, RingInv, RingTypes
    <3> QED BY <2>1, <3>1, <3>2 DEF RingInv, RingTypes, Noted
  <2>2. ASSUME NEW record \in Record, HearRecord(record),
               Render(IF Fresh(record) THEN [kind |-> record.kind, start |-> t'] ELSE oneshot, t')
        PROVE  \E pending :
                 /\ pending = oneshot \/ pending \in [kind : Kinds, start : {t'}]
                 /\ view' \in [word : {"well", "niggle", "hurts", Nothing},
                               state : {"home", "busy", "alarm", "scan"}, console : BOOLEAN]
                 /\ seen' \subseteq Record /\ notes' \in [Record -> Nat] /\ news' \in Nat
                 /\ Noted'
                 /\ Render(pending, t')
    <3>1. seen' \subseteq Record /\ notes' \in [Record -> Nat] /\ news' \in Nat /\ view' = view
      BY <2>2 DEF HearRecord, Heard, RingInv, RingTypes
    <3>2. Noted'
      BY <2>2 DEF HearRecord, Fresh, Noted, RingInv, RingTypes
    <3> QED BY <2>2, <3>1, <3>2 DEF RingInv, RingTypes
  <2> QED BY <2>1, <2>2 DEF Turn
<1>3. /\ oneshot' \in [kind : Kinds, start : Nat] \cup {Nothing}
      /\ tell' \in Voices /\ since' \in Nat /\ ticked' \in Nat \cup {Nothing}
      /\ niggle_next' \in Nat /\ niggle_until' \in Nat
      /\ queue' = Append(queue, t')
      /\ Aged' /\ Rearmed'
      /\ oneshot # Nothing /\ oneshot' = Nothing
         => t' - since > Length[oneshot.kind, view'.console]
      /\ ticked # Nothing /\ ticked' # ticked => ticked' - ticked >= Period
  BY <1>1, <1>2, RenderKeeps
<1>4. queue' \in Seq(Nat) /\ queue'[Len(queue')] = t' /\ queue' # <<>>
  <2>1. queue \in Seq(Nat)
    BY DEF RingInv, RingTypes
  <2> HIDE RingAssumption
  <2> QED BY <1>1, <1>3, <2>1, AppendLast
<1>5. Ascending'
  BY <1>1, <1>4 DEF Ascending, RingInv, RingTypes
<1>6. RingTypes'
  BY <1>1, <1>2, <1>3, <1>4 DEF RingInv, RingTypes
<1> QED BY <1>2, <1>3, <1>5, <1>6 DEF RingInv

(* The strip's thread takes the newest frame, or loses it. *)
LEMMA StripStep ==
    ASSUME RingInv, Strip
    PROVE  RingInv' /\ (shown' # shown => shown' = t /\ shown' > shown)
<1>1. shown' \in {t, shown} /\ queue' = <<>> /\ shown < t
  BY DEF Strip, NextFrame, RingInv, Ascending
<1>2. RingTypes'
  BY <1>1 DEF Strip, rendered, RingInv, RingTypes
<1>3. Noted' /\ Aged' /\ Rearmed' /\ Ascending'
  BY <1>1 DEF Strip, rendered, RingInv, RingTypes, Noted, Aged, Rearmed, Ascending
<1> QED BY <1>1, <1>2, <1>3 DEF RingInv, RingTypes

(* The invariant is inductive. *)
LEMMA RingInvNext == ASSUME RingInv, [RingNext]_ringVars PROVE RingInv'
<1>1. CASE UNCHANGED ringVars
  BY <1>1 DEF ringVars, rendered, RingInv, RingTypes, Noted, Aged, Rearmed, Ascending
<1> QED BY <1>1, TurnStep, StripStep DEF RingNext

(* In every state: types, ages, ticks and the order of the frames. *)
THEOREM RingInvariant == RingSpec => []RingInv
BY RingInvInit, RingInvNext, PTL DEF RingSpec
-----------------------------------------------------------------------------
(* A replay of the feed never fires a record a second time (note_oneshot). *)
THEOREM NotesOnceHolds == RingSpec => []NotesOnce
<1>1. RingInv => NotesOnce
  BY DEF RingInv, Noted, NotesOnce
<1> QED BY <1>1, RingInvariant, PTL

(* A record that waited through alarms, pains and commands plays for its   *)
(* whole length from the moment the gate lifts (render).                   *)
THEOREM PlaysInFullHolds == RingSpec => PlaysInFull
<1>1. RingInv /\ [RingNext]_ringVars
      => [oneshot # Nothing /\ oneshot' = Nothing
          => t' - since > Length[oneshot.kind, view'.console]]_ringVars
  BY TurnStep DEF RingNext, Strip, rendered
<1> QED BY <1>1, RingInvariant, PTL DEF RingSpec, PlaysInFull

(* Two amber ticks begin a period apart, however the condition flaps.      *)
THEOREM NiggleRareHolds == RingSpec => NiggleRare
<1>1. RingInv /\ [RingNext]_ringVars
      => [ticked # Nothing /\ ticked' # ticked => ticked' - ticked >= Period]_ringVars
  BY TurnStep DEF RingNext, Strip, rendered
<1> QED BY <1>1, RingInvariant, PTL DEF RingSpec, NiggleRare

(* The strip is given the newest frame drawn and never an older one than   *)
(* it shows (strip_worker).                                                *)
THEOREM StripNewestHolds == RingSpec => StripNewest
<1>1. RingInv /\ [RingNext]_ringVars => [shown' # shown => shown' = t /\ shown' > shown]_ringVars
  BY StripStep DEF RingNext, Turn
<1> QED BY <1>1, RingInvariant, PTL DEF RingSpec, StripNewest
-----------------------------------------------------------------------------
(* The ladder, for any report, state and record: only the alarm hides that  *)
(* the body hurts or is unknown (pick_tell, device_condition).              *)
THEOREM LadderHeeds ==
    ASSUME NEW none, NEW heard \in BOOLEAN, NEW word, NEW state, NEW pending \in Kinds \cup {none},
           none \notin Voices
    PROVE  Heeded(heard, word, state, pending, none)
<1> DEFINE cond == device_condition(heard, word, none)
           voice == pick_tell(cond, state, pending, none)
<1>1. cond \in {"hurts", "mute", "niggle", "well"} /\ (~heard => cond = "mute")
  BY DEF device_condition, Cond
<1>2. CASE state = "alarm"
  BY <1>1, <1>2 DEF Heeded, pick_tell, Kinds
<1>3. CASE state # "alarm" /\ cond \in {"hurts", "mute"}
  BY <1>1, <1>3 DEF Heeded, pick_tell, Kinds
<1>4. CASE state # "alarm" /\ cond \notin {"hurts", "mute"}
  <2>1. CASE state = "busy"
    BY <1>1, <1>4, <2>1 DEF Heeded, pick_tell, Kinds
  <2>2. CASE state = "home" /\ pending # none
    BY <1>1, <1>4, <2>2 DEF Heeded, pick_tell, Kinds
  <2>3. CASE state # "busy" /\ ~(state = "home" /\ pending # none)
    BY <1>1, <1>4, <2>3 DEF Heeded, pick_tell, Kinds
  <2> QED BY <2>1, <2>2, <2>3
<1> QED BY <1>2, <1>3, <1>4

(* What the network's model says a ring feels is what the ladder is given:  *)
(* the condition of the report heard, else of the state, else mute.         *)
THEOREM RingWordIsTold ==
    \A h \in Held : RingWord(h) = device_condition(h.seen, IF h.fault # None THEN h.fault ELSE h.word, None)
BY DEF Held, Words, RingWord, device_condition, Cond

(* Whenever one looks, a mute ring blinks and an alarm is red before long,  *)
(* and a breath comes round (mute, alarm, the breaths of tells.rs).         *)
LEMMA MuteBlinks == \A now \in Nat : MuteSeen(now)
<1> SUFFICES ASSUME NEW now \in Nat PROVE \E late \in 0..960 : mute(now + late) # "dark"
  BY DEF MuteSeen
<1>1. PICK p \in 0..999 : p = now % 1000
  OBVIOUS
<1>2. CASE p >= 960
  <2>1. mute(now + 0) # "dark"
    BY <1>1, <1>2 DEF mute, MUTE, BLINK
  <2> QED BY <2>1
<1>3. CASE p < 960
  <2>1. PICK late \in 0..960 : late = 960 - p
    BY <1>3
  <2>2. (now + late) % 1000 = 960
    BY <1>1, <2>1
  <2>3. mute(now + late) # "dark"
    BY <2>2 DEF mute, MUTE, BLINK
  <2> QED BY <2>3
<1> QED BY <1>2, <1>3

LEMMA AlarmReddens == \A now \in Nat : AlarmSeen(now)
<1> SUFFICES ASSUME NEW now \in Nat PROVE \E late \in 0..230 : alarm(now + late) = "red"
  BY DEF AlarmSeen
<1>1. PICK p \in 0..409 : p = now % 410
  OBVIOUS
<1>2. PICK q \in 0..69 : q = p % 70
  OBVIOUS
<1>3. ALARM_CYCLE = 410
  BY DEF ALARM_CYCLE
<1>4. CASE p >= 180
  <2>1. PICK late \in 0..230 : late = 410 - p
    BY <1>4
  <2>2. (now + late) % 410 = 0
    BY <1>1, <2>1
  <2>3. alarm(now + late) = "red"
    BY <1>3, <2>2 DEF alarm
  <2> QED BY <2>3
<1>5. CASE p < 180 /\ q < 40
  <2>1. PICK late \in 0..230 : late = 0
    OBVIOUS
  <2>2. (now + late) % 410 = p /\ p < 210 /\ p % 70 < 40
    BY <1>1, <1>2, <1>5, <2>1
  <2>3. alarm(now + late) = "red"
    BY <1>3, <2>2 DEF alarm
  <2> QED BY <2>3
<1>6. CASE p < 180 /\ q >= 40
  <2>1. PICK late \in 0..230 : late = 70 - q
    BY <1>2, <1>6
  <2>2. PICK m \in 0..209 : m = p + late /\ m % 70 = 0
    BY <1>2, <1>6, <2>1
  <2>3. (now + late) % 410 = m
    BY <1>1, <2>2
  <2>4. alarm(now + late) = "red"
    BY <1>3, <2>2, <2>3 DEF alarm
  <2> QED BY <2>4
<1> QED BY <1>2, <1>4, <1>5, <1>6

LEMMA BreathComesRound == \A now \in Nat : \A v \in DOMAIN Breath : BreathRound(v, now)
<1> SUFFICES ASSUME NEW now \in Nat, NEW v \in DOMAIN Breath PROVE BreathRound(v, now)
  OBVIOUS
<1>1. BreathLength(v) \in {850, 670}
  BY DEF Breath, BreathLength
<1>2. now % 850 = (now + 850) % 850 /\ now % 670 = (now + 670) % 670
  OBVIOUS
<1>3. now % BreathLength(v) = (now + BreathLength(v)) % BreathLength(v)
  BY <1>1, <1>2
<1>4. sample(BreathFrames(v), now, BreathLength(v))
      = sample(BreathFrames(v), now + BreathLength(v), BreathLength(v))
  BY <1>3 DEF sample
<1> QED BY <1>4 DEF BreathRound, Phase

THEOREM VoicesInTime == \A now \in Nat : SeenInTime(now)
BY MuteBlinks, AlarmReddens, BreathComesRound DEF SeenInTime
-----------------------------------------------------------------------------
(* The contract of the wire, for any topic and any envelope: one body for   *)
(* one topic, at the source, at the relay and on arrival (loa-wire).        *)
THEOREM OneBodyHolds == \A topic, env : OneBody(topic, env)
<1> SUFFICES ASSUME NEW topic, NEW env PROVE OneBody(topic, env)
  OBVIOUS
<1>1. decode(topic, env) = "ok" => encode(topic, env) = "ok"
  BY DEF decode, encode
<1>2. ASSUME topic \in TOPICS, NEW b \in Bodies
      PROVE  decode(topic, [parses |-> TRUE, schema |-> SCHEMA_VERSION, body |-> b]) = "ok"
             <=> b = IF topic = "state" THEN "ripperdoc" ELSE topic
  BY <1>2, WireAssumption DEF decode, Agreed, body_allowed, Bodies, TOPICS
<1>3. topic \in TOPICS => (IF topic = "state" THEN "ripperdoc" ELSE topic) \in Bodies
  BY DEF Bodies, TOPICS
<1>4. ASSUME route_parts(topic, env) # None,
             decode(route_parts(topic, env).topic, route_parts(topic, env).env) = "ok"
      PROVE  env.body = route_parts(topic, env).topic
  <2>1. topic \in {"oled", "ring"} /\ route_parts(topic, env) = [topic |-> Relayed[topic], env |-> env]
    BY <1>4 DEF route_parts, Relayed
  <2>2. Relayed[topic] \in {"ripperdoc", "ring"}
    BY <2>1 DEF Relayed
  <2>3. decode(Relayed[topic], env) = "ok"
    BY <1>4, <2>1
  <2> QED BY <2>1, <2>2, <2>3 DEF decode, Agreed, body_allowed
<1> QED BY <1>1, <1>2, <1>3, <1>4 DEF OneBody
=============================================================================
