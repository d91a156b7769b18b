---------------------------- MODULE WeatherProofs ----------------------------
(***************************************************************************)
(* The numbers the cortex has are those of the room to the gate, and its   *)
(* window of pressures is three hours that end at the pressure on display, *)
(* for any gate, any window, any numbers and bounds and pipes of any       *)
(* length.                                                                 *)
(***************************************************************************)
EXTENDS Weather, SenseProofs, WellFoundedInduction

(* The stamps under which a flow, and the window, have pressures. *)
Barometric(flow) == Carrying(flow, "pressure")
Stamps(flow)     == {flow[i].says["ts"] : i \in Barometric(flow)}
Kept             == {window[n][1] : n \in DOMAIN window}

(* The pressures of a flow are in the order they were measured in. *)
Ordered(flow) == \A i, j \in Barometric(flow) : i <= j => flow[i].says["ts"] <= flow[j].says["ts"]
Steady(samples) == \A i, j \in DOMAIN samples : i <= j => samples[i][1] <= samples[j][1]

NoLater(A, B) == \A a \in A, b \in B : a <= b

(* The counter is a number. *)
Counted == air["count"] \in Nat

(* The gate remembers a number as soon as there is one, and it is near. *)
Gated == \A n \in Number : /\ air[n] # None <=> sent[n] # None
                           /\ air[n] # None => Within(air[n], sent[n])

(* A pressure is measured under a stamp, which no earlier one is after. *)
Dated == /\ air["pressure"] # None => air["ts"] # None
         /\ \A ts \in Kept \cup Stamps(pull) \cup Stamps(push) \cup ({air["ts"]} \ {None}) :
                /\ ts \in Nat /\ ts < now
                /\ air["ts"] # None => ts <= air["ts"]

(* From the window's front to the pipe's end no stamp goes back. *)
InTime == /\ Steady(window) /\ Ordered(pull) /\ Ordered(push)
          /\ NoLater(Kept, Stamps(pull) \cup Stamps(push)) /\ NoLater(Stamps(pull), Stamps(push))

Inv == TypeOK /\ Counted /\ Gated /\ Dated /\ InTime /\ WindowTrue

(* What the cortex ought to know: numbers near those published last. *)
Want == [n \in {m \in Number : air[m] # None} |-> {v \in Nat : Within(v, sent[n])}]

InSync == EndsGone /\ Synced(Want)

-----------------------------------------------------------------------------
(* Indices that are there have a least. *)
LEMMA LeastIndex ==
    ASSUME NEW S \in SUBSET Nat, S # {}
    PROVE  \E i \in S : \A j \in S : i <= j
<1>1. PICK x \in S : \A y \in S : ~ (<<y, x>> \in OpToRel(<, Nat))
  BY NatLessThanWellFounded, WFMin
<1>2. \A y \in S : ~ (y < x)
  BY <1>1 DEF OpToRel
<1> QED BY <1>2

(* A window in order to which a newer pressure comes: it ends in that one,  *)
(* is as long as it may be at most, and still in order.                     *)
LEMMA Windowed ==
    ASSUME NEW samples \in Seq(Nat \X Nat), NEW ts \in Nat, NEW pressure \in Nat,
           Steady(samples), \A n \in DOMAIN samples : samples[n][1] <= ts
    PROVE  LET after == push_baro(samples, ts, pressure)
           IN  /\ after \in Seq(Nat \X Nat) /\ after # <<>> /\ Steady(after)
               /\ after[Len(after)] = <<ts, pressure>>
               /\ \A n \in DOMAIN after :
                    /\ ts - after[n][1] <= BaroWindow
                    /\ after[n][1] = ts \/ \E m \in DOMAIN samples : after[n][1] = samples[m][1]
<1> DEFINE all == Append(samples, <<ts, pressure>>)
           last == Len(all)
           First(n) == /\ ts - all[n][1] <= BaroWindow
                       /\ \A m \in 1..(n - 1) : ts - all[m][1] > BaroWindow
           front == CHOOSE n \in DOMAIN all : First(n)
           after == SubSeq(all, front, last)
<1>1. /\ all \in Seq(Nat \X Nat) /\ last = Len(samples) + 1 /\ Len(samples) \in Nat
      /\ DOMAIN all = 1..last /\ DOMAIN samples = 1..Len(samples)
      /\ all[last] = <<ts, pressure>>
      /\ \A n \in DOMAIN samples : all[n] = samples[n]
  OBVIOUS
<1>2. /\ last \in Nat /\ last >= 1
      /\ \A n \in 1..last : all[n] \in Nat \X Nat /\ all[n][1] \in Nat
      /\ \A n \in 1..last : n # last => n \in DOMAIN samples
      /\ \A n \in 1..last : all[n][1] = IF n = last THEN ts ELSE samples[n][1]
  BY <1>1
<1> HIDE DEF all, last
<1>3. Steady(all) /\ \A n \in DOMAIN all : all[n][1] <= ts
  <2>1. ASSUME NEW n \in 1..last PROVE all[n][1] <= ts
    <3>1. CASE n = last
      BY <1>2, <3>1
    <3>2. CASE n # last
      BY <1>2, <3>2
    <3> QED BY <3>1, <3>2
  <2>2. ASSUME NEW i \in DOMAIN all, NEW j \in DOMAIN all, i <= j PROVE all[i][1] <= all[j][1]
    <3>1. CASE j = last
      BY <1>1, <1>2, <2>1, <3>1
    <3>2. CASE j # last
      <4>1. i \in DOMAIN samples /\ j \in DOMAIN samples /\ i # last
        <5>1. i \in 1..last /\ j \in 1..last
          BY <1>1
        <5>2. i # last
          BY <1>2, <2>2, <3>2, <5>1
        <5> QED BY <1>2, <3>2, <5>1, <5>2
      <4> QED BY <1>1, <1>2, <2>2, <3>2, <4>1 DEF Steady
    <3> QED BY <3>1, <3>2
  <2> QED BY <1>1, <2>1, <2>2 DEF Steady
<1>4. \E n \in DOMAIN all : First(n)
  <2> DEFINE S == {n \in DOMAIN all : ts - all[n][1] <= BaroWindow}
  <2>1. last \in S
    BY <1>1, WeatherAssumption
  <2>2. S \in SUBSET Nat
    BY <1>1
  <2> HIDE DEF S
  <2>3. PICK n \in S : \A j \in S : n <= j
    BY <2>1, <2>2, LeastIndex
  <2>4. ASSUME NEW m \in 1..(n - 1) PROVE ts - all[m][1] > BaroWindow
    <3>1. n \in 1..last /\ n \in Nat /\ m \in Nat /\ m < n
      <4>1. n \in 1..last
        BY <1>1, <2>3 DEF S
      <4> QED BY <1>2, <4>1
    <3>2. m \in 1..last
      BY <1>2, <3>1
    <3>3. m \notin S
      BY <2>3, <3>1
    <3>4. ts - all[m][1] \in Int /\ ~(ts - all[m][1] <= BaroWindow)
      BY <1>1, <1>2, <3>2, <3>3 DEF S
    <3> QED BY <3>4, WeatherAssumption
  <2> QED BY <2>3, <2>4 DEF S
<1>5. front \in 1..last /\ First(front)
  BY <1>1, <1>4
<1> HIDE DEF front
<1>6. /\ after \in Seq(Nat \X Nat) /\ Len(after) = last - front + 1
      /\ DOMAIN after = 1..(last - front + 1)
      /\ \A i \in 1..(last - front + 1) : after[i] = all[front + i - 1]
  <2>1. last \in Int /\ front \in Int /\ \A i \in front..last : all[i] \in Nat \X Nat
    BY <1>1, <1>2, <1>5
  <2>2. /\ after \in Seq(Nat \X Nat) /\ Len(after) = last - front + 1
        /\ \A i \in 1..(last - front + 1) : after[i] = all[front + i - 1]
    BY <1>5, <2>1, SubSeqProperties
  <2> QED BY <2>2
<1> HIDE DEF after
<1>7. after # <<>> /\ after[Len(after)] = <<ts, pressure>>
  <2>1. last - front + 1 \in 1..(last - front + 1) /\ front + (last - front + 1) - 1 = last
    BY <1>2, <1>5
  <2>2. Len(after) \in DOMAIN after /\ after[Len(after)] = all[last]
    BY <1>6, <2>1
  <2> QED BY <1>1, <1>6, <2>1, <2>2
<1>8. ASSUME NEW n \in DOMAIN after
      PROVE  /\ front + n - 1 \in DOMAIN all /\ front <= front + n - 1
             /\ after[n] = all[front + n - 1]
  <2>1. n \in 1..(last - front + 1) /\ front \in Nat /\ last \in Nat /\ n \in Nat /\ n >= 1
    BY <1>2, <1>5, <1>6
  <2>2. front + n - 1 \in 1..last /\ front <= front + n - 1
    BY <1>5, <2>1
  <2> QED BY <1>1, <1>6, <2>1, <2>2
<1>9. Steady(after)
  <2> SUFFICES ASSUME NEW i \in DOMAIN after, NEW j \in DOMAIN after, i <= j
               PROVE  after[i][1] <= after[j][1]
    BY DEF Steady
  <2>1. front + i - 1 <= front + j - 1
    BY <1>1, <1>5, <1>6
  <2> QED BY <1>3, <1>8, <2>1 DEF Steady
<1>10. ASSUME NEW n \in DOMAIN after
       PROVE  /\ ts - after[n][1] <= BaroWindow
              /\ after[n][1] = ts \/ \E m \in DOMAIN samples : after[n][1] = samples[m][1]
  <2> DEFINE k == front + n - 1
  <2>1. k \in DOMAIN all /\ front <= k /\ after[n] = all[k]
    BY <1>8
  <2> HIDE DEF k
  <2>2. all[front][1] <= all[k][1]
    BY <1>1, <1>3, <1>5, <2>1 DEF Steady
  <2>3. ts - all[k][1] <= BaroWindow
    <3>1. all[front][1] \in Nat /\ all[k][1] \in Nat /\ ts - all[front][1] <= BaroWindow
      BY <1>1, <1>2, <1>5, <2>1
    <3> QED BY <2>2, <3>1, WeatherAssumption
  <2>4. k = last \/ k \in DOMAIN samples
    BY <1>1, <2>1
  <2> QED BY <1>1, <2>1, <2>3, <2>4
<1>11. push_baro(samples, ts, pressure) = after
  BY Zenon DEF push_baro, all, last, after, front
<1> QED BY <1>6, <1>7, <1>9, <1>10, <1>11

-----------------------------------------------------------------------------
(* The pressures of a flow and of what is sent after it. *)
LEMMA StampsAfter ==
    ASSUME NEW flow \in Seq(Message), NEW more \in Seq(Message)
    PROVE  /\ Stamps(flow \o more) \subseteq Stamps(flow) \cup Stamps(more)
           /\ Ordered(flow) /\ Ordered(more) /\ NoLater(Stamps(flow), Stamps(more))
                => Ordered(flow \o more)
<1> DEFINE all == flow \o more
<1>1. /\ Len(flow) \in Nat /\ Len(more) \in Nat /\ Len(all) = Len(flow) + Len(more)
      /\ \A i \in 1..Len(flow) : all[i] = flow[i]
      /\ \A i \in 1..Len(more) : all[Len(flow) + i] = more[i]
  OBVIOUS
<1> HIDE DEF all
<1>2. ASSUME NEW i \in Barometric(all)
      PROVE  /\ i \in Nat
             /\ \/ i \in Barometric(flow) /\ all[i] = flow[i] /\ i <= Len(flow)
                \/ /\ i - Len(flow) \in Barometric(more) /\ all[i] = more[i - Len(flow)]
                   /\ i > Len(flow)
  <2>1. i \in 1..Len(all) /\ all[i].says["pressure"] # None
    BY DEF Barometric, Carrying
  <2>2. CASE i <= Len(flow)
    <3>1. i \in 1..Len(flow)
      BY <1>1, <2>1, <2>2
    <3> QED BY <1>1, <2>1, <2>2, <3>1 DEF Barometric, Carrying
  <2>3. CASE i > Len(flow)
    <3>1. i - Len(flow) \in 1..Len(more) /\ Len(flow) + (i - Len(flow)) = i
      BY <1>1, <2>1, <2>3
    <3>2. all[i] = more[i - Len(flow)]
      BY <1>1, <3>1
    <3> QED BY <2>1, <2>3, <3>1, <3>2 DEF Barometric, Carrying
  <2> QED BY <1>1, <2>1, <2>2, <2>3
<1>3. Stamps(all) \subseteq Stamps(flow) \cup Stamps(more)
  <2> SUFFICES ASSUME NEW i \in Barometric(all)
               PROVE  all[i].says["ts"] \in Stamps(flow) \cup Stamps(more)
    BY DEF Stamps
  <2> QED BY <1>2 DEF Stamps
<1>4. ASSUME Ordered(flow), Ordered(more), NoLater(Stamps(flow), Stamps(more))
      PROVE  Ordered(all)
  <2> SUFFICES ASSUME NEW i \in Barometric(all), NEW j \in Barometric(all), i <= j
               PROVE  all[i].says["ts"] <= all[j].says["ts"]
    BY DEF Ordered
  <2>1. CASE i <= Len(flow) /\ j <= Len(flow)
    <3>1. i \in Barometric(flow) /\ j \in Barometric(flow) /\ all[i] = flow[i] /\ all[j] = flow[j]
      BY <1>1, <1>2, <2>1
    <3> QED BY <1>4, <3>1 DEF Ordered
  <2>2. CASE i <= Len(flow) /\ j > Len(flow)
    <3>1. /\ i \in Barometric(flow) /\ all[i] = flow[i]
          /\ j - Len(flow) \in Barometric(more) /\ all[j] = more[j - Len(flow)]
      BY <1>1, <1>2, <2>2
    <3> QED BY <1>4, <3>1 DEF NoLater, Stamps
  <2>3. CASE i > Len(flow) /\ j > Len(flow)
    <3>1. /\ i - Len(flow) \in Barometric(more) /\ all[i] = more[i - Len(flow)]
          /\ j - Len(flow) \in Barometric(more) /\ all[j] = more[j - Len(flow)]
          /\ i - Len(flow) <= j - Len(flow)
      BY <1>1, <1>2, <2>3
    <3> QED BY <1>4, <3>1 DEF Ordered
  <2> QED BY <1>1, <1>2, <2>1, <2>2, <2>3
<1> QED BY <1>3, <1>4 DEF all

(* The first of a flow is the oldest, and what is left is in order. *)
LEMMA FirstOldest ==
    ASSUME NEW flow \in Seq(Message), flow # <<>>, Ordered(flow)
    PROVE  /\ Ordered(Tail(flow)) /\ Stamps(Tail(flow)) \subseteq Stamps(flow)
           /\ Head(flow).says["pressure"] # None =>
                /\ Head(flow).says["ts"] \in Stamps(flow)
                /\ NoLater({Head(flow).says["ts"]}, Stamps(Tail(flow)))
<1> DEFINE rest == Tail(flow)
<1>1. /\ Len(flow) \in Nat /\ Len(flow) >= 1 /\ Head(flow) = flow[1]
      /\ Len(rest) = Len(flow) - 1
      /\ \A i \in 1..Len(rest) : rest[i] = flow[i + 1]
  BY HeadTailProperties
<1> HIDE DEF rest
<1>2. ASSUME NEW i \in Barometric(rest)
      PROVE  i \in Nat /\ i >= 1 /\ i + 1 \in Barometric(flow) /\ rest[i] = flow[i + 1]
  BY <1>1 DEF Barometric, Carrying
<1>3. Stamps(rest) \subseteq Stamps(flow)
  BY <1>2 DEF Stamps
<1>4. Ordered(rest)
  <2> SUFFICES ASSUME NEW i \in Barometric(rest), NEW j \in Barometric(rest), i <= j
               PROVE  rest[i].says["ts"] <= rest[j].says["ts"]
    BY DEF Ordered
  <2>1. i + 1 <= j + 1 /\ i + 1 \in Barometric(flow) /\ j + 1 \in Barometric(flow)
    BY <1>2
  <2> QED BY <1>2, <2>1 DEF Ordered
<1>5. ASSUME Head(flow).says["pressure"] # None
      PROVE  /\ Head(flow).says["ts"] \in Stamps(flow)
             /\ NoLater({Head(flow).says["ts"]}, Stamps(rest))
  <2>1. 1 \in Barometric(flow)
    BY <1>1, <1>5 DEF Barometric, Carrying
  <2>2. ASSUME NEW i \in Barometric(rest) PROVE flow[1].says["ts"] <= rest[i].says["ts"]
    BY <1>2, <2>1 DEF Ordered
  <2> QED BY <1>1, <2>1, <2>2 DEF NoLater, Stamps
<1> QED BY <1>3, <1>4, <1>5 DEF rest

(* What the pipe takes of these messages is their beginning. *)
LEMMA PushedInTime ==
    ASSUME SenseTypes, NEW messages \in Seq(Message), Push(messages), Ordered(push), Ordered(messages),
           NoLater(Stamps(push), Stamps(messages))
    PROVE  Ordered(push') /\ Stamps(push') \subseteq Stamps(push) \cup Stamps(messages)
<1> DEFINE n == IF Len(messages) <= Room THEN Len(messages) ELSE Room
           fitting == SubSeq(messages, 1, n)
<1>1. n \in 0..Len(messages)
  BY SenseAssumption DEF SenseTypes, Room
<1>2. /\ fitting \in Seq(Message) /\ Len(fitting) = n
      /\ \A i \in 1..n : fitting[i] = messages[i]
  BY <1>1
<1>3. push' = push \o fitting /\ push \in Seq(Message)
  BY DEF Push, SenseTypes
<1> HIDE DEF fitting
<1>4. ASSUME NEW i \in Barometric(fitting)
      PROVE  i \in Barometric(messages) /\ fitting[i] = messages[i]
  BY <1>1, <1>2 DEF Barometric, Carrying
<1>5. Ordered(fitting) /\ Stamps(fitting) \subseteq Stamps(messages)
  BY <1>4 DEF Ordered, Stamps
<1>6. NoLater(Stamps(push), Stamps(fitting))
  BY <1>5 DEF NoLater
<1>7. Ordered(push \o fitting) /\ Stamps(push \o fitting) \subseteq Stamps(push) \cup Stamps(fitting)
  BY <1>2, <1>3, <1>5, <1>6, StampsAfter
<1> QED BY <1>3, <1>5, <1>7

(* The stamps of the next state are those of its pipes. *)
LEMMA StampsPrime ==
    /\ Stamps(pull)' = Stamps(pull') /\ Stamps(push)' = Stamps(push')
    /\ Ordered(pull)' = Ordered(pull') /\ Ordered(push)' = Ordered(push')
  BY DEF Stamps, Ordered, Barometric, Carrying

(* A message alone, and messages of one moment. *)
LEMMA OneMessage ==
    ASSUME NEW m \in Message, m.says["pressure"] # None => m.says["ts"] \in Nat
    PROVE  /\ <<m>> \in Seq(Message) /\ Ordered(<<m>>)
           /\ Stamps(<<m>>) = IF m.says["pressure"] = None THEN {} ELSE {m.says["ts"]}
<1>1. PICK one \in Seq(Message) : one = <<m>>
  <2>1. <<m>> \in Seq(Message)
    OBVIOUS
  <2> QED BY <2>1
<1>2. Len(one) = 1 /\ one[1] = m
  BY <1>1
<1>3. Barometric(one) = IF m.says["pressure"] = None THEN {} ELSE {1}
  BY <1>2 DEF Barometric, Carrying
<1> QED BY <1>1, <1>2, <1>3 DEF Ordered, Stamps

LEMMA OneMoment ==
    ASSUME NEW flow, NEW ts \in Nat, Stamps(flow) \subseteq {ts}
    PROVE  Ordered(flow)
BY DEF Ordered, Stamps

(* Messages that are not older than what is under way may be pushed. *)
LEMMA InTimePush ==
    ASSUME TypeOK, InTime, NEW messages \in Seq(Message), Push(messages), Ordered(messages),
           NoLater(Kept \cup Stamps(pull) \cup Stamps(push), Stamps(messages)),
           UNCHANGED <<window, pull>>
    PROVE  /\ InTime' /\ Kept' = Kept /\ Stamps(pull)' = Stamps(pull)
           /\ Stamps(push)' \subseteq Stamps(push) \cup Stamps(messages)
<1>1. Ordered(push') /\ Stamps(push') \subseteq Stamps(push) \cup Stamps(messages)
  <2>1. NoLater(Stamps(push), Stamps(messages))
    BY DEF NoLater
  <2> QED BY <2>1, PushedInTime DEF InTime, TypeOK
<1>2. Kept' = Kept /\ Stamps(pull') = Stamps(pull) /\ Ordered(pull') /\ Steady(window')
  BY DEF Kept, InTime
<1>3. NoLater(Kept, Stamps(pull) \cup Stamps(push')) /\ NoLater(Stamps(pull), Stamps(push'))
  BY <1>1 DEF InTime, NoLater
<1>4. Steady(window)' = Steady(window')
  BY DEF Steady
<1> QED BY <1>1, <1>2, <1>3, <1>4, StampsPrime DEF InTime, NoLater

(* With no stamp that was not there, and the clock and the memory as they  *)
(* were, all is dated as before.                                           *)
LEMMA StillDated ==
    ASSUME Dated, UNCHANGED <<now, air>>,
           Kept' \cup Stamps(pull') \cup Stamps(push') \subseteq Kept \cup Stamps(pull) \cup Stamps(push)
    PROVE  Dated'
BY StampsPrime DEF Dated

-----------------------------------------------------------------------------
(* The first state. *)
LEMMA InvInit == ASSUME Init PROVE Inv /\ InSync
<1> USE SenseAssumption, WeatherAssumption
<1>1. /\ Blank \in Reading /\ Blank["count"] = 0 /\ Blank["ts"] = None
      /\ \A n \in Number : Blank[n] = None
  BY DEF Blank, Silent, Reading, WeatherField, Number
<1>2. pull = <<>> /\ push = <<>> /\ pull \in Seq(Message) /\ push \in Seq(Message) /\ Len(push) <= Hwm
  BY DEF Init, SenseInit
<1>3. owed \in BOOLEAN /\ SenseTypes
  <2>1. owed \in BOOLEAN
    BY DEF Init, SenseInit
  <2> QED BY <1>1, <1>2, <2>1 DEF Init, SenseInit, SenseTypes
<1>4. window = <<>> /\ window \in Seq(Nat \X Nat)
  BY DEF Init
<1>5. TypeOK
  BY <1>1, <1>3, <1>4 DEF Init, TypeOK, NoBaro
<1>6. Counted /\ Gated
  BY <1>1 DEF Init, Counted, Gated
<1>7. Stamps(pull) = {} /\ Stamps(push) = {} /\ Kept = {} /\ Ordered(pull) /\ Ordered(push)
  BY <1>2, <1>4 DEF Stamps, Kept, Ordered, Barometric, Carrying
<1>8. Dated
  BY <1>1, <1>7 DEF Init, Dated, Number
<1>9. InTime
  BY <1>4, <1>7 DEF InTime, Steady, NoLater
<1>10. WindowTrue
  BY <1>1, <1>4 DEF Init, SenseInit, WindowTrue, Number
<1>11. InSync
  BY DEF Init, SenseInit, InSync, EndsGone, Synced
<1> QED BY <1>5, <1>6, <1>8, <1>9, <1>10, <1>11 DEF Inv

(* The memory and the gate as they were ask for what they asked for. *)
LEMMA WantSame == ASSUME UNCHANGED <<air, sent>> PROVE Want' = Want
BY DEF Want, Within

LEMMA WantFields == DOMAIN Want \subseteq Field
BY WeatherAssumption DEF Want, Number, WeatherField

(* What the daemon has in memory stays as it is. *)
LEMMA MemoryStays ==
    ASSUME Inv, UNCHANGED <<now, air, sent>>, SenseTypes',
           baro' \in [ts : Nat \cup {None}, count : Nat], window' \in Seq(Nat \X Nat)
    PROVE  TypeOK' /\ Counted' /\ Gated'
BY DEF Inv, TypeOK, Counted, Gated, Within, Reading

(* The wire and the crashes but for a message taken. *)
LEMMA HarnessStep ==
    ASSUME Inv, InSync, Linked \/ Ask \/ Asked \/ Carry \/ BodyCrash \/ DaemonCrash,
           UNCHANGED <<now, air, sent, baro, window>>
    PROVE  Inv' /\ InSync'
<1>1. Blank \in Reading
  BY SenseAssumption, WeatherAssumption DEF Blank, Silent, Reading, WeatherField
<1>2. SenseTypes'
  BY <1>1, HarnessTypes DEF Inv, TypeOK, Wire
<1>3. TypeOK' /\ Counted' /\ Gated'
  BY <1>2, MemoryStays DEF Inv, TypeOK
<1>4. picture' = picture
  BY DEF Linked, Ask, Asked, Carry, BodyCrash, DaemonCrash, bodyVars, wireVars
<1>5. WindowTrue'
  BY <1>4 DEF Inv, WindowTrue
<1>6. Kept' = Kept /\ Steady(window') /\ Steady(window)' = Steady(window')
  BY DEF Kept, Inv, InTime, Steady
<1>7. /\ Ordered(pull') /\ Ordered(push') /\ NoLater(Stamps(pull'), Stamps(push'))
      /\ Stamps(pull') \cup Stamps(push') \subseteq Stamps(pull) \cup Stamps(push)
  <2>0. Ordered(pull) /\ Ordered(push) /\ NoLater(Stamps(pull), Stamps(push))
    BY DEF Inv, InTime
  <2>1. CASE UNCHANGED <<pull, push>>
    BY <2>0, <2>1
  <2>2. CASE Carry
    <3>1. /\ pull \in Seq(Message) /\ push \in Seq(Message) /\ push # <<>>
          /\ pull' = Append(pull, Head(push)) /\ push' = Tail(push)
      BY <2>2 DEF Carry, Inv, TypeOK, SenseTypes
    <3>2. Head(push) \in Message
      BY <3>1, HeadTailProperties
    <3>3. /\ Ordered(push') /\ Stamps(push') \subseteq Stamps(push)
          /\ Head(push).says["pressure"] # None =>
                /\ Head(push).says["ts"] \in Stamps(push)
                /\ NoLater({Head(push).says["ts"]}, Stamps(push'))
      BY <2>0, <3>1, FirstOldest
    <3>4. PICK one \in Seq(Message) :
            /\ one = <<Head(push)>> /\ Ordered(one)
            /\ Stamps(one) = IF Head(push).says["pressure"] = None THEN {} ELSE {Head(push).says["ts"]}
      <4>1. Head(push).says["pressure"] # None => Head(push).says["ts"] \in Nat
        BY <3>3 DEF Inv, Dated
      <4> QED BY <3>2, <4>1, OneMessage
    <3>5. pull' = pull \o one
      BY <3>1, <3>2, <3>4
    <3>6. Stamps(one) \subseteq Stamps(push) /\ NoLater(Stamps(one), Stamps(push'))
      BY <3>3, <3>4 DEF NoLater
    <3>7. NoLater(Stamps(pull), Stamps(one)) /\ NoLater(Stamps(pull), Stamps(push'))
      BY <2>0, <3>3, <3>6 DEF NoLater
    <3>8. Ordered(pull \o one) /\ Stamps(pull \o one) \subseteq Stamps(pull) \cup Stamps(one)
      <4>1. pull \in Seq(Message) /\ one \in Seq(Message)
        BY <3>1
      <4> QED BY <2>0, <3>4, <3>7, <4>1, StampsAfter, Zenon
    <3>9. Ordered(pull') /\ Stamps(pull') \subseteq Stamps(pull) \cup Stamps(one)
      BY <3>5, <3>8
    <3> QED BY <3>3, <3>6, <3>7, <3>9 DEF NoLater
  <2>3. CASE pull' = <<>> /\ push' = push
    <3>1. Stamps(pull') = {} /\ Ordered(pull')
      BY <2>3 DEF Stamps, Ordered, Barometric, Carrying
    <3> QED BY <2>0, <2>3, <3>1 DEF NoLater
  <2>4. CASE pull' = pull /\ push' = <<>>
    <3>1. Stamps(push') = {} /\ Ordered(push')
      BY <2>4 DEF Stamps, Ordered, Barometric, Carrying
    <3> QED BY <2>0, <2>4, <3>1 DEF NoLater
  <2> QED BY <2>1, <2>2, <2>3, <2>4 DEF Linked, Ask, Asked, BodyCrash, DaemonCrash, bodyVars, wireVars
<1>8. InTime' /\ Dated'
  <2>1. NoLater(Kept', Stamps(pull') \cup Stamps(push'))
    BY <1>6, <1>7 DEF Inv, InTime, NoLater
  <2>2. Dated'
    BY <1>6, <1>7, StillDated DEF Inv
  <2> QED BY <1>6, <1>7, <2>1, <2>2, StampsPrime DEF InTime, NoLater
<1>9. EndsGone' /\ Synced(Want)'
  BY HarnessSynced, WantFields, WantSame DEF InSync, Inv, TypeOK, Wire
<1> QED BY <1>3, <1>5, <1>8, <1>9 DEF Inv, InSync

(* A cortex that boots has no picture, no stamp and an empty window. *)
LEMMA CortexBootStep == ASSUME Inv, InSync, CortexBoot PROVE Inv' /\ InSync'
<1> USE SenseAssumption, WeatherAssumption
<1>1. Blank \in Reading /\ Blank["pressure"] = None
  BY DEF Blank, Silent, Reading, WeatherField
<1>2. /\ BodyBoot(Blank) /\ baro' = NoBaro /\ window' = <<>> /\ UNCHANGED <<now, air, sent>>
      /\ picture' = Blank /\ UNCHANGED <<pull, push>>
  BY DEF CortexBoot, BodyBoot, wireVars
<1>3. SenseTypes'
  BY <1>1, <1>2, HarnessTypes DEF Inv, TypeOK
<1>4. baro' \in [ts : Nat \cup {None}, count : Nat] /\ window' \in Seq(Nat \X Nat)
  <2>1. window' \in Seq(Nat \X Nat)
    BY <1>2
  <2> QED BY <1>2, <2>1 DEF NoBaro
<1>5. TypeOK' /\ Counted' /\ Gated'
  BY <1>2, <1>3, <1>4, MemoryStays
<1>6. Kept' = {} /\ Steady(window)'
  BY <1>2 DEF Kept, Steady
<1>7. InTime'
  BY <1>2, <1>6, StampsPrime DEF Inv, InTime, NoLater
<1>8. Dated'
  BY <1>2, <1>6, StillDated DEF Inv
<1>9. WindowTrue'
  BY <1>1, <1>2 DEF WindowTrue
<1>10. EndsGone' /\ Synced(Want)'
  BY <1>2, HarnessSynced, WantFields, WantSame DEF InSync, Inv, TypeOK
<1> QED BY <1>5, <1>7, <1>8, <1>9, <1>10 DEF Inv, InSync

(* A message taken: the oldest stamp under way goes to the window's end. *)
LEMMA TakeAirStep == ASSUME Inv, InSync, TakeAir PROVE Inv' /\ InSync'
<1> USE SenseAssumption, WeatherAssumption
<1> DEFINE says == Head(pull).says
           ts == says["ts"]
           number == says["pressure"]
<1>1. /\ Take /\ UNCHANGED <<now, air, sent>> /\ pull \in Seq(Message) /\ pull # <<>>
      /\ pull' = Tail(pull) /\ push' = push /\ picture' = Merge(says)
  BY DEF TakeAir, Take, Inv, TypeOK, SenseTypes, wireVars
<1>2. says \in Reading /\ number \in Nat \cup {None} /\ ts \in Nat \cup {None}
      /\ says["count"] \in Nat \cup {None}
  <2>1. Head(pull) \in Message
    BY <1>1, HeadTailProperties
  <2> QED BY <2>1 DEF Message, Reading, WeatherField
<1>3. picture'["pressure"] = IF number = None THEN picture["pressure"] ELSE number
  BY <1>1 DEF Merge, WeatherField
<1>4. IF number = None THEN UNCHANGED <<baro, window>>
      ELSE /\ window' = push_baro(window, IF ts = None THEN 0 ELSE ts, number)
           /\ baro' = [ts    |-> IF ts = None THEN baro.ts ELSE ts,
                       count |-> IF says["count"] = None THEN baro.count ELSE says["count"]]
  BY DEF TakeAir
<1> HIDE DEF says, ts, number
<1>5. SenseTypes'
  <2>1. Blank \in Reading
    BY DEF Blank, Silent, Reading, WeatherField
  <2> QED BY <1>1, <2>1, HarnessTypes DEF Inv, TypeOK, Wire
<1>6. EndsGone' /\ Synced(Want)'
  BY <1>1, HarnessSynced, WantFields, WantSame DEF InSync, Inv, TypeOK, Wire
<1>7. /\ Ordered(pull') /\ Stamps(pull') \subseteq Stamps(pull)
      /\ number # None => ts \in Stamps(pull) /\ NoLater({ts}, Stamps(pull'))
  BY <1>1, FirstOldest DEF Inv, InTime, says, ts, number
<1>8. CASE number = None
  <2>1. UNCHANGED <<baro, window>> /\ picture'["pressure"] = picture["pressure"]
    BY <1>3, <1>4, <1>8
  <2>2. TypeOK' /\ Counted' /\ Gated'
    BY <1>1, <1>5, <2>1, MemoryStays DEF Inv, TypeOK
  <2>3. WindowTrue'
    BY <2>1 DEF Inv, WindowTrue
  <2>4. Kept' = Kept /\ Steady(window)'
    BY <2>1 DEF Kept, Inv, InTime, Steady
  <2>5. InTime'
    BY <1>1, <1>7, <2>4, StampsPrime DEF Inv, InTime, NoLater
  <2>6. Dated'
    BY <1>1, <1>7, <2>4, StillDated DEF Inv
  <2> QED BY <1>6, <2>2, <2>3, <2>5, <2>6 DEF Inv, InSync
<1>9. CASE number # None
  <2>1. ts \in Stamps(pull) /\ ts \in Nat /\ ts # None /\ number \in Nat
    BY <1>2, <1>7, <1>9 DEF Inv, Dated
  <2>2. /\ window' = push_baro(window, ts, number) /\ baro'.ts = ts
        /\ baro' \in [ts : Nat \cup {None}, count : Nat] /\ picture'["pressure"] = number
    <3>1. /\ window' = push_baro(window, ts, number)
          /\ baro' = [ts |-> ts, count |-> IF says["count"] = None THEN baro.count ELSE says["count"]]
      BY <1>4, <1>9, <2>1
    <3>2. baro.count \in Nat
      BY DEF Inv, TypeOK
    <3> QED BY <1>2, <1>3, <1>9, <2>1, <3>1, <3>2
  <2>3. window \in Seq(Nat \X Nat) /\ Steady(window) /\ \A n \in DOMAIN window : window[n][1] <= ts
    BY <2>1 DEF Inv, TypeOK, InTime, NoLater, Kept
  <2>4. /\ window' \in Seq(Nat \X Nat) /\ window' # <<>> /\ Steady(window')
        /\ window'[Len(window')] = <<ts, number>>
        /\ \A n \in DOMAIN window' :
              /\ ts - window'[n][1] <= BaroWindow
              /\ window'[n][1] = ts \/ \E m \in DOMAIN window : window'[n][1] = window[m][1]
    <3> DEFINE after == push_baro(window, ts, number)
    <3>1. /\ after \in Seq(Nat \X Nat) /\ after # <<>> /\ Steady(after)
          /\ after[Len(after)] = <<ts, number>>
          /\ \A n \in DOMAIN after :
                /\ ts - after[n][1] <= BaroWindow
                /\ after[n][1] = ts \/ \E m \in DOMAIN window : after[n][1] = window[m][1]
      BY <2>1, <2>3, Windowed
    <3>2. window' = after
      BY <2>2
    <3> HIDE DEF after
    <3> QED BY <3>1, <3>2
  <2>5. TypeOK' /\ Counted' /\ Gated'
    BY <1>1, <1>5, <2>2, <2>4, MemoryStays
  <2>6. Kept' \subseteq Kept \cup {ts} /\ Steady(window)'
    BY <2>4 DEF Kept, Steady
  <2>7. NoLater(Kept', Stamps(pull') \cup Stamps(push'))
    <3>1. NoLater(Kept, Stamps(pull') \cup Stamps(push'))
      BY <1>1, <1>7 DEF Inv, InTime, NoLater
    <3>2. NoLater({ts}, Stamps(pull') \cup Stamps(push'))
      BY <1>1, <1>7, <1>9, <2>1 DEF Inv, InTime, NoLater
    <3> QED BY <2>6, <3>1, <3>2 DEF NoLater
  <2>8. InTime'
    BY <1>1, <1>7, <2>6, <2>7, StampsPrime DEF Inv, InTime, NoLater
  <2>9. Dated'
    BY <1>1, <1>7, <2>1, <2>6, StillDated DEF Inv
  <2>10. WindowTrue'
    <3>1. \A n \in DOMAIN window' : window'[Len(window')][1] - window'[n][1] <= BaroWindow
      BY <2>4
    <3>2. Last(window') = <<baro'.ts, picture'["pressure"]>>
      BY <2>2, <2>4 DEF Last
    <3> QED BY <2>4, <3>1, <3>2 DEF WindowTrue
  <2> QED BY <1>6, <2>5, <2>8, <2>9, <2>10 DEF Inv, InSync
<1> QED BY <1>8, <1>9

-----------------------------------------------------------------------------
(* What a daemon pushes at one moment, not before its last stamp, comes in *)
(* time, and the cortex is as it was.                                       *)
LEMMA PushStep ==
    ASSUME Inv, NEW messages \in Seq(Message), Push(messages), Ordered(messages),
           UNCHANGED <<baro, window, bodyVars>>,
           now' \in Nat, now <= now', air' \in Reading, air'["count"] \in Nat,
           sent' \in [Number -> Nat \cup {None}], Gated', SenseTypes',
           air'["pressure"] # None => air'["ts"] # None,
           air'["ts"] # None => air'["ts"] < now',
           \A old \in Kept \cup Stamps(pull) \cup Stamps(push) :
               /\ air'["ts"] # None => old <= air'["ts"]
               /\ \A ts \in Stamps(messages) : old <= ts,
           \A ts \in Stamps(messages) : ts = air'["ts"] /\ ts # None
    PROVE  Inv'
<1> USE SenseAssumption, WeatherAssumption
<1>1. UNCHANGED <<window, pull, picture>>
  BY DEF bodyVars
<1>2. NoLater(Kept \cup Stamps(pull) \cup Stamps(push), Stamps(messages))
  BY DEF NoLater
<1>3. /\ InTime' /\ Kept' = Kept /\ Stamps(pull)' = Stamps(pull)
      /\ Stamps(push)' \subseteq Stamps(push) \cup Stamps(messages)
  BY <1>1, <1>2, InTimePush DEF Inv
<1>4. TypeOK' /\ Counted'
  BY <1>1 DEF Inv, TypeOK, Counted
<1>5. WindowTrue'
  BY <1>1 DEF Inv, WindowTrue
<1>6. air'["ts"] \in Nat \cup {None}
  BY DEF Reading, WeatherField
<1>7. Dated'
  <2> SUFFICES ASSUME NEW ts \in (Kept \cup Stamps(pull) \cup Stamps(push) \cup ({air["ts"]} \ {None}))'
               PROVE  ts \in Nat /\ ts < now' /\ (air'["ts"] # None => ts <= air'["ts"])
    BY DEF Dated
  <2>1. CASE ts \in Kept \cup Stamps(pull) \cup Stamps(push)
    <3>1. ts \in Nat /\ ts < now /\ now \in Nat
      BY <2>1 DEF Inv, Dated, TypeOK
    <3> QED BY <2>1, <3>1
  <2>2. CASE ts \in Stamps(messages) \cup ({air'["ts"]} \ {None})
    BY <1>6, <2>2
  <2> QED BY <1>3, <2>1, <2>2
<1> QED BY <1>3, <1>4, <1>5, <1>7 DEF Inv

(* A fresh daemon: nothing measured, nothing to know. *)
LEMMA BootStep == ASSUME Inv, InSync, Boot PROVE Inv' /\ InSync'
<1> USE SenseAssumption, WeatherAssumption
<1>1. /\ Blank \in Reading /\ Blank["count"] = 0 /\ Blank["ts"] = None
      /\ \A n \in Number : Blank[n] = None
      /\ Silent \in Reading /\ Silent["pressure"] = None /\ Blank["pressure"] = None
  BY DEF Blank, Silent, Reading, WeatherField, Number
<1>2. PICK messages \in Seq(Message) : messages = <<Full(Blank), Event("boot")>>
  <2>1. Full(Blank) \in Message /\ Event("boot") \in Message
    BY <1>1 DEF Full, Event, Message
  <2>2. <<Full(Blank), Event("boot")>> \in Seq(Message)
    BY <2>1
  <2> QED BY <2>2
<1>3. /\ Push(messages) /\ daemon' = "up" /\ UNCHANGED <<bodyVars, crashes>>
      /\ link' = "new" /\ inbox' = 0
      /\ air' = Blank /\ sent' = [n \in Number |-> None] /\ UNCHANGED <<now, baro, window>>
  BY <1>2 DEF Boot, Start
<1>4. push' \in Seq(Message) /\ Len(push') <= Hwm /\ owed' \in BOOLEAN
  BY <1>3, PushTypes DEF Inv, TypeOK
<1>5. SenseTypes'
  BY <1>3, <1>4 DEF Inv, TypeOK, SenseTypes, bodyVars
<1>6. /\ Len(messages) = 2 /\ messages[1].kind = "full" /\ messages[1].says = Blank
      /\ messages[2].says = Silent
  BY <1>2 DEF Full, Event
<1>7. Stamps(messages) = {} /\ Ordered(messages)
  <2>1. Barometric(messages) = {}
    BY <1>1, <1>6 DEF Barometric, Carrying
  <2> QED BY <2>1 DEF Stamps, Ordered
<1>8. sent' \in [Number -> Nat \cup {None}] /\ Gated'
  BY <1>1, <1>3 DEF Gated
<1>9. Inv'
  <2>1. now' \in Nat /\ now <= now'
    BY <1>3 DEF Inv, TypeOK
  <2> QED BY <1>1, <1>3, <1>5, <1>7, <1>8, <2>1, PushStep
<1>10. Telling(messages)
  BY <1>6 DEF Telling
<1>11. DOMAIN Want' = {} /\ TellsAll(messages, Want')
  BY <1>1, <1>3 DEF Want, TellsAll
<1> QED BY <1>3, <1>9, <1>10, <1>11, PushSynced DEF InSync, Inv, TypeOK

(* An answer tells the numbers the gate held back, under the last stamp. *)
LEMMA AnswerStep ==
    ASSUME Inv, InSync, Answer(air), UNCHANGED <<now, air, sent, baro, window>>
    PROVE  Inv' /\ InSync'
<1> USE SenseAssumption, WeatherAssumption
<1>1. Want' = Want
  BY WantSame
<1>2. /\ air \in Reading /\ Push(<<Full(air)>>) /\ daemon' # "down" /\ UNCHANGED bodyVars
      /\ inbox' = inbox - 1 /\ inbox > 0 /\ UNCHANGED <<daemon, link, crashes>>
  BY DEF Answer, Inv, TypeOK
<1>3. ASSUME NEW f \in DOMAIN Want PROVE air[f] # None /\ air[f] \in Want[f]
  BY DEF Want, Gated, Inv, TypeOK, Reading, WeatherField, Number
<1>4. /\ push' \in Seq(Message) /\ Len(push') <= Hwm /\ owed' \in BOOLEAN
      /\ EndsGone' /\ Synced(Want)'
  BY <1>1, <1>2, <1>3, WantFields, FullPush DEF InSync, Inv, TypeOK
<1>5. SenseTypes'
  BY <1>2, <1>4 DEF Inv, TypeOK, SenseTypes, bodyVars
<1>6. /\ air["pressure"] # None => air["ts"] # None
      /\ air["ts"] # None => air["ts"] \in Nat /\ air["ts"] < now
      /\ \A old \in Kept \cup Stamps(pull) \cup Stamps(push) :
             air["ts"] # None => old <= air["ts"]
  BY DEF Inv, Dated
<1>7. PICK messages \in Seq(Message) :
        /\ messages = <<Full(air)>> /\ Ordered(messages)
        /\ Stamps(messages) = IF air["pressure"] = None THEN {} ELSE {air["ts"]}
  <2>1. Full(air) \in Message /\ Full(air).says = air
    BY <1>2 DEF Full, Message
  <2> QED BY <1>6, <2>1, OneMessage
<1>8. Gated' /\ air["count"] \in Nat /\ sent \in [Number -> Nat \cup {None}] /\ now \in Nat
  BY DEF Inv, Gated, Within, Counted, TypeOK
<1>9. /\ air' = air /\ sent' = sent /\ now' = now /\ now <= now' /\ UNCHANGED <<baro, window, bodyVars>>
  BY <1>2, <1>8
<1>10. Inv'
  <2>1. /\ air'["ts"] # None => air'["ts"] < now'
        /\ air'["pressure"] # None => air'["ts"] # None
        /\ \A ts \in Stamps(messages) : ts = air'["ts"] /\ ts # None
    BY <1>6, <1>7, <1>9
  <2>2. \A old \in Kept \cup Stamps(pull) \cup Stamps(push) :
            /\ air'["ts"] # None => old <= air'["ts"]
            /\ \A ts \in Stamps(messages) : old <= ts
    BY <1>6, <1>7, <1>9
  <2>3. Push(messages) /\ messages \in Seq(Message)
    BY <1>2, <1>7
  <2> QED BY <1>2, <1>5, <1>7, <1>8, <1>9, <2>1, <2>2, <2>3, PushStep
<1> QED BY <1>4, <1>10 DEF InSync

-----------------------------------------------------------------------------
(* What is so of the memory, the gate and the messages between two readings *)
(* of one tick: each number is near the one published last, and that one is *)
(* among the messages, or was the last before them.                         *)
Near(published) == {v \in Nat : Within(v, published)}

Told(d, n) == \/ Ends(d.out, n, Near(d.sent[n]))
              \/ Carrying(d.out, n) = {} /\ air[n] # None /\ d.sent[n] = sent[n]

Sound(d) ==
    /\ d.air \in Reading /\ d.air["count"] \in Nat /\ d.sent \in [Number -> Nat \cup {None}]
    /\ d.out \in Seq(Message) /\ \A i \in 1..Len(d.out) : d.out[i].kind = "part"
    /\ \A n \in Number : /\ d.air[n] # None <=> d.sent[n] # None
                         /\ d.air[n] # None => Within(d.air[n], d.sent[n]) /\ Told(d, n)
    /\ d.air["ts"] \in {air["ts"], now}
    /\ d.air["pressure"] # None => d.air["ts"] # None
    /\ \A ts \in Stamps(d.out) : ts = now /\ d.air["ts"] = now

(* A number is within the gate of itself, and what has not moved is too. *)
LEMMA NotMoved ==
    ASSUME NEW d, NEW n \in Number, NEW value \in Nat, d.sent \in [Number -> Nat \cup {None}]
    PROVE  /\ Within(value, value)
           /\ ~moved(d, n, value) => d.sent[n] # None /\ Within(value, d.sent[n])
<1>1. Within(value, value)
  BY SenseAssumption, WeatherAssumption DEF Within, Distance
<1>2. ASSUME ~moved(d, n, value) PROVE d.sent[n] # None /\ Within(value, d.sent[n])
  <2>1. d.sent[n] # None /\ d.sent[n] \in Nat /\ ~(Distance(d.sent[n], value) >= Gate)
    BY <1>2 DEF moved
  <2>2. Distance(value, d.sent[n]) = Distance(d.sent[n], value) /\ Distance(value, d.sent[n]) \in Int
    BY <2>1 DEF Distance
  <2> QED BY <2>1, <2>2, WeatherAssumption DEF Within
<1> QED BY <1>1, <1>2

(* A reading keeps it so. *)
LEMMA MeasureSound ==
    ASSUME Inv, NEW d, Sound(d), NEW reading, DOMAIN reading \subseteq Number,
           \A n \in DOMAIN reading : reading[n] \in Nat, NEW frames \in Nat
    PROVE  Sound(Measure(d, reading, frames))
<1> USE SenseAssumption, WeatherAssumption
<1> DEFINE news  == {n \in DOMAIN reading : moved(d, n, reading[n])}
           count == d.air["count"] + frames
           Said(f) == CASE f \in news                -> reading[f]
                        [] f = "ts"                  -> now
                        [] f = "count" /\ count > 0  -> count
                        [] OTHER                     -> None
           says == [f \in Field |-> Said(f)]
           e == Measure(d, reading, frames)
<1>1. /\ e.air = [f \in Field |-> CASE f \in DOMAIN reading        -> reading[f]
                                    [] f = "count"                 -> count
                                    [] f = "ts" /\ news # {}       -> now
                                    [] OTHER                       -> d.air[f]]
      /\ e.sent = [n \in Number |-> IF n \in news THEN reading[n] ELSE d.sent[n]]
      /\ e.out = d.out \o IF news = {} THEN <<>> ELSE <<Part(says)>>
  BY DEF Measure
<1>2. /\ Field = WeatherField /\ Number \subseteq Field /\ news \subseteq Number
      /\ "ts" \in Field /\ "ts" \notin Number /\ "count" \in Field /\ "count" \notin Number
      /\ "pressure" \in Number
      /\ \A n \in news : reading[n] \in Nat /\ n \in DOMAIN reading
      /\ now \in Nat /\ count \in Nat
  <2>1. now \in Nat /\ d.air["count"] \in Nat
    BY DEF Inv, TypeOK, Sound
  <2>2. count \in Nat
    BY <2>1
  <2> QED BY <2>1, <2>2 DEF WeatherField, Number
<1>3. \A n \in DOMAIN reading \ news :
          d.sent[n] # None /\ d.air[n] # None /\ Within(reading[n], d.sent[n])
  BY NotMoved DEF Sound
<1>4. /\ \A n \in Number : says[n] = IF n \in news THEN reading[n] ELSE None
      /\ says["ts"] = now /\ says \in Reading
  BY <1>2 DEF Reading, WeatherField, Number
<1> HIDE DEF e, says, news, count
<1>5. /\ e.air["count"] = count
      /\ e.air["ts"] = IF news # {} THEN now ELSE d.air["ts"]
      /\ \A n \in Number : /\ e.air[n] = IF n \in DOMAIN reading THEN reading[n] ELSE d.air[n]
                           /\ e.sent[n] = IF n \in news THEN reading[n] ELSE d.sent[n]
  BY <1>1, <1>2 DEF WeatherField, Number
<1>6. e.air \in Reading /\ e.air["count"] \in Nat /\ e.sent \in [Number -> Nat \cup {None}]
  <2>1. ASSUME NEW f \in Field PROVE e.air[f] \in Nat \cup {None}
    <3>1. f \in Number \/ f = "ts" \/ f = "count"
      BY <1>2 DEF WeatherField, Number
    <3>2. d.air[f] \in Nat \cup {None}
      BY DEF Sound, Reading
    <3> QED BY <1>2, <1>5, <3>1, <3>2
  <2>2. \A n \in Number : e.sent[n] \in Nat \cup {None}
    BY <1>2, <1>5 DEF Sound
  <2> QED BY <1>1, <1>2, <1>5, <2>1, <2>2 DEF Reading
<1>7. ASSUME NEW n \in Number
      PROVE  /\ e.air[n] # None <=> e.sent[n] # None
             /\ e.air[n] # None => Within(e.air[n], e.sent[n])
  <2>1. CASE n \in news
    BY <1>2, <1>5, <2>1, NotMoved DEF Sound
  <2>2. CASE n \in DOMAIN reading \ news
    BY <1>3, <1>5, <2>2
  <2>3. CASE n \notin DOMAIN reading
    BY <1>2, <1>5, <2>3 DEF Sound
  <2> QED BY <2>1, <2>2, <2>3
<1>8. CASE news = {}
  <2>1. e.out = d.out /\ e.air["ts"] = d.air["ts"]
    <3>1. e.out = d.out \o <<>> /\ d.out \in Seq(Message)
      BY <1>1, <1>8 DEF Sound
    <3> QED BY <1>5, <1>8, <3>1
  <2>2. ASSUME NEW n \in Number, e.air[n] # None PROVE Told(e, n) /\ d.air[n] # None
    <3>1. d.air[n] # None /\ e.sent[n] = d.sent[n]
      BY <1>3, <1>5, <1>8, <2>2
    <3> QED BY <2>1, <3>1 DEF Sound, Told
  <2> QED BY <1>2, <1>6, <1>7, <2>1, <2>2 DEF Sound, e
<1>9. CASE news # {}
  <2>1. PICK one \in Seq(Message) :
          /\ one = <<Part(says)>> /\ Len(one) = 1 /\ one[1] = Part(says)
          /\ Stamps(one) \subseteq {now}
    <3>1. Part(says) \in Message /\ Part(says).says = says
      BY <1>4 DEF Part, Message
    <3>2. <<Part(says)>> \in Seq(Message) /\ Stamps(<<Part(says)>>) \subseteq {now}
      BY <1>2, <1>4, <3>1, OneMessage
    <3>3. \E m \in Seq(Message) : m = <<Part(says)>>
      BY <3>2
    <3> QED BY <3>2, <3>3
  <2>2. one[1].kind = "part" /\ one[1].says = says
    BY <2>1 DEF Part
  <2>3. e.out = d.out \o one /\ d.out \in Seq(Message) /\ e.air["ts"] = now
    BY <1>1, <1>5, <1>9, <2>1 DEF Sound
  <2>4. e.out \in Seq(Message) /\ \A i \in 1..Len(e.out) : e.out[i].kind = "part"
    BY <2>1, <2>2, <2>3 DEF Sound
  <2>5. \A ts \in Stamps(e.out) : ts = now
    <3>1. Stamps(d.out \o one) \subseteq Stamps(d.out) \cup Stamps(one)
      BY <2>3, StampsAfter
    <3> QED BY <2>1, <2>3, <3>1 DEF Sound
  <2>6. ASSUME NEW n \in Number, e.air[n] # None PROVE Told(e, n)
    <3>1. CASE n \in news
      <4>1. says[n] = reading[n] /\ e.sent[n] = reading[n] /\ reading[n] \in Nat
        BY <1>2, <1>4, <1>5, <3>1
      <4>2. Carrying(one, n) = {1} /\ one[1].says[n] \in Near(e.sent[n])
        BY <2>1, <2>2, <4>1, NotMoved DEF Sound, Carrying, Near
      <4>3. Ends(one, n, Near(e.sent[n]))
        BY <4>2 DEF Ends
      <4>4. Ends(d.out \o one, n, Near(e.sent[n]))
        BY <2>3, <4>3, SentAfter
      <4> QED BY <2>3, <4>4 DEF Told
    <3>2. CASE n \notin news
      <4>1. e.sent[n] = d.sent[n] /\ d.air[n] # None /\ Told(d, n)
        BY <1>3, <1>5, <2>6, <3>2 DEF Sound
      <4>2. Carrying(one, n) = {}
        BY <1>4, <2>1, <2>2, <3>2 DEF Carrying
      <4>3. CASE Ends(d.out, n, Near(d.sent[n]))
        <5>1. Ends(d.out \o one, n, Near(d.sent[n]))
          BY <2>3, <4>2, <4>3, SentAfter
        <5> QED BY <2>3, <4>1, <5>1 DEF Told
      <4>4. CASE Carrying(d.out, n) = {} /\ air[n] # None /\ d.sent[n] = sent[n]
        <5>1. Carrying(d.out \o one, n) = {}
          BY <2>3, <4>2, <4>4, SentAfter
        <5> QED BY <2>3, <4>1, <4>4, <5>1 DEF Told
      <4> QED BY <4>1, <4>3, <4>4 DEF Told
    <3> QED BY <3>1, <3>2
  <2> QED BY <1>2, <1>6, <1>7, <2>3, <2>4, <2>5, <2>6 DEF Sound, e
<1> QED BY <1>8, <1>9

(* A tick publishes what has moved, under the stamp of the tick. *)
LEMMA TickStep ==
    ASSUME Inv, InSync, NEW dht \in Air \cup {None}, NEW pressure \in Pressure \cup {None},
           Tick(dht, pressure)
    PROVE  Inv' /\ InSync'
<1> USE SenseAssumption, WeatherAssumption
<1> DEFINE d0 == [air |-> air, sent |-> sent, out |-> <<>>]
           d1 == IF dht = None THEN d0 ELSE Measure(d0, dht, 1)
           d2 == IF pressure = None THEN d1 ELSE Measure(d1, [pressure |-> pressure], 0)
<1>1. /\ Sample(d2.out) /\ now' = now + 1 /\ air' = d2.air /\ sent' = d2.sent
      /\ UNCHANGED <<baro, window>>
  BY DEF Tick
<1>2. Sound(d0)
  <2>1. /\ d0.air = air /\ d0.sent = sent /\ d0.out = <<>> /\ d0.out \in Seq(Message)
        /\ Len(d0.out) = 0
    OBVIOUS
  <2>2. Stamps(d0.out) = {} /\ \A n \in Number : Carrying(d0.out, n) = {}
    BY <2>1 DEF Stamps, Barometric, Carrying
  <2> HIDE DEF d0
  <2>3. \A n \in Number : d0.air[n] # None => Told(d0, n)
    BY <2>1, <2>2 DEF Told
  <2> QED BY <2>1, <2>2, <2>3 DEF Sound, Inv, TypeOK, Counted, Gated, Dated
<1> HIDE DEF d0
<1>3. Sound(d1)
  <2>1. CASE dht = None
    BY <1>2, <2>1
  <2>2. CASE dht # None
    <3>1. /\ dht \in [temp : Nat, hum : Nat] /\ DOMAIN dht \subseteq Number
          /\ \A n \in DOMAIN dht : dht[n] \in Nat
      <4>1. dht \in [temp : Nat, hum : Nat]
        BY <2>2
      <4> QED BY <4>1 DEF Number
    <3> QED BY <1>2, <2>2, <3>1, MeasureSound
  <2> QED BY <2>1, <2>2
<1> HIDE DEF d1
<1>4. Sound(d2)
  <2>1. CASE pressure = None
    BY <1>3, <2>1
  <2>2. CASE pressure # None
    <3> DEFINE read == [pressure |-> pressure]
    <3>1. DOMAIN read \subseteq Number /\ \A n \in DOMAIN read : read[n] \in Nat
      <4>1. DOMAIN read = {"pressure"} /\ read["pressure"] = pressure
        BY Zenon
      <4>2. pressure \in Nat
        BY <2>2
      <4> HIDE DEF read
      <4> QED BY <4>1, <4>2 DEF Number
    <3> HIDE DEF read
    <3>2. Sound(Measure(d1, read, 0))
      BY <1>3, <3>1, MeasureSound
    <3> QED BY <2>2, <3>2 DEF read
  <2> QED BY <2>1, <2>2
<1> HIDE DEF d2
<1>5. PICK messages \in Seq(Message) : messages = d2.out
  BY <1>4 DEF Sound
<1>6. /\ Push(messages) /\ daemon = "up" /\ daemon' = daemon
      /\ UNCHANGED <<bodyVars, daemon, link, inbox, crashes>>
  BY <1>1, <1>5 DEF Sample
<1>7. push' \in Seq(Message) /\ Len(push') <= Hwm /\ owed' \in BOOLEAN
  BY <1>6, PushTypes DEF Inv, TypeOK
<1>8. SenseTypes'
  BY <1>6, <1>7 DEF Inv, TypeOK, SenseTypes, bodyVars
<1>9. now \in Nat /\ now' \in Nat /\ now < now'
  BY <1>1 DEF Inv, TypeOK
<1>10. Gated'
  BY <1>1, <1>4 DEF Sound, Gated, Within
<1>11. /\ air'["ts"] \in {air["ts"], now} /\ air' \in Reading /\ air'["count"] \in Nat
       /\ sent' \in [Number -> Nat \cup {None}]
       /\ air'["pressure"] # None => air'["ts"] # None
       /\ \A ts \in Stamps(messages) : ts = now /\ air'["ts"] = now
  BY <1>1, <1>4, <1>5 DEF Sound
<1>12. Ordered(messages)
  <2>1. Stamps(messages) \subseteq {now}
    BY <1>11
  <2> QED BY <1>9, <2>1, OneMoment
<1>13. /\ \A old \in Kept \cup Stamps(pull) \cup Stamps(push) :
              /\ old \in Nat /\ old < now /\ (air["ts"] # None => old <= air["ts"])
       /\ air["ts"] # None => air["ts"] \in Nat /\ air["ts"] < now
  BY DEF Inv, Dated
<1>14. /\ air'["ts"] # None => air'["ts"] < now'
       /\ \A old \in Kept \cup Stamps(pull) \cup Stamps(push) :
              /\ air'["ts"] # None => old <= air'["ts"]
              /\ \A ts \in Stamps(messages) : old <= ts
       /\ \A ts \in Stamps(messages) : ts = air'["ts"] /\ ts # None
  BY <1>9, <1>11, <1>13
<1>15. Inv'
  BY <1>1, <1>6, <1>8, <1>9, <1>10, <1>11, <1>12, <1>14, PushStep
<1>16. Telling(messages) /\ ~\E i \in 1..Len(messages) : messages[i].kind = "full"
  BY <1>4, <1>5 DEF Telling, Sound
<1>17. Want' = [n \in {m \in Number : d2.air[m] # None} |-> Near(d2.sent[n])]
  BY <1>1 DEF Want, Near, Within
<1>18. Want = [n \in {m \in Number : air[m] # None} |-> Near(sent[n])]
  BY DEF Want, Near
<1>19. DOMAIN Want' \subseteq Field
  BY <1>17 DEF Number, WeatherField
<1>20. TellsNews(messages, Want, Want')
  <2> SUFFICES ASSUME NEW n \in DOMAIN Want'
               PROVE  \/ Ends(messages, n, Want'[n])
                      \/ /\ Carrying(messages, n) = {}
                         /\ n \in DOMAIN Want /\ Want[n] \subseteq Want'[n]
    BY DEF TellsNews
  <2>1. n \in Number /\ d2.air[n] # None /\ Want'[n] = Near(d2.sent[n])
    BY <1>17
  <2>2. Told(d2, n)
    BY <1>4, <2>1 DEF Sound
  <2> QED BY <1>5, <1>18, <2>1, <2>2 DEF Told
<1> QED BY <1>6, <1>15, <1>16, <1>19, <1>20, PushSynced DEF InSync, Inv, TypeOK

-----------------------------------------------------------------------------
(* The invariant is inductive. *)
LEMMA InvNext == ASSUME Inv, InSync, [Next]_vars PROVE Inv' /\ InSync'
<1>1. CASE UNCHANGED vars
  <2>1. /\ UNCHANGED <<now, air, sent, baro, window, pull, push, picture>> /\ UNCHANGED senseVars
    BY <1>1 DEF vars, senseVars, bodyVars, wireVars
  <2>2. SenseTypes'
    BY <2>1 DEF senseVars, bodyVars, wireVars, Inv, TypeOK, SenseTypes
  <2>3. TypeOK' /\ Counted' /\ Gated'
    BY <2>1, <2>2, MemoryStays DEF Inv, TypeOK
  <2>4. Kept' = Kept /\ Steady(window)'
    BY <2>1 DEF Kept, Steady, Inv, InTime
  <2>5. InTime' /\ Dated'
    BY <2>1, <2>4, StampsPrime, StillDated DEF Inv, InTime, NoLater
  <2>6. WindowTrue'
    BY <2>1 DEF Inv, WindowTrue
  <2>7. InSync'
    BY <2>1, WantSame DEF InSync, EndsGone, Synced, UnderWay, Arrives, senseVars, bodyVars, wireVars
  <2> QED BY <2>3, <2>5, <2>6, <2>7 DEF Inv
<1> QED BY <1>1, HarnessStep, AnswerStep, BootStep, CortexBootStep, TakeAirStep, TickStep DEF Next

(* In every state: types, the gate, the order of the stamps, the window,    *)
(* and the way of every number to the cortex.                               *)
THEOREM WeatherInvariant == Spec => [](Inv /\ InSync)
BY InvInit, InvNext, PTL DEF Spec

(* Type correctness of the daemon's memory, the gate, the pipes, the       *)
(* picture and the window, for every value of the constants.               *)
THEOREM WeatherTypes == Spec => []TypeOK
<1>1. Inv => TypeOK
  BY DEF Inv
<1> QED BY <1>1, WeatherInvariant, PTL

(* "Drift below the gate is noise, not weather": with nothing under way and *)
(* nothing owed the cortex has every number measured, near the one that was *)
(* published last, as the daemon's own memory is.                           *)
THEOREM AirNearHolds == Spec => []AirNear
<1>1. ASSUME Inv, InSync PROVE AirNear
  <2> SUFFICES ASSUME Quiet, ~owed, NEW n \in Number, air[n] # None
               PROVE  /\ picture[n] # None /\ Within(air[n], sent[n])
                      /\ Within(picture[n], sent[n])
    BY DEF AirNear
  <2>1. n \in DOMAIN Want /\ Want[n] = {v \in Nat : Within(v, sent[n])}
    BY DEF Want
  <2>2. picture[n] \in Want[n]
    BY <1>1, <2>1, Settled DEF InSync
  <2> QED BY <1>1, <2>1, <2>2, SenseAssumption DEF Inv, Gated
<1> QED BY <1>1, WeatherInvariant, PTL

(* The window is at most its length and ends in the pressure on display,    *)
(* under the stamp on display, whatever was answered, lost or sent twice:   *)
(* no stamp a daemon sends is older than one it sent before.                *)
THEOREM WindowTrueHolds == Spec => []WindowTrue
<1>1. Inv => WindowTrue
  BY DEF Inv
<1> QED BY <1>1, WeatherInvariant, PTL
=============================================================================
