----------------------------- MODULE SenseProofs -----------------------------
(***************************************************************************)
(* What holds of the harness whatever the daemon measures: the pipes keep  *)
(* their types, and a reading that is pushed comes to be the cortex's own. *)
(* The daemon is a parameter: want has, for each field the cortex ought to *)
(* know, the set of numbers that will do.                                  *)
(***************************************************************************)
EXTENDS Sense, SequenceTheorems, TLAPS

(* Which messages of a flow carry the field; the last of them says a good   *)
(* number; and who takes the flow, having something, comes to have one.     *)
Carrying(flow, f) == {i \in 1..Len(flow) : flow[i].says[f] # None}

Ends(flow, f, Good) ==
    \E i \in Carrying(flow, f) :
        /\ flow[i].says[f] \in Good
        /\ \A j \in Carrying(flow, f) : j <= i

Comes(flow, has, f, Good) ==
    \/ Ends(flow, f, Good)
    \/ Carrying(flow, f) = {} /\ has[f] \in Good

-----------------------------------------------------------------------------
(* A flow and what is sent after it. *)
LEMMA SentAfter ==
    ASSUME NEW flow \in Seq(Message), NEW more \in Seq(Message), NEW f, NEW Good
    PROVE  /\ Ends(more, f, Good) => Ends(flow \o more, f, Good)
           /\ Carrying(more, f) = {} /\ Ends(flow, f, Good) => Ends(flow \o more, f, Good)
           /\ Carrying(more, f) = {} /\ Carrying(flow, f) = {} => Carrying(flow \o more, f) = {}
<1> DEFINE all == flow \o more
<1>1. /\ Len(flow) \in Nat /\ Len(more) \in Nat
      /\ Len(all) = Len(flow) + Len(more)
      /\ \A i \in 1..Len(flow) : all[i] = flow[i]
      /\ \A i \in 1..Len(more) : all[Len(flow) + i] = more[i]
  OBVIOUS
<1> HIDE DEF all
<1>2. ASSUME NEW i \in Carrying(all, f)
      PROVE  i \in Carrying(flow, f) \/ (i > Len(flow) /\ i - Len(flow) \in Carrying(more, f))
  <2>1. i \in 1..Len(all) /\ all[i].says[f] # None
    BY <1>2 DEF Carrying
  <2>2. CASE i <= Len(flow)
    BY <1>1, <2>1, <2>2 DEF Carrying
  <2>3. CASE i > Len(flow)
    <3>1. i - Len(flow) \in 1..Len(more) /\ all[i] = more[i - Len(flow)]
      BY <1>1, <2>1, <2>3
    <3> QED BY <2>1, <2>3, <3>1 DEF Carrying
  <2> QED BY <1>1, <2>1, <2>2, <2>3
<1>3. Ends(more, f, Good) => Ends(all, f, Good)
  <2> SUFFICES ASSUME NEW i \in Carrying(more, f), more[i].says[f] \in Good,
                      \A j \in Carrying(more, f) : j <= i
               PROVE  Ends(all, f, Good)
    BY DEF Ends
  <2>1. i \in 1..Len(more) /\ more[i].says[f] # None
    BY DEF Carrying
  <2>2. Len(flow) + i \in Carrying(all, f) /\ all[Len(flow) + i].says[f] \in Good
    BY <1>1, <2>1 DEF Carrying
  <2>3. ASSUME NEW j \in Carrying(all, f) PROVE j <= Len(flow) + i
    <3>1. j \in 1..Len(all)
      BY DEF Carrying
    <3>2. CASE j \in Carrying(flow, f)
      BY <1>1, <2>1, <3>2 DEF Carrying
    <3>3. CASE j - Len(flow) \in Carrying(more, f)
      BY <1>1, <2>1, <3>1, <3>3
    <3> QED BY <1>2, <3>2, <3>3
  <2> QED BY <2>2, <2>3 DEF Ends
<1>4. ASSUME Carrying(more, f) = {}, Ends(flow, f, Good) PROVE Ends(all, f, Good)
  <2>1. PICK i \in Carrying(flow, f) :
          flow[i].says[f] \in Good /\ \A j \in Carrying(flow, f) : j <= i
    BY <1>4 DEF Ends
  <2>2. i \in Carrying(all, f) /\ all[i].says[f] \in Good
    BY <1>1, <2>1 DEF Carrying
  <2> QED BY <1>2, <1>4, <2>1, <2>2 DEF Ends
<1>5. Carrying(more, f) = {} /\ Carrying(flow, f) = {} => Carrying(all, f) = {}
  BY <1>2
<1> QED BY <1>3, <1>4, <1>5 DEF all

(* The first of a flow taken and merged by presence. *)
LEMMA TakenFirst ==
    ASSUME NEW flow \in Seq(Message), flow # <<>>, NEW has, NEW has2, NEW f, NEW Good,
           has2[f] = IF Head(flow).says[f] = None THEN has[f] ELSE Head(flow).says[f],
           Comes(flow, has, f, Good)
    PROVE  Comes(Tail(flow), has2, f, Good)
<1> DEFINE rest == Tail(flow)
<1>1. /\ Len(flow) \in Nat /\ Len(flow) >= 1 /\ Head(flow) = flow[1]
      /\ Len(rest) = Len(flow) - 1
      /\ \A i \in 1..Len(rest) : rest[i] = flow[i + 1]
  BY HeadTailProperties
<1> HIDE DEF rest
<1>2. ASSUME NEW i \in Carrying(rest, f) PROVE i + 1 \in Carrying(flow, f)
  BY <1>1 DEF Carrying
<1>3. CASE Carrying(flow, f) = {} /\ has[f] \in Good
  <2>1. Carrying(rest, f) = {}
    BY <1>2, <1>3
  <2>2. Head(flow).says[f] = None
    BY <1>1, <1>3 DEF Carrying
  <2> QED BY <1>3, <2>1, <2>2 DEF Comes, rest
<1>4. CASE Ends(flow, f, Good)
  <2>1. PICK i \in Carrying(flow, f) :
          flow[i].says[f] \in Good /\ \A j \in Carrying(flow, f) : j <= i
    BY <1>4 DEF Ends
  <2>2. i \in 1..Len(flow) /\ flow[i].says[f] # None
    BY <2>1 DEF Carrying
  <2>3. CASE i = 1
    <3>1. Carrying(rest, f) = {}
      <4> SUFFICES ASSUME NEW j \in Carrying(rest, f) PROVE FALSE
        OBVIOUS
      <4>1. j \in 1..Len(rest) /\ j + 1 <= 1
        BY <1>2, <2>1, <2>3 DEF Carrying
      <4> QED BY <1>1, <4>1
    <3>2. has2[f] \in Good
      BY <1>1, <2>1, <2>2, <2>3
    <3> QED BY <3>1, <3>2 DEF Comes, rest
  <2>4. CASE i > 1
    <3>1. i - 1 \in Carrying(rest, f) /\ rest[i - 1].says[f] \in Good
      BY <1>1, <2>1, <2>2, <2>4 DEF Carrying
    <3>2. ASSUME NEW j \in Carrying(rest, f) PROVE j <= i - 1
      <4>1. j \in 1..Len(rest) /\ j + 1 <= i
        BY <1>2, <2>1 DEF Carrying
      <4> QED BY <1>1, <2>2, <4>1
    <3> QED BY <3>1, <3>2 DEF Comes, Ends, rest
  <2> QED BY <1>1, <2>2, <2>3, <2>4
<1> QED BY <1>3, <1>4 DEF Comes

(* What moves from the one pipe to the other keeps its place. *)
LEMMA CarriedOver ==
    ASSUME NEW s \in Seq(Message), NEW p \in Seq(Message), p # <<>>
    PROVE  Append(s, Head(p)) \o Tail(p) = s \o p
<1> DEFINE l == Append(s, Head(p)) \o Tail(p)
           r == s \o p
<1>1. /\ Head(p) \in Message /\ Head(p) = p[1] /\ Tail(p) \in Seq(Message)
      /\ Len(Tail(p)) = Len(p) - 1 /\ Len(p) \in Nat /\ Len(p) >= 1 /\ Len(s) \in Nat
      /\ \A i \in 1..Len(Tail(p)) : Tail(p)[i] = p[i + 1]
  BY HeadTailProperties
<1>2. /\ Append(s, Head(p)) \in Seq(Message) /\ Len(Append(s, Head(p))) = Len(s) + 1
      /\ \A i \in 1..Len(s) : Append(s, Head(p))[i] = s[i]
      /\ Append(s, Head(p))[Len(s) + 1] = Head(p)
  BY <1>1, AppendProperties
<1>3. /\ l \in Seq(Message) /\ Len(l) = Len(s) + Len(p)
      /\ \A i \in 1..Len(s) + Len(p) :
            l[i] = IF i <= Len(s) + 1 THEN Append(s, Head(p))[i] ELSE Tail(p)[i - (Len(s) + 1)]
  BY <1>1, <1>2, ConcatProperties
<1>4. /\ r \in Seq(Message) /\ Len(r) = Len(s) + Len(p)
      /\ \A i \in 1..Len(s) + Len(p) : r[i] = IF i <= Len(s) THEN s[i] ELSE p[i - Len(s)]
  BY ConcatProperties
<1> HIDE DEF l, r
<1>5. ASSUME NEW i \in 1..Len(l) PROVE l[i] = r[i]
  <2>1. i \in 1..Len(s) + Len(p)
    BY <1>3
  <2>2. CASE i <= Len(s)
    BY <1>1, <1>2, <1>3, <1>4, <2>1, <2>2
  <2>3. CASE i = Len(s) + 1
    BY <1>1, <1>2, <1>3, <1>4, <2>1, <2>3
  <2>4. CASE i > Len(s) + 1
    <3>1. l[i] = Tail(p)[i - (Len(s) + 1)] /\ r[i] = p[i - Len(s)]
      BY <1>1, <1>3, <1>4, <2>1, <2>4
    <3>2. i - (Len(s) + 1) \in 1..Len(Tail(p)) /\ (i - (Len(s) + 1)) + 1 = i - Len(s)
      BY <1>1, <2>1, <2>4
    <3>3. Tail(p)[i - (Len(s) + 1)] = p[(i - (Len(s) + 1)) + 1]
      BY <1>1, <3>2
    <3> QED BY <3>1, <3>2, <3>3
  <2> QED BY <1>1, <2>1, <2>2, <2>3, <2>4
<1> QED BY <1>3, <1>4, <1>5, SeqEqual DEF l, r

(* The first of both pipes is the first of the one that is not empty. *)
LEMMA FirstOfBoth ==
    ASSUME NEW s \in Seq(Message), NEW p \in Seq(Message), s # <<>>
    PROVE  /\ s \o p \in Seq(Message) /\ s \o p # <<>>
           /\ Head(s \o p) = Head(s) /\ Tail(s \o p) = Tail(s) \o p
<1> DEFINE all == s \o p
           rest == Tail(s) \o p
<1>1. /\ all \in Seq(Message) /\ Len(all) = Len(s) + Len(p)
      /\ \A i \in 1..Len(s) + Len(p) : all[i] = IF i <= Len(s) THEN s[i] ELSE p[i - Len(s)]
  BY ConcatProperties
<1>2. /\ Len(s) \in Nat /\ Len(p) \in Nat /\ Len(s) >= 1 /\ Head(s) = s[1]
      /\ Tail(s) \in Seq(Message) /\ Len(Tail(s)) = Len(s) - 1
      /\ \A i \in 1..Len(Tail(s)) : Tail(s)[i] = s[i + 1]
  BY HeadTailProperties
<1>3. /\ rest \in Seq(Message) /\ Len(rest) = Len(s) - 1 + Len(p)
      /\ \A i \in 1..Len(s) - 1 + Len(p) :
            rest[i] = IF i <= Len(s) - 1 THEN Tail(s)[i] ELSE p[i - (Len(s) - 1)]
  BY <1>2, ConcatProperties
<1> HIDE DEF all, rest
<1>4. all # <<>> /\ Head(all) = all[1] /\ all[1] = s[1]
  BY <1>1, <1>2
<1>5. /\ Tail(all) \in Seq(Message) /\ Len(Tail(all)) = Len(all) - 1
      /\ \A i \in 1..Len(Tail(all)) : Tail(all)[i] = all[i + 1]
  BY <1>1, <1>4, HeadTailProperties
<1>6. ASSUME NEW i \in 1..Len(rest) PROVE Tail(all)[i] = rest[i]
  <2>1. Tail(all)[i] = all[i + 1] /\ i + 1 \in 1..Len(s) + Len(p)
    BY <1>1, <1>2, <1>3, <1>5
  <2>2. CASE i <= Len(s) - 1
    BY <1>1, <1>2, <1>3, <2>1, <2>2
  <2>3. CASE i > Len(s) - 1
    <3>1. all[i + 1] = p[(i + 1) - Len(s)] /\ rest[i] = p[i - (Len(s) - 1)]
      BY <1>1, <1>2, <1>3, <2>1, <2>3
    <3>2. (i + 1) - Len(s) = i - (Len(s) - 1)
      BY <1>2, <1>3
    <3> QED BY <2>1, <3>1, <3>2
  <2>4. i <= Len(s) - 1 \/ i > Len(s) - 1
    BY <1>2, <1>3
  <2> QED BY <2>2, <2>3, <2>4
<1>7. Tail(all) = rest
  BY <1>1, <1>2, <1>3, <1>5, <1>6, SeqEqual
<1> QED BY <1>1, <1>2, <1>4, <1>7 DEF all, rest

-----------------------------------------------------------------------------
(* A pipe whose one end is gone holds nothing for it. *)
EndsGone == /\ body = "down" => pull = <<>>
            /\ daemon = "down" => push = <<>>

(* All that the cortex ought to know is in the daemon's pipe; or reaches    *)
(* the picture when both pipes are taken; or else an ask is on its way.     *)
UnderWay(want) == \A f \in DOMAIN want : Ends(push, f, want[f])

Arrives(want) == \A f \in DOMAIN want : Comes(pull \o push, picture, f, want[f])

Synced(want) ==
    daemon # "down" /\ ~owed =>
        \/ inbox > 0
        \/ body = "down" /\ (link = "lost" \/ UnderWay(want))
        \/ body = "asking" /\ asks > 0 /\ link # "new"
        \/ body # "down" /\ Arrives(want)

(* With nothing under way, what ought to be known is known. *)
LEMMA Settled ==
    ASSUME NEW want, Synced(want), Quiet, ~owed
    PROVE  \A f \in DOMAIN want : picture[f] \in want[f]
<1>1. Arrives(want)
  BY SenseAssumption DEF Quiet, Synced
<1>2. pull \o push = <<>>
  BY DEF Quiet
<1>3. \A f : Carrying(pull \o push, f) = {}
  BY <1>2 DEF Carrying
<1> QED BY <1>1, <1>3 DEF Arrives, Comes, Ends

-----------------------------------------------------------------------------
(* What Push leaves in the pipe is messages, and no more than it holds. *)
LEMMA PushTypes ==
    ASSUME SenseTypes, NEW messages \in Seq(Message), Push(messages)
    PROVE  push' \in Seq(Message) /\ Len(push') <= Hwm /\ owed' \in BOOLEAN
<1> DEFINE n == IF Len(messages) <= Room THEN Len(messages) ELSE Room
           fitting == SubSeq(messages, 1, n)
<1>1. n \in 0..Len(messages) /\ n <= Room /\ Room \in Nat /\ Room = Hwm - Len(push)
  BY SenseAssumption DEF SenseTypes, Room
<1>2. fitting \in Seq(Message) /\ Len(fitting) = n
  BY <1>1
<1>3. push' = push \o fitting
  BY DEF Push
<1>4. push' \in Seq(Message) /\ Len(push') <= Hwm
  BY <1>1, <1>2, <1>3, SenseAssumption DEF SenseTypes
<1>5. owed' \in BOOLEAN
  BY DEF Push
<1> QED BY <1>4, <1>5

(* The cortex, the wire and the crashes keep the types. *)
LEMMA HarnessTypes ==
    ASSUME SenseTypes, NEW blank \in Reading,
           BodyBoot(blank) \/ Wire \/ BodyCrash \/ DaemonCrash
    PROVE  SenseTypes'
<1> USE SenseAssumption DEF SenseTypes, bodyVars, wireVars
<1>1. CASE BodyBoot(blank)
  BY <1>1 DEF BodyBoot
<1>2. CASE Linked
  BY <1>2 DEF Linked
<1>3. CASE Ask
  BY <1>3 DEF Ask
<1>4. CASE Asked
  BY <1>4 DEF Asked
<1>5. CASE Take
  <2>1. Head(pull) \in Message /\ pull' \in Seq(Message)
    BY <1>5 DEF Take
  <2>2. picture' \in Reading
    BY <1>5, <2>1 DEF Take, Merge, Message, Reading
  <2> QED BY <1>5, <2>1, <2>2 DEF Take
<1>6. CASE Carry
  <2>1. Head(push) \in Message /\ push' \in Seq(Message) /\ Len(push') <= Hwm
    BY <1>6 DEF Carry
  <2> QED BY <1>6, <2>1 DEF Carry
<1>7. CASE BodyCrash
  BY <1>7 DEF BodyCrash, Crashing
<1>8. CASE DaemonCrash
  <2>1. push' \in Seq(Message) /\ Len(push') <= Hwm
    BY <1>8 DEF DaemonCrash
  <2>2. owed' \in BOOLEAN /\ inbox' \in Nat
    BY <1>8 DEF DaemonCrash
  <2>3. crashes' \in 0..MaxCrashes
    BY <1>8 DEF DaemonCrash, Crashing
  <2> QED BY <1>8, <2>1, <2>2, <2>3 DEF DaemonCrash
<1> QED BY <1>1, <1>2, <1>3, <1>4, <1>5, <1>6, <1>7, <1>8 DEF Wire

-----------------------------------------------------------------------------
(* What the wire and the crashes do to a daemon in step: an ask not sent    *)
(* yet is heard, a message taken leaves the rest, a crash leaves an ask.    *)
LEMMA HarnessSynced ==
    ASSUME SenseTypes, EndsGone, NEW blank, NEW want, DOMAIN want \subseteq Field, Synced(want),
           BodyBoot(blank) \/ Wire \/ BodyCrash \/ DaemonCrash
    PROVE  EndsGone' /\ Synced(want)'
<1> USE DEF bodyVars, wireVars
<1>1. CASE BodyBoot(blank)
  <2>1. EndsGone'
    BY <1>1 DEF BodyBoot, EndsGone
  <2>2. asks' > 0
    BY <1>1, SenseAssumption DEF BodyBoot
  <2>3. UnderWay(want) => Arrives(want)'
    <3>1. pull' \o push' = push
      BY <1>1 DEF BodyBoot, EndsGone, SenseTypes
    <3> QED BY <3>1 DEF UnderWay, Arrives, Comes
  <2> QED BY <1>1, <2>1, <2>2, <2>3 DEF BodyBoot, Synced
<1>2. CASE Linked
  BY <1>2 DEF Linked, EndsGone, Synced, Arrives
<1>3. CASE Ask
  <2>1. EndsGone'
    BY <1>3 DEF Ask, EndsGone
  <2>2. asks \in Nat /\ inbox \in Nat /\ asks > 0 /\ asks' = asks - 1
    BY <1>3, SenseAssumption DEF Ask, SenseTypes
  <2>3. inbox > 0 => inbox' > 0
    BY <1>3, <2>2 DEF Ask
  <2>4. ASSUME daemon # "down", link # "new" PROVE inbox' > 0 \/ asks' > 0
    <3>1. CASE asks = 1
      BY <1>3, <2>2, <2>4, <3>1 DEF Ask, SenseTypes
    <3>2. CASE asks # 1
      BY <2>2, <3>2
    <3> QED BY <3>1, <3>2
  <2>5. Arrives(want) => Arrives(want)'
    BY <1>3 DEF Ask, Arrives
  <2> QED BY <1>3, <2>1, <2>3, <2>4, <2>5 DEF Ask, Synced
<1>4. CASE Asked
  BY <1>4, SenseAssumption DEF Asked, EndsGone, Synced, Arrives
<1>5. CASE Take
  <2>1. EndsGone'
    BY <1>5 DEF Take, EndsGone
  <2>2. ASSUME Arrives(want) PROVE Arrives(want)'
    <3> SUFFICES ASSUME NEW f \in DOMAIN want
                 PROVE  Comes(pull' \o push', picture', f, want[f])
      BY DEF Arrives
    <3>1. Comes(pull \o push, picture, f, want[f])
      BY <2>2 DEF Arrives
    <3>2. /\ pull \o push \in Seq(Message) /\ pull \o push # <<>>
          /\ Head(pull \o push) = Head(pull) /\ Tail(pull \o push) = Tail(pull) \o push
      BY <1>5, FirstOfBoth DEF Take, SenseTypes
    <3>3. picture'[f] = IF Head(pull).says[f] = None THEN picture[f] ELSE Head(pull).says[f]
      BY <1>5 DEF Take, Merge
    <3>4. Comes(Tail(pull \o push), picture', f, want[f])
      BY <3>1, <3>2, <3>3, TakenFirst
    <3> QED BY <1>5, <3>2, <3>4 DEF Take
  <2> QED BY <1>5, <2>1, <2>2 DEF Take, Synced
<1>6. CASE Carry
  <2>1. EndsGone'
    <3>1. daemon # "down"
      BY <1>6 DEF Carry, EndsGone
    <3> QED BY <1>6, <3>1 DEF Carry, EndsGone
  <2>2. pull' \o push' = pull \o push
    BY <1>6, CarriedOver DEF Carry, SenseTypes
  <2> QED BY <1>6, <2>1, <2>2 DEF Carry, Synced, Arrives
<1>7. CASE BodyCrash
  BY <1>7 DEF BodyCrash, EndsGone, Synced
<1>8. CASE DaemonCrash
  BY <1>8 DEF DaemonCrash, EndsGone, Synced
<1> QED BY <1>1, <1>2, <1>3, <1>4, <1>5, <1>6, <1>7, <1>8 DEF Wire

-----------------------------------------------------------------------------
(* Only readings carry fields; an event says nothing. *)
Telling(messages) ==
    \A i \in 1..Len(messages) :
        messages[i].kind \notin {"full", "part"} => messages[i].says = Silent

(* Unless something is owed after it, a push has put every reading of its   *)
(* messages in the pipe, and a debt is only paid by a full payload.         *)
LEMMA Sent ==
    ASSUME SenseTypes, NEW messages \in Seq(Message), Telling(messages), Push(messages), ~owed'
    PROVE  /\ owed => \E i \in 1..Len(messages) : messages[i].kind = "full"
           /\ \E more \in Seq(Message) :
                /\ push' = push \o more
                /\ \A f \in Field : Carrying(more, f) = Carrying(messages, f)
                /\ \A f \in Field : \A i \in Carrying(messages, f) : more[i] = messages[i]
<1> DEFINE n == IF Len(messages) <= Room THEN Len(messages) ELSE Room
           fitting == SubSeq(messages, 1, n)
           refused == SubSeq(messages, n + 1, Len(messages))
<1>1. n \in 0..Len(messages) /\ Len(messages) \in Nat /\ Room \in Nat
  BY SenseAssumption DEF SenseTypes, Room
<1>2. /\ fitting \in Seq(Message) /\ Len(fitting) = n
      /\ \A i \in 1..n : fitting[i] = messages[i]
  BY <1>1
<1>3. /\ Len(refused) = Len(messages) - n
      /\ \A i \in 1..(Len(messages) - n) : refused[i] = messages[n + i]
  <2> HIDE DEF n
  <2>1. n + 1 \in Int /\ Len(messages) \in Int
    BY <1>1
  <2>2. \A i \in (n + 1)..Len(messages) : messages[i] \in Message
    BY <1>1
  <2>3. /\ Len(refused) = IF n + 1 <= Len(messages) THEN Len(messages) - (n + 1) + 1 ELSE 0
        /\ \A i \in 1..Len(messages) - (n + 1) + 1 : refused[i] = messages[(n + 1) + i - 1]
    BY <2>1, <2>2, SubSeqProperties
  <2> HIDE DEF refused
  <2>4. Len(messages) - (n + 1) + 1 = Len(messages) - n
    BY <1>1
  <2>5. Len(refused) = Len(messages) - n
    <3> HIDE DEF fitting
    <3>1. n <= Len(messages) /\ n \in Nat /\ Len(messages) \in Nat
      BY <1>1
    <3>2. CASE n + 1 <= Len(messages)
      BY <2>3, <2>4, <3>2
    <3>3. CASE n = Len(messages)
      <4>1. Len(refused) = 0
        BY <2>3, <3>1, <3>3
      <4> QED BY <3>1, <3>3, <4>1
    <3> QED BY <3>1, <3>2, <3>3
  <2>6. \A i \in 1..(Len(messages) - n) : refused[i] = messages[n + i]
    <3> SUFFICES ASSUME NEW i \in 1..(Len(messages) - n) PROVE refused[i] = messages[n + i]
      OBVIOUS
    <3>1. refused[i] = messages[(n + 1) + i - 1]
      BY <2>3, <2>4
    <3>2. (n + 1) + i - 1 = n + i
      BY <1>1
    <3> QED BY <3>1, <3>2
  <2> QED BY <2>5, <2>6
<1> HIDE DEF n
<1>4. /\ push' = push \o fitting
      /\ ~\E i \in 1..Len(refused) : refused[i].kind \in {"full", "part"}
      /\ owed => \E i \in 1..Len(fitting) : fitting[i].kind \in {"full"}
  <2> USE DEF n
  <2>1. Len(fitting) = n
    BY <1>2
  <2>2. n = IF Len(messages) <= Room THEN Len(messages) ELSE Room
    OBVIOUS
  <2> QED BY <2>1 DEF Push
<1> HIDE DEF fitting, refused
<1>5. owed => \E i \in 1..Len(messages) : messages[i].kind = "full"
  BY <1>1, <1>2, <1>4
<1>6. ASSUME NEW f \in Field, NEW i \in 1..Len(messages), messages[i].says[f] # None
      PROVE  i \in 1..n
  <2>1. messages[i].kind \in {"full", "part"}
    BY <1>6 DEF Telling, Silent
  <2>2. CASE i > n
    <3>1. i - n \in 1..(Len(messages) - n) /\ n + (i - n) = i
      BY <1>1, <1>6, <2>2
    <3>2. refused[i - n] = messages[i] /\ i - n \in 1..Len(refused)
      BY <1>3, <3>1
    <3> QED BY <1>4, <2>1, <3>2
  <2> QED BY <1>1, <2>2
<1>7. ASSUME NEW f \in Field
      PROVE  /\ Carrying(fitting, f) = Carrying(messages, f)
             /\ \A i \in Carrying(messages, f) : fitting[i] = messages[i]
  <2>1. Carrying(messages, f) \subseteq Carrying(fitting, f)
    BY <1>2, <1>6 DEF Carrying
  <2>2. Carrying(fitting, f) \subseteq Carrying(messages, f)
    BY <1>1, <1>2 DEF Carrying
  <2>3. \A i \in Carrying(messages, f) : fitting[i] = messages[i]
    BY <1>2, <1>6 DEF Carrying
  <2> QED BY <2>1, <2>2, <2>3
<1> QED BY <1>2, <1>4, <1>5, <1>7

(* Every field the cortex ought to know is told by these messages. *)
TellsAll(messages, want) == \A f \in DOMAIN want : Ends(messages, f, want[f])

(* A field is told by these messages, or was good enough and is left alone. *)
TellsNews(messages, want, next) ==
    \A f \in DOMAIN next :
        \/ Ends(messages, f, next[f])
        \/ /\ Carrying(messages, f) = {}
           /\ f \in DOMAIN want /\ want[f] \subseteq next[f]

(* A push keeps the daemon in step, by telling everything or by telling     *)
(* what has changed; and what pays a debt has to tell everything.           *)
LEMMA PushSynced ==
    ASSUME SenseTypes, NEW messages \in Seq(Message), Telling(messages), Push(messages),
           NEW want, NEW next, DOMAIN next \subseteq Field,
           daemon' # "down", EndsGone, UNCHANGED bodyVars,
           \/ TellsAll(messages, next)
           \/ /\ Synced(want) /\ TellsNews(messages, want, next)
              /\ daemon # "down" /\ UNCHANGED <<link, inbox>>
              /\ (\E i \in 1..Len(messages) : messages[i].kind = "full") => TellsAll(messages, next)
    PROVE  EndsGone' /\ Synced(next)'
<1>1. EndsGone'
  BY DEF EndsGone, bodyVars
<1> SUFFICES ASSUME ~owed' PROVE Synced(next)'
  BY <1>1 DEF Synced
<1>2. /\ owed => \E i \in 1..Len(messages) : messages[i].kind = "full"
      /\ \E more \in Seq(Message) :
            /\ push' = push \o more
            /\ \A f \in Field : Carrying(more, f) = Carrying(messages, f)
            /\ \A f \in Field : \A i \in Carrying(messages, f) : more[i] = messages[i]
  BY Sent
<1>3. PICK more \in Seq(Message) :
            /\ push' = push \o more
            /\ \A f \in Field : Carrying(more, f) = Carrying(messages, f)
            /\ \A f \in Field : \A i \in Carrying(messages, f) : more[i] = messages[i]
  BY <1>2
<1>4. ASSUME NEW f \in Field, NEW Good, Ends(messages, f, Good) PROVE Ends(more, f, Good)
  BY <1>3, <1>4 DEF Ends
<1>5. pull \in Seq(Message) /\ push \in Seq(Message)
  BY DEF SenseTypes
<1>6. pull' \o push' = (pull \o push) \o more /\ pull \o push \in Seq(Message)
  <2>1. pull' = pull /\ push' = push \o more
    BY <1>3 DEF bodyVars
  <2>2. ASSUME NEW l \in Seq(Message), NEW p \in Seq(Message), NEW q \in Seq(Message)
        PROVE  l \o (p \o q) = (l \o p) \o q /\ l \o p \in Seq(Message)
    OBVIOUS
  <2>3. pull \o (push \o more) = (pull \o push) \o more /\ pull \o push \in Seq(Message)
    <3>1. more \in Seq(Message)
      OBVIOUS
    <3> HIDE DEF Message
    <3> QED BY <1>5, <2>2, <3>1, Zenon
  <2>4. pull' \o push' = pull \o (push \o more)
    BY <2>1, Zenon
  <2> QED BY <2>3, <2>4, Zenon
<1>7. ASSUME TellsAll(messages, next) PROVE Synced(next)'
  <2>1. \A f \in DOMAIN next : Ends(push', f, next[f])
    BY <1>3, <1>4, <1>5, <1>7, SentAfter DEF TellsAll
  <2>2. \A f \in DOMAIN next : Ends(pull' \o push', f, next[f])
    BY <1>4, <1>6, <1>7, SentAfter DEF TellsAll
  <2> QED BY <2>1, <2>2 DEF Synced, UnderWay, Arrives, Comes
<1>8. ASSUME ~TellsAll(messages, next) PROVE Synced(next)'
  <2>1. /\ Synced(want) /\ TellsNews(messages, want, next) /\ daemon # "down" /\ ~owed
        /\ UNCHANGED <<link, inbox>>
    BY <1>2, <1>8
  <2>2. ASSUME NEW f \in DOMAIN next
        PROVE  \/ Ends(more, f, next[f])
               \/ Carrying(more, f) = {} /\ f \in DOMAIN want /\ want[f] \subseteq next[f]
    BY <1>3, <1>4, <2>1 DEF TellsNews
  <2>3. ASSUME UnderWay(want) PROVE UnderWay(next)'
    <3> SUFFICES ASSUME NEW f \in DOMAIN next PROVE Ends(push', f, next[f])
      BY DEF UnderWay
    <3>1. CASE Ends(more, f, next[f])
      BY <1>3, <1>5, <3>1, SentAfter
    <3>2. CASE Carrying(more, f) = {} /\ f \in DOMAIN want /\ want[f] \subseteq next[f]
      <4>1. Ends(push, f, next[f])
        BY <2>3, <3>2 DEF UnderWay, Ends
      <4> QED BY <1>3, <1>5, <3>2, <4>1, SentAfter
    <3> QED BY <2>2, <3>1, <3>2
  <2>4. ASSUME Arrives(want) PROVE Arrives(next)'
    <3> SUFFICES ASSUME NEW f \in DOMAIN next
                 PROVE  Comes(pull' \o push', picture', f, next[f])
      BY DEF Arrives
    <3>1. CASE Ends(more, f, next[f])
      BY <1>6, <3>1, SentAfter DEF Comes
    <3>2. CASE Carrying(more, f) = {} /\ f \in DOMAIN want /\ want[f] \subseteq next[f]
      <4>1. Comes(pull \o push, picture, f, next[f])
        BY <2>4, <3>2 DEF Arrives, Comes, Ends
      <4> QED BY <1>6, <3>2, <4>1, SentAfter DEF Comes, bodyVars
    <3> QED BY <2>2, <3>1, <3>2
  <2> QED BY <2>1, <2>3, <2>4 DEF Synced, bodyVars
<1> QED BY <1>7, <1>8

(* The first of these messages alone carries anything. *)
LEMMA FirstTells ==
    ASSUME NEW messages \in Seq(Message), messages # <<>>, NEW f, NEW Good,
           \A i \in 1..Len(messages) : i > 1 => messages[i].says[f] = None
    PROVE  /\ messages[1].says[f] # None /\ messages[1].says[f] \in Good => Ends(messages, f, Good)
           /\ messages[1].says[f] = None => Carrying(messages, f) = {}
<1>1. Len(messages) \in Nat /\ Len(messages) >= 1
  OBVIOUS
<1>2. \A i \in Carrying(messages, f) : i = 1
  BY <1>1 DEF Carrying
<1> QED BY <1>1, <1>2 DEF Carrying, Ends

(* The payload of a push of one full message: what it keeps of the types,   *)
(* of the debt and, if it tells what is wanted, of the synchrony.           *)
LEMMA FullPush ==
    ASSUME SenseTypes, EndsGone, NEW reading \in Reading, Push(<<Full(reading)>>),
           daemon' # "down", UNCHANGED bodyVars,
           NEW next, DOMAIN next \subseteq Field,
           \A f \in DOMAIN next : reading[f] # None /\ reading[f] \in next[f]
    PROVE  /\ push' \in Seq(Message) /\ Len(push') <= Hwm /\ owed' \in BOOLEAN
           /\ Len(<<Full(reading)>>) <= Room => ~owed'
           /\ EndsGone' /\ Synced(next)'
<1>1. PICK messages \in Seq(Message) : messages = <<Full(reading)>>
  <2>1. Full(reading) \in Message
    BY DEF Full, Message
  <2>2. <<Full(reading)>> \in Seq(Message)
    BY <2>1
  <2> QED BY <2>2
<1>2. /\ Len(messages) = 1 /\ messages # <<>> /\ messages[1] = Full(reading)
      /\ messages[1].kind = "full" /\ messages[1].says = reading
  BY <1>1 DEF Full
<1>3. push' \in Seq(Message) /\ Len(push') <= Hwm /\ owed' \in BOOLEAN
  BY <1>1, PushTypes
<1>4. Len(messages) <= Room => ~owed'
  <2> SUFFICES ASSUME Len(messages) <= Room PROVE ~owed'
    OBVIOUS
  <2> DEFINE fitting == SubSeq(messages, 1, Len(messages))
             refused0 == SubSeq(messages, Len(fitting) + 1, Len(messages))
  <2>1. fitting = messages
    BY <1>2
  <2>2. refused0 = <<>>
    BY <1>2, <2>1
  <2>3. owed' = (\/ \E i \in 1..Len(refused0) : refused0[i].kind \in {"full", "part"}
                 \/ owed /\ ~\E i \in 1..Len(fitting) : fitting[i].kind \in {"full"})
    BY <1>1 DEF Push
  <2> HIDE DEF fitting, refused0
  <2>4. ~\E i \in 1..Len(refused0) : refused0[i].kind \in {"full", "part"}
    BY <2>2
  <2>5. \E i \in 1..Len(fitting) : fitting[i].kind \in {"full"}
    BY <1>2, <2>1
  <2> QED BY <2>3, <2>4, <2>5
<1>5. Telling(messages)
  BY <1>2 DEF Telling
<1>6. TellsAll(messages, next)
  <2> SUFFICES ASSUME NEW f \in DOMAIN next PROVE Ends(messages, f, next[f])
    BY DEF TellsAll
  <2>1. \A i \in 1..Len(messages) : i > 1 => messages[i].says[f] = None
    BY <1>2
  <2> QED BY <1>2, <2>1, FirstTells
<1>7. EndsGone' /\ Synced(next)'
  BY <1>1, <1>5, <1>6, PushSynced
<1> QED BY <1>1, <1>3, <1>4, <1>7

(* A push of nothing. *)
LEMMA NoPush ==
    ASSUME SenseTypes, Push(<<>>)
    PROVE  push' = push /\ (owed' <=> owed) /\ Len(<<>>) <= Room
<1>1. Room \in Nat
  BY SenseAssumption DEF SenseTypes, Room
<1>2. PICK messages \in Seq(Message) : messages = <<>>
  <2>1. <<>> \in Seq(Message)
    OBVIOUS
  <2> QED BY <2>1
<1>3. Len(messages) = 0 /\ SubSeq(messages, 1, 0) = <<>> /\ SubSeq(messages, 1, Len(messages)) = <<>>
  BY <1>2
<1> QED BY <1>1, <1>2, <1>3 DEF Push, SenseTypes
=============================================================================
