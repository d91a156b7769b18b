----------------------------- MODULE SonarProofs -----------------------------
(***************************************************************************)
(* The range the cortex has is that of the wall to a move or two, and what *)
(* a full pipe refused is made good by the silence, for any gate, any      *)
(* silence, any ranges and bounds and a pipe of any length.                *)
(***************************************************************************)
EXTENDS Sonar, SenseProofs

(* The counter is a number. *)
Counted == snr["count"] \in Nat

(* The gate remembers a publish as soon as anything was read, and holds     *)
(* back only what is near it, and not for long.                             *)
Gated == /\ snr["cm"] # None <=> last_pub.cm # None
         /\ snr["cm"] # None => Within(snr["cm"])
         /\ snr["ts"] # None /\ QuietS > 0 =>
                last_pub.ts # None /\ snr["ts"] - last_pub.ts < QuietS

(* What is published after a refusal pays for it. *)
Paid == last_pub.ts # None => last_pub.ts < now /\ (last_pub.ts > refused => ~owed)

Inv == TypeOK /\ Counted /\ Gated /\ Paid

(* What the cortex ought to know: a range near the one published last. *)
Want == [f \in {g \in {"cm"} : snr[g] # None} |-> {cm \in Nat : Within(cm)}]

InSync == EndsGone /\ Synced(Want)

-----------------------------------------------------------------------------
(* The first state. *)
LEMMA InvInit == ASSUME Init PROVE Inv /\ InSync
<1> USE SenseAssumption, SonarAssumption
<1>1. /\ Blank \in Reading /\ Blank["count"] = 0 /\ Blank["cm"] = None /\ Blank["ts"] = None
  BY DEF Blank, Silent, Reading, SonarField
<1>2. pull \in Seq(Message) /\ push \in Seq(Message) /\ Len(push) <= Hwm
  BY DEF Init, SenseInit
<1>3. owed \in BOOLEAN
  BY DEF Init, SenseInit
<1>4. SenseTypes
  BY <1>1, <1>2, <1>3 DEF Init, SenseInit, SenseTypes
<1>5. TypeOK
  BY <1>1, <1>4 DEF Init, TypeOK, NoPub
<1>6. Counted /\ Gated /\ Paid
  BY <1>1 DEF Init, Counted, Gated, Paid, NoPub
<1>7. InSync
  BY DEF Init, SenseInit, InSync, EndsGone, Synced
<1> QED BY <1>5, <1>6, <1>7 DEF Inv

(* The memory and the gate as they were ask for what they asked for. *)
LEMMA WantSame == ASSUME UNCHANGED <<snr, last_pub>> PROVE Want' = Want
BY DEF Want, Within

(* The cortex, the wire and the crashes. *)
LEMMA HarnessStep ==
    ASSUME Inv, InSync, BodyBoot(Blank) \/ Wire \/ BodyCrash \/ DaemonCrash,
           UNCHANGED <<now, snr, last_pub, refused>>
    PROVE  Inv' /\ InSync'
<1>1. Blank \in Reading
  BY SenseAssumption, SonarAssumption DEF Blank, Silent, Reading, SonarField
<1>2. SenseTypes'
  BY <1>1, HarnessTypes DEF Inv, TypeOK
<1>3. owed' => owed
  BY SenseAssumption DEF BodyBoot, Wire, Linked, Ask, Asked, Take, Carry, BodyCrash,
                         DaemonCrash, bodyVars, wireVars
<1>4. Inv'
  BY <1>2, <1>3 DEF Inv, TypeOK, Counted, Gated, Paid, Within, Reading
<1>5. Want' = Want
  BY WantSame
<1>6. DOMAIN Want \subseteq Field
  BY SonarAssumption DEF Want, SonarField
<1>7. EndsGone' /\ Synced(Want)'
  BY <1>5, <1>6, HarnessSynced DEF InSync, Inv, TypeOK
<1> QED BY <1>4, <1>7 DEF InSync

-----------------------------------------------------------------------------
(* A fresh daemon: nothing read, nothing to know, and nothing owed. *)
LEMMA BootStep == ASSUME Inv, InSync, Boot PROVE Inv' /\ InSync'
<1> USE SenseAssumption, SonarAssumption
<1>1. /\ Blank \in Reading /\ Blank["count"] = 0 /\ Blank["cm"] = None /\ Blank["ts"] = None
      /\ Silent \in Reading
  BY DEF Blank, Silent, Reading, SonarField
<1>2. PICK messages \in Seq(Message) : messages = <<Full(Blank), Event("boot")>>
  <2>1. Full(Blank) \in Message /\ Event("boot") \in Message
    BY <1>1 DEF Full, Event, Message
  <2>2. <<Full(Blank), Event("boot")>> \in Seq(Message)
    BY <2>1
  <2> QED BY <2>2
<1>3. /\ Push(messages) /\ daemon' = "up" /\ UNCHANGED <<bodyVars, crashes>>
      /\ link' = "new" /\ inbox' = 0
      /\ snr' = Blank /\ last_pub' = NoPub /\ UNCHANGED <<now, refused>>
  BY <1>2 DEF Boot, Start
<1>4. push' \in Seq(Message) /\ Len(push') <= Hwm /\ owed' \in BOOLEAN
  BY <1>3, PushTypes DEF Inv, TypeOK
<1>5. SenseTypes'
  BY <1>3, <1>4 DEF Inv, TypeOK, SenseTypes, bodyVars
<1>6. Inv'
  BY <1>1, <1>3, <1>5 DEF Inv, TypeOK, Counted, Gated, Paid, NoPub
<1>7. Len(messages) = 2 /\ messages[1].kind = "full" /\ messages[2].says = Silent
  BY <1>2 DEF Full, Event
<1>8. Telling(messages)
  BY <1>7 DEF Telling
<1>9. DOMAIN Want' = {} /\ TellsAll(messages, Want')
  BY <1>1, <1>3 DEF Want, TellsAll
<1> QED BY <1>3, <1>6, <1>8, <1>9, PushSynced DEF InSync, Inv, TypeOK

(* An answer tells the range the gate may have held back; a refused one is  *)
(* newer than any publish.                                                  *)
LEMMA AnswerStep ==
    ASSUME Inv, InSync, Answer(snr), Refusal(<<Full(snr)>>), UNCHANGED <<now, snr, last_pub>>
    PROVE  Inv' /\ InSync'
<1>1. Want' = Want
  BY WantSame
<1>2. /\ snr \in Reading /\ Push(<<Full(snr)>>) /\ daemon' # "down" /\ UNCHANGED bodyVars
      /\ inbox' = inbox - 1 /\ inbox > 0 /\ UNCHANGED <<daemon, link, crashes>>
  BY DEF Answer, Inv, TypeOK
<1>3. DOMAIN Want \subseteq Field
  BY SonarAssumption DEF Want, SonarField
<1>4. ASSUME NEW f \in DOMAIN Want PROVE snr[f] # None /\ snr[f] \in Want[f]
  BY SonarAssumption DEF Want, Gated, Inv, TypeOK, Reading, SonarField
<1>5. /\ push' \in Seq(Message) /\ Len(push') <= Hwm /\ owed' \in BOOLEAN
      /\ Len(<<Full(snr)>>) <= Room => ~owed'
      /\ EndsGone' /\ Synced(Want)'
  BY <1>1, <1>2, <1>3, <1>4, FullPush DEF InSync, Inv, TypeOK
<1>6. SenseTypes'
  BY <1>2, <1>5 DEF Inv, TypeOK, SenseTypes, bodyVars
<1>7. Paid'
  <2>1. CASE Len(<<Full(snr)>>) <= Room
    BY <1>5, <2>1 DEF Paid, Inv
  <2>2. CASE ~(Len(<<Full(snr)>>) <= Room)
    <3>1. refused' = now
      BY <2>2, SenseAssumption DEF Refusal, Room, Inv, TypeOK, SenseTypes
    <3> QED BY <3>1 DEF Paid, Inv, TypeOK
  <2> QED BY <2>1, <2>2
<1>8. TypeOK' /\ Counted' /\ Gated'
  BY <1>6 DEF Inv, TypeOK, Counted, Gated, Within, Refusal, Reading
<1> QED BY <1>5, <1>7, <1>8 DEF Inv, InSync

(* A ping that measures: news is published whole and pays every debt that   *)
(* the pipe lets it pay; what is no news is near the last publish.          *)
LEMMA PingStep == ASSUME Inv, InSync, NEW cm \in Ranges, Ping(cm) PROVE Inv' /\ InSync'
<1> USE SenseAssumption, SonarAssumption
<1> DEFINE measured == [cm |-> cm, count |-> snr["count"] + 1, ts |-> now]
           news == moved(cm) \/ stale
<1>1. /\ now \in Nat /\ snr["count"] \in Nat /\ cm \in Nat
      /\ QuietS \in Nat /\ MoveCm \in Nat
  BY DEF Inv, TypeOK, Counted
<1>2. /\ measured \in Reading /\ measured["cm"] = cm /\ measured["ts"] = now
      /\ measured["count"] \in Nat
  BY <1>1 DEF Reading, SonarField
<1>3. /\ now' = now + 1 /\ snr' = measured
      /\ last_pub' = IF news THEN [cm |-> cm, ts |-> now] ELSE last_pub
      /\ daemon = "up" /\ inbox = 0 /\ UNCHANGED <<bodyVars, daemon, link, inbox, crashes>>
  BY DEF Ping, Sample
<1>4. news \/ ~news
  OBVIOUS
<1>5. ~news => last_pub.cm # None /\ Within(cm) /\ last_pub.ts # None
               /\ (QuietS > 0 => now - last_pub.ts < QuietS)
  <2> SUFFICES ASSUME ~moved(cm), ~stale
               PROVE  /\ last_pub.cm # None /\ Within(cm) /\ last_pub.ts # None
                      /\ QuietS > 0 => now - last_pub.ts < QuietS
    OBVIOUS
  <2>1. last_pub.cm \in Nat /\ last_pub.ts \in Nat /\ last_pub.cm # None /\ last_pub.ts # None
    BY DEF moved, stale, Inv, TypeOK
  <2>2. ~(Distance(last_pub.cm, cm) >= MoveCm)
    BY DEF moved
  <2>3. Distance(cm, last_pub.cm) < MoveCm
    BY <1>1, <2>1, <2>2 DEF Distance
  <2>4. QuietS > 0 => now - last_pub.ts < QuietS
    BY <1>1, <2>1 DEF stale
  <2> QED BY <2>1, <2>3, <2>4 DEF Within
<1>6. news => /\ Push(<<Full(measured)>>) /\ Refusal(<<Full(measured)>>)
  BY DEF Ping, Sample
<1>7. ~news => /\ Push(<<>>) /\ Refusal(<<>>)
  BY DEF Ping, Sample
<1> HIDE DEF measured, news
<1>8. CASE news
  <2>1. last_pub' = [cm |-> cm, ts |-> now] /\ last_pub'.cm = cm /\ last_pub'.ts = now
    BY <1>3, <1>8
  <2>2. Want' = [f \in {"cm"} |-> {c \in Nat : Within(c)'}] /\ Within(cm)'
    BY <1>1, <1>2, <1>3, <2>1 DEF Want, Within
  <2>3. DOMAIN Want' \subseteq Field
    BY <2>2 DEF SonarField
  <2>4. ASSUME NEW f \in DOMAIN Want' PROVE measured[f] # None /\ measured[f] \in Want'[f]
    BY <1>1, <1>2, <2>2
  <2>5. /\ push' \in Seq(Message) /\ Len(push') <= Hwm /\ owed' \in BOOLEAN
        /\ Len(<<Full(measured)>>) <= Room => ~owed'
        /\ EndsGone' /\ Synced(Want)'
    BY <1>2, <1>3, <1>6, <1>8, <2>3, <2>4, FullPush DEF InSync, Inv, TypeOK
  <2>6. SenseTypes'
    BY <1>3, <2>5 DEF Inv, TypeOK, SenseTypes, bodyVars
  <2>7. refused' \in Nat /\ (last_pub'.ts > refused' => Len(<<Full(measured)>>) <= Room)
    <3>1. CASE Len(<<Full(measured)>>) <= Room
      BY <1>6, <1>8, <3>1 DEF Refusal, Inv, TypeOK, Room, SenseTypes
    <3>2. CASE ~(Len(<<Full(measured)>>) <= Room)
      <4>1. refused' = now
        BY <1>6, <1>8, <3>2 DEF Refusal, Inv, TypeOK, Room, SenseTypes
      <4> QED BY <1>1, <2>1, <4>1
    <3> QED BY <3>1, <3>2
  <2>8. TypeOK'
    BY <1>1, <1>2, <1>3, <2>1, <2>6, <2>7 DEF TypeOK
  <2>9. Counted' /\ Gated' /\ Paid'
    BY <1>1, <1>2, <1>3, <2>1, <2>2, <2>5, <2>7 DEF Counted, Gated, Paid
  <2> QED BY <2>5, <2>8, <2>9 DEF Inv, InSync
<1>9. CASE ~news
  <2>1. push' = push /\ (owed' <=> owed) /\ Len(<<>>) <= Room
    BY <1>7, <1>9, NoPush DEF Inv, TypeOK
  <2>2. last_pub' = last_pub /\ refused' = refused
    <3>1. ~(Len(<<>>) > Room)
      BY <2>1 DEF Room, Inv, TypeOK, SenseTypes
    <3> QED BY <1>3, <1>7, <1>9, <3>1 DEF Refusal
  <2>3. owed' \in BOOLEAN
    BY <1>7, <1>9 DEF Push
  <2>4. SenseTypes'
    BY <1>3, <2>1, <2>3 DEF Inv, TypeOK, SenseTypes, bodyVars
  <2>5. TypeOK'
    BY <1>1, <1>2, <1>3, <2>2, <2>4 DEF TypeOK, Inv
  <2>6. Counted' /\ Gated' /\ Paid'
    BY <1>1, <1>2, <1>3, <1>5, <1>9, <2>1, <2>2 DEF Counted, Gated, Paid, Within, Inv, TypeOK
  <2>7. Want' = Want
    <3>1. snr["cm"] # None /\ snr'["cm"] # None
      BY <1>1, <1>2, <1>3, <1>5, <1>9 DEF Inv, Gated
    <3> QED BY <2>2, <3>1 DEF Want, Within
  <2>8. EndsGone' /\ Synced(Want)'
    BY <1>3, <2>1, <2>7 DEF InSync, EndsGone, Synced, UnderWay, Arrives, bodyVars
  <2> QED BY <2>5, <2>6, <2>8 DEF Inv, InSync
<1> QED BY <1>4, <1>8, <1>9

(* A ping that hears nothing. *)
LEMMA PingLostStep == ASSUME Inv, InSync, PingLost PROVE Inv' /\ InSync'
<1>1. /\ push' = push /\ (owed' <=> owed) /\ owed' \in BOOLEAN
      /\ now' = now + 1 /\ UNCHANGED <<snr, last_pub, refused>>
      /\ UNCHANGED <<bodyVars, daemon, link, inbox, crashes>>
  <2>1. owed' \in BOOLEAN
    BY DEF PingLost, Sample, Push
  <2> QED BY <2>1, NoPush DEF PingLost, Sample, Inv, TypeOK
<1>2. SenseTypes'
  BY <1>1 DEF Inv, TypeOK, SenseTypes, bodyVars
<1>3. Inv'
  BY <1>1, <1>2 DEF Inv, TypeOK, Counted, Gated, Within, Paid, Reading
<1>4. Want' = Want
  BY <1>1, WantSame
<1>5. InSync'
  BY <1>1, <1>4 DEF InSync, EndsGone, Synced, UnderWay, Arrives, bodyVars
<1> QED BY <1>3, <1>5

(* The invariant is inductive. *)
LEMMA InvNext == ASSUME Inv, InSync, [Next]_vars PROVE Inv' /\ InSync'
<1>1. CASE UNCHANGED vars
  <2>1. Want' = Want
    BY <1>1, WantSame DEF vars
  <2> QED BY <1>1, <2>1 DEF vars, senseVars, bodyVars, wireVars, InSync, EndsGone, Synced,
                            UnderWay, Arrives, Inv, TypeOK, SenseTypes, Counted, Gated,
                            Within, Paid, Reading
<1> QED BY <1>1, HarnessStep, AnswerStep, BootStep, PingLostStep, PingStep DEF Next

-----------------------------------------------------------------------------
(* In every state: types, the gate, what was paid, and the way to the cortex. *)
THEOREM SonarInvariant == Spec => [](Inv /\ InSync)
BY InvInit, InvNext, PTL DEF Spec

(* Type correctness of the daemon's memory, the gate, the pipes and the    *)
(* picture, for every value of the constants.                              *)
THEOREM SonarTypes == Spec => []TypeOK
<1>1. Inv => TypeOK
  BY DEF Inv
<1> QED BY <1>1, SonarInvariant, PTL

(* With nothing under way and nothing owed the cortex was told. *)
LEMMA InSyncTold == ASSUME Inv, InSync, Quiet, ~owed PROVE Told
<1> SUFFICES ASSUME snr["cm"] # None
             PROVE  picture["cm"] # None /\ Within(snr["cm"]) /\ Within(picture["cm"])
  BY DEF Told
<1>1. picture["cm"] \in Want["cm"]
  BY Settled DEF InSync, Want
<1> QED BY <1>1, SenseAssumption DEF Want, Inv, Gated

(* "Slow creep surfaces": with nothing under way and nothing owed, the     *)
(* range of the memory and that of the cortex are near the one published.  *)
THEOREM SonarNearHolds == Spec => []SonarNear
<1>1. Inv /\ InSync => SonarNear
  BY InSyncTold DEF SonarNear
<1> QED BY <1>1, SonarInvariant, PTL

(* "30 s of silence must republish": so they are, owed or not, once a ping *)
(* is heard that long after the last refusal.                              *)
THEOREM HealsHolds == Spec => []Heals
<1>1. ASSUME Inv, InSync PROVE Heals
  <2> SUFFICES ASSUME Quiet, QuietS > 0, snr["ts"] # None, snr["ts"] >= refused + QuietS
               PROVE  Told
    BY DEF Heals
  <2>1. last_pub.ts # None /\ snr["ts"] - last_pub.ts < QuietS
    BY <1>1 DEF Inv, Gated
  <2>2. /\ last_pub.ts \in Nat /\ snr["ts"] \in Nat /\ refused \in Nat /\ QuietS \in Nat
    BY <1>1, <2>1, SonarAssumption DEF Inv, TypeOK, Reading, SonarField
  <2>3. last_pub.ts > refused
    BY <2>1, <2>2
  <2>4. ~owed
    BY <1>1, <2>1, <2>3 DEF Inv, Paid
  <2> QED BY <1>1, <2>4, InSyncTold
<1> QED BY <1>1, SonarInvariant, PTL
-----------------------------------------------------------------------------
Chip == INSTANCE Chips WITH Nothing <- None

(* What a ping measures is the range of the echo to the centimetre, never   *)
(* more than 517, or nothing, whatever the pin does and however long the    *)
(* waits (measure of loa-sonar).                                            *)
THEOREM EchoIsRange == \A pin, rises \in Nat, high \in Nat : Chip!EchoOrNothing(pin, rises, high)
<1> SUFFICES ASSUME NEW pin, NEW rises \in Nat, NEW high \in Nat
             PROVE  Chip!EchoOrNothing(pin, rises, high)
  OBVIOUS
<1>1. CASE pin # "error" /\ high # 0 /\ rises <= 30000 /\ high <= 30000
  <2>1. Chip!measure(pin, rises, high) = high \div 58
    BY <1>1 DEF Chip!measure, Chip!ECHO_TIMEOUT, Chip!US_PER_CM
  <2>2. high \div 58 \in 0..517 /\ high - 58 * (high \div 58) \in 0..57
    BY <1>1
  <2> QED BY <1>1, <2>1, <2>2 DEF Chip!EchoOrNothing, Chip!ECHO_TIMEOUT, Chip!US_PER_CM
<1>2. CASE ~(pin # "error" /\ high # 0 /\ rises <= 30000 /\ high <= 30000)
  <2>1. Chip!measure(pin, rises, high) = None
    BY <1>2 DEF Chip!measure, Chip!ECHO_TIMEOUT
  <2> QED BY <1>2, <2>1 DEF Chip!EchoOrNothing, Chip!ECHO_TIMEOUT
<1> QED BY <1>1, <1>2

(* A word of the environment or the file, and a value of the file           *)
SettingText == [num : Nat \cup {None}, padded : BOOLEAN, off : BOOLEAN]
SettingValue == [kind : {"text"}, is : SettingText] \cup [kind : {"bool"}, is : BOOLEAN]
                \cup [kind : {"number"}, is : Nat, spelt : SettingText] \cup [kind : {"other"}]

(* A daemon that the file or the environment switches off stays off, and a  *)
(* word that is no number does not disturb the file's (setting of           *)
(* loa-sense, for any words, values and defaults).                          *)
THEOREM OffStaysOff ==
    ASSUME None \notin SettingText
    PROVE  \A env \in SettingText \cup {None}, conf \in SettingValue, default \in BOOLEAN :
               Chip!OffStays(env, conf, default)
<1> SUFFICES ASSUME NEW env \in SettingText \cup {None}, NEW conf \in SettingValue,
                    NEW default \in BOOLEAN
             PROVE  Chip!OffStays(env, conf, default)
  OBVIOUS
<1> USE DEF SettingText, SettingValue, Chip!OffStays, Chip!setting, Chip!setting_bool, Chip!truthy
<1>1. CASE conf.kind = "text"
  BY <1>1
<1>2. CASE conf.kind = "bool"
  BY <1>2
<1>3. CASE conf.kind = "number"
  BY <1>3
<1>4. CASE conf.kind = "other"
  BY <1>4
<1> QED BY <1>1, <1>2, <1>3, <1>4
=============================================================================
