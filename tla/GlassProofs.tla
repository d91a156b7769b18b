----------------------------- MODULE GlassProofs ----------------------------
(***************************************************************************)
(* The panel daemon, for any times of wash and timer, any modes a state    *)
(* message may name and any number of refused writes: the chip has what    *)
(* was sent last, a wash is never late for a face, and a pain hands the    *)
(* face back.                                                              *)
(***************************************************************************)
EXTENDS Glass, SequenceTheorems, TLAPS

HeldType == [mode : Mode, page : Page, dim : BOOLEAN, flip : BOOLEAN,
             word : {"well", "hurts"}, seen : BOOLEAN, dark : BOOLEAN]
ToldType == [flip : BOOLEAN, contrast : {DIM, BRIGHT}]
PanelType == [picture : Frame, seg : {"A0", "A1"}, com : {"C0", "C8"}, contrast : {DIM, BRIGHT}]

(* The newest frame under way is the last sent. *)
Newest == queue # <<>> => queue[Len(queue)] = last

(* What the driver remembers of the contrast is what the chip has. *)
Remembers == told.contrast = panel.contrast

(* The wash is due its period after the last one began. *)
Period == next_wash = washed + Every

IsFace(frame) == frame.mode \notin {"off", "wash"}

(* While a face is shown the timer does not sleep over its wash by more     *)
(* than its slack ...                                                       *)
Woken == IsFace(last.frame) => wake <= next_wash + Slack

(* ... and the wash is still to come, or due for less than that.            *)
FaceBefore == IsFace(last.frame) => t < next_wash + Slack

(* What is held of the face is what the last state message asked for ... *)
HeldAsSaid == held.mode = said.mode /\ held.page = said.page

(* ... and the face shown is made of what is held. *)
ShowsHeld ==
    IsFace(last.frame) =>
        last.frame = [mode |-> face_state(held).mode, page |-> face_state(held).page]

Inv == /\ TypeOK /\ Newest /\ Remembers /\ GlassTrue
       /\ Period /\ Woken /\ FaceBefore /\ HeldAsSaid /\ ShowsHeld

Clocks == /\ next_wash \in Nat /\ wash_until \in Nat /\ wash_blink \in Nat
          /\ wake \in Nat /\ washed \in Nat

(* The times of the wash are numbers, and a wash lasts. *)
LEMMA Times ==
    /\ Every \in Nat /\ Secs \in Nat /\ Blink \in Nat /\ WakeMax \in Nat
    /\ Slack \in Nat /\ Secs >= 1 /\ Every >= 1 /\ Slack >= 1
BY GlassAssumption

(* The first state. *)
LEMMA InvInit == Init => Inv
<1> SUFFICES ASSUME Init PROVE Inv
  OBVIOUS
<1> USE GlassAssumption DEF Init
<1>1. Blank \in Frame /\ Torn \in Frame /\ NoBlit \in Blit
  BY DEF Blank, Torn, NoBlit, Frame, Blit, Mode
<1>2. held \in HeldType /\ said \in [mode : Mode, page : Page]
  BY DEF HeldType, Mode, Page
<1>3. told \in ToldType /\ panel \in PanelType /\ failed \in BOOLEAN
  <2>1. PICK picture \in {Blank, Torn} :
          /\ panel = [picture |-> picture, seg |-> "A0", com |-> "C0", contrast |-> BRIGHT]
          /\ failed = (picture = Torn)
    OBVIOUS
  <2>2. failed \in BOOLEAN
    BY <2>1, Zenon
  <2> HIDE DEF Init
  <2>3. told \in ToldType
    BY DEF Init, ToldType
  <2> QED BY <1>1, <2>1, <2>2, <2>3 DEF PanelType
<1>4. Clocks /\ key \in Mode \cup {"none"}
  BY Times DEF Clocks
<1>5. TypeOK
  <2>1. /\ t \in 0..MaxTime /\ news \in 0..MaxNews /\ fails \in 0..MaxFails
        /\ queue \in Seq(Blit) /\ Len(queue) <= MaxQueue /\ last \in Blit
    BY <1>1
  <2> HIDE DEF Init
  <2> QED BY <1>2, <1>3, <1>4, <2>1 DEF TypeOK, Clocks, HeldType, ToldType, PanelType
<1>6. Remembers /\ GlassTrue
  <2>1. PICK picture \in {Blank, Torn} :
          /\ panel = [picture |-> picture, seg |-> "A0", com |-> "C0", contrast |-> BRIGHT]
          /\ failed = (picture = Torn)
    OBVIOUS
  <2>2. failed = FALSE => picture = Blank
    BY <2>1
  <2>3. ~failed => failed = FALSE
    BY <1>3, Zenon
  <2> QED BY <2>1, <2>2, <2>3 DEF Remembers, GlassTrue, Taken, NoBlit, Contrast
<1>7. Newest /\ Period /\ Woken /\ FaceBefore /\ HeldAsSaid /\ ShowsHeld
  BY Times
  DEF Newest, Period, Woken, FaceBefore, HeldAsSaid, ShowsHeld, IsFace, NoBlit, Blank
<1> QED BY <1>5, <1>6, <1>7 DEF Inv
-----------------------------------------------------------------------------
(* The face rendered is a mode and a page, whatever is held. *)
LEMMA FaceType ==
    ASSUME NEW h \in HeldType
    PROVE  face_state(h).mode \in Mode /\ face_state(h).page \in Page
BY DEF face_state, HeldType, Mode, Page

(* What the timer sleeps, for a wash due at next. *)
LEMMA SleepTime ==
    ASSUME NEW now \in Nat, NEW next \in Nat, NEW due, NEW sleep,
           sleep = Slack + (IF next > now THEN next - now ELSE 0),
           due = now + (IF sleep < WakeMax THEN sleep ELSE WakeMax)
    PROVE  due \in Nat /\ (now < next => due <= next + Slack)
<1>1. CASE next > now
  <2>1. sleep = Slack + (next - now) /\ next - now \in Nat
    BY <1>1
  <2> QED BY <1>1, <2>1, Times
<1>2. CASE ~(next > now)
  <2>1. sleep = Slack
    BY <1>2, Times
  <2> QED BY <1>2, <2>1, Times
<1> QED BY <1>1, <1>2

(* The timer sleeps a slack past a wash to come, at most. *)
LEMMA WakeTime ==
    ASSUME NEW now \in Nat, next_wash' \in Nat, Wake(now)
    PROVE  wake' \in Nat /\ (now < next_wash' => wake' <= next_wash' + Slack)
BY SleepTime DEF Wake

(* A frame sent: the newest under way, of the face that is held, and either *)
(* it is a wash's, or no face, or the wash is still to come.                *)
LEMMA EmitStep ==
    ASSUME Inv, NEW h \in HeldType, NEW now \in Nat, Emit(h, now), Wake(now), t' = now,
           Len(queue) < MaxQueue
    PROVE  /\ Clocks' /\ key' \in Mode \cup {"none"}
           /\ held' = h /\ last' \in Blit
           /\ queue' \in Seq(Blit) /\ Len(queue') <= MaxQueue /\ queue' # <<>>
           /\ Newest' /\ Period' /\ Woken' /\ FaceBefore' /\ ShowsHeld'
<1> DEFINE face == face_state(h)
           due == Due(face, now)
           until == IF due THEN now + Secs ELSE wash_until
           blinks == IF due THEN 0 ELSE wash_blink
           washing == now < until
           frame == CASE washing                            -> WashFrame(until - Secs, blinks, now)
                      [] ~washing /\ face.mode = "off"      -> Blank
                      [] OTHER                              -> [mode |-> face.mode, page |-> face.page]
           blit == [frame |-> frame, dim |-> h.dim, flip |-> h.flip]
<1>1. /\ next_wash' = NextWash(face, now)
      /\ wash_until' = until
      /\ wash_blink' = IF washing /\ frame # Wash("static") THEN blinks + 1 ELSE blinks
      /\ key' = IF washing THEN key ELSE face.mode
      /\ washed' = IF due THEN now ELSE washed
      /\ held' = h
      /\ queue' = Append(queue, blit) /\ last' = blit
  BY DEF Emit, Kept
<1>2. /\ Clocks /\ Period /\ key \in Mode \cup {"none"} /\ queue \in Seq(Blit)
      /\ MaxQueue \in Nat
  BY GlassAssumption DEF Inv, TypeOK, Clocks
<1>3. face.mode \in Mode /\ face.page \in Page
  BY FaceType
<1>4. frame \in Frame
  <2>1. WashFrame(until - Secs, blinks, now) \in Frame
    BY DEF WashFrame, Wash, Frame
  <2>2. Blank \in Frame
    BY DEF Blank, Frame, Mode
  <2>3. [mode |-> face.mode, page |-> face.page] \in Frame
    BY <1>3 DEF Frame
  <2> HIDE DEF washing, face, until, blinks
  <2> QED BY <2>1, <2>2, <2>3
<1>5. blit \in Blit
  BY <1>4 DEF Blit, HeldType
<1>6. next_wash' = IF due THEN now + Every ELSE next_wash
  BY <1>1 DEF NextWash
<1>7. IsFace(frame) =>
        /\ face.mode # "off" /\ ~due
        /\ frame = [mode |-> face.mode, page |-> face.page]
  <2> SUFFICES ASSUME IsFace(frame)
               PROVE  /\ face.mode # "off" /\ ~due
                      /\ frame = [mode |-> face.mode, page |-> face.page]
    OBVIOUS
  <2>1. ~washing
    BY DEF IsFace, WashFrame, Wash
  <2>2. face.mode # "off" /\ frame = [mode |-> face.mode, page |-> face.page]
    BY <2>1 DEF IsFace, Blank
  <2>3. ~due
    <3>1. now < now + Secs
      BY Times
    <3> HIDE DEF due
    <3> QED BY <2>1, <3>1
  <2> QED BY <2>2, <2>3
<1>8. ~due => now < next_wash \/ face.mode = "off"
  BY <1>2 DEF Due, Clocks
<1> HIDE DEF frame, face, due
<1>9. Clocks' /\ Period' /\ (now < next_wash' => wake' <= next_wash' + Slack)
  <2>1. /\ next_wash' \in Nat /\ wash_until' \in Nat /\ wash_blink' \in Nat /\ washed' \in Nat
        /\ Period'
    BY <1>1, <1>2, <1>6, Times DEF Clocks, Period
  <2>2. wake' \in Nat /\ (now < next_wash' => wake' <= next_wash' + Slack)
    BY <2>1, WakeTime
  <2> QED BY <2>1, <2>2 DEF Clocks
<1>10. queue' \in Seq(Blit) /\ Len(queue') <= MaxQueue /\ queue' # <<>> /\ Newest'
  <2>1. /\ Append(queue, blit) \in Seq(Blit) /\ Append(queue, blit) # <<>>
        /\ Len(Append(queue, blit)) = Len(queue) + 1
        /\ Append(queue, blit)[Len(queue) + 1] = blit
    <3> HIDE DEF blit
    <3> QED BY <1>2, <1>5, AppendProperties
  <2>2. Len(queue) \in Nat
    BY <1>2
  <2> HIDE DEF blit
  <2> QED BY <1>1, <1>2, <2>1, <2>2 DEF Newest
<1>11. FaceBefore' /\ Woken'
  <2>1. IsFace(frame) => now < next_wash'
    BY <1>6, <1>7, <1>8
  <2>2. next_wash' \in Nat
    BY <1>9 DEF Clocks
  <2> QED BY <1>1, <1>9, <2>1, <2>2, Times DEF FaceBefore, Woken
<1>12. ShowsHeld'
  BY <1>1, <1>7 DEF ShowsHeld, face
<1>13. key' \in Mode \cup {"none"}
  BY <1>1, <1>2, <1>3
<1> QED BY <1>1, <1>5, <1>9, <1>10, <1>11, <1>12, <1>13

(* News: a frame is drawn of whatever it is. *)
LEMMA HearStep == ASSUME Inv, Hear PROVE Inv'
<1> USE GlassAssumption
<1>1. PICK h \in State(held) \cup Fault(held) \cup {held} :
        /\ Emit(h, t')
        /\ \/ h \in State(held) /\ said' = [mode |-> h.mode, page |-> h.page]
           \/ h \notin State(held) /\ h \in Fault(held) \cup {held} /\ said' = said
           \/ h \in Fault(held) \cup {held} /\ said' = said
  BY DEF Hear
<1>2. t \in Nat /\ t' \in 0..MaxTime /\ t' \in Nat /\ Wake(t') /\ Len(queue) < MaxQueue
  BY DEF Hear, Inv, TypeOK
<1>3. held \in HeldType /\ said \in [mode : Mode, page : Page] /\ HeldAsSaid
  BY DEF Inv, TypeOK, HeldType
<1>4. /\ h \in HeldType /\ said' \in [mode : Mode, page : Page]
      /\ h.mode = said'.mode /\ h.page = said'.page
  <2>1. CASE h \in State(held) /\ said' = [mode |-> h.mode, page |-> h.page]
    <3>1. PICK m \in StateSays :
            h = [held EXCEPT !.mode = m.mode, !.page = m.page, !.dim = m.dim, !.flip = m.flip,
                             !.word = m.word]
      BY <2>1 DEF State
    <3>2. /\ m.mode \in Mode /\ m.page \in Page /\ m.dim \in BOOLEAN /\ m.flip \in BOOLEAN
          /\ m.word \in {"well", "hurts"}
      BY DEF Mode
    <3>3. h \in HeldType
      BY <1>3, <3>1, <3>2 DEF HeldType
    <3> QED BY <2>1, <3>3 DEF HeldType
  <2>2. CASE h \in Fault(held) \cup {held} /\ said' = said
    <3>1. h \in HeldType /\ h.mode = held.mode /\ h.page = held.page
      <4>1. h = held \/ \E b \in BOOLEAN : h = [held EXCEPT !.seen = TRUE, !.dark = b]
        BY <2>2 DEF Fault
      <4> HIDE GlassAssumption
      <4> QED BY <1>3, <4>1 DEF HeldType
    <3> QED BY <1>3, <2>2, <3>1 DEF HeldAsSaid
  <2> QED BY <1>1, <2>1, <2>2
<1>5. /\ Clocks' /\ key' \in Mode \cup {"none"}
      /\ held' = h /\ last' \in Blit
      /\ queue' \in Seq(Blit) /\ Len(queue') <= MaxQueue /\ queue' # <<>>
      /\ Newest' /\ Period' /\ Woken' /\ FaceBefore' /\ ShowsHeld'
  BY <1>1, <1>2, <1>4, EmitStep
<1>6. told' = told /\ panel' = panel /\ fails' = fails /\ failed' = failed
      /\ news' \in 0..MaxNews
  BY DEF Hear, glass, Inv, TypeOK
<1>7. TypeOK'
  BY <1>2, <1>4, <1>5, <1>6 DEF Inv, TypeOK, Clocks, HeldType
<1>8. Remembers' /\ GlassTrue' /\ HeldAsSaid'
  BY <1>4, <1>5, <1>6 DEF Inv, Remembers, GlassTrue, Taken, HeldAsSaid
<1> QED BY <1>5, <1>7, <1>8 DEF Inv

(* The timer: a wash, or the next sleep. *)
LEMMA TimerStep == ASSUME Inv, Timer PROVE Inv'
<1> USE GlassAssumption
<1>1. t \in Nat /\ t' = t + 1 /\ t' \in 0..MaxTime /\ Wake(t')
  BY DEF Timer, Inv, TypeOK
<1>2. told' = told /\ panel' = panel /\ fails' = fails /\ failed' = failed
      /\ news' = news /\ said' = said
  BY DEF Timer, glass
<1>3. CASE t' >= next_wash /\ Len(queue) < MaxQueue /\ Emit(held, t')
  <2>1. held \in HeldType
    BY DEF Inv, TypeOK, HeldType
  <2>2. /\ Clocks' /\ key' \in Mode \cup {"none"}
        /\ held' = held /\ last' \in Blit
        /\ queue' \in Seq(Blit) /\ Len(queue') <= MaxQueue /\ queue' # <<>>
        /\ Newest' /\ Period' /\ Woken' /\ FaceBefore' /\ ShowsHeld'
    BY <1>1, <1>3, <2>1, EmitStep
  <2>3. TypeOK'
    BY <1>1, <1>2, <2>2 DEF Inv, TypeOK, Clocks
  <2>4. Remembers' /\ GlassTrue' /\ HeldAsSaid'
    BY <1>2, <2>2 DEF Inv, Remembers, GlassTrue, Taken, HeldAsSaid
  <2> QED BY <2>2, <2>3, <2>4 DEF Inv
<1>4. CASE /\ t' < next_wash
           /\ UNCHANGED <<held, key, next_wash, wash_until, wash_blink, washed, queue, last>>
  <2>1. wake' \in Nat /\ wake' <= next_wash' + Slack
    <3>1. next_wash \in Nat /\ next_wash' = next_wash
      BY <1>4 DEF Inv, TypeOK
    <3> QED BY <1>1, <1>4, <3>1, WakeTime
  <2>2. TypeOK'
    BY <1>1, <1>2, <1>4, <2>1 DEF Inv, TypeOK
  <2>3. Woken' /\ FaceBefore'
    <3>1. next_wash' = next_wash /\ next_wash \in Nat
      BY <1>4 DEF Inv, TypeOK
    <3> HIDE GlassAssumption
    <3> QED BY <1>1, <1>4, <2>1, <3>1, Times DEF Woken, FaceBefore
  <2>4. Newest' /\ Period' /\ ShowsHeld' /\ Remembers' /\ GlassTrue' /\ HeldAsSaid'
    BY <1>2, <1>4
    DEF Inv, Newest, Period, ShowsHeld, face_state, renderer_condition, Remembers, GlassTrue,
        Taken, HeldAsSaid
  <2> QED BY <2>2, <2>3, <2>4 DEF Inv
<1> QED BY <1>3, <1>4 DEF Timer

(* Between two wakings nothing moves but the clock. *)
LEMMA IdleStep == ASSUME Inv, Idle PROVE Inv'
<1> USE GlassAssumption
<1>1. /\ t \in Nat /\ t' = t + 1 /\ t' \in 0..MaxTime /\ t' < wake
      /\ next_wash \in Nat /\ wake \in Nat
  BY DEF Idle, Inv, TypeOK
<1>2. UNCHANGED <<held, key, next_wash, wash_until, wash_blink, wake, washed, queue, last,
                  told, panel, fails, failed, news, said>>
  BY DEF Idle, clocks, glass
<1>3. TypeOK'
  BY <1>1, <1>2 DEF Inv, TypeOK
<1>4. Woken' /\ FaceBefore'
  BY <1>1, <1>2 DEF Inv, Woken, FaceBefore
<1>5. Newest' /\ Period' /\ ShowsHeld' /\ Remembers' /\ GlassTrue' /\ HeldAsSaid'
  BY <1>2
  DEF Inv, Newest, Period, ShowsHeld, face_state, renderer_condition, Remembers, GlassTrue,
      Taken, HeldAsSaid
<1> QED BY <1>3, <1>4, <1>5 DEF Inv
-----------------------------------------------------------------------------
(* A state of the chip on the way, in which what the driver remembers of    *)
(* the contrast is what the chip has.                                       *)
Sound(d) == /\ d.told \in ToldType /\ d.panel \in PanelType /\ d.err \in BOOLEAN
            /\ d.told.contrast = d.panel.contrast

(* What a write that was done, and one that was refused, leaves. *)
LEMMA WriteDone ==
    ASSUME NEW d, Sound(d), NEW a \in ToldType, NEW b \in PanelType, a.contrast = b.contrast
    PROVE  /\ Sound(Did(d, a, b, FALSE)) /\ Did(d, a, b, FALSE).panel = b
           /\ ~Did(d, a, b, FALSE).err => ~d.err
<1> DEFINE f == Did(d, a, b, FALSE)
<1>1. f.told = a /\ f.panel = b /\ f.err = (d.err \/ FALSE)
  BY DEF Did
<1>2. (d.err \/ FALSE) \in BOOLEAN
  BY Zenon
<1> HIDE DEF f
<1>3. f.err \in BOOLEAN /\ (~f.err => ~d.err)
  BY <1>1, <1>2, Zenon
<1>4. Sound(f)
  BY <1>1, <1>3, Zenon DEF Sound
<1> QED BY <1>1, <1>3, <1>4 DEF f

(* A write that was refused leaves the chip and its memory. *)
LEMMA WriteRefused ==
    ASSUME NEW d, Sound(d)
    PROVE  \A b \in PanelType : b.contrast = d.panel.contrast =>
             /\ Sound(Did(d, d.told, b, TRUE))
             /\ Did(d, d.told, b, TRUE).panel = b /\ Did(d, d.told, b, TRUE).err
<1> TAKE b \in PanelType
<1> HAVE b.contrast = d.panel.contrast
<1> DEFINE f == Did(d, d.told, b, TRUE)
<1>1. f.told = d.told /\ f.panel = b /\ f.err = (d.err \/ TRUE)
  BY DEF Did
<1>2. (d.err \/ TRUE) \in BOOLEAN
  BY Zenon
<1> HIDE DEF f
<1>3. f.err \in BOOLEAN /\ f.err
  BY <1>1, <1>2, Zenon
<1>4. Sound(f)
  BY <1>1, <1>3, Zenon DEF Sound
<1> QED BY <1>1, <1>3, <1>4 DEF f

(* The flip, the contrast and the picture keep it sound. *)
LEMMA FlipKeeps ==
    ASSUME NEW d, Sound(d), NEW on \in BOOLEAN, NEW f \in set_flip(d, on)
    PROVE  Sound(f)
<1> DEFINE chip == Flip(on)
           turned == [d.panel EXCEPT !.seg = chip.seg, !.com = chip.com]
           half == [d.panel EXCEPT !.seg = chip.seg]
           knows == [d.told EXCEPT !.flip = on]
<1>1. /\ d.told \in ToldType /\ d.panel \in PanelType /\ d.told.contrast = d.panel.contrast
      /\ d.err \in BOOLEAN
  BY DEF Sound
<1>2. chip.seg \in {"A0", "A1"} /\ chip.com \in {"C0", "C8"}
  BY DEF Flip, FLIP_ON, FLIP_OFF
<1>3. /\ knows \in ToldType /\ turned \in PanelType /\ half \in PanelType
      /\ knows.contrast = d.told.contrast /\ turned.contrast = d.panel.contrast
      /\ half.contrast = d.panel.contrast
  <2> HIDE DEF chip
  <2> QED BY <1>1, <1>2 DEF ToldType, PanelType
<1>4. \/ f = d
      \/ f = Did(d, knows, turned, FALSE)
      \/ f = Did(d, d.told, d.panel, TRUE)
      \/ f = Did(d, d.told, half, TRUE)
  BY DEF set_flip
<1> HIDE DEF knows, turned, half
<1>5. CASE f = d
  BY <1>5
<1>6. CASE f = Did(d, knows, turned, FALSE)
  BY <1>1, <1>3, <1>6, WriteDone
<1>7. CASE f = Did(d, d.told, d.panel, TRUE)
  BY <1>1, <1>7, WriteDone, WriteRefused
<1>8. CASE f = Did(d, d.told, half, TRUE)
  BY <1>1, <1>3, <1>8, WriteDone, WriteRefused
<1> QED BY <1>4, <1>5, <1>6, <1>7, <1>8

(* The contrast keeps it sound. *)
LEMMA ContrastKeeps ==
    ASSUME NEW d, Sound(d), NEW value \in {DIM, BRIGHT}, NEW f \in set_contrast(d, value)
    PROVE  Sound(f) /\ (~f.err => f.panel.contrast = value)
<1> DEFINE knows == [d.told EXCEPT !.contrast = value]
           lit == [d.panel EXCEPT !.contrast = value]
<1>1. /\ d.told \in ToldType /\ d.panel \in PanelType /\ d.told.contrast = d.panel.contrast
      /\ d.err \in BOOLEAN
  BY DEF Sound
<1>2. knows \in ToldType /\ lit \in PanelType /\ knows.contrast = lit.contrast /\ lit.contrast = value
  BY <1>1 DEF ToldType, PanelType
<1>3. \/ f = d /\ d.told.contrast = value
      \/ f = Did(d, knows, lit, FALSE)
      \/ f = Did(d, d.told, d.panel, TRUE)
  BY DEF set_contrast
<1> HIDE DEF knows, lit
<1>4. CASE f = d /\ d.told.contrast = value
  BY <1>1, <1>4
<1>5. CASE f = Did(d, knows, lit, FALSE)
  <2>1. Sound(f) /\ f.panel = lit
    BY <1>2, <1>5, WriteDone
  <2> QED BY <1>2, <2>1
<1>6. CASE f = Did(d, d.told, d.panel, TRUE)
  BY <1>1, <1>6, WriteDone, WriteRefused
<1> QED BY <1>3, <1>4, <1>5, <1>6

(* The picture keeps it sound. *)
LEMMA ShowKeeps ==
    ASSUME NEW d, Sound(d), NEW frame \in Frame, NEW f \in show(d, frame)
    PROVE  /\ Sound(f) /\ f.panel.contrast = d.panel.contrast
           /\ ~f.err => ~d.err /\ f.panel.picture = frame
<1>1. Torn \in Frame
  BY DEF Torn, Frame
<1> DEFINE drawn == [d.panel EXCEPT !.picture = frame]
           torn == [d.panel EXCEPT !.picture = Torn]
<1>2. /\ d.told \in ToldType /\ d.panel \in PanelType /\ d.told.contrast = d.panel.contrast
      /\ d.err \in BOOLEAN
  BY DEF Sound
<1>3. /\ drawn \in PanelType /\ drawn.contrast = d.panel.contrast /\ drawn.picture = frame
      /\ torn \in PanelType /\ torn.contrast = d.panel.contrast
  BY <1>1, <1>2 DEF PanelType
<1>4. \/ f = Did(d, d.told, drawn, FALSE)
      \/ f = Did(d, d.told, d.panel, TRUE)
      \/ f = Did(d, d.told, torn, TRUE)
  BY DEF show
<1> HIDE DEF drawn, torn
<1>5. CASE f = Did(d, d.told, drawn, FALSE)
  <2>1. d.told.contrast = drawn.contrast
    BY <1>2, <1>3
  <2>2. Sound(f) /\ f.panel = drawn /\ (~f.err => ~d.err)
    BY <1>2, <1>3, <1>5, <2>1, WriteDone
  <2> QED BY <1>3, <2>2
<1>6. CASE f = Did(d, d.told, d.panel, TRUE)
  <2>1. Sound(f) /\ f.panel = d.panel /\ f.err
    BY <1>2, <1>6, WriteRefused
  <2> QED BY <2>1
<1>7. CASE f = Did(d, d.told, torn, TRUE)
  <2>1. Sound(f) /\ f.panel = torn /\ f.err
    BY <1>3, <1>7, WriteRefused
  <2> QED BY <1>3, <2>1
<1> QED BY <1>4, <1>5, <1>6, <1>7

(* The thread draws a frame: if nothing of it was refused, the chip has its *)
(* picture and its contrast.                                                *)
LEMMA DrawnKeeps ==
    ASSUME Inv, NEW blit \in Blit, NEW d \in Drawn(blit)
    PROVE  /\ Sound(d)
           /\ ~d.err => d.panel.picture = blit.frame /\ d.panel.contrast = Contrast(blit)
<1> DEFINE now == [told |-> told, panel |-> panel, err |-> FALSE]
           flipped == set_flip(now, blit.flip)
<1>1. Sound(now)
  BY DEF Sound, Inv, TypeOK, Remembers, ToldType, PanelType
<1>2. blit.flip \in BOOLEAN /\ blit.frame \in Frame /\ Contrast(blit) \in {DIM, BRIGHT}
  BY DEF Blit, Contrast
<1>3. \A f \in flipped : Sound(f)
  <2> HIDE DEF now
  <2> QED BY <1>1, <1>2, FlipKeeps
<1>4. \/ d \in flipped /\ d.err
      \/ \E f \in flipped : \E c \in set_contrast(f, Contrast(blit)) : d \in show(c, blit.frame)
  BY DEF Drawn
<1> HIDE DEF flipped
<1>5. ASSUME NEW f \in flipped, NEW c \in set_contrast(f, Contrast(blit)),
             d \in show(c, blit.frame)
      PROVE  /\ Sound(d)
             /\ ~d.err => d.panel.picture = blit.frame /\ d.panel.contrast = Contrast(blit)
  <2>1. Sound(c) /\ (~c.err => c.panel.contrast = Contrast(blit))
    BY <1>2, <1>3, ContrastKeeps
  <2> QED BY <1>2, <1>5, <2>1, ShowKeeps
<1> QED BY <1>3, <1>4, <1>5

(* The glass thread takes a frame. *)
LEMMA DrawStep == ASSUME Inv, Draw PROVE Inv'
<1> USE GlassAssumption
<1>1. PICK d \in Drawn(Head(queue)) :
        /\ told' = d.told /\ panel' = d.panel /\ failed' = d.err
        /\ d.err => fails < MaxFails
        /\ fails' = IF d.err THEN fails + 1 ELSE fails
  BY DEF Draw
<1>2. /\ queue # <<>> /\ queue \in Seq(Blit) /\ Len(queue) \in Nat /\ Len(queue) <= MaxQueue
      /\ queue' = Tail(queue)
  BY DEF Draw, Inv, TypeOK
<1>3. /\ Head(queue) \in Blit /\ Tail(queue) \in Seq(Blit) /\ Len(Tail(queue)) = Len(queue) - 1
      /\ \A i \in 1..Len(Tail(queue)) : Tail(queue)[i] = queue[i + 1]
      /\ Head(queue) = queue[1]
  BY <1>2, HeadTailProperties
<1>4. /\ Sound(d)
      /\ ~d.err => /\ d.panel.picture = Head(queue).frame
                   /\ d.panel.contrast = Contrast(Head(queue))
  BY <1>1, <1>3, DrawnKeeps
<1>5. /\ UNCHANGED <<t, held, key, next_wash, wash_until, wash_blink, wake, washed, news, said,
                     last>>
  BY DEF Draw, clocks
<1>6. Newest' /\ (queue' = <<>> => Head(queue) = last)
  <2>1. queue[Len(queue)] = last
    BY <1>2 DEF Inv, Newest
  <2>2. queue' = <<>> => Len(queue) = 1
    <3>1. Len(queue') = Len(queue) - 1
      BY <1>2, <1>3
    <3>2. queue' = <<>> => Len(queue') = 0
      OBVIOUS
    <3> QED BY <1>2, <3>1, <3>2
  <2>3. queue' # <<>> => queue'[Len(queue')] = last
    BY <1>2, <1>3, <2>1
  <2> QED BY <1>3, <1>5, <2>1, <2>2, <2>3 DEF Newest
<1>7. GlassTrue' /\ Remembers'
  BY <1>1, <1>4, <1>5, <1>6 DEF GlassTrue, Taken, Remembers, Sound, Contrast
<1>8. TypeOK'
  <2>1. fails' \in 0..MaxFails
    BY <1>1, <1>4 DEF Inv, TypeOK, Sound
  <2>2. queue' \in Seq(Blit) /\ Len(queue') <= MaxQueue
    BY <1>2, <1>3
  <2> QED BY <1>1, <1>4, <1>5, <2>1, <2>2 DEF Inv, TypeOK, Sound, ToldType, PanelType
<1>9. Period' /\ Woken' /\ FaceBefore' /\ HeldAsSaid' /\ ShowsHeld'
  BY <1>5
  DEF Inv, Period, Woken, FaceBefore, HeldAsSaid, ShowsHeld, face_state, renderer_condition
<1> QED BY <1>6, <1>7, <1>8, <1>9 DEF Inv

(* The invariant is inductive. *)
LEMMA InvNext == ASSUME Inv, [Next]_vars PROVE Inv'
<1>1. CASE UNCHANGED vars
  BY <1>1
  DEF vars, clocks, glass, Inv, TypeOK, Newest, Remembers, GlassTrue, Taken, Period, Woken,
      FaceBefore, HeldAsSaid, ShowsHeld, face_state, renderer_condition
<1> QED BY <1>1, HearStep, TimerStep, IdleStep, DrawStep DEF Next

(* In every state: types, the newest frame, the driver's memory and the     *)
(* wash's times.                                                            *)
THEOREM GlassInvariant == Spec => []Inv
BY InvInit, InvNext, PTL DEF Spec
-----------------------------------------------------------------------------
(* Type correctness of the loop, the renderer, the queue and the chip.      *)
THEOREM GlassTypes == Spec => []TypeOK
<1>1. Inv => TypeOK
  BY DEF Inv
<1> QED BY <1>1, GlassInvariant, PTL

(* Once the thread has taken all there is and none of the last frame was    *)
(* refused, the chip shows the last picture at its contrast, whatever was   *)
(* refused before (glass_worker, set_contrast).                             *)
THEOREM GlassTrueHolds == Spec => []GlassTrue
<1>1. Inv => GlassTrue
  BY DEF Inv
<1> QED BY <1>1, GlassInvariant, PTL

(* No face is shown past the due of its wash by the timer's slack or more,  *)
(* however the news fall and however long the panel was off (render,        *)
(* next_wake).                                                              *)
THEOREM WashKeptHolds == Spec => []WashKept
<1>1. Inv => WashKept
  BY Times DEF Inv, TypeOK, Period, FaceBefore, IsFace, WashKept
<1> QED BY <1>1, GlassInvariant, PTL

(* When a pain is over the panel shows what the last state message asked    *)
(* for, at the bench it always does (face_state: the takeover is not kept). *)
THEOREM FaceReturnsHolds == Spec => []FaceReturns
<1>1. Inv => FaceReturns
  BY DEF Inv, TypeOK, ShowsHeld, HeldAsSaid, IsFace, face_state, renderer_condition, FaceReturns
<1> QED BY <1>1, GlassInvariant, PTL
-----------------------------------------------------------------------------
Pixel == INSTANCE Pixels

(* Where a dot goes, and its led, on a matrix mounted at an angle *)
Spun(rotation, x, y) == Pixel!rotate(x, y, rotation)
Led(rotation, x, y) == Pixel!ram(Spun(rotation, x, y)[1], Spun(rotation, x, y)[2])

LEMMA SpunInside ==
    ASSUME NEW rotation \in Nat, NEW x \in 0..7, NEW y \in 0..7
    PROVE  Spun(rotation, x, y)[1] \in 0..7 /\ Spun(rotation, x, y)[2] \in 0..7
<1>1. Spun(rotation, x, y) \in {<<x, y>>, <<7 - y, x>>, <<7 - x, 7 - y>>, <<y, 7 - x>>}
  BY DEF Spun, Pixel!rotate
<1> QED BY <1>1

LEMMA LedOfDot ==
    ASSUME NEW rotation, NEW x \in 0..7, NEW y \in 0..7
    PROVE  Pixel!lit(rotation, x, y) = {Led(rotation, x, y)}
BY DEF Led, Spun, Pixel!lit, Pixel!set

LEMMA LedOnMatrix ==
    ASSUME NEW rotation \in Nat, NEW x \in 0..7, NEW y \in 0..7
    PROVE  Led(rotation, x, y) \in Pixel!set_all
<1>1. \A a, b \in 0..7 : Pixel!ram(a, b) \in Pixel!set_all
  <2>1. \A a, b \in 0..7 : 7 - a \in 0..7 /\ (b + 7) % 8 \in 0..7
    OBVIOUS
  <2> QED BY <2>1 DEF Pixel!ram, Pixel!set_all
<1> QED BY <1>1, SpunInside DEF Led

LEMMA LedsApart ==
    ASSUME NEW rotation \in Nat, NEW x \in 0..7, NEW y \in 0..7, NEW u \in 0..7, NEW v \in 0..7
    PROVE  Led(rotation, x, y) = Led(rotation, u, v) => x = u /\ y = v
<1> SUFFICES ASSUME Led(rotation, x, y) = Led(rotation, u, v) PROVE x = u /\ y = v
  OBVIOUS
<1>1. \A a, b, c, d \in 0..7 : Pixel!ram(a, b) = Pixel!ram(c, d) => a = c /\ b = d
  BY DEF Pixel!ram
<1>2. /\ Spun(rotation, x, y)[1] \in 0..7 /\ Spun(rotation, x, y)[2] \in 0..7
      /\ Spun(rotation, u, v)[1] \in 0..7 /\ Spun(rotation, u, v)[2] \in 0..7
  BY SpunInside
<1>3. Spun(rotation, x, y)[1] = Spun(rotation, u, v)[1] /\ Spun(rotation, x, y)[2] = Spun(rotation, u, v)[2]
  BY <1>1, <1>2 DEF Led
<1> QED BY <1>3 DEF Spun, Pixel!rotate

LEMMA EveryLed ==
    ASSUME NEW rotation \in Nat, NEW r \in 0..7, NEW b \in 0..7
    PROVE  \E x \in 0..7, y \in 0..7 : Led(rotation, x, y) = <<2 * r, b>>
<1>1. PICK p \in 0..7, q \in 0..7 : Pixel!ram(p, q) = <<2 * r, b>>
  <2>1. 7 - r \in 0..7 /\ (b + 1) % 8 \in 0..7 /\ Pixel!ram(7 - r, (b + 1) % 8) = <<2 * r, b>>
    BY DEF Pixel!ram
  <2> QED BY <2>1
<1>2. PICK x \in 0..7, y \in 0..7 : Spun(rotation, x, y) = <<p, q>>
  <2>0. 7 - p \in 0..7 /\ 7 - q \in 0..7
    OBVIOUS
  <2>1. CASE rotation % 360 = 90
    <3>1. Spun(rotation, q, 7 - p) = <<p, q>>
      BY <2>1 DEF Spun, Pixel!rotate
    <3> QED BY <2>0, <3>1
  <2>2. CASE rotation % 360 = 180
    <3>1. Spun(rotation, 7 - p, 7 - q) = <<p, q>>
      BY <2>2 DEF Spun, Pixel!rotate
    <3> QED BY <2>0, <3>1
  <2>3. CASE rotation % 360 = 270
    <3>1. Spun(rotation, 7 - q, p) = <<p, q>>
      BY <2>3 DEF Spun, Pixel!rotate
    <3> QED BY <2>0, <3>1
  <2>4. CASE rotation % 360 \notin {90, 180, 270}
    <3>1. Spun(rotation, p, q) = <<p, q>>
      BY <2>4 DEF Spun, Pixel!rotate
    <3> QED BY <3>1
  <2> QED BY <2>1, <2>2, <2>3, <2>4
<1>3. Led(rotation, x, y) = <<2 * r, b>>
  BY <1>1, <1>2 DEF Led
<1> QED BY <1>3

LEMMA TurnedBack ==
    ASSUME NEW rotation \in Nat, NEW x \in 0..7, NEW y \in 0..7
    PROVE  Pixel!ComesBack(rotation, x, y)
<1>1. Pixel!turned(<<x, y>>, rotation) = Spun(rotation, x, y)
  BY DEF Pixel!turned, Spun
<1>2. Pixel!rotate(Spun(rotation, x, y)[1], Spun(rotation, x, y)[2], 360 - (rotation % 360)) = <<x, y>>
  BY DEF Spun, Pixel!rotate
<1>3. Pixel!turned(Spun(rotation, x, y), 360 - (rotation % 360)) = <<x, y>>
  BY <1>2 DEF Pixel!turned
<1>4. \A u, v \in 0..7 : Pixel!quarter(<<u, v>>) = <<7 - v, u>>
  BY DEF Pixel!quarter, Pixel!turned, Pixel!rotate
<1>5. 7 - x \in 0..7 /\ 7 - y \in 0..7 /\ 7 - (7 - x) = x /\ 7 - (7 - y) = y
  OBVIOUS
<1>6. /\ Pixel!quarter(<<x, y>>) = <<7 - y, x>>
      /\ Pixel!quarter(<<7 - y, x>>) = <<7 - x, 7 - y>>
      /\ Pixel!quarter(<<7 - x, 7 - y>>) = <<y, 7 - x>>
      /\ Pixel!quarter(<<y, 7 - x>>) = <<x, y>>
  BY <1>4, <1>5
<1> QED BY <1>1, <1>3, <1>6 DEF Pixel!ComesBack

(* However the matrix is mounted, each dot has an led of its own and a turn *)
(* is undone by the rest of the circle (rotate, set of ht16k33.rs).         *)
THEOREM DotsTurnedHolds == \A rotation \in Nat : Pixel!DotsTurned(rotation)
<1> SUFFICES ASSUME NEW rotation \in Nat PROVE Pixel!DotsTurned(rotation)
  OBVIOUS
<1>1. ASSUME NEW l \in Pixel!set_all
      PROVE  \E x, y \in 0..7 : Pixel!lit(rotation, x, y) = {l}
  <2>1. PICK r \in 0..7, b \in 0..7 : l = <<2 * r, b>>
    BY DEF Pixel!set_all
  <2>2. PICK x \in 0..7, y \in 0..7 : Led(rotation, x, y) = <<2 * r, b>>
    BY EveryLed
  <2>3. Pixel!lit(rotation, x, y) = {l}
    BY LedOfDot, <2>1, <2>2
  <2> QED BY <2>3
<1>2. ASSUME NEW x \in 0..7, NEW y \in 0..7
      PROVE  \E l \in Pixel!set_all : Pixel!lit(rotation, x, y) = {l}
  BY LedOfDot, LedOnMatrix
<1>3. ASSUME NEW x \in 0..7, NEW y \in 0..7, NEW u \in 0..7, NEW v \in 0..7,
             Pixel!lit(rotation, x, y) = Pixel!lit(rotation, u, v)
      PROVE  x = u /\ y = v
  <2>1. {Led(rotation, x, y)} = {Led(rotation, u, v)}
    BY <1>3, LedOfDot
  <2>2. Led(rotation, x, y) = Led(rotation, u, v)
    BY <2>1
  <2>3. Led(rotation, x, y) = Led(rotation, u, v) => x = u /\ y = v
    BY LedsApart
  <2> QED BY <2>2, <2>3
<1>4. ASSUME NEW x \in 0..7, NEW y \in 0..7
      PROVE  Pixel!ComesBack(rotation, x, y)
  BY TurnedBack
<1> QED BY Zenon, <1>1, <1>2, <1>3, <1>4 DEF Pixel!DotsTurned
=============================================================================
