-------------------------------- MODULE Glass --------------------------------
(***************************************************************************)
(* The panel daemon, crates/loa-oled: its loop (main.rs), the renderer and *)
(* its wash clock (render.rs), the takeover of the face (rstate.rs), and   *)
(* the thread that owns the SH1106 (main.rs, oled.rs).  A turn of the loop *)
(* takes a step of the clock or none.  What a face draws is in Faces.tla,  *)
(* what is heard of the feed in Pain.tla; texts and --fps are left out.    *)
(***************************************************************************)
EXTENDS Naturals, Sequences

CONSTANTS Every, Secs, Blink,   \* WASH_EVERY_S, WASH_SECS, and its blinking part
          WakeMax, Slack,       \* the longest the timer sleeps, and how far past the edge
          StateSays,            \* what a state message says of the face
          MaxTime,              \* bound: the clock
          MaxNews,              \* bound: messages heard
          MaxFails,             \* bound: writes the panel refuses
          MaxQueue              \* bound: frames the thread has not taken

Page == {"sensors", "fault"}
Mode == {m.mode : m \in StateSays} \cup {"off", "scope", "ripperdoc"}

ASSUME GlassAssumption ==
    /\ Every \in Nat /\ Secs \in 1..Every /\ Blink \in 1..Secs
    /\ WakeMax \in Nat \ {0} /\ Slack \in Nat \ {0}
    /\ StateSays \subseteq [mode : STRING, page : Page, dim : BOOLEAN, flip : BOOLEAN, word : {"well", "hurts"}]
    /\ MaxTime \in Nat /\ MaxNews \in Nat /\ MaxFails \in Nat /\ MaxQueue \in Nat \ {0}

VARIABLES
    t,
    held,           \* [mode, page, dim, flip, word, seen, dark]
    key,            \* the face the renderer last built, or "none"
    next_wash, wash_until, wash_blink,
    wake,           \* when the loop's timer is due
    queue,          \* Blits: [frame, dim, flip]
    told,           \* what the driver remembers: [flip, contrast]
    panel,          \* the chip: [picture, seg, com, contrast]
    news, fails,    \* bounds
    said,           \* history: the last state heard: [mode, page]
    last,           \* history: the last Blit sent
    washed,         \* history: when the last wash began
    failed          \* history: some write of the last Blit taken was refused

clocks == <<key, next_wash, wash_until, wash_blink, wake, washed>>
glass  == <<told, panel, fails, failed>>
vars   == <<t, held, clocks, queue, glass, news, said, last>>

BRIGHT == 207
DIM == 24
Contrast(blit) == IF blit.dim THEN DIM ELSE BRIGHT
FLIP_ON == [seg |-> "A1", com |-> "C8"]
FLIP_OFF == [seg |-> "A0", com |-> "C0"]
Flip(on) == IF on THEN FLIP_ON ELSE FLIP_OFF
Blank == [mode |-> "off", page |-> "none"]
Torn == [mode |-> "torn", page |-> "none"]
Wash(how) == [mode |-> "wash", page |-> how]
NoBlit == [frame |-> Blank, dim |-> FALSE, flip |-> FALSE]

(* Oled::open: reset, INIT, no flip; the thread clears the panel, or not. *)
Init ==
    /\ t = 0
    /\ held = [mode |-> "scope", page |-> "sensors", dim |-> FALSE, flip |-> FALSE,
               word |-> "well", seen |-> FALSE, dark |-> FALSE]
    /\ key = "none" /\ next_wash = Every /\ wash_until = 0 /\ wash_blink = 0 /\ wake = 1
    /\ queue = <<>> /\ told = [flip |-> FALSE, contrast |-> BRIGHT]
    /\ \E picture \in {Blank, Torn} :
            /\ panel = [picture |-> picture, seg |-> "A0", com |-> "C0", contrast |-> BRIGHT]
            /\ failed = (picture = Torn)
    /\ news = 0 /\ fails = 0
    /\ said = [mode |-> "scope", page |-> "sensors"] /\ last = NoBlit
    /\ washed = 0
-----------------------------------------------------------------------------
(* renderer_condition: mute until a report has been heard *)
renderer_condition(h) == IF h.seen THEN h.word ELSE "mute"

(* The fault page takes an idle face, and if the ring is dark any face. *)
face_state(h) ==
    IF (renderer_condition(h) \in {"hurts", "mute"} /\ h.mode # "ripperdoc") \/ h.dark
    THEN [h EXCEPT !.mode = "ripperdoc", !.page = "fault"] ELSE h

(* the takeover kept in the held state *)
KeptTaken(h) == face_state(h)

(* the takeover is the render's: what is held stays what was heard *)
Kept(h) == h

(* off is no face to wash away; the wash is then due as soon as there is one *)
Due(face, now) == face.mode # "off" /\ now >= next_wash

(* a wash the face did not need counted as done *)
NextWashSkipped(face, now) == IF now >= next_wash THEN now + Every ELSE next_wash

NextWash(face, now) == IF Due(face, now) THEN now + Every ELSE next_wash

(* a full field, white and black in turn, and then noise *)
WashFrame(start, blinks, now) ==
    Wash(CASE now - start >= Blink                    -> "static"
           [] now - start < Blink /\ blinks % 2 = 0   -> "white"
           [] OTHER                                   -> "black")

(* FaceRenderer::render, and emit: the frame to the thread that draws it. *)
Emit(h, now) ==
    LET face == face_state(h)
        due == Due(face, now)
        until == IF due THEN now + Secs ELSE wash_until
        blinks == IF due THEN 0 ELSE wash_blink
        washing == now < until
        frame == CASE washing                            -> WashFrame(until - Secs, blinks, now)
                   [] ~washing /\ face.mode = "off"      -> Blank
                   [] OTHER                              -> [mode |-> face.mode, page |-> face.page]
        blit == [frame |-> frame, dim |-> h.dim, flip |-> h.flip]
    IN  /\ next_wash' = NextWash(face, now)
        /\ wash_until' = until
        /\ wash_blink' = IF washing /\ frame # Wash("static") THEN blinks + 1 ELSE blinks
        /\ key' = IF washing THEN key ELSE face.mode
        /\ washed' = IF due THEN now ELSE washed
        /\ held' = Kept(h)
        /\ queue' = Append(queue, blit) /\ last' = blit

(* the timer sleeps to a slack past the edge, five seconds at most *)
Wake(now) ==
    LET sleep == Slack + (IF next_wash' > now THEN next_wash' - now ELSE 0)
    IN  wake' = now + (IF sleep < WakeMax THEN sleep ELSE WakeMax)
-----------------------------------------------------------------------------
(* hold: what a message says of the face *)
State(h) == {[h EXCEPT !.mode = m.mode, !.page = m.page, !.dim = m.dim, !.flip = m.flip,
                       !.word = m.word] : m \in StateSays}
Fault(h) == {[h EXCEPT !.seen = TRUE, !.dark = d] : d \in BOOLEAN}

(* News, before the timer: whatever it is, a frame is drawn of it. *)
Hear ==
    /\ news < MaxNews /\ news' = news + 1
    /\ Len(queue) < MaxQueue
    /\ t' \in {t, t + 1} /\ t' <= MaxTime /\ t' <= wake
    /\ \/ \E h \in State(held) : Emit(h, t') /\ said' = [mode |-> h.mode, page |-> h.page]
       \/ \E h \in Fault(held) \cup {held} : Emit(h, t') /\ UNCHANGED said
    /\ Wake(t')
    /\ UNCHANGED glass

(* The timer: nothing is drawn before the wash is due. *)
Timer ==
    /\ t < MaxTime /\ t' = t + 1 /\ t' >= wake
    /\ \/ t' < next_wash
          /\ UNCHANGED <<held, key, next_wash, wash_until, wash_blink, washed, queue, last>>
       \/ t' >= next_wash /\ Len(queue) < MaxQueue
          /\ Emit(held, t')
    /\ Wake(t')
    /\ UNCHANGED <<glass, news, said>>

(* no news, and the timer not due *)
Idle ==
    /\ t < MaxTime /\ t' = t + 1 /\ t' < wake
    /\ UNCHANGED <<held, clocks, queue, glass, news, said, last>>
-----------------------------------------------------------------------------
(* What each write does to [told, panel] and whether it was refused; a     *)
(* refused one has not reached the chip.                                    *)
Did(was, told_, panel_, err) == [told |-> told_, panel |-> panel_, err |-> was.err \/ err]

(* set_flip: two commands, remembered after both *)
set_flip(d, on) ==
    LET chip == Flip(on)
    IN  IF d.told.flip = on THEN {d}
        ELSE {Did(d, [d.told EXCEPT !.flip = on], [d.panel EXCEPT !.seg = chip.seg, !.com = chip.com], FALSE),
              Did(d, d.told, d.panel, TRUE),
              Did(d, d.told, [d.panel EXCEPT !.seg = chip.seg], TRUE)}

(* remembered before it is written *)
set_contrastTold(d, value) ==
    IF d.told.contrast = value THEN {d}
    ELSE {Did(d, [d.told EXCEPT !.contrast = value], [d.panel EXCEPT !.contrast = value], FALSE),
          Did(d, [d.told EXCEPT !.contrast = value], d.panel, TRUE)}

(* set_contrast: one command *)
set_contrast(d, value) ==
    IF d.told.contrast = value THEN {d}
    ELSE {Did(d, [d.told EXCEPT !.contrast = value], [d.panel EXCEPT !.contrast = value], FALSE),
          Did(d, d.told, d.panel, TRUE)}

(* show: eight pages, any of which may be refused *)
show(d, frame) ==
    {Did(d, d.told, [d.panel EXCEPT !.picture = frame], FALSE),
     Did(d, d.told, d.panel, TRUE),
     Did(d, d.told, [d.panel EXCEPT !.picture = Torn], TRUE)}

(* glass_worker: a flip refused drops the frame, a contrast refused does not *)
Drawn(blit) ==
    LET flipped == set_flip([told |-> told, panel |-> panel, err |-> FALSE], blit.flip)
        bright == UNION {set_contrast(d, Contrast(blit)) : d \in {f \in flipped : ~f.err}}
    IN  {f \in flipped : f.err} \cup UNION {show(d, blit.frame) : d \in bright}

Draw ==
    /\ queue # <<>>
    /\ \E d \in Drawn(Head(queue)) :
            /\ told' = d.told /\ panel' = d.panel /\ failed' = d.err
            /\ d.err => fails < MaxFails
            /\ fails' = IF d.err THEN fails + 1 ELSE fails
    /\ queue' = Tail(queue)
    /\ UNCHANGED <<t, held, clocks, news, said, last>>

Next == Hear \/ Timer \/ Idle \/ Draw

Spec == Init /\ [][Next]_vars
-----------------------------------------------------------------------------
Frame == [mode : Mode \cup {"wash", "torn"}, page : Page \cup {"none", "white", "black", "static"}]
Blit == [frame : Frame, dim : BOOLEAN, flip : BOOLEAN]

(* Types of the held view, the clocks, the queue and the chip. *)
TypeOK ==
    /\ t \in 0..MaxTime /\ news \in 0..MaxNews /\ fails \in 0..MaxFails
    /\ held \in [mode : Mode, page : Page, dim : BOOLEAN, flip : BOOLEAN,
                 word : {"well", "hurts"}, seen : BOOLEAN, dark : BOOLEAN]
    /\ key \in Mode \cup {"none"}
    /\ {next_wash, wash_until, wash_blink, wake, washed} \subseteq Nat
    /\ queue \in Seq(Blit) /\ Len(queue) <= MaxQueue /\ last \in Blit
    /\ told \in [flip : BOOLEAN, contrast : {DIM, BRIGHT}]
    /\ panel \in [picture : Frame, seg : {"A0", "A1"}, com : {"C0", "C8"}, contrast : {DIM, BRIGHT}]
    /\ said \in [mode : Mode, page : Page] /\ failed \in BOOLEAN

Taken == queue = <<>> /\ ~failed

(* "Whatever it was last told is remembered": once the thread has taken all *)
(* there is and none of the last frame was refused, the chip has the last   *)
(* picture and its contrast, whatever was refused of the frames before.     *)
GlassTrue == Taken => panel.picture = last.frame /\ panel.contrast = Contrast(last)

(* ... and stands the way up it was told to, likewise. *)
FlipTrue == Taken => panel.seg = Flip(last.flip).seg /\ panel.com = Flip(last.flip).com

(* "No pattern holds long enough to ghost": whatever the news, and however  *)
(* long the face was off, no face stands longer past a wash's due than the  *)
(* timer's slack.                                                           *)
WashKept == last.frame.mode \notin {"off", "wash"} => t - washed < Every + Slack

(* "Full-frame exercise for WASH_SECS": the field of a wash is gone from    *)
(* the queue's end a timer's sleep after the wash.                          *)
WashEnds == last.frame.mode = "wash" => t < wash_until + WakeMax

(* "Applied at render time and never written back": when the pain is over   *)
(* the face is again the one the last state message asked for, and at the   *)
(* bench the pages are its own; pain without a bench always has its page.   *)
FaceReturns ==
    last.frame.mode \notin {"wash", "off"} /\ last # NoBlit =>
        LET pain == renderer_condition(held) # "well"
        IN  last.frame = IF held.dark \/ (pain /\ said.mode # "ripperdoc")
                         THEN [mode |-> "ripperdoc", page |-> "fault"]
                         ELSE [mode |-> said.mode, page |-> said.page]
=============================================================================
