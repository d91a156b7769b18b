------------------------------- MODULE Verbs --------------------------------
(***************************************************************************)
(* The decisions the body keeps in RAM and the three verbs that move them: *)
(* crates/loa-cortex/src/verbs.rs over moods.rs, with the defaults of      *)
(* state.rs and the rows the store holds (main.rs, settings_snapshot and   *)
(* adopt_settings).  Pure operators: a verb takes the settings and gives   *)
(* what it decided, the settings it leaves and whether it logs an event.   *)
(***************************************************************************)
EXTENDS Naturals, Sequences

CONSTANTS Word,         \* the strings a request or a row may hold
          None,         \* Rust's None, JSON's null
          Absent,       \* no row under that key
          Foreign       \* a row whose value has another type than the key's

ASSUME ValueAssumption ==
    /\ None # Absent /\ None # Foreign /\ Absent # Foreign
    /\ {None, Absent, Foreign} \cap BOOLEAN = {}
    /\ {None, Absent, Foreign} \cap Word = {}

MOODS == <<
    [name |-> "calm",    ring |-> "home",   one_shot |-> FALSE, oled_mode |-> "scope",
     oled_text |-> None,              oled_dim |-> FALSE],
    [name |-> "busy",    ring |-> "busy",   one_shot |-> FALSE, oled_mode |-> "ecg",
     oled_text |-> None,              oled_dim |-> FALSE],
    [name |-> "pleased", ring |-> "scan",   one_shot |-> TRUE,  oled_mode |-> "ripple",
     oled_text |-> None,              oled_dim |-> FALSE],
    [name |-> "annoyed", ring |-> "glitch", one_shot |-> TRUE,  oled_mode |-> "noise",
     oled_text |-> None,              oled_dim |-> FALSE],
    [name |-> "alarmed", ring |-> "alarm",  one_shot |-> FALSE, oled_mode |-> "text",
     oled_text |-> "!! FLATLINE !!",  oled_dim |-> FALSE],
    [name |-> "asleep",  ring |-> "home",   one_shot |-> FALSE, oled_mode |-> "ripple",
     oled_text |-> None,              oled_dim |-> TRUE] >>

PAGES == {"sensors", "pir", "snr", "temp", "frag", "power", "fault"}

DISPLAY_MODES == {"scope", "ecg", "ripple", "noise", "text", "showoff", "ripperdoc", "off"}

(* The words of the tables above, all of them strings. *)
Ours == {MOODS[i].name : i \in 1..Len(MOODS)} \cup {MOODS[i].ring : i \in 1..Len(MOODS)}
        \cup {MOODS[i].oled_mode : i \in 1..Len(MOODS)}
        \cup ({MOODS[i].oled_text : i \in 1..Len(MOODS)} \ {None})
        \cup PAGES \cup DISPLAY_MODES

ASSUME WordAssumption == Ours \subseteq Word

(* The nine settings, in the order settings_snapshot lists them. *)
KeyOrder == <<"mood", "ring_state", "oled_mode", "oled_text", "oled_dim", "oled_flip",
              "ripperdoc", "page", "snr_on">>
Keys == {KeyOrder[i] : i \in 1..9}

Default == [mood |-> "calm", ring_state |-> "home", oled_mode |-> "scope",
            oled_text |-> None, oled_dim |-> FALSE, oled_flip |-> TRUE,
            ripperdoc |-> FALSE, page |-> "sensors", snr_on |-> TRUE]

(* What RAM may hold: a stored word of the right type is taken unread. *)
Settings == [mood : Word, ring_state : Word, oled_mode : Word,
             oled_text : Word \cup {None}, oled_dim : BOOLEAN, oled_flip : BOOLEAN,
             ripperdoc : BOOLEAN, page : Word, snr_on : BOOLEAN]

(* What a row may hold, its key's shape or not. *)
Odd  == {None, Absent, Foreign}
Rows == [mood : Word \cup Odd, ring_state : Word \cup Odd, oled_mode : Word \cup Odd,
         oled_text : Word \cup Odd, oled_dim : BOOLEAN \cup Odd,
         oled_flip : BOOLEAN \cup Odd, ripperdoc : BOOLEAN \cup Odd,
         page : Word \cup Odd, snr_on : BOOLEAN \cup Odd]
-----------------------------------------------------------------------------
Said(decided, event) == [ok |-> TRUE, st |-> decided, event |-> event]
Refused(st) == [ok |-> FALSE, st |-> st, event |-> FALSE]

(* A word that is no mood, and a request with no word, find nothing. *)
by_name(feeling) == {i \in 1..Len(MOODS) : MOODS[i].name = feeling}

(* The mood after this one; a mood outside the table starts the walk. *)
next_from(mood) ==
    {IF by_name(mood) = {} THEN 1
     ELSE ((CHOOSE i \in by_name(mood) : TRUE) % Len(MOODS)) + 1}

(* feel: `next` wins over the word.  A one-shot mood is a record on the     *)
(* event topic: it moves the face and leaves the ring's state alone.        *)
feel(st, feeling, next) ==
    LET found == IF next THEN next_from(st.mood) ELSE by_name(feeling)
        mood  == MOODS[CHOOSE i \in found : TRUE]
    IN  IF found = {} THEN Refused(st)
        ELSE Said([st EXCEPT !.mood = mood.name,
                             !.ring_state = IF mood.one_shot THEN @ ELSE mood.ring,
                             !.oled_mode = mood.oled_mode,
                             !.oled_text = mood.oled_text,
                             !.oled_dim = mood.oled_dim], TRUE)

(* display: a mode clears the text unless it is the text mode; a bad mode   *)
(* refuses the whole request; with no field at all nothing is logged.       *)
display(st, mode, text, dim, flip) ==
    IF mode # None /\ mode \notin DISPLAY_MODES THEN Refused(st)
    ELSE LET moded == IF mode = None THEN st
                      ELSE [st EXCEPT !.oled_mode = mode,
                                      !.oled_text = IF mode = "text" THEN text ELSE None]
             changed == [moded EXCEPT !.oled_dim = IF dim = None THEN @ ELSE dim,
                                      !.oled_flip = IF flip = None THEN @ ELSE flip]
         IN  IF {mode, dim, flip} = {None} THEN Said(changed, FALSE) ELSE Said(changed, TRUE)

(* ripperdoc: the console and its page.  Going off stomps the mode to scope *)
(* and keeps the text; a page alone moves the page and logs nothing.        *)
ripperdoc(st, on, page) ==
    IF page # None /\ page \notin PAGES THEN Refused(st)
    ELSE LET paged == [st EXCEPT !.page = IF page = None THEN @ ELSE page]
         IN  IF on = None THEN Said(paged, FALSE)
             ELSE Said([paged EXCEPT !.ripperdoc = on,
                                     !.oled_mode = IF on THEN "ripperdoc" ELSE "scope"],
                       TRUE)

(* The state verbs of dispatch. *)
dispatch(st, c) ==
    CASE c.cmd = "feel"      -> feel(st, c.feeling, c.next)
      [] c.cmd = "display"   -> display(st, c.mode, c.text, c.dim, c.flip)
      [] c.cmd = "ripperdoc" -> ripperdoc(st, c.on, c.page)

Command == [cmd : {"feel"}, feeling : Word \cup {None}, next : BOOLEAN]
           \cup [cmd : {"display"}, mode : Word \cup {None}, text : Word \cup {None},
                 dim : BOOLEAN \cup {None}, flip : BOOLEAN \cup {None}]
           \cup [cmd : {"ripperdoc"}, on : BOOLEAN \cup {None}, page : Word \cup {None}]
-----------------------------------------------------------------------------
(* every row believed, whatever its shape *)
adopt_settingsUnread(rows) ==
    [k \in Keys |-> IF rows[k] \in {None, Absent} THEN Default[k] ELSE rows[k]]

(* adopt_settings: a null, a row of another shape and a missing row keep    *)
(* the default.                                                             *)
adopt_settings(rows) ==
    [k \in Keys |-> IF rows[k] \in Odd THEN Default[k] ELSE rows[k]]
=============================================================================
