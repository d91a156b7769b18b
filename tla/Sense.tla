-------------------------------- MODULE Sense --------------------------------
(***************************************************************************)
(* What every sense daemon shares: crates/loa-sense/src/lib.rs over the    *)
(* wire of crates/loa-wire, against the inbox of the cortex (main.rs).     *)
(* A daemon pushes readings, each with the fields it measured and no more; *)
(* the cortex merges by presence.  A cortex that starts asks for the whole *)
(* ("init", six times), and the daemon answers with its own memory.        *)
(*                                                                         *)
(* push is the daemon's PUSH pipe, which survives the cortex and refuses   *)
(* what does not fit; pull is what the operating system and the cortex's   *)
(* PULL socket hold, which dies with the cortex.  A module of one daemon   *)
(* extends this one and adds its memory and its clock.                     *)
(***************************************************************************)
EXTENDS Naturals, Sequences

CONSTANTS Field,        \* the fields of the daemon's payload
          None,         \* a field the message does not carry
          Asks,         \* times a starting cortex publishes init
          Hwm,          \* messages the PUSH pipe holds
          MaxCrashes    \* bound: crashes, of the cortex and of the daemon

ASSUME SenseAssumption ==
    None \notin Nat /\ Asks \in Nat \ {0} /\ Hwm \in Nat \ {0} /\ MaxCrashes \in Nat

VARIABLES
    body,       \* the cortex: down, in its init handshake, in its loop
    asks,       \* init asks it has still to send
    pull,
    picture,    \* its merge of the daemon's readings
    aired,      \* events of the daemon it has put on the event topic
    daemon,     \* down, starting (before its first level) or up
    link,       \* the daemon's subscription to this cortex's feed
    inbox,      \* init asks waiting at the daemon
    push,
    owed,       \* since the last full payload to get out, a reading did not
    crashes

bodyVars  == <<body, asks, pull, picture, aired>>
wireVars  == <<link, inbox, push, owed>>
senseVars == <<bodyVars, wireVars, daemon, crashes>>

(* A payload: a number for each field it carries, 1 and 0 for yes and no.   *)
Silent == [f \in Field |-> None]
Full(reading) == [kind |-> "full", says |-> reading]
Part(reading) == [kind |-> "part", says |-> reading]
Event(kind) == [kind |-> kind, says |-> Silent]   \* kind: boot, sense or ring

SenseInit(blank) ==
    /\ body = "down" /\ asks = 0 /\ pull = <<>> /\ picture = blank /\ aired = 0
    /\ daemon = "down" /\ link = "lost" /\ inbox = 0 /\ push = <<>>
    /\ owed = FALSE
    /\ crashes = 0
-----------------------------------------------------------------------------
(* The cortex boots with nothing of the body in RAM and begins to ask. *)
BodyBoot(blank) ==
    /\ body = "down"
    /\ body' = "asking" /\ asks' = Asks
    /\ picture' = blank
    /\ UNCHANGED <<pull, aired, wireVars, daemon, crashes>>

(* The daemon's SUB finds the feed of this cortex. *)
Linked ==
    /\ body # "down" /\ daemon # "down" /\ link # "yes"
    /\ link' = "yes"
    /\ UNCHANGED <<bodyVars, daemon, inbox, push, owed, crashes>>

(* the last ask too is sent to nobody *)
AskUnheard ==
    /\ body = "asking" /\ asks > 0
    /\ asks' = asks - 1
    /\ inbox' = IF link = "yes" THEN inbox + 1 ELSE inbox
    /\ UNCHANGED <<body, pull, picture, aired, link, push, owed, daemon, crashes>>

(* A slow joiner misses the first asks; the six are a second apart, so that *)
(* a daemon from before this cortex has found its feed by the last one.  A  *)
(* daemon started since then has pushed everything by itself.               *)
Ask ==
    /\ body = "asking" /\ asks > 0
    /\ asks = 1 /\ daemon # "down" => link # "lost"
    /\ asks' = asks - 1
    /\ inbox' = IF link = "yes" THEN inbox + 1 ELSE inbox
    /\ UNCHANGED <<body, pull, picture, aired, link, push, owed, daemon, crashes>>

Asked ==
    /\ body = "asking" /\ asks = 0
    /\ body' = "loop"
    /\ UNCHANGED <<asks, pull, picture, aired, wireVars, daemon, crashes>>

(* a nought taken for an absence *)
MergeTruthy(reading) ==
    [f \in Field |-> IF reading[f] \in {None, 0} THEN picture[f] ELSE reading[f]]

(* Only a field the message carries is written, "even Some(false) and       *)
(* Some(0)".                                                                *)
Merge(reading) ==
    [f \in Field |-> IF reading[f] = None THEN picture[f] ELSE reading[f]]

(* on_inbox: a reading is merged; an event of a daemon is decoded, merged   *)
(* as nothing and left at that.                                             *)
Take ==
    /\ body = "loop" /\ pull # <<>>
    /\ picture' = Merge(Head(pull).says)
    /\ pull' = Tail(pull)
    /\ UNCHANGED <<body, asks, aired, wireVars, daemon, crashes>>

Crashing == crashes < MaxCrashes /\ crashes' = crashes + 1

BodyCrash ==
    /\ body # "down" /\ Crashing
    /\ body' = "down" /\ asks' = 0 /\ pull' = <<>>
    /\ link' = "lost"
    /\ UNCHANGED <<picture, aired, daemon, inbox, push, owed>>
-----------------------------------------------------------------------------
(* libzmq's own threads move what is pushed, as long as a cortex is there. *)
Carry ==
    /\ body # "down" /\ push # <<>>
    /\ pull' = Append(pull, Head(push))
    /\ push' = Tail(push)
    /\ UNCHANGED <<body, asks, picture, aired, link, inbox, owed, daemon, crashes>>

Room == Hwm - Len(push)

(* the pipe without its limit *)
PushAwaited(messages) == push' = push \o messages /\ owed' = owed

(* A handler pushes its messages one after the other, DONTWAIT: a full pipe *)
(* refuses the rest, and nobody tries them again.                           *)
Push(messages) ==
    LET fitting == SubSeq(messages, 1, IF Len(messages) <= Room THEN Len(messages) ELSE Room)
        Among(kinds, sent) == \E i \in 1..Len(sent) : sent[i].kind \in kinds
        refused == SubSeq(messages, Len(fitting) + 1, Len(messages))
    IN  /\ push' = push \o fitting
        /\ owed' = \/ Among({"full", "part"}, refused)
                   \/ owed /\ ~Among({"full"}, fitting)

(* A fresh daemon: the full payload of an empty memory, and a boot event. *)
Start(full, to) ==
    /\ daemon = "down"
    /\ daemon' = to
    /\ link' = "new" /\ inbox' = 0
    /\ Push(<<Full(full), Event("boot")>>)
    /\ UNCHANGED <<bodyVars, crashes>>

(* republish_full, once for each ask *)
Answer(full) ==
    /\ daemon = "up" /\ inbox > 0
    /\ inbox' = inbox - 1
    /\ Push(<<Full(full)>>)
    /\ UNCHANGED <<bodyVars, daemon, link, crashes>>

(* The sample tick: the ask goes first when both are ready. *)
Sample(messages) ==
    /\ daemon = "up" /\ inbox = 0
    /\ Push(messages)
    /\ UNCHANGED <<bodyVars, daemon, link, inbox, crashes>>

DaemonCrash ==
    /\ daemon # "down" /\ Crashing
    /\ daemon' = "down" /\ link' = "lost" /\ inbox' = 0
    /\ push' = <<>> /\ owed' = FALSE
    /\ UNCHANGED bodyVars

Wire == Linked \/ Ask \/ Asked \/ Take \/ Carry
-----------------------------------------------------------------------------
Reading == [Field -> Nat \cup {None}]
Message == [kind : {"full", "part", "boot", "sense", "ring"}, says : Reading]

SenseTypes ==
    /\ body \in {"down", "asking", "loop"} /\ asks \in 0..Asks
    /\ picture \in Reading /\ aired \in Nat
    /\ daemon \in {"down", "starting", "up"} /\ link \in {"lost", "new", "yes"}
    /\ inbox \in Nat /\ owed \in BOOLEAN /\ crashes \in 0..MaxCrashes
    /\ pull \in Seq(Message)
    /\ push \in Seq(Message) /\ Len(push) <= Hwm

(* Nothing is on its way between a daemon and a cortex that are both well. *)
Quiet == /\ daemon = "up" /\ body = "loop"
         /\ inbox = 0 /\ push = <<>> /\ pull = <<>>

(* The cortex has every field the daemon has in memory. *)
Knows(full) == \A f \in Field : full[f] # None => picture[f] = full[f]
=============================================================================
