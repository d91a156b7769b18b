-------------------------------- MODULE Wire ---------------------------------
(***************************************************************************)
(* The contract of crates/loa-wire/src/lib.rs: which body may ride on      *)
(* which topic, who checks it, and what a full pipe does.  A message is    *)
(* [topic, env]; an envelope says whether its bytes parse, the schema they *)
(* were written under and the name of the body, None when it has none.     *)
(***************************************************************************)
EXTENDS Naturals, Sequences

CONSTANT None

TOPICS == {"state", "ripperdoc", "ring", "pir", "sonar", "weather", "power", "fault",
           "event", "init"}

(* the oneof of the schema: every topic's own name, and no "state" *)
Bodies == TOPICS \ {"state"}

(* a message without a body has none of the schema's *)
ASSUME WireAssumption == None \notin Bodies

SCHEMA_VERSION == 11

body_allowedSwapped(topic, body) == topic = body \/ <<body, topic>> = <<"state", "ripperdoc">>

(* the same name, or the one alias *)
body_allowed(topic, body) == topic = body \/ <<topic, body>> = <<"state", "ripperdoc">>

(* inbound topic -> consumer topic *)
Relayed == [oled |-> "ripperdoc", ring |-> "ring"]

Agreed(topic, env) ==
    CASE env.schema # SCHEMA_VERSION                       -> "SchemaMismatch"
      [] env.schema = SCHEMA_VERSION /\ env.body = None    -> "NoBody"
      [] env.schema = SCHEMA_VERSION /\ env.body # None /\ ~body_allowed(topic, env.body)
                                                           -> "TopicMismatch"
      [] OTHER                                             -> "ok"

(* what the publisher and the daemons' push refuse at the source *)
encode(topic, env) == Agreed(topic, env)

(* what a consumer, and the cortex of a reading, refuses on arrival *)
decode(topic, env) ==
    CASE topic \notin TOPICS                -> "UnknownTopic"
      [] topic \in TOPICS /\ ~env.parses    -> "Undecodable"
      [] OTHER                              -> Agreed(topic, env)

(* The cortex asks the table first (is_frame): a frame is not parsed, only  *)
(* its topic swapped; all else must decode.  None: dropped, with an error.  *)
route_parts(topic, env) ==
    CASE topic \in DOMAIN Relayed        -> [topic |-> Relayed[topic], env |-> env]
      [] OTHER                           -> None

(* "One body for one topic", at every leg: whatever decodes on a topic      *)
(* could be published there, each topic has exactly one body that does, and *)
(* a relayed frame is taken by the topic it is relayed to or by none.       *)
OneBody(topic, env) ==
    LET taken(on) == {b \in Bodies :
            decode(on, [parses |-> TRUE, schema |-> SCHEMA_VERSION, body |-> b]) = "ok"}
        relayed == route_parts(topic, env)
    IN  /\ decode(topic, env) = "ok" => encode(topic, env) = "ok"
        /\ topic \in TOPICS => taken(topic) = {IF topic = "state" THEN "ripperdoc" ELSE topic}
        /\ relayed # None /\ decode(relayed.topic, relayed.env) = "ok" => env.body = relayed.topic
-----------------------------------------------------------------------------
(* PUB: each subscriber's pipe is a window; what does not fit is dropped,   *)
(* after the relay's eight tries too, and the sender hears nothing.         *)
Publish(pipe, message, window) ==
    IF Len(pipe) < window THEN Append(pipe, message) ELSE pipe

(* PUSH with DONTWAIT: what does not fit is refused. *)
Pushed(pipe, message, hwm) ==
    IF Len(pipe) < hwm THEN Append(pipe, message) ELSE pipe

(* The first n of what waits have arrived; drain and next_state take them   *)
(* all and keep the last, whatever its topic.                               *)
Newest(pipe, n) == <<pipe[n]>>

(* recv_nowait until there is no more: every message, in order *)
Each(pipe, n) == SubSeq(pipe, 1, n)

Left(pipe, n) == SubSeq(pipe, n + 1, Len(pipe))
=============================================================================
