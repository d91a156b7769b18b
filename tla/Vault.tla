-------------------------------- MODULE Vault -------------------------------
(***************************************************************************)
(* crates/loa-cortex/src/vault.rs, file by file, under the two threads of  *)
(* the cortex that use it: the door (one request at a time, http.rs) and   *)
(* the one-hertz power thread, which asks for the public status (main.rs). *)
(*                                                                         *)
(* A key, a token or a request token is a number: 0 is "no such file" (or  *)
(* an empty or wrong token, which fail check_token alike), and every       *)
(* rand32() draw is a number never drawn before.  A ciphertext is the      *)
(* number of the key that made it with its entries: decryption with any    *)
(* other key fails on the HMAC.  A process crash may fall between any two  *)
(* steps; systemd restarts the cortex (Restart=always).                    *)
(***************************************************************************)
EXTENDS Naturals, Sequences

CONSTANTS Entry,        \* what a journal line may say
          NoEntry,      \* the door's argument between requests
          MaxRequests,  \* bound: vault requests the door answers or starts
          MaxCrashes,   \* bound: process crashes
          MaxFaults     \* bound: file operations that fail (disk full, EIO)

ASSUME EntryAssumption == NoEntry \notin Entry

ASSUME BoundsAssumption ==
    MaxRequests \in Nat /\ MaxCrashes \in Nat /\ MaxFaults \in Nat

VARIABLES
    key, token,         \* key.bin, token.bin
    enc,                \* vault.enc
    marker,             \* marker.txt exists
    log,                \* access.log: lines of each kind
    json, tmp,          \* status.json, status.tmp
    fd,                 \* the file each thread holds open in write_status
    fresh,              \* status.json was written at most a second ago
    minted,             \* rand32() draws so far
    pc,                 \* where each thread stands
    op,                 \* the door's request
    arg,                \* its entry
    snap,               \* the status each thread is about to write
    last_seal,          \* what the power thread last sent to the feed
    crashes, faults,
    (* history, for the properties *)
    held,               \* the token the owner was given at birth
    stranger,           \* someone knocked without it
    wiped,              \* a journal has been destroyed
    mistaken,           \* reads that failed and were taken for "no such file"
    acked,              \* appends answered "ok", with the count they got
    words,              \* reads answered with the journal
    answered, reply     \* requests answered, and the last answer

diskVars    == <<key, token, enc, marker, log, minted>>
statusVars  == <<json, tmp, fd, fresh, snap, last_seal>>
historyVars == <<held, stranger, wiped, mistaken, acked, words, answered, reply>>
vars == <<diskVars, statusVars, pc, op, arg, crashes, faults, historyVars>>

Threads == {"door", "power"}
Status  == [sealed : BOOLEAN, entries : Nat]   \* of status.json, what it says of the journal
Content == [text : {"none", "empty", "torn", "whole"}, s : Status]
Codes   == {"none", "ok", "gone", "403", "400"}
Ops     == {"none", "ensure", "append", "read", "health", "wipe"}

StatusPCs == {"status_read", "status_count", "status_open", "status_write",
              "status_rename"}
DoorPCs   == StatusPCs \cup
             {"down", "boot_key", "boot_token", "boot_enc", "idle",
              "append_write", "append_log", "read", "health",
              "wipe_key", "wipe_token", "wipe_enc", "wipe_marker", "wipe_log"}
PowerPCs  == StatusPCs \cup {"off", "sleep", "seal_read"}

NoStatus == [sealed |-> FALSE, entries |-> 0]
NoFile   == [text |-> "none", s |-> NoStatus]
Torn     == [text |-> "torn", s |-> NoStatus]
Whole(s) == [text |-> "whole", s |-> s]

Init ==
    /\ key = 0 /\ token = 0 /\ minted = 0
    /\ enc = [kind |-> "absent", by |-> 0, entries |-> <<>>]
    /\ marker = FALSE
    /\ log = [append |-> 0, read |-> 0, wiped |-> 0]
    /\ json = NoFile /\ tmp = NoFile
    /\ fd = [w \in Threads |-> "none"]
    /\ fresh = FALSE
    /\ pc = [w \in Threads |-> IF w = "door" THEN "down" ELSE "off"]
    /\ op = "none" /\ arg = NoEntry
    /\ snap = [w \in Threads |-> NoStatus]
    /\ last_seal = [said |-> "nothing", sealed |-> FALSE]
    /\ crashes = 0 /\ faults = 0
    /\ held = 0 /\ stranger = FALSE /\ wiped = FALSE /\ mistaken = {}
    /\ acked = {} /\ words = 0 /\ answered = 0
    /\ reply = "none"
-----------------------------------------------------------------------------
(* load().is_some(): vault.enc is there, and key.bin is the key that cut it *)
Loadable == enc.kind = "sealed" /\ key # 0 /\ enc.by = key

(* check_token, when token.bin can be read or is missing: an empty token    *)
(* never opens, and of a missing file presented_token() is "", which no     *)
(* presented token equals.  A failing read is AskUnread.                    *)
check_token(presented) == presented # 0 /\ presented = token

At(w, at)   == pc[w] = at
Goto(w, to) == pc' = [pc EXCEPT ![w] = to]

(* The request is answered: what the client hears, and what follows for it. *)
Answer(code) ==
    /\ pc' = [pc EXCEPT !["door"] = "idle"]
    /\ op' = "none"
    /\ arg' = NoEntry
    /\ reply' = code
    /\ answered' = answered + 1
    /\ acked' = IF op = "append" /\ code = "ok"
                THEN acked \cup {[n |-> Len(enc.entries), entry |-> arg]}
                ELSE acked
    /\ words' = IF op = "read" /\ code = "ok" THEN words + 1 ELSE words
    /\ UNCHANGED <<held, stranger, wiped, mistaken>>

(* An operation of the vault is over, in Ok or in Err.  Err of an append or *)
(* a read is "vault gone" to the client whatever failed; a wipe's is        *)
(* dropped, ensure's is only printed and health never looks at it.          *)
Return(ok) ==
    \/ /\ op \in {"append", "read"}
       /\ Answer(IF ok THEN "ok" ELSE "gone")
    \/ /\ op = "wipe"
       /\ Answer("403")
    \/ /\ op = "health"
       /\ Answer("ok")
    \/ /\ op = "ensure"
       /\ Goto("door", "idle")
       /\ op' = "none"
       /\ UNCHANGED <<arg, historyVars>>
-----------------------------------------------------------------------------
(* ensure, at boot: each file only if it is absent, then the status *)
BootKey ==
    /\ At("door", "boot_key")
    /\ key' = IF key = 0 THEN minted + 1 ELSE key
    /\ minted' = IF key = 0 THEN minted + 1 ELSE minted
    /\ Goto("door", "boot_token")
    /\ UNCHANGED <<token, enc, marker, log, statusVars, op, arg, crashes, faults,
                   historyVars>>

(* a token drawn anew at every boot *)
BootTokenAlways ==
    /\ At("door", "boot_token")
    /\ token' = minted + 1
    /\ minted' = minted + 1
    /\ held' = IF held = 0 THEN token' ELSE held
    /\ Goto("door", "boot_enc")
    /\ UNCHANGED <<key, enc, marker, log, statusVars, op, arg, crashes, faults,
                   stranger, wiped, mistaken, acked, words, answered, reply>>

BootToken ==
    /\ At("door", "boot_token")
    /\ token' = IF token = 0 THEN minted + 1 ELSE token
    /\ minted' = IF token = 0 THEN minted + 1 ELSE minted
    /\ held' = IF held = 0 THEN token' ELSE held
    /\ Goto("door", "boot_enc")
    /\ UNCHANGED <<key, enc, marker, log, statusVars, op, arg, crashes, faults,
                   stranger, wiped, mistaken, acked, words, answered, reply>>

(* a fresh journal whenever the old one does not open *)
BootEncAnew ==
    /\ At("door", "boot_enc")
    /\ enc' = IF ~Loadable
              THEN [kind |-> "sealed", by |-> key, entries |-> <<>>] ELSE enc
    /\ Goto("door", "status_read")
    /\ UNCHANGED <<key, token, marker, log, minted, statusVars, op, arg, crashes,
                   faults, historyVars>>

BootEnc ==
    /\ At("door", "boot_enc")
    /\ enc' = IF enc.kind = "absent"
              THEN [kind |-> "sealed", by |-> key, entries |-> <<>>] ELSE enc
    /\ Goto("door", "status_read")
    /\ UNCHANGED <<key, token, marker, log, minted, statusVars, op, arg, crashes,
                   faults, historyVars>>

Ensure == BootKey \/ BootToken \/ BootEnc

(* exists() is false also of a file it could not look at: ensure puts a new *)
(* one over it.                                                             *)
BootUnread ==
    /\ faults < MaxFaults /\ faults' = faults + 1
    /\ \/ /\ At("door", "boot_key") /\ key # 0
          /\ key' = minted + 1 /\ minted' = minted + 1
          /\ mistaken' = mistaken \cup {"key"}
          /\ Goto("door", "boot_token")
          /\ UNCHANGED <<token, enc>>
       \/ /\ At("door", "boot_token") /\ token # 0
          /\ token' = minted + 1 /\ minted' = minted + 1
          /\ mistaken' = mistaken \cup {"token"}
          /\ Goto("door", "boot_enc")
          /\ UNCHANGED <<key, enc>>
       \/ /\ At("door", "boot_enc") /\ enc.kind # "absent"
          /\ enc' = [kind |-> "sealed", by |-> key, entries |-> <<>>]
          /\ mistaken' = mistaken \cup {"enc"}
          /\ Goto("door", "status_read")
          /\ UNCHANGED <<key, token, minted>>
    /\ UNCHANGED <<marker, log, statusVars, op, arg, crashes,
                   held, stranger, wiped, acked, words, answered, reply>>
-----------------------------------------------------------------------------
(* dispatch: an append or a read with the wrong token, or none, is a wipe;  *)
(* an append with no entry is refused before the token is looked at.  A     *)
(* wipe has no use for the entry.                                           *)
Ask(cmd, presented, e) ==
    /\ At("door", "idle")
    /\ answered < MaxRequests
    /\ reply' = "none"
    /\ stranger' = (stranger \/ (cmd # "health" /\ (presented = 0 \/ presented # held)))
    /\ \/ /\ cmd = "health"
          /\ op' = "health" /\ Goto("door", "health")
          /\ UNCHANGED arg
       \/ /\ cmd \in {"append", "read"} /\ check_token(presented)
          /\ op' = cmd
          /\ Goto("door", IF cmd = "append" THEN "append_write" ELSE "read")
          /\ arg' = e
       \/ /\ cmd \in {"append", "read"} /\ ~check_token(presented)
          /\ op' = "wipe" /\ Goto("door", "wipe_key")
          /\ UNCHANGED arg
    /\ UNCHANGED <<diskVars, statusVars, crashes, faults,
                   held, wiped, mistaken, acked, words, answered>>

(* The right token, and a token.bin that cannot be read: presented_token()  *)
(* is "" then too, and the request becomes a wipe.                          *)
AskUnread ==
    /\ At("door", "idle")
    /\ answered < MaxRequests
    /\ faults < MaxFaults /\ faults' = faults + 1
    /\ check_token(held)
    /\ reply' = "none"
    /\ op' = "wipe" /\ Goto("door", "wipe_key")
    /\ mistaken' = mistaken \cup {"ask"}
    /\ UNCHANGED <<diskVars, statusVars, arg, crashes,
                   held, stranger, wiped, acked, words, answered>>

(* an append with no entry let through *)
AskNoEntryLetIn ==
    /\ At("door", "idle")
    /\ answered < MaxRequests
    /\ check_token(held)
    /\ op' = "append"
    /\ Goto("door", "append_write")
    /\ UNCHANGED <<diskVars, statusVars, arg, crashes, faults, historyVars>>

AskNoEntry ==
    /\ At("door", "idle")
    /\ answered < MaxRequests
    /\ answered' = answered + 1
    /\ reply' = "400"
    /\ UNCHANGED <<diskVars, statusVars, pc, op, arg, crashes, faults,
                   held, stranger, wiped, mistaken, acked, words>>

(* The owner presents the token of the vault's birth, a stranger 0. *)
Request ==
    \/ \E presented \in {0, held}, e \in Entry : Ask("append", presented, e)
    \/ \E presented \in {0, held} : Ask("read", presented, NoEntry)
    \/ Ask("health", 0, NoEntry)
    \/ AskNoEntry
-----------------------------------------------------------------------------
(* an append that keeps its own entry alone *)
AppendWriteOver ==
    /\ At("door", "append_write")
    /\ Loadable
    /\ enc' = [enc EXCEPT !.entries = <<arg>>]
    /\ Goto("door", "append_log")
    /\ UNCHANGED <<key, token, marker, log, minted, statusVars, op, arg, crashes,
                   faults, historyVars>>

(* append: load, push, encrypt, write_mode (tmp, fsync, rename).  One step: *)
(* no other thread writes these files and a crash before the rename leaves  *)
(* the old bytes.                                                           *)
AppendWrite ==
    /\ At("door", "append_write")
    /\ Loadable
    /\ enc' = [enc EXCEPT !.entries = Append(@, arg)]
    /\ Goto("door", "append_log")
    /\ UNCHANGED <<key, token, marker, log, minted, statusVars, op, arg, crashes,
                   faults, historyVars>>

AppendGone ==
    /\ At("door", "append_write")
    /\ ~Loadable
    /\ Return(FALSE)
    /\ UNCHANGED <<diskVars, statusVars, crashes, faults>>

AppendLog ==
    /\ At("door", "append_log")
    /\ log' = [log EXCEPT !.append = @ + 1]
    /\ Goto("door", "status_read")
    /\ UNCHANGED <<key, token, enc, marker, minted, statusVars, op, arg, crashes,
                   faults, historyVars>>

(* a read that leaves no line *)
ReadSilent ==
    /\ At("door", "read")
    /\ \/ /\ Loadable
          /\ Goto("door", "status_read")
          /\ UNCHANGED <<op, arg, historyVars>>
       \/ /\ ~Loadable
          /\ Return(FALSE)
    /\ UNCHANGED <<diskVars, statusVars, crashes, faults>>

(* read: the READ line first, then the journal, then the status; the words  *)
(* leave with the answer.                                                   *)
Read ==
    /\ At("door", "read")
    /\ log' = [log EXCEPT !.read = @ + 1]
    /\ \/ /\ Loadable
          /\ Goto("door", "status_read")
          /\ UNCHANGED <<op, arg, historyVars>>
       \/ /\ ~Loadable
          /\ Return(FALSE)
    /\ UNCHANGED <<key, token, enc, marker, minted, statusVars, crashes, faults>>

(* The READ line is there and the journal cannot be read. *)
ReadUnread ==
    /\ At("door", "read")
    /\ faults < MaxFaults /\ faults' = faults + 1
    /\ log' = [log EXCEPT !.read = @ + 1]
    /\ Return(FALSE)
    /\ UNCHANGED <<key, token, enc, marker, minted, statusVars, crashes>>

(* wipe: the keys first, then NULs over the journal, the marker, the log.   *)
(* A wipe of a vault that was never born destroys nothing yet.              *)
WipeKey ==
    /\ At("door", "wipe_key")
    /\ key' = 0
    /\ wiped' = (wiped \/ enc.kind # "absent")
    /\ Goto("door", "wipe_token")
    /\ UNCHANGED <<token, enc, marker, log, minted, statusVars, op, arg, crashes,
                   faults, held, stranger, mistaken, acked, words, answered, reply>>

(* only the key is unlinked *)
WipeTokenKept ==
    /\ At("door", "wipe_token")
    /\ Goto("door", "wipe_enc")
    /\ UNCHANGED <<diskVars, statusVars, op, arg, crashes, faults, historyVars>>

WipeToken ==
    /\ At("door", "wipe_token")
    /\ token' = 0
    /\ Goto("door", "wipe_enc")
    /\ UNCHANGED <<key, enc, marker, log, minted, statusVars, op, arg, crashes,
                   faults, historyVars>>

WipeEnc ==
    /\ At("door", "wipe_enc")
    /\ enc' = [kind |-> "nul", by |-> 0, entries |-> <<>>]
    /\ wiped' = TRUE
    /\ Goto("door", "wipe_marker")
    /\ UNCHANGED <<key, token, marker, log, minted, statusVars, op, arg, crashes,
                   faults, held, stranger, mistaken, acked, words, answered, reply>>

WipeMarker ==
    /\ At("door", "wipe_marker")
    /\ marker' = TRUE
    /\ Goto("door", "wipe_log")
    /\ UNCHANGED <<key, token, enc, log, minted, statusVars, op, arg, crashes,
                   faults, historyVars>>

WipeLog ==
    /\ At("door", "wipe_log")
    /\ log' = [log EXCEPT !.wiped = @ + 1]
    /\ Goto("door", "status_read")
    /\ UNCHANGED <<key, token, enc, marker, minted, statusVars, op, arg, crashes,
                   faults, historyVars>>

Wipe == WipeKey \/ WipeToken \/ WipeEnc \/ WipeMarker \/ WipeLog
-----------------------------------------------------------------------------
(* sealed taken for the presence of a ciphertext *)
StatusReadUnopened(w) ==
    /\ At(w, "status_read")
    /\ snap' = [snap EXCEPT ![w].sealed = (enc.kind = "sealed")]
    /\ Goto(w, "status_count")
    /\ UNCHANGED <<diskVars, json, tmp, fd, fresh, last_seal, op, arg, crashes,
                   faults, historyVars>>

(* write_status, by either thread and with nothing between them: the facts  *)
(* are read one after the other, and both threads write through the one     *)
(* name status.tmp.  A file descriptor follows its file through a rename.   *)
StatusRead(w) ==
    /\ At(w, "status_read")
    /\ snap' = [snap EXCEPT ![w].sealed = Loadable]
    /\ Goto(w, "status_count")
    /\ UNCHANGED <<diskVars, json, tmp, fd, fresh, last_seal, op, arg, crashes,
                   faults, historyVars>>

StatusCount(w) ==
    /\ At(w, "status_count")
    /\ snap' = [snap EXCEPT ![w].entries = IF Loadable THEN Len(enc.entries) ELSE 0]
    /\ Goto(w, "status_open")
    /\ UNCHANGED <<diskVars, json, tmp, fd, fresh, last_seal, op, arg, crashes,
                   faults, historyVars>>

(* A journal that cannot be read is a broken seal, or one with no entries.  *)
StatusUnread(w) ==
    /\ faults < MaxFaults /\ faults' = faults + 1
    /\ \/ At(w, "status_read") /\ Goto(w, "status_count")
          /\ snap' = [snap EXCEPT ![w].sealed = FALSE]
       \/ At(w, "status_count") /\ Goto(w, "status_open")
          /\ snap' = [snap EXCEPT ![w].entries = 0]
    /\ UNCHANGED <<diskVars, json, tmp, fd, fresh, last_seal, op, arg, crashes,
                   historyVars>>

(* open(create, truncate): the other thread's status.tmp too *)
StatusOpen(w) ==
    /\ At(w, "status_open")
    /\ tmp' = [text |-> "empty", s |-> NoStatus]
    /\ fd' = [fd EXCEPT ![w] = "tmp"]
    /\ Goto(w, "status_write")
    /\ UNCHANGED <<diskVars, json, fresh, snap, last_seal, op, arg, crashes,
                   faults, historyVars>>

(* What a file holds after s is written over it from the start: a shorter   *)
(* text leaves the longer one's tail behind.                                *)
Overwritten(old, s) ==
    IF old.text = "empty" \/ old = Whole(s)
    THEN {Whole(s)}
    ELSE {Whole(s), Torn}

StatusWrite(w) ==
    /\ At(w, "status_write")
    /\ \/ /\ fd[w] = "tmp"
          /\ tmp' \in Overwritten(tmp, snap[w])
          /\ UNCHANGED <<json, fresh>>
       \/ /\ fd[w] = "json"      \* the other thread has renamed this very file
          /\ json' \in Overwritten(json, snap[w])
          /\ fresh' = TRUE
          /\ UNCHANGED tmp
       \/ /\ fd[w] = "unlinked"  \* and a later rename has replaced it
          /\ UNCHANGED <<json, tmp, fresh>>
    /\ Goto(w, "status_rename")
    /\ UNCHANGED <<diskVars, fd, snap, last_seal, op, arg, crashes, faults,
                   historyVars>>

(* The thread is done with write_status. *)
StatusReturn(w, ok) ==
    /\ \/ w = "door" /\ Return(ok)
       \/ /\ w = "power" /\ Goto("power", "seal_read")
          /\ UNCHANGED <<op, arg, historyVars>>
    /\ snap' = [snap EXCEPT ![w] = NoStatus]

(* Where a descriptor points after status.tmp was renamed to status.json. *)
Moved(f) == CASE f = "tmp"  -> "json"
              [] f = "json" -> "unlinked"
              [] OTHER      -> f

StatusRename(w) ==
    /\ At(w, "status_rename")
    /\ tmp.text # "none"
    /\ json' = tmp
    /\ tmp' = NoFile
    /\ fresh' = TRUE
    /\ fd' = [t \in Threads |-> IF t = w THEN "none" ELSE Moved(fd[t])]
    /\ StatusReturn(w, TRUE)
    /\ UNCHANGED <<diskVars, last_seal, crashes, faults>>

(* The other thread renamed the shared name away: ENOENT. *)
StatusRenameLost(w) ==
    /\ At(w, "status_rename")
    /\ tmp.text = "none"
    /\ fd' = [fd EXCEPT ![w] = "none"]
    /\ StatusReturn(w, FALSE)
    /\ UNCHANGED <<diskVars, json, tmp, fresh, last_seal, crashes, faults>>

WriteStatus(w) ==
    \/ StatusRead(w) \/ StatusCount(w) \/ StatusOpen(w) \/ StatusWrite(w)
    \/ StatusRename(w) \/ StatusRenameLost(w)
-----------------------------------------------------------------------------
(* public_status trusts a readable status.json for a second; otherwise it   *)
(* writes a new one and reads that back, whatever the write returned.       *)
Cached == fresh /\ json.text = "whole"

Age ==
    /\ fresh
    /\ fresh' = FALSE
    /\ UNCHANGED <<diskVars, json, tmp, fd, snap, last_seal, pc, op, arg, crashes,
                   faults, historyVars>>

Health ==
    /\ At("door", "health")
    /\ \/ Cached /\ Return(TRUE)
       \/ ~Cached /\ Goto("door", "status_read") /\ UNCHANGED <<op, arg, historyVars>>
    /\ UNCHANGED <<diskVars, statusVars, crashes, faults>>

(* an unreadable status taken for a healthy one *)
SealTextTrusting ==
    IF json.text = "whole"
    THEN [said |-> "status", sealed |-> json.s.sealed]
    ELSE [said |-> "no vault", sealed |-> TRUE]

(* A file that does not parse is {"sealed": false, "error": "no vault"}. *)
SealText == IF json.text = "whole"
            THEN [said |-> "status", sealed |-> json.s.sealed]
            ELSE [said |-> "no vault", sealed |-> FALSE]

(* The power thread: each second, the seal, sent when it changed. *)
PowerStart ==
    /\ At("power", "off")
    /\ ~At("door", "down") /\ op # "ensure"
    /\ Goto("power", "sleep")
    /\ last_seal' = [said |-> "nothing", sealed |-> FALSE]
    /\ UNCHANGED <<diskVars, json, tmp, fd, fresh, snap, op, arg, crashes, faults,
                   historyVars>>

PowerTick ==
    /\ At("power", "sleep")
    /\ \/ /\ Cached
          /\ last_seal' = SealText
          /\ UNCHANGED pc
       \/ /\ ~Cached
          /\ Goto("power", "status_read")
          /\ UNCHANGED last_seal
    /\ UNCHANGED <<diskVars, json, tmp, fd, fresh, snap, op, arg, crashes, faults,
                   historyVars>>

PowerSend ==
    /\ At("power", "seal_read")
    /\ last_seal' = SealText
    /\ Goto("power", "sleep")
    /\ UNCHANGED <<diskVars, json, tmp, fd, fresh, snap, op, arg, crashes, faults,
                   historyVars>>
(* A fresh status.json that cannot be read is written anew, one that cannot *)
(* be read back is "no vault".                                              *)
SealUnread ==
    /\ faults < MaxFaults /\ faults' = faults + 1
    /\ \/ /\ Cached
          /\ \/ At("door", "health") /\ Goto("door", "status_read")
             \/ At("power", "sleep") /\ Goto("power", "status_read")
          /\ UNCHANGED last_seal
       \/ /\ At("power", "seal_read") /\ Goto("power", "sleep")
          /\ last_seal' = [said |-> "no vault", sealed |-> FALSE]
    /\ UNCHANGED <<diskVars, json, tmp, fd, fresh, snap, op, arg, crashes,
                   historyVars>>
-----------------------------------------------------------------------------
(* A read fails and the code goes on with what it takes the file to say. *)
Misread ==
    \/ BootUnread \/ AskUnread \/ ReadUnread \/ SealUnread
    \/ \E w \in Threads : StatusUnread(w)

(* A file operation fails (the `?` of each step): the steps already taken   *)
(* stay taken, the rest of the operation is skipped.  A failed write may    *)
(* leave part of its text.                                                  *)
Fault(w) ==
    /\ faults < MaxFaults
    /\ pc[w] \notin {"down", "off", "idle", "sleep", "health", "status_read",
                     "status_count", "seal_read"}
    /\ faults' = faults + 1
    /\ fd' = [fd EXCEPT ![w] = "none"]
    /\ tmp' \in IF At(w, "status_write") /\ fd[w] = "tmp" THEN {tmp, Torn} ELSE {tmp}
    /\ json' \in IF At(w, "status_write") /\ fd[w] = "json" THEN {json, Torn} ELSE {json}
    /\ StatusReturn(w, FALSE)
    /\ UNCHANGED <<diskVars, fresh, last_seal, crashes>>

(* The process dies between two steps; systemd starts it again. *)
Crash ==
    /\ crashes < MaxCrashes
    /\ pc["door"] # "down"
    /\ crashes' = crashes + 1
    /\ pc' = [w \in Threads |-> IF w = "door" THEN "down" ELSE "off"]
    /\ op' = "none"
    /\ arg' = NoEntry
    /\ fd' = [w \in Threads |-> "none"]
    /\ snap' = [w \in Threads |-> NoStatus]
    /\ UNCHANGED <<diskVars, json, tmp, fresh, last_seal, faults, historyVars>>

Restart ==
    /\ At("door", "down")
    /\ Goto("door", "boot_key")
    /\ op' = "ensure"
    /\ UNCHANGED <<diskVars, statusVars, arg, crashes, faults, historyVars>>

DoorStep == Ensure \/ AppendWrite \/ AppendGone \/ AppendLog \/ Read \/ Health
            \/ Wipe \/ WriteStatus("door")

PowerStep == PowerStart \/ PowerTick \/ PowerSend \/ WriteStatus("power")

Next == Restart \/ Request \/ DoorStep \/ PowerStep \/ Age
        \/ (\E w \in Threads : Fault(w)) \/ Misread \/ Crash

Spec == Init /\ [][Next]_vars

(* Both threads keep running while the process does, the process is         *)
(* restarted, and time passes.                                              *)
FairSpec == Spec /\ WF_vars(Restart) /\ WF_vars(DoorStep)
                 /\ WF_vars(PowerStep) /\ WF_vars(Age)
-----------------------------------------------------------------------------
TypeDisk ==
    /\ key \in Nat /\ token \in Nat /\ minted \in Nat
    /\ enc \in [kind : {"absent", "sealed", "nul"}, by : Nat, entries : Seq(Entry)]
    /\ marker \in BOOLEAN
    /\ log \in [append : Nat, read : Nat, wiped : Nat]

TypeStatus ==
    /\ json \in Content /\ tmp \in Content
    /\ fd \in [Threads -> {"none", "tmp", "json", "unlinked"}]
    /\ fresh \in BOOLEAN
    /\ snap \in [Threads -> Status]
    /\ last_seal \in [said : {"nothing", "status", "no vault"}, sealed : BOOLEAN]

TypeThreads ==
    /\ pc \in [Threads -> DoorPCs \cup PowerPCs]
    /\ pc["door"] \in DoorPCs /\ pc["power"] \in PowerPCs
    /\ op \in Ops /\ arg \in Entry \cup {NoEntry}
    /\ crashes \in Nat /\ faults \in Nat

TypeHistory ==
    /\ held \in Nat
    /\ stranger \in BOOLEAN /\ wiped \in BOOLEAN
    /\ mistaken \subseteq {"ask", "key", "token", "enc"}
    /\ acked \in SUBSET [n : Nat, entry : Entry]
    /\ words \in Nat /\ answered \in Nat
    /\ reply \in Codes

(* Types of everything the vault keeps on disk and in its two threads. *)
TypeOK == TypeDisk /\ TypeStatus /\ TypeThreads /\ TypeHistory

(* A destroyed journal never opens again: not after a crash in the middle   *)
(* of the wipe, not after ensure() has made a new key and a new token.  An  *)
(* ensure() that took the NULs for a missing file is another matter: it     *)
(* cuts a new, empty journal.                                               *)
GoneForGood == wiped /\ "enc" \notin mistaken => ~Loadable

(* Every append the door answered "ok" sits in the journal at the place it  *)
(* was told, and the journal opens, through crashes, failed writes and      *)
(* failed reads, until a wipe, or until an ensure() that takes key.bin or   *)
(* vault.enc for missing because it could not look.                         *)
JournalKept ==
    ~wiped /\ mistaken \cap {"key", "enc"} = {} =>
        \A a \in acked :
            Loadable /\ a.n \in 1..Len(enc.entries) /\ enc.entries[a.n] = a.entry

(* "No other path wipes", but the one through a read that failed: a client  *)
(* that keeps presenting the token it was given at the vault's birth never  *)
(* sets the wipe off, whatever restarts, half-finished boots, failed writes *)
(* and other failed reads lie between, unless token.bin could not be read   *)
(* at the door or looked for at a boot.                                     *)
OnlyAStrangerWipes == wiped /\ mistaken \cap {"ask", "token"} = {} => stranger

(* The journal's words never leave more often than access.log says they     *)
(* were read: the READ line is on disk before the answer.                   *)
ReadIsLogged == words <= log.read

(* Once a 403 is out, with no file operation failing, the key and the token *)
(* are off the disk, the journal is NULs and the marker says so.            *)
ForbiddenIsFinal ==
    [][answered' # answered /\ reply' = "403" /\ faults' = 0
       => key' = 0 /\ token' = 0 /\ enc'.kind = "nul" /\ marker']_vars

(* With no file operation failing the feed never takes back a broken seal:  *)
(* after the FRAG page has shown a destroyed vault it does not show it      *)
(* sealed again in that life of the cortex.                                 *)
SealNeverUnbreaks ==
    [][wiped /\ last_seal.said = "status" /\ ~last_seal.sealed /\ faults' = 0
       => ~last_seal'.sealed]_vars

(* A wipe reaches the feed and stays there, although the two threads race   *)
(* on status.tmp and a stale status may be the last one renamed.            *)
WipeShows == wiped ~> [](last_seal.said # "nothing" => ~last_seal.sealed)

(* "The door's answer for a destroyed journal" is given for nothing else:   *)
(* with no failing disk, "vault gone" means that the journal is gone.       *)
GoneMeansGone ==
    [][answered' # answered /\ reply' = "gone" /\ faults' = 0 => ~Loadable]_vars

(* "The theft consumes the prize.  No other path wipes": nobody but a       *)
(* client without the token, whatever read fails.                           *)
NoOtherPathWipes == wiped => stranger

(* "Create key material and an empty journal if absent": no boot takes the  *)
(* journal away.                                                            *)
CreatedIfAbsent ==
    ~wiped => \A a \in acked : Loadable /\ a.n \in 1..Len(enc.entries)

(* The vault as its owner knows it: Seal.tla.  A journal that ensure() put  *)
(* a new one over is gone, whatever the new one holds.                      *)
Alive == Loadable /\ "enc" \notin mistaken
phase == IF enc.kind = "absent" THEN "unborn"
         ELSE IF Alive THEN "sealed" ELSE "gone"
journal == IF Alive THEN enc.entries ELSE <<>>

S == INSTANCE Seal WITH phase <- phase, journal <- journal

(* Every behaviour of the files, crashes, failed writes and failed reads    *)
(* included, is a behaviour of the abstract seal.                           *)
SealSpec == S!Spec
=============================================================================
